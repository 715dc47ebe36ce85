------------------------------- MODULE Tw6874 -------------------------------
(***************************************************************************)
(* Chip 3: class Tw6874, which is told the input format by the master      *)
(* (QUERY_TW6874, UpdateVIFmt) and whose thread passes a change on to      *)
(* VIHelper while it holds mux_; and the main thread.  One of the three    *)
(* chains: they share nothing but main, which serves them in turn.         *)
(***************************************************************************)
EXTENDS VIHelper

VARIABLES
  main,      \* what the main thread does next; "idle" in its message loop
  init, run, \* init_, run_
  pc,        \* the thread of Tw6874
  nowFmt,    \* now_fmt_: what the master announced last
  runFmt,    \* run_fmt_: what VIHelper was told
  asked,     \* the format of the QUERY_TW6874 main handles
  mux,       \* mux_: "free" or held by the "thread"
  listener   \* listener_ is set

fmtVars  == <<nowFmt, runFmt, asked>>
lockVars == <<mux, listener>>
vars == <<viVars, main, init, run, pc, fmtVars, lockVars>>

Init ==
  /\ ViStart
  /\ main = "init" /\ init = FALSE /\ run = FALSE /\ pc = "off"
  /\ nowFmt = ZeroFmt /\ runFmt = ZeroFmt /\ asked = ZeroFmt
  /\ mux = "free" /\ listener = FALSE

-----------------------------------------------------------------------------
(* The thread of Tw6874. *)

Poll ==
  /\ pc = "loop"
  /\ pc' = IF run THEN "lock" ELSE "ended"
  /\ UNCHANGED <<viVars, main, init, run, fmtVars, lockVars>>

(* Mutant: run_fmt_ is not updated.                                         *)
CompareForgets ==
  /\ pc = "lock" /\ mux = "free"
  /\ IF Differs(runFmt, nowFmt) /\ listener
     THEN mux' = "thread" /\ pc' = "callback" /\ cb' = "close" /\ cbFmt' = nowFmt
     ELSE pc' = "sleep" /\ UNCHANGED <<mux, cb, cbFmt>>
  /\ UNCHANGED <<sessionVars, viPc, deviceVars, voVars, stop, signal, main, init,
                 run, fmtVars, listener>>

(* Comparison, record and call, all under mux_. *)
Compare ==
  /\ pc = "lock" /\ mux = "free"
  /\ IF Differs(runFmt, nowFmt)
     THEN /\ runFmt' = nowFmt
          /\ IF listener
             THEN mux' = "thread" /\ pc' = "callback" /\ cb' = "close" /\ cbFmt' = nowFmt
             ELSE pc' = "sleep" /\ UNCHANGED <<mux, cb, cbFmt>>
     ELSE pc' = "sleep" /\ UNCHANGED <<runFmt, mux, cb, cbFmt>>
  /\ UNCHANGED <<sessionVars, viPc, deviceVars, voVars, stop, signal, main, init,
                 run, nowFmt, asked, listener>>

Told ==
  /\ pc = "callback" /\ cb = "none"
  /\ pc' = "sleep" /\ mux' = "free"
  /\ UNCHANGED <<viVars, main, init, run, fmtVars, listener>>

Sleep ==
  /\ pc = "sleep" /\ pc' = "loop"
  /\ UNCHANGED <<viVars, main, init, run, fmtVars, lockVars>>

Detector == Poll \/ Compare \/ Told \/ Sleep

-----------------------------------------------------------------------------
(* The main thread. *)

Goes(from, to) == main = from /\ main' = to

Initialize ==
  /\ Goes("init", "listen")
  /\ nowFmt' = ZeroFmt /\ runFmt' = ZeroFmt
  /\ run' = TRUE /\ pc' = "loop" /\ init' = TRUE
  /\ UNCHANGED <<viVars, asked, lockVars>>

SetVIFmtListener(from, to, given) ==
  /\ Goes(from, to)
  /\ mux = "free" /\ listener' = given
  /\ UNCHANGED <<viVars, init, run, pc, fmtVars, mux>>

VoSet(from, to, given) ==
  /\ Goes(from, to) /\ voOpen' = given
  /\ UNCHANGED <<sessionVars, viPc, deviceVars, vo, callVars, signal, init, run,
                 pc, fmtVars, lockVars>>

HelperVoSet(from, to, given) ==
  /\ Goes(from, to) /\ SetVideoOutput(given)
  /\ UNCHANGED <<sessionVars, viPc, deviceVars, voOpen, callVars, signal, init,
                 run, pc, fmtVars, lockVars>>

Startup ==
  \/ Initialize
  \/ SetVIFmtListener("listen", "vo", TRUE)
  \/ VoSet("vo", "set_vo", TRUE)
  \/ HelperVoSet("set_vo", "idle", TRUE)

(* QUERY_TW6874 and the end of the message loop. *)
Command ==
  /\ main = "idle"
  /\ \/ \E f \in Signals : main' = "update" /\ asked' = f
     \/ main' = "exit" /\ UNCHANGED asked
  /\ UNCHANGED <<viVars, init, run, pc, nowFmt, runFmt, lockVars>>

UpdateVIFmt ==
  /\ Goes("update", "idle")
  /\ mux = "free" /\ nowFmt' = asked
  /\ UNCHANGED <<viVars, init, run, pc, runFmt, asked, lockVars>>

(* Of the chains, that of tea_full keeps its listener: main.cpp:332 clears  *)
(* the one of stu_full a second time.                                       *)
ClearListener ==
  /\ Goes("exit_listen", "exit_close")
  /\ mux = "free" /\ listener' \in {FALSE, listener}
  /\ UNCHANGED <<viVars, init, run, pc, fmtVars, mux>>

CloseBegin ==
  /\ Goes("exit_close", "exit_join")
  /\ run' = IF init THEN FALSE ELSE run
  /\ UNCHANGED <<viVars, init, pc, fmtVars, lockVars>>

CloseJoin ==
  /\ Goes("exit_join", "exit_stop")
  /\ IF init THEN pc = "ended" /\ pc' = "off" /\ init' = FALSE /\ listener' = FALSE
             ELSE UNCHANGED <<pc, init, listener>>
  /\ UNCHANGED <<viVars, run, fmtVars, mux>>

CallStop ==
  /\ Goes("exit_stop", "exit_stopping") /\ stop' = "close"
  /\ UNCHANGED <<sessionVars, viPc, deviceVars, voVars, cb, cbFmt, signal, init,
                 run, pc, fmtVars, lockVars>>

StopReturned ==
  /\ Goes("exit_stopping", "gone") /\ stop = "none"
  /\ UNCHANGED <<viVars, init, run, pc, fmtVars, lockVars>>

Teardown ==
  \/ HelperVoSet("exit", "exit_vo", FALSE)
  \/ VoSet("exit_vo", "exit_listen", FALSE)
  \/ ClearListener \/ CloseBegin \/ CloseJoin \/ CallStop \/ StopReturned

Inner ==
  /\ ViThread \/ OnChange \/ StopClose \/ StopJoin
  /\ UNCHANGED <<main, init, run, pc, fmtVars, lockVars>>

(* External: the input changes, announced or not. *)
NewSignal(f) ==
  /\ signal' = f /\ f # signal
  /\ UNCHANGED <<sessionVars, viPc, deviceVars, voVars, callVars, main, init, run,
                 pc, fmtVars, lockVars>>

Exited == main = "gone" /\ UNCHANGED vars

Main == Startup \/ UpdateVIFmt \/ Teardown

Next ==
  \/ Detector \/ Inner \/ Main \/ Command
  \/ \E f \in Signals : NewSignal(f)
  \/ Exited

(* As in Adv7842: main gets mux_ while the thread sleeps half a second.     *)
Fairness ==
  /\ WF_vars(Detector) /\ SF_vars(Main)
  /\ WF_vars(ViThread /\ UNCHANGED <<main, init, run, pc, fmtVars, lockVars>>)
  /\ WF_vars(OnChange /\ UNCHANGED <<main, init, run, pc, fmtVars, lockVars>>)
  /\ WF_vars((StopClose \/ StopJoin)
               /\ UNCHANGED <<main, init, run, pc, fmtVars, lockVars>>)

Spec == Init /\ [][Next]_vars
FairSpec == Spec /\ Fairness

-----------------------------------------------------------------------------
TypeOK ==
  /\ ViTypeOK
  /\ main \in {"init", "listen", "vo", "set_vo", "idle", "update", "exit", "exit_vo",
               "exit_listen", "exit_close", "exit_join", "exit_stop",
               "exit_stopping", "gone"}
  /\ init \in BOOLEAN /\ run \in BOOLEAN
  /\ pc \in {"off", "loop", "lock", "callback", "sleep", "ended"}
  /\ nowFmt \in Fmt /\ runFmt \in Fmt /\ asked \in Fmt
  /\ mux \in {"free", "thread"} /\ listener \in BOOLEAN

(* While main serves messages, whoever can take mux_ finds that VideoInput  *)
(* has acted on run_fmt_: no change slips between comparison and call, and  *)
(* none is passed over for want of a listener.                              *)
ActedOnRunFmt ==
  mux = "free" /\ main \in {"idle", "update"} =>
    /\ viInit <=> runFmt.has_signal
    /\ runFmt.has_signal => viPar = runFmt

(* UpdateVIFmt() and the teardown return, though main may wait for mux_     *)
(* while OnChange() joins the capture thread.                               *)
MainReturns ==
  main \in {"update", "exit"} ~> main \in {"idle", "gone"}

(* What the master announced last is in the end what VideoInput does, also  *)
(* when announcements follow each other faster than the thread polls.       *)
FollowsMaster ==
  <>[](main = "idle") /\ <>[][FALSE]_signal =>
    <>[](/\ ~Differs(runFmt, nowFmt)
         /\ signal = nowFmt => Captures(signal))
=============================================================================
