------------------------------ MODULE Adv7842 ------------------------------
(***************************************************************************)
(* Chip 1: class Adv7842, whose thread polls the input format and tells    *)
(* VIHelper of a change while it holds mux_; and the main thread, which    *)
(* sets the chain up, reconfigures the detector (CONF_ADV7842), asks it    *)
(* for the format (QUERY_ADV7842) and takes the chain down.                *)
(***************************************************************************)
EXTENDS VIHelper

CONSTANT DetectFaults  \* may open() or ioctl() of /dev/adv7842 fail?

ASSUME DetectAssumption == DetectFaults \in BOOLEAN

VARIABLES
  main,      \* what the main thread does next; "idle" in its message loop
  init, run, \* init_, run_
  pc,        \* the detector's thread
  fmt,       \* fmt_
  newFmt,    \* the thread's local new_fmt, cleared when it is of no more use
  mux,       \* mux_: "free" or held by the "thread"
  listener,  \* listener_ is set
  \* history: the format VIHelper was last told of, and whether fmt_ has
  \* changed since without VIHelper being told
  told, missed

detectVars == <<init, run, fmt>>
localVars  == <<pc, newFmt>>
lockVars   == <<mux, listener>>
toldVars   == <<told, missed>>
vars == <<viVars, main, detectVars, localVars, lockVars, toldVars>>

Init ==
  /\ ViStart
  /\ main = "init" /\ init = FALSE /\ run = FALSE /\ pc = "off"
  /\ fmt = ZeroFmt /\ newFmt = ZeroFmt
  /\ mux = "free" /\ listener = FALSE
  /\ told = ZeroFmt /\ missed = FALSE

-----------------------------------------------------------------------------
(* The detector's thread. *)

Step(from, to) == pc = from /\ pc' = to

(* open() and CMD_DEVICE_INIT. *)
OpenDevice ==
  /\ Step("open", "query") \/ (DetectFaults /\ Step("open", "ended"))
  /\ UNCHANGED <<viVars, main, detectVars, newFmt, lockVars, toldVars>>

(* while (run_): CMD_QUERY_TIMINGS, and the comparison, outside the lock.   *)
Query ==
  /\ \/ ~run /\ Step("query", "ended") /\ UNCHANGED newFmt
     \/ /\ run /\ newFmt' = IF Differs(fmt, signal) THEN signal ELSE ZeroFmt
        /\ Step("query", IF Differs(fmt, signal) THEN "lock" ELSE "sleep")
     \/ run /\ DetectFaults /\ Step("query", "ended") /\ UNCHANGED newFmt
  /\ UNCHANGED <<viVars, main, detectVars, lockVars, toldVars>>

(* Mutant: OnChange() is called after the lock has been given back.         *)
ChangeUnlocksFirst ==
  /\ mux = "free" /\ Step("lock", "callback")
  /\ fmt' = newFmt /\ newFmt' = ZeroFmt
  /\ IF listener
     THEN cb' = "close" /\ cbFmt' = newFmt /\ told' = newFmt /\ missed' = FALSE
     ELSE missed' = TRUE /\ UNCHANGED <<cb, cbFmt, told>>
  /\ UNCHANGED <<sessionVars, viPc, deviceVars, voVars, stop, signal, main, init,
                 run, lockVars>>

(* The change: recorded and told under mux_. *)
Change ==
  /\ mux = "free" /\ mux' = "thread" /\ Step("lock", "callback")
  /\ fmt' = newFmt /\ newFmt' = ZeroFmt
  /\ IF listener
     THEN cb' = "close" /\ cbFmt' = newFmt /\ told' = newFmt /\ missed' = FALSE
     ELSE missed' = TRUE /\ UNCHANGED <<cb, cbFmt, told>>
  /\ UNCHANGED <<sessionVars, viPc, deviceVars, voVars, stop, signal, main, init,
                 run, listener>>

(* Mutant: the lock is not given back.                                      *)
ChangedKeepsLock ==
  /\ cb = "none" /\ Step("callback", "sleep")
  /\ UNCHANGED <<viVars, main, detectVars, newFmt, lockVars, toldVars>>

Changed ==
  /\ cb = "none" /\ Step("callback", "sleep")
  /\ mux' = "free"
  /\ UNCHANGED <<viVars, main, detectVars, newFmt, listener, toldVars>>

Sleep ==
  /\ Step("sleep", "query")
  /\ UNCHANGED <<viVars, main, detectVars, newFmt, lockVars, toldVars>>

Detector == OpenDevice \/ Query \/ Change \/ Changed \/ Sleep

-----------------------------------------------------------------------------
(* The main thread.                                                           *)

Goes(from, to) == main = from /\ main' = to

(* Adv7842::Initialize(), at the start and on CONF_ADV7842. *)
Initialize(from, to) ==
  /\ Goes(from, to)
  /\ IF init THEN UNCHANGED <<detectVars, pc, missed>>
     ELSE /\ fmt' = ZeroFmt /\ run' = TRUE /\ pc' = "open" /\ init' = TRUE
          /\ missed' = Differs(ZeroFmt, told)
  /\ UNCHANGED <<viVars, newFmt, lockVars, told>>

SetVIFmtListener(from, to, given) ==
  /\ Goes(from, to)
  /\ mux = "free" /\ listener' = given
  /\ UNCHANGED <<viVars, detectVars, localVars, mux, toldVars>>

(* Adv7842::Close(): run_ = false, then join() and listener_ = nullptr.     *)
CloseBegin(from, to) ==
  /\ Goes(from, to)
  /\ run' = IF init THEN FALSE ELSE run
  /\ UNCHANGED <<viVars, init, fmt, localVars, lockVars, toldVars>>

(* Mutant: Close() does not join.                                           *)
CloseJoinSkipped(from, to) ==
  /\ Goes(from, to)
  /\ IF init THEN init' = FALSE /\ listener' = FALSE
             ELSE UNCHANGED <<init, listener>>
  /\ UNCHANGED <<viVars, run, fmt, localVars, mux, toldVars>>

CloseJoin(from, to) ==
  /\ Goes(from, to)
  /\ IF init THEN pc = "ended" /\ pc' = "off" /\ init' = FALSE /\ listener' = FALSE
             ELSE UNCHANGED <<pc, init, listener>>
  /\ UNCHANGED <<viVars, run, fmt, newFmt, mux, toldVars>>

(* The VideoOutput is opened and closed by its owner, not by VIHelper.      *)
VoSet(from, to, given) ==
  /\ Goes(from, to) /\ voOpen' = given
  /\ UNCHANGED <<sessionVars, viPc, deviceVars, vo, callVars, signal, detectVars,
                 localVars, lockVars, toldVars>>

HelperVoSet(from, to, given) ==
  /\ Goes(from, to) /\ SetVideoOutput(given)
  /\ UNCHANGED <<sessionVars, viPc, deviceVars, voOpen, callVars, signal,
                 detectVars, localVars, lockVars, toldVars>>

(* VIHelper::Stop(), called and returned from. *)
CallStop(from, to) ==
  /\ Goes(from, to) /\ stop' = "close"
  /\ UNCHANGED <<sessionVars, viPc, deviceVars, voVars, cb, cbFmt, signal,
                 detectVars, localVars, lockVars, toldVars>>

StopReturned(from, to) ==
  /\ Goes(from, to) /\ stop = "none"
  /\ UNCHANGED <<viVars, detectVars, localVars, lockVars, toldVars>>

Startup ==
  \/ Initialize("init", "listen")
  \/ SetVIFmtListener("listen", "vo", TRUE)
  \/ VoSet("vo", "set_vo", TRUE)
  \/ HelperVoSet("set_vo", "idle", TRUE)

(* CONF_ADV7842, QUERY_ADV7842 and the end of the message loop. *)
Command ==
  /\ main = "idle"
  /\ main' \in {"conf_close", "query", "exit"}
  /\ UNCHANGED <<viVars, detectVars, localVars, lockVars, toldVars>>

Configure ==
  \/ CloseBegin("conf_close", "conf_join")
  \/ CloseJoin("conf_join", "conf_init")
  \/ Initialize("conf_init", "conf_listen")
  \/ SetVIFmtListener("conf_listen", "idle", TRUE)

(* GetInputFormat() waits for mux_; the reply carries fmt_. *)
Answer ==
  /\ Goes("query", "idle")
  /\ init => mux = "free"
  /\ UNCHANGED <<viVars, detectVars, localVars, lockVars, toldVars>>

Teardown ==
  \/ HelperVoSet("exit", "exit_vo", FALSE)
  \/ VoSet("exit_vo", "exit_listen", FALSE)
  \/ SetVIFmtListener("exit_listen", "exit_close", FALSE)
  \/ CloseBegin("exit_close", "exit_join")
  \/ CloseJoin("exit_join", "exit_stop")
  \/ CallStop("exit_stop", "exit_stopping")
  \/ StopReturned("exit_stopping", "gone")

(* The calls that VIHelper and VideoInput are in the middle of. *)
Inner ==
  /\ ViThread \/ OnChange \/ StopClose \/ StopJoin
  /\ UNCHANGED <<main, detectVars, localVars, lockVars, toldVars>>

(* External: the input changes. *)
NewSignal(f) ==
  /\ signal' = f /\ f # signal
  /\ UNCHANGED <<sessionVars, viPc, deviceVars, voVars, callVars, main, detectVars,
                 localVars, lockVars, toldVars>>

Exited == main = "gone" /\ UNCHANGED vars

Main == Startup \/ Configure \/ Answer \/ Teardown

Next ==
  \/ Detector \/ Inner \/ Main \/ Command
  \/ \E f \in Signals : NewSignal(f)
  \/ Exited

(* The threads are scheduled, and main gets mux_ in the half second the     *)
(* detector sleeps without it; nothing makes the master send a command or   *)
(* the input change.                                                        *)
Fairness ==
  /\ WF_vars(Detector) /\ SF_vars(Main)
  /\ WF_vars(ViThread /\ UNCHANGED <<main, detectVars, localVars, lockVars, toldVars>>)
  /\ WF_vars(OnChange /\ UNCHANGED <<main, detectVars, localVars, lockVars, toldVars>>)
  /\ WF_vars((StopClose \/ StopJoin)
               /\ UNCHANGED <<main, detectVars, localVars, lockVars, toldVars>>)

Spec == Init /\ [][Next]_vars
FairSpec == Spec /\ Fairness

-----------------------------------------------------------------------------
TypeOK ==
  /\ ViTypeOK
  /\ main \in {"init", "listen", "vo", "set_vo", "idle", "query",
               "conf_close", "conf_join", "conf_init", "conf_listen",
               "exit", "exit_vo", "exit_listen", "exit_close", "exit_join",
               "exit_stop", "exit_stopping", "gone"}
  /\ init \in BOOLEAN /\ run \in BOOLEAN
  /\ pc \in {"off", "open", "query", "lock", "callback", "sleep", "ended"}
  /\ fmt \in Fmt /\ newFmt \in Fmt
  /\ mux \in {"free", "thread"} /\ listener \in BOOLEAN
  /\ told \in Fmt /\ missed \in BOOLEAN

(* Whoever can take mux_ finds that VIHelper has been told of the format    *)
(* fmt_ holds and has acted on it: a reply to QUERY_ADV7842 is never ahead  *)
(* of the capture.  Only a change that found no listener, or a detector     *)
(* that was reopened, breaks that.                                          *)
ToldBeforeAnswered ==
  mux = "free" /\ ~missed =>
    /\ ~Differs(fmt, told)
    /\ cb = "none"
    /\ main \notin {"exit_stop", "exit_stopping", "gone"} =>
         /\ viInit <=> told.has_signal
         /\ told.has_signal => viPar = told

(* When the process ends nothing runs and nothing captures. *)
QuietAtExit ==
  main = "gone" => /\ pc = "off" /\ viPc = "off" /\ ~voOpen
                   /\ ~ViFaults => ~devOn /\ ~chnOn

(* Teardown and CONF_ADV7842 finish, although main waits in turn for mux_,  *)
(* for the detector, and for the capture thread the detector may be joining.*)
MainReturns ==
  main \in {"conf_close", "query", "exit"} ~> main \in {"idle", "gone"}

(* An input that stays as it is gets captured, unless the change was missed *)
(* (above) or a thread returned on an error: told once, VIHelper and the    *)
(* watchdog need no second telling, whatever failed before.                 *)
FollowsSignal ==
  <>[](main = "idle") /\ <>[][FALSE]_signal =>
    <>[](missed \/ Captures(signal) \/ (run /\ pc = "ended")
           \/ (viRun /\ viPc = "ended"))
=============================================================================
