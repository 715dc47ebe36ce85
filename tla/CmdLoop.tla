------------------------------- MODULE CmdLoop -------------------------------
(***************************************************************************)
(* main()'s message loop: Recv() collects units into msg_buf until a       *)
(* message is whole, the switch acts on msg.type, replies go out with      *)
(* Send().  Of the transport, whose thread pciv_trans->Close() joins, the  *)
(* loop sees only whether that thread runs: PCIVTrans says what it does    *)
(* and when a join() of it never returns.  The detectors, whose mutexes    *)
(* and joins never hold main up for good, are in Adv7842 and Tw6874.       *)
(***************************************************************************)
EXTENDS PCIVComm

CONSTANTS
  BufCap,    \* units msg_buf holds
  Garbage,   \* what the uninitialised msg.type may be
  Polite     \* does the master wait for a message to be read before the next?

Replied == {"START_TRANS", "QUERY_ADV7842"}
Ending == {"SHUTDOWN", "REBOOT"}

ASSUME LoopAssumption ==
  /\ BufCap \in Nat /\ MsgLen <= BufCap
  /\ Garbage \subseteq Types \cup {"ACK"} /\ Polite \in BOOLEAN

VARIABLES
  main,    \* "start", "recv", "switch", "stop", "restart", "send", "close", "gone"
  trans,   \* pciv_trans: "closed", or open and its thread "runs" or has "ended"
  gRun,    \* g_Run
  gOpt,    \* g_Opt
  msgBuf,  \* msg_buf
  msg,     \* msg: its type, and the number the master gave it
  \* history
  sentId,    \* the number of the message the master sent last
  gotId,     \* the number of the message Get() returned last, -1 if what it
             \* returned was no message of the master's
  dropped,   \* messages the last Recv() dropped behind the one it returned
  lost,      \* an Append() failed: its units are gone
  answered,  \* msg has been replied to
  twice,     \* a message was replied to a second time
  termed     \* SIGTERM has come

loopVars == <<trans, gRun, gOpt, msgBuf, msg>>
history  == <<sentId, gotId, dropped, lost, answered, twice, termed>>
vars == <<commVars, main, loopVars, history>>

Init ==
  /\ CommInit
  /\ main = "start" /\ trans = "closed" /\ gRun = TRUE /\ gOpt = "" /\ msgBuf = <<>>
  /\ msg \in [type : Garbage, id : {-1}]
  /\ sentId = 0 /\ gotId = 0 /\ dropped = 0 /\ lost = FALSE
  /\ answered = FALSE /\ twice = FALSE /\ termed = FALSE

(* pciv_comm->Initialize(); the result is ignored. *)
Start ==
  /\ main = "start"
  /\ \/ CommInitialize /\ UNCHANGED main
     \/ comm \in {"up", "failed"} /\ UNCHANGED commVars
          /\ main' = IF gRun THEN "recv" ELSE "close"
  /\ UNCHANGED <<loopVars, history>>

-----------------------------------------------------------------------------
(* Recv() *)

Whole(q) == Len(q) >= MsgLen
Rest(q) == SubSeq(q, MsgLen + 1, Len(q))

(* A message's number, if its units belong together.                        *)
Intact(q) == \E t \in Types, n \in 0 .. IdMod - 1 : SubSeq(q, 1, MsgLen) = Units(t, n)

(* Mutant: Recv() returns as soon as there is something.                    *)
LeaveRecvEarly(q) ==
  IF gRun /\ q = <<>>
  THEN msgBuf' = q /\ UNCHANGED <<main, msg, gotId, dropped, answered>>
  ELSE /\ main' = "switch"
       /\ IF q # <<>>
          THEN /\ msg' = [type |-> q[1].type, id |-> q[1].id] /\ gotId' = msg'.id
               /\ msgBuf' = Rest(q) /\ dropped' = 0 /\ answered' = FALSE
          ELSE msgBuf' = q /\ UNCHANGED <<msg, gotId, dropped, answered>>

(* Mutant: what is behind a message is cleared, not consumed.               *)
LeaveRecvClears(q) ==
  IF gRun /\ ~Whole(q)
  THEN msgBuf' = q /\ UNCHANGED <<main, msg, gotId, dropped, answered>>
  ELSE /\ main' = "switch" /\ msgBuf' = <<>> /\ dropped' = 0
       /\ IF Whole(q)
          THEN /\ answered' = FALSE
               /\ IF Intact(q)
                  THEN msg' = [type |-> q[1].type, id |-> q[1].id] /\ gotId' = q[1].id
                  ELSE msg' \in [type : Types \cup {"ACK"}, id : {-1}] /\ gotId' = -1
          ELSE UNCHANGED <<msg, gotId, answered>>

(* Mutant: the loop looks at the buffer only.                               *)
LeaveRecvIgnoresRun(q) ==
  IF ~Whole(q)
  THEN msgBuf' = q /\ UNCHANGED <<main, msg, gotId, dropped, answered>>
  ELSE /\ main' = "switch" /\ msgBuf' = Rest(q) /\ dropped' = 0 /\ answered' = FALSE
       /\ msg' = [type |-> q[1].type, id |-> q[1].id] /\ gotId' = q[1].id

(* while (run && msg_buf.Size() < sizeof(msg)); then Get() and Consume().   *)
(* A message out of step has whatever type its first bytes make.            *)
LeaveRecv(q) ==
  IF gRun /\ ~Whole(q)
  THEN msgBuf' = q /\ UNCHANGED <<main, msg, gotId, dropped, answered>>
  ELSE /\ main' = "switch"
       /\ IF Whole(q)
          THEN /\ answered' = FALSE
               /\ IF Intact(q)
                  THEN msg' = [type |-> q[1].type, id |-> q[1].id] /\ gotId' = q[1].id
                  ELSE msg' \in [type : Types \cup {"ACK"}, id : {-1}] /\ gotId' = -1
               /\ LET rest == Rest(q)
                  IN  IF Whole(rest) THEN msgBuf' = Rest(rest) /\ dropped' = 1
                                     ELSE msgBuf' = rest /\ dropped' = 0
          ELSE msgBuf' = q /\ UNCHANGED <<msg, gotId, dropped, answered>>

(* One read().  What does not fit into msg_buf is lost, and the loop looks  *)
(* at the old msg again.                                                    *)
RecvRead ==
  /\ main = "recv" /\ init
  /\ \E n \in 1 .. TmpLen :
       /\ n <= Len(down)
       /\ down' = SubSeq(down, n + 1, Len(down))
       /\ IF n > BufCap - Len(msgBuf)
          THEN /\ main' = "switch" /\ lost' = TRUE
               /\ UNCHANGED <<msgBuf, msg, gotId, dropped, answered>>
          ELSE LeaveRecv(msgBuf \o SubSeq(down, 1, n)) /\ UNCHANGED lost
  /\ UNCHANGED <<comm, fds, init, ready, up, out, torn, trans, gRun, gOpt, sentId,
                 twice, termed>>

(* 500 ms without a message. *)
RecvTimeout ==
  /\ main = "recv" /\ init /\ down = <<>>
  /\ LeaveRecv(msgBuf)
  /\ UNCHANGED <<commVars, trans, gRun, gOpt, sentId, lost, twice, termed>>

(* PCIVComm::Recv() fails: not initialised, or read() does. *)
RecvFails ==
  /\ main = "recv" /\ (~init \/ PortFaults)
  /\ main' = "switch"
  /\ UNCHANGED <<commVars, loopVars, history>>

-----------------------------------------------------------------------------
(* The switch.  Recv()'s result is not looked at.                           *)

LoopPc(running) == IF running THEN "recv" ELSE "close"
HandledPc == IF gRun /\ msg.type = "STOP_TRANS" THEN "stop" ELSE LoopPc(gRun')

(* Where main is inside pciv_trans->Close(), which gets past join() only    *)
(* when no thread runs.                                                     *)
Closing == {"stop", "restart", "close"}
Joined == trans # "runs"

(* Mutant: a command only says what to do at the end.                       *)
HandleKeepsRunning ==
  /\ main = "switch" /\ (~gRun \/ msg.type \notin Replied)
  /\ gOpt' = IF gRun /\ msg.type \in Ending THEN msg.type ELSE gOpt
  /\ UNCHANGED gRun
  /\ main' = HandledPc
  /\ UNCHANGED <<commVars, trans, msgBuf, msg, history>>

(* Mutant: the break after SHUTDOWN is missing.                             *)
HandleFallsThrough ==
  /\ main = "switch" /\ (~gRun \/ msg.type \notin Replied)
  /\ IF gRun /\ msg.type \in Ending
     THEN gRun' = FALSE /\ gOpt' = "REBOOT"
     ELSE UNCHANGED <<gRun, gOpt>>
  /\ main' = HandledPc
  /\ UNCHANGED <<commVars, trans, msgBuf, msg, history>>

(* Mutant: g_Opt is taken from whatever message ends the switch.            *)
HandleNamesAll ==
  /\ main = "switch" /\ (~gRun \/ msg.type \notin Replied)
  /\ gOpt' = IF gRun THEN msg.type ELSE gOpt
  /\ gRun' = (gRun /\ msg.type \notin Ending)
  /\ main' = HandledPc
  /\ UNCHANGED <<commVars, trans, msgBuf, msg, history>>

(* if (!g_Run) break; and the messages without a reply.  STOP_TRANS waits   *)
(* in pciv_trans->Close().                                                  *)
Handle ==
  /\ main = "switch" /\ (~gRun \/ msg.type \notin Replied)
  /\ IF gRun /\ msg.type \in Ending
     THEN gRun' = FALSE /\ gOpt' = msg.type
     ELSE UNCHANGED <<gRun, gOpt>>
  /\ main' = HandledPc
  /\ UNCHANGED <<commVars, trans, msgBuf, msg, history>>

StopTrans ==
  /\ main = "stop" /\ Joined /\ trans' = "closed"
  /\ main' = LoopPc(gRun)
  /\ UNCHANGED <<commVars, gRun, gOpt, msgBuf, msg, history>>

(* START_TRANS: pciv_trans->Close() first.                                  *)
Restart ==
  /\ main = "switch" /\ gRun /\ msg.type = "START_TRANS"
  /\ main' = "restart"
  /\ UNCHANGED <<commVars, loopVars, history>>

(* QUERY_ADV7842 is answered at once, START_TRANS when the old session is   *)
(* closed and Initialize() has started a thread, or failed.                 *)
Answering ==
  \/ main = "switch" /\ gRun /\ msg.type = "QUERY_ADV7842" /\ UNCHANGED trans
  \/ main = "restart" /\ Joined /\ trans' \in {"closed", "runs"}

(* Mutant: the reply is built beside msg.                                   *)
ReplyKeepsMsg ==
  /\ Answering
  /\ answered' = TRUE /\ twice' = (twice \/ answered)
  /\ out' = IF init THEN Units("ACK", msg.id) ELSE <<>>
  /\ main' = "send"
  /\ UNCHANGED <<comm, fds, init, ready, down, up, torn, gRun, gOpt, msgBuf, msg,
                 sentId, gotId, dropped, lost, termed>>

(* msg becomes the ACK.  Its units carry the number of the command.         *)
Reply ==
  /\ Answering
  /\ answered' = TRUE /\ twice' = (twice \/ answered)
  /\ out' = IF init THEN Units("ACK", msg.id) ELSE <<>>
  /\ msg' = [msg EXCEPT !.type = "ACK"]
  /\ main' = "send"
  /\ UNCHANGED <<comm, fds, init, ready, down, up, torn, gRun, gOpt, msgBuf,
                 sentId, gotId, dropped, lost, termed>>

Send ==
  /\ main = "send" /\ out # <<>>
  /\ WriteSome \/ WriteFails
  /\ UNCHANGED <<comm, fds, init, ready, down, main, loopVars, history>>

Sent ==
  /\ main = "send" /\ out = <<>>
  /\ main' = LoopPc(gRun)
  /\ UNCHANGED <<commVars, loopVars, history>>

(* pciv_trans->Close(), pciv_comm->Close(). *)
Close ==
  /\ main = "close" /\ Joined /\ trans' = "closed"
  /\ main' = "gone"
  /\ CommClose
  /\ UNCHANGED <<portVars, gRun, gOpt, msgBuf, msg, history>>

Main ==
  \/ Start \/ RecvRead \/ RecvTimeout \/ RecvFails
  \/ Handle \/ StopTrans \/ Restart \/ Reply \/ Send \/ Sent \/ Close

-----------------------------------------------------------------------------
(* SIGINT or SIGTERM. *)
Signal ==
  /\ gRun /\ gRun' = FALSE /\ termed' = TRUE
  /\ UNCHANGED <<commVars, main, trans, gOpt, msgBuf, msg, sentId, gotId, dropped,
                 lost, answered, twice>>

(* The transport thread returns: after an error, or when Close() has        *)
(* cleared run_ and it leaves its loop.  Nothing makes it.                  *)
TransEnds ==
  /\ trans = "runs" /\ trans' = "ended"
  /\ UNCHANGED <<commVars, main, gRun, gOpt, msgBuf, msg, history>>

(* External: the master, which writes whole messages. *)
MasterUp ==
  /\ ~ready /\ ready' = TRUE
  /\ UNCHANGED <<comm, fds, init, down, up, out, torn, main, loopVars, history>>

MasterSends(type) ==
  /\ init /\ Len(down) + MsgLen <= PipeCap
  /\ Polite => down = <<>> /\ msgBuf = <<>> /\ main = "recv"
  /\ sentId' = (sentId + 1) % IdMod
  /\ down' = down \o Units(type, sentId')
  /\ UNCHANGED <<comm, fds, init, ready, up, out, torn, main, loopVars, gotId,
                 dropped, lost, answered, twice, termed>>

MasterReads ==
  /\ up # <<>>
  /\ \E n \in 1 .. Len(up) : up' = SubSeq(up, n + 1, Len(up))
  /\ UNCHANGED <<comm, fds, init, ready, down, out, torn, main, loopVars, history>>

Exited == main = "gone" /\ UNCHANGED vars

Next ==
  \/ Main \/ Signal \/ TransEnds \/ MasterUp \/ MasterReads
  \/ \E type \in Types : MasterSends(type)
  \/ Exited

(* main runs; nothing is asked of the master, not even that it comes up,    *)
(* nor of the transport thread.                                             *)
Fairness == WF_vars(Main)
Spec == Init /\ [][Next]_vars
FairSpec == Spec /\ Fairness

-----------------------------------------------------------------------------
LoopTypeOK ==
  /\ main \in {"start", "recv", "switch", "stop", "restart", "send", "close", "gone"}
  /\ trans \in {"closed", "runs", "ended"}
  /\ gRun \in BOOLEAN /\ gOpt \in Ending \cup {""}
  /\ msgBuf \in Seq(Unit) /\ Len(msgBuf) <= BufCap
  /\ msg \in [type : Types \cup {"ACK"}, id : -1 .. IdMod - 1]
  /\ sentId \in 0 .. IdMod - 1 /\ gotId \in -1 .. IdMod - 1 /\ dropped \in {0, 1}
  /\ lost \in BOOLEAN /\ answered \in BOOLEAN /\ twice \in BOOLEAN /\ termed \in BOOLEAN

TypeOK == CommTypeOK /\ LoopTypeOK

(* As long as every Append() found room, whatever pieces the reads return:  *)
(* each message handled is one the master sent, in order, and only the one  *)
(* that Recv()'s Consume() dropped is passed over.                          *)
HeardInOrder ==
  [][~lost' /\ gotId' # gotId => gotId' = (gotId + 1 + dropped) % IdMod]_vars

(* A master that waits until its message was read is always heard: once its *)
(* bytes have left the port and the buffer, that message was the last one   *)
(* handled, and no sooner.                                                  *)
PoliteHeard ==
  Polite => IF down = <<>> /\ msgBuf = <<>>
            THEN gotId = sentId
            ELSE sentId = (gotId + 1) % IdMod

(* The old msg that is looked at again when Recv() fails never brings a     *)
(* second reply: the handlers that reply leave an ACK in msg.               *)
RepliesOnce == ~twice

(* The replies reach the master whole and one after the other, however the  *)
(* driver cuts the writes, until a Send() fails halfway.                    *)
Follows(a, b) == \/ b = [a EXCEPT !.k = @ + 1]
                 \/ a.k = MsgLen /\ b.k = 1
RepliesWhole ==
  LET stream == up \o out
  IN  ~torn =>
        /\ \A k \in 1 .. Len(stream) - 1 : Follows(stream[k], stream[k + 1])
        /\ stream # <<>> => stream[Len(stream)].k = MsgLen

(* main waits for ever in pciv_trans->Close(), for a thread that does not   *)
(* return.  PCIVTrans!CloseReturns says when that happens.                  *)
HungIn(places) == <>[](main \in places /\ trans = "runs")

(* SIGTERM ends the loop, also in the middle of a message or a reply, and   *)
(* then the descriptors are closed; but not WaitConn(), which never looks   *)
(* at g_Run, nor a pciv_trans->Close() whose join() never returns.          *)
SignalEnds ==
  <>(termed /\ main # "start") => <>(main = "gone") \/ HungIn(Closing)

(* A SHUTDOWN or REBOOT of a polite master is obeyed: g_Opt says for good   *)
(* which of them it was, unless a signal came first, and main gets past the *)
(* loop and to the end, or waits there in the join of pciv_trans->Close().  *)
ShutdownObeyed ==
  \A t \in Ending :
    <>(\E k \in DOMAIN down : down[k].type = t) =>
      /\ <>[](gOpt = t \/ termed)
      /\ <>(main = "gone") \/ HungIn({"close"})
=============================================================================
