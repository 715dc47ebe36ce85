---------------------------- MODULE Adv7842Proofs ----------------------------
(***************************************************************************)
(* Chip 1, for every set of formats and whatever fails: the lock-free      *)
(* classes have one caller at a time, a reply is never ahead of the        *)
(* capture, and at the end nothing runs.  The inductive invariant says who *)
(* holds mux_, which calls are under way, and what main's position in the  *)
(* start-up and the teardown means for the screen and for Stop().          *)
(***************************************************************************)
EXTENDS Adv7842, TLAPS

(* The thread exists while init_ is set, and holds mux_ exactly while it is *)
(* in the callback, which is when OnChange() may run.                       *)
LockHeld ==
  /\ init <=> pc # "off"
  /\ mux = "thread" <=> pc = "callback"
  /\ cb # "none" => pc = "callback"

(* Stop() runs only once the detector is closed for good.                   *)
TeardownOrder ==
  /\ stop # "none" => main = "exit_stopping"
  /\ main \in {"init", "conf_init", "exit_stop", "exit_stopping", "gone"} => ~init
  /\ main = "gone" => ~viInit
  /\ main = "exit_stopping" /\ stop = "none" => ~viInit

(* The screen is given to VIHelper after it was opened, and taken from it   *)
(* before it is closed.                                                     *)
ScreenOpen ==
  /\ vo => main \notin {"init", "listen", "vo", "set_vo", "exit_vo", "exit_listen",
                        "exit_close", "exit_join", "exit_stop", "exit_stopping", "gone"}
  /\ voOpen <=> main \notin {"init", "listen", "vo", "exit_listen", "exit_close",
                             "exit_join", "exit_stop", "exit_stopping", "gone"}

(* fmt_ and what VIHelper was told differ only when a change was missed,    *)
(* and VideoInput agrees with what VIHelper was told between two calls.     *)
ToldAndDone ==
  /\ ~missed => ~Differs(fmt, told)
  /\ OnChangeOrder(told)
  /\ cb = "none" /\ main \notin {"exit_stopping", "gone"} => Agrees(told)

IInv == TypeOK /\ ViInv /\ LockHeld /\ TeardownOrder /\ ScreenOpen /\ ToldAndDone

-----------------------------------------------------------------------------
(* VideoInput and VIHelper keep their part of it by themselves.              *)

LEMMA FmtType == ZeroFmt \in Fmt /\ Signals \subseteq Fmt
BY VIAssumption DEF ZeroFmt, Fmt, Signals

LEMMA ViStartInv == ViStart => ViInv
BY FmtType DEF ViStart, ViInv, ViTypeOK, SessionHasThread, PcTellsDevice

(* What main sets itself leaves the invariant alone. *)
LEMMA ViOutside ==
  ASSUME ViInv, UNCHANGED <<sessionVars, viPc, deviceVars, cb, cbFmt>>,
         vo' \in BOOLEAN, voOpen' \in BOOLEAN, stop' \in {"none", "close", "join"},
         signal' \in Fmt
  PROVE  ViInv'
BY DEF ViInv, ViTypeOK, SessionHasThread, PcTellsDevice, sessionVars, deviceVars

(* Every step of the thread keeps the invariant. *)
LEMMA ViThreadInv == ViInv /\ ViThread => ViInv'
<1> SUFFICES ASSUME ViInv, ViThread PROVE ViInv'
  OBVIOUS
<1> USE DEF ViInv, ViTypeOK, SessionHasThread, PcTellsDevice, ThreadGoes,
            ThreadKeeps, sessionVars, voVars, callVars, deviceVars
<1>1. CASE StartDev BY <1>1 DEF StartDev, DevRefuses
<1>2. CASE StartChn BY <1>2 DEF StartChn
<1>3. CASE Watch BY <1>3 DEF Watch
<1>4. CASE Wait BY <1>4 DEF Wait
<1>5. CASE OffChn BY <1>5 DEF OffChn
<1>6. CASE OffDev BY <1>6 DEF OffDev
<1>7. CASE StopChn BY <1>7 DEF StopChn
<1>8. CASE StopDev BY <1>8 DEF StopDev
<1> QED BY <1>1, <1>2, <1>3, <1>4, <1>5, <1>6, <1>7, <1>8 DEF ViThread

(* So does every step of OnChange(), which also keeps its own order, and    *)
(* leaves a session that agrees with what it was told.                      *)
LEMMA OnChangeInv ==
  ASSUME NEW f \in Fmt, ViInv, OnChangeOrder(f), OnChange
  PROVE  /\ ViInv' /\ (OnChangeOrder(f))'
         /\ (cb = "none" => Agrees(f))'
<1> USE DEF ViInv, ViTypeOK, SessionHasThread, PcTellsDevice, OnChangeOrder, Agrees,
            sessionVars, voVars, deviceVars
<1>1. CASE OnChangeClose BY <1>1 DEF OnChangeClose, ViCloseBegin
<1>2. CASE OnChangeJoin BY <1>2 DEF OnChangeJoin, ViCloseJoin
<1>3. CASE OnChangeOpen BY <1>3, FmtType DEF OnChangeOpen, ViInitialize
<1>4. CASE OnChangeLock BY <1>4, FmtType DEF OnChangeLock
<1>5. CASE OnChangeCleared BY <1>5 DEF OnChangeCleared
<1> QED BY <1>1, <1>2, <1>3, <1>4, <1>5 DEF OnChange

(* Stop() keeps it. *)
LEMMA StopInv == ViInv /\ (StopClose \/ StopJoin) => ViInv'
<1> SUFFICES ASSUME ViInv, StopClose \/ StopJoin PROVE ViInv'
  OBVIOUS
<1> USE DEF ViInv, ViTypeOK, SessionHasThread, PcTellsDevice, voVars, deviceVars
<1>1. CASE StopClose BY <1>1 DEF StopClose, ViCloseBegin
<1>2. CASE StopJoin BY <1>2 DEF StopJoin, ViCloseJoin
<1> QED BY <1>1, <1>2

-----------------------------------------------------------------------------
(* Every reachable state satisfies the invariant. *)
LEMMA Initially == Init => IInv
BY ViStartInv, FmtType DEF Init, IInv, TypeOK, ViInv, ViStart, LockHeld, TeardownOrder,
   ScreenOpen, ToldAndDone, OnChangeOrder, Agrees, Differs, ZeroFmt, Fmt

(* The detector's thread. *)
LEMMA DetectorInv == IInv /\ Detector => IInv'
<1> SUFFICES ASSUME IInv, Detector PROVE IInv'
  OBVIOUS
<1> USE DEF IInv, TypeOK, ViTypeOK, ViInv, SessionHasThread, PcTellsDevice, LockHeld,
            TeardownOrder, ScreenOpen, ToldAndDone, OnChangeOrder, Agrees, Step,
            viVars, sessionVars, deviceVars, voVars, callVars, detectVars, lockVars,
            toldVars
<1>1. CASE OpenDevice BY <1>1 DEF OpenDevice
<1>2. CASE Query
  <2>1. newFmt' \in Fmt
    BY <1>2, FmtType DEF Query
  <2> QED BY <1>2, <2>1 DEF Query
<1>3. CASE Change
  <2>1. ZeroFmt \in Fmt
    BY FmtType
  <2>2. CASE listener
    <3>1. fmt' = newFmt /\ told' = newFmt /\ cbFmt' = newFmt /\ cb' = "close"
      BY <1>3, <2>2 DEF Change
    <3>2. ViTypeOK' /\ UNCHANGED <<main, init, run, listener>>
      BY <1>3, <3>1 DEF Change
    <3>3. mux' = "thread" /\ pc' = "callback" /\ newFmt' = ZeroFmt /\ missed' = FALSE
      BY <1>3, <2>2 DEF Change
    <3>4. TypeOK'
      BY <2>1, <3>1, <3>2, <3>3
    <3>5. ViInv' /\ LockHeld' /\ TeardownOrder' /\ ScreenOpen'
      BY <1>3, <3>1, <3>2, <3>3 DEF Change
    <3>6. ToldAndDone'
      BY <3>1 DEF Differs
    <3> QED BY <3>4, <3>5, <3>6
  <2>3. CASE ~listener BY <1>3, <2>1, <2>3 DEF Change
  <2> QED BY <2>2, <2>3
<1>4. CASE Changed BY <1>4 DEF Changed
<1>5. CASE Sleep BY <1>5 DEF Sleep
<1> QED BY <1>1, <1>2, <1>3, <1>4, <1>5 DEF Detector

(* The calls VIHelper and VideoInput are in the middle of. *)
LEMMA InnerInv == IInv /\ Inner => IInv'
<1> SUFFICES ASSUME IInv, Inner PROVE IInv'
  OBVIOUS
<1> DEFINE Mine == <<main, detectVars, localVars, lockVars, toldVars>>
<1>1. UNCHANGED Mine
  BY DEF Inner
<1> USE DEF detectVars, localVars, lockVars, toldVars
<1>2. CASE ViThread
  <2>1. ViInv'
    BY <1>2, ViThreadInv DEF IInv
  <2>2. UNCHANGED <<sessionVars, voVars, callVars, signal>>
    BY <1>2 DEF ViThread, StartDev, StartChn, Watch, Wait, OffChn, OffDev, StopChn,
                StopDev, ThreadKeeps
  <2> QED
    BY <1>1, <2>1, <2>2 DEF IInv, TypeOK, ViInv, LockHeld, TeardownOrder, ScreenOpen,
       ToldAndDone, OnChangeOrder, Agrees, Differs, sessionVars, voVars, callVars
<1>3. CASE OnChange
  <2>1. PICK x \in Fmt : x = told
    BY DEF IInv, TypeOK
  <2>2. told' = x
    BY <1>1, <2>1
  <2>3. OnChangeOrder(x)
    BY <2>1 DEF IInv, ToldAndDone
  <2>4. ViInv' /\ (OnChangeOrder(x))' /\ (cb = "none" => Agrees(x))'
    BY <1>3, <2>3, OnChangeInv DEF IInv
  <2>5. UNCHANGED <<voVars, stop>> /\ cb # "none"
    BY <1>3 DEF OnChange, OnChangeClose, OnChangeJoin, OnChangeOpen, OnChangeLock,
                OnChangeCleared
  <2>6. ToldAndDone'
    BY <1>1, <2>2, <2>4 DEF IInv, ToldAndDone, Differs, OnChangeOrder, Agrees
  <2>7. TeardownOrder'
    BY <1>1, <2>5 DEF IInv, LockHeld, TeardownOrder
  <2> QED
    BY <1>1, <2>4, <2>5, <2>6, <2>7 DEF IInv, TypeOK, ViInv, LockHeld, ScreenOpen, voVars
<1>4. CASE StopClose \/ StopJoin
  <2>1. ViInv'
    BY <1>4, StopInv DEF IInv
  <2>2. main = "exit_stopping" /\ UNCHANGED <<vo, voOpen, cb, cbFmt>>
          /\ (stop' = "none" => ~viInit')
    BY <1>4 DEF IInv, TeardownOrder, ViInv, ViTypeOK, StopClose, StopJoin, ViCloseJoin,
                voVars
  <2>3. cb = "none"
    BY <2>2 DEF IInv, LockHeld, TeardownOrder
  <2> QED
    BY <1>1, <2>1, <2>2, <2>3 DEF IInv, TypeOK, ViInv, LockHeld, TeardownOrder,
       ScreenOpen, ToldAndDone, OnChangeOrder, Differs
<1> QED BY <1>2, <1>3, <1>4 DEF Inner

(* Main and the input. *)
LEMMA MainInv ==
  IInv /\ (Main \/ Command \/ \E f \in Signals : NewSignal(f)) => IInv'
<1> SUFFICES ASSUME IInv, Main \/ Command \/ \E f \in Signals : NewSignal(f)
             PROVE  IInv'
  OBVIOUS
<1> USE DEF IInv, Goes, viVars, voVars, callVars, detectVars, localVars, lockVars, toldVars
<1>1. ViInv'
  <2>1. UNCHANGED <<sessionVars, viPc, deviceVars, cb, cbFmt>>
    BY DEF Main, Startup, Configure, Answer, Teardown, Command, Initialize,
           SetVIFmtListener, VoSet, HelperVoSet, CloseBegin, CloseJoin, CallStop,
           StopReturned, NewSignal
  <2>2. vo' \in BOOLEAN /\ voOpen' \in BOOLEAN
    BY DEF Main, Startup, Configure, Answer, Teardown, Command, Initialize,
           SetVIFmtListener, VoSet, HelperVoSet, SetVideoOutput, CloseBegin, CloseJoin,
           CallStop, StopReturned, NewSignal, ViInv, ViTypeOK
  <2>3. stop' \in {"none", "close", "join"} /\ signal' \in Fmt
    BY FmtType DEF Main, Startup, Configure, Answer, Teardown, Command, Initialize,
           SetVIFmtListener, VoSet, HelperVoSet, CloseBegin, CloseJoin, CallStop,
           StopReturned, NewSignal, ViInv, ViTypeOK
  <2> QED BY <2>1, <2>2, <2>3, ViOutside
<1> USE DEF sessionVars, deviceVars
<1>2. TypeOK'
  <2>1. CASE Initialize("init", "listen")
    <3>1. Differs(ZeroFmt, told) \in BOOLEAN
      BY DEF Differs
    <3> QED BY <2>1, <3>1, <1>1, FmtType DEF Initialize, TypeOK, ViInv
  <2>2. CASE SetVIFmtListener("listen", "vo", TRUE)
    BY <2>2, <1>1 DEF SetVIFmtListener, TypeOK, ViInv
  <2>3. CASE VoSet("vo", "set_vo", TRUE)
    BY <2>3, <1>1 DEF VoSet, TypeOK, ViInv
  <2>4. CASE HelperVoSet("set_vo", "idle", TRUE)
    BY <2>4, <1>1 DEF HelperVoSet, SetVideoOutput, TypeOK, ViInv
  <2>5. CASE CloseBegin("conf_close", "conf_join")
    BY <2>5, <1>1 DEF CloseBegin, TypeOK, ViInv
  <2>6. CASE CloseJoin("conf_join", "conf_init")
    BY <2>6, <1>1 DEF CloseJoin, TypeOK, ViInv
  <2>7. CASE Initialize("conf_init", "conf_listen")
    <3>1. Differs(ZeroFmt, told) \in BOOLEAN
      BY DEF Differs
    <3> QED BY <2>7, <3>1, <1>1, FmtType DEF Initialize, TypeOK, ViInv
  <2>8. CASE SetVIFmtListener("conf_listen", "idle", TRUE)
    BY <2>8, <1>1 DEF SetVIFmtListener, TypeOK, ViInv
  <2>9. CASE HelperVoSet("exit", "exit_vo", FALSE)
    BY <2>9, <1>1 DEF HelperVoSet, SetVideoOutput, TypeOK, ViInv
  <2>10. CASE VoSet("exit_vo", "exit_listen", FALSE)
    BY <2>10, <1>1 DEF VoSet, TypeOK, ViInv
  <2>11. CASE SetVIFmtListener("exit_listen", "exit_close", FALSE)
    BY <2>11, <1>1 DEF SetVIFmtListener, TypeOK, ViInv
  <2>12. CASE CloseBegin("exit_close", "exit_join")
    BY <2>12, <1>1 DEF CloseBegin, TypeOK, ViInv
  <2>13. CASE CloseJoin("exit_join", "exit_stop")
    BY <2>13, <1>1 DEF CloseJoin, TypeOK, ViInv
  <2>14. CASE CallStop("exit_stop", "exit_stopping")
    BY <2>14, <1>1 DEF CallStop, TypeOK, ViInv
  <2>15. CASE StopReturned("exit_stopping", "gone")
    BY <2>15, <1>1 DEF StopReturned, TypeOK, ViInv
  <2>16. CASE Answer
    BY <2>16, <1>1 DEF Answer, TypeOK, ViInv
  <2>17. CASE Command
    BY <2>17, <1>1 DEF Command, TypeOK, ViInv
  <2>18. ASSUME NEW f \in Signals, NewSignal(f) PROVE TypeOK'
    BY <2>18, <1>1, FmtType DEF NewSignal, TypeOK, ViInv
  <2> QED
    BY <2>1, <2>2, <2>3, <2>4, <2>5, <2>6, <2>7, <2>8, <2>9, <2>10, <2>11, <2>12, <2>13, <2>14, <2>15, <2>16, <2>17, <2>18
       DEF Main, Startup, Configure, Teardown
<1>3. LockHeld' /\ TeardownOrder' /\ ScreenOpen'
  <2>1. CASE Initialize("init", "listen")
    BY <2>1, FmtType DEF Initialize, LockHeld, TeardownOrder, ScreenOpen, TypeOK, ViInv, ViTypeOK
  <2>2. CASE SetVIFmtListener("listen", "vo", TRUE)
    BY <2>2 DEF SetVIFmtListener, LockHeld, TeardownOrder, ScreenOpen, TypeOK, ViInv, ViTypeOK
  <2>3. CASE VoSet("vo", "set_vo", TRUE)
    BY <2>3 DEF VoSet, LockHeld, TeardownOrder, ScreenOpen, TypeOK, ViInv, ViTypeOK
  <2>4. CASE HelperVoSet("set_vo", "idle", TRUE)
    BY <2>4 DEF HelperVoSet, SetVideoOutput, LockHeld, TeardownOrder, ScreenOpen, TypeOK, ViInv, ViTypeOK
  <2>5. CASE CloseBegin("conf_close", "conf_join")
    BY <2>5 DEF CloseBegin, LockHeld, TeardownOrder, ScreenOpen, TypeOK, ViInv, ViTypeOK
  <2>6. CASE CloseJoin("conf_join", "conf_init")
    BY <2>6 DEF CloseJoin, LockHeld, TeardownOrder, ScreenOpen, TypeOK, ViInv, ViTypeOK
  <2>7. CASE Initialize("conf_init", "conf_listen")
    BY <2>7, FmtType DEF Initialize, LockHeld, TeardownOrder, ScreenOpen, TypeOK, ViInv, ViTypeOK
  <2>8. CASE SetVIFmtListener("conf_listen", "idle", TRUE)
    BY <2>8 DEF SetVIFmtListener, LockHeld, TeardownOrder, ScreenOpen, TypeOK, ViInv, ViTypeOK
  <2>9. CASE HelperVoSet("exit", "exit_vo", FALSE)
    BY <2>9 DEF HelperVoSet, SetVideoOutput, LockHeld, TeardownOrder, ScreenOpen, TypeOK, ViInv, ViTypeOK
  <2>10. CASE VoSet("exit_vo", "exit_listen", FALSE)
    BY <2>10 DEF VoSet, LockHeld, TeardownOrder, ScreenOpen, TypeOK, ViInv, ViTypeOK
  <2>11. CASE SetVIFmtListener("exit_listen", "exit_close", FALSE)
    BY <2>11 DEF SetVIFmtListener, LockHeld, TeardownOrder, ScreenOpen, TypeOK, ViInv, ViTypeOK
  <2>12. CASE CloseBegin("exit_close", "exit_join")
    BY <2>12 DEF CloseBegin, LockHeld, TeardownOrder, ScreenOpen, TypeOK, ViInv, ViTypeOK
  <2>13. CASE CloseJoin("exit_join", "exit_stop")
    BY <2>13 DEF CloseJoin, LockHeld, TeardownOrder, ScreenOpen, TypeOK, ViInv, ViTypeOK
  <2>14. CASE CallStop("exit_stop", "exit_stopping")
    BY <2>14 DEF CallStop, LockHeld, TeardownOrder, ScreenOpen, TypeOK, ViInv, ViTypeOK
  <2>15. CASE StopReturned("exit_stopping", "gone")
    BY <2>15 DEF StopReturned, LockHeld, TeardownOrder, ScreenOpen, TypeOK, ViInv, ViTypeOK
  <2>16. CASE Answer
    BY <2>16 DEF Answer, LockHeld, TeardownOrder, ScreenOpen, TypeOK, ViInv, ViTypeOK
  <2>17. CASE Command
    BY <2>17 DEF Command, LockHeld, TeardownOrder, ScreenOpen, TypeOK, ViInv, ViTypeOK
  <2>18. ASSUME NEW f \in Signals, NewSignal(f) PROVE LockHeld' /\ TeardownOrder' /\ ScreenOpen'
    BY <2>18, FmtType DEF NewSignal, LockHeld, TeardownOrder, ScreenOpen, TypeOK, ViInv, ViTypeOK
  <2> QED
    BY <2>1, <2>2, <2>3, <2>4, <2>5, <2>6, <2>7, <2>8, <2>9, <2>10, <2>11, <2>12, <2>13, <2>14, <2>15, <2>16, <2>17, <2>18
       DEF Main, Startup, Configure, Teardown
<1>4. ToldAndDone'
  <2>1. CASE Initialize("init", "listen")
    BY <2>1, FmtType DEF Initialize, ToldAndDone, OnChangeOrder, Agrees, Differs, TypeOK
  <2>2. CASE SetVIFmtListener("listen", "vo", TRUE)
    BY <2>2 DEF SetVIFmtListener, ToldAndDone, OnChangeOrder, Agrees, Differs, TypeOK
  <2>3. CASE VoSet("vo", "set_vo", TRUE)
    BY <2>3 DEF VoSet, ToldAndDone, OnChangeOrder, Agrees, Differs, TypeOK
  <2>4. CASE HelperVoSet("set_vo", "idle", TRUE)
    BY <2>4 DEF HelperVoSet, SetVideoOutput, ToldAndDone, OnChangeOrder, Agrees, Differs, TypeOK
  <2>5. CASE CloseBegin("conf_close", "conf_join")
    BY <2>5 DEF CloseBegin, ToldAndDone, OnChangeOrder, Agrees, Differs, TypeOK
  <2>6. CASE CloseJoin("conf_join", "conf_init")
    BY <2>6 DEF CloseJoin, ToldAndDone, OnChangeOrder, Agrees, Differs, TypeOK
  <2>7. CASE Initialize("conf_init", "conf_listen")
    BY <2>7, FmtType DEF Initialize, ToldAndDone, OnChangeOrder, Agrees, Differs, TypeOK
  <2>8. CASE SetVIFmtListener("conf_listen", "idle", TRUE)
    BY <2>8 DEF SetVIFmtListener, ToldAndDone, OnChangeOrder, Agrees, Differs, TypeOK
  <2>9. CASE HelperVoSet("exit", "exit_vo", FALSE)
    BY <2>9 DEF HelperVoSet, SetVideoOutput, ToldAndDone, OnChangeOrder, Agrees, Differs, TypeOK
  <2>10. CASE VoSet("exit_vo", "exit_listen", FALSE)
    BY <2>10 DEF VoSet, ToldAndDone, OnChangeOrder, Agrees, Differs, TypeOK
  <2>11. CASE SetVIFmtListener("exit_listen", "exit_close", FALSE)
    BY <2>11 DEF SetVIFmtListener, ToldAndDone, OnChangeOrder, Agrees, Differs, TypeOK
  <2>12. CASE CloseBegin("exit_close", "exit_join")
    BY <2>12 DEF CloseBegin, ToldAndDone, OnChangeOrder, Agrees, Differs, TypeOK
  <2>13. CASE CloseJoin("exit_join", "exit_stop")
    BY <2>13 DEF CloseJoin, ToldAndDone, OnChangeOrder, Agrees, Differs, TypeOK
  <2>14. CASE CallStop("exit_stop", "exit_stopping")
    BY <2>14 DEF CallStop, ToldAndDone, OnChangeOrder, Agrees, Differs, TypeOK
  <2>15. CASE StopReturned("exit_stopping", "gone")
    BY <2>15 DEF StopReturned, ToldAndDone, OnChangeOrder, Agrees, Differs, TypeOK
  <2>16. CASE Answer
    BY <2>16 DEF Answer, ToldAndDone, OnChangeOrder, Agrees, Differs, TypeOK
  <2>17. CASE Command
    BY <2>17 DEF Command, ToldAndDone, OnChangeOrder, Agrees, Differs, TypeOK
  <2>18. ASSUME NEW f \in Signals, NewSignal(f) PROVE ToldAndDone'
    BY <2>18, FmtType DEF NewSignal, ToldAndDone, OnChangeOrder, Agrees, Differs, TypeOK
  <2> QED
    BY <2>1, <2>2, <2>3, <2>4, <2>5, <2>6, <2>7, <2>8, <2>9, <2>10, <2>11, <2>12, <2>13, <2>14, <2>15, <2>16, <2>17, <2>18
       DEF Main, Startup, Configure, Teardown
<1> QED BY <1>1, <1>2, <1>3, <1>4

(* The invariant holds in every reachable state.                            *)
THEOREM Invariance == Spec => []IInv
<1>1. IInv /\ [Next]_vars => IInv'
  <2> SUFFICES ASSUME IInv, [Next]_vars PROVE IInv'
    OBVIOUS
  <2>1. CASE UNCHANGED vars
    BY <2>1 DEF IInv, TypeOK, ViTypeOK, ViInv, SessionHasThread, PcTellsDevice,
       LockHeld, TeardownOrder, ScreenOpen, ToldAndDone, OnChangeOrder, Agrees, Differs,
       vars, viVars, sessionVars, deviceVars, voVars, callVars, detectVars, localVars,
       lockVars, toldVars
  <2> QED
    BY <2>1, DetectorInv, InnerInv, MainInv DEF Next, Exited
<1> QED BY Initially, <1>1, PTL DEF Spec

(* Type correctness. *)
THEOREM TypeCorrect == Spec => []TypeOK
BY Invariance, PTL DEF IInv

(* The methods of VideoInput are never entered by two threads, and the      *)
(* screen is blanked only while main has it open.                           *)
THEOREM SingleCaller == Spec => []OneCaller
<1>1. IInv => OneCaller
  BY DEF IInv, LockHeld, TeardownOrder, ScreenOpen, ToldAndDone, OnChangeOrder, OneCaller
<1> QED BY <1>1, Invariance, PTL

(* A reply to QUERY_ADV7842 is never ahead of the capture, but for a change *)
(* that was missed.                                                         *)
THEOREM AnsweredAfterTold == Spec => []ToldBeforeAnswered
<1>1. IInv => ToldBeforeAnswered
  BY DEF IInv, LockHeld, ToldAndDone, Agrees, ToldBeforeAnswered
<1> QED BY <1>1, Invariance, PTL

(* When the process ends, both threads are gone, the screen is closed, and  *)
(* the device is off if no call failed.                                     *)
THEOREM QuietEnd == Spec => []QuietAtExit
<1>1. IInv => QuietAtExit
  BY DEF IInv, LockHeld, TeardownOrder, ScreenOpen, ViInv, SessionHasThread,
         PcTellsDevice, QuietAtExit
<1> QED BY <1>1, Invariance, PTL
=============================================================================
