---------------------------- MODULE Tw6874Proofs ----------------------------
(***************************************************************************)
(* Chip 3, for every set of formats and whatever fails: one caller at a    *)
(* time, VideoInput has acted on run_fmt_ whenever the lock is free, and a *)
(* session that ended left its device off.  The invariant is that of       *)
(* Adv7842Proofs, with run_fmt_ in the place of what VIHelper was told.    *)
(***************************************************************************)
EXTENDS Tw6874, TLAPS

(* The thread exists while init_ is set, and holds mux_ exactly while it is *)
(* in the callback, which is when OnChange() may run.                       *)
LockHeld ==
  /\ init <=> pc # "off"
  /\ mux = "thread" <=> pc = "callback"
  /\ cb # "none" => pc = "callback"

(* Stop() runs only once the detector is closed.                            *)
TeardownOrder ==
  /\ stop # "none" => main = "exit_stopping"
  /\ main \in {"init", "exit_stop", "exit_stopping", "gone"} => ~init

(* The screen is given to VIHelper after it was opened, and taken from it   *)
(* before it is closed.                                                     *)
ScreenOpen ==
  /\ vo => main \in {"idle", "update", "exit"}
  /\ voOpen <=> main \in {"set_vo", "idle", "update", "exit", "exit_vo"}

(* The listener is set while main serves messages, and before that there is *)
(* nothing to pass on; so run_fmt_ never changes without a call.            *)
Passed ==
  /\ main \in {"init", "listen"} => nowFmt = ZeroFmt /\ runFmt = ZeroFmt
  /\ main \in {"vo", "set_vo", "idle", "update", "exit", "exit_vo", "exit_listen"} =>
       listener
  /\ OnChangeOrder(runFmt)
  /\ cb = "none" /\ main \notin {"exit_close", "exit_join", "exit_stop",
                                 "exit_stopping", "gone"} => Agrees(runFmt)

IInv == TypeOK /\ ViInv /\ LockHeld /\ TeardownOrder /\ ScreenOpen /\ Passed

-----------------------------------------------------------------------------
(* VideoInput and VIHelper keep their part of it by themselves.              *)

LEMMA FmtType == ZeroFmt \in Fmt /\ Signals \subseteq Fmt
BY VIAssumption DEF ZeroFmt, Fmt, Signals

LEMMA ViStartInv == ViStart => ViInv
BY FmtType DEF ViStart, ViInv, ViTypeOK, SessionHasThread, PcTellsDevice

(* What main sets itself leaves the invariant alone. *)
LEMMA ViOutside ==
  ASSUME ViInv, UNCHANGED <<sessionVars, viPc, deviceVars, cb, cbFmt>>,
         vo' \in BOOLEAN, voOpen' \in BOOLEAN, stop' \in {"none", "close", "join"},
         signal' \in Fmt
  PROVE  ViInv'
BY DEF ViInv, ViTypeOK, SessionHasThread, PcTellsDevice, sessionVars, deviceVars

(* Every step of the thread keeps the invariant. *)
LEMMA ViThreadInv == ViInv /\ ViThread => ViInv'
<1> SUFFICES ASSUME ViInv, ViThread PROVE ViInv'
  OBVIOUS
<1> USE DEF ViInv, ViTypeOK, SessionHasThread, PcTellsDevice, ThreadGoes,
            ThreadKeeps, sessionVars, voVars, callVars, deviceVars
<1>1. CASE StartDev BY <1>1 DEF StartDev, DevRefuses
<1>2. CASE StartChn BY <1>2 DEF StartChn
<1>3. CASE Watch BY <1>3 DEF Watch
<1>4. CASE Wait BY <1>4 DEF Wait
<1>5. CASE OffChn BY <1>5 DEF OffChn
<1>6. CASE OffDev BY <1>6 DEF OffDev
<1>7. CASE StopChn BY <1>7 DEF StopChn
<1>8. CASE StopDev BY <1>8 DEF StopDev
<1> QED BY <1>1, <1>2, <1>3, <1>4, <1>5, <1>6, <1>7, <1>8 DEF ViThread

(* So does every step of OnChange(), which also keeps its own order, and    *)
(* leaves a session that agrees with what it was told.                      *)
LEMMA OnChangeInv ==
  ASSUME NEW f \in Fmt, ViInv, OnChangeOrder(f), OnChange
  PROVE  /\ ViInv' /\ (OnChangeOrder(f))'
         /\ (cb = "none" => Agrees(f))'
<1> USE DEF ViInv, ViTypeOK, SessionHasThread, PcTellsDevice, OnChangeOrder, Agrees,
            sessionVars, voVars, deviceVars
<1>1. CASE OnChangeClose BY <1>1 DEF OnChangeClose, ViCloseBegin
<1>2. CASE OnChangeJoin BY <1>2 DEF OnChangeJoin, ViCloseJoin
<1>3. CASE OnChangeOpen BY <1>3, FmtType DEF OnChangeOpen, ViInitialize
<1>4. CASE OnChangeLock BY <1>4, FmtType DEF OnChangeLock
<1>5. CASE OnChangeCleared BY <1>5 DEF OnChangeCleared
<1> QED BY <1>1, <1>2, <1>3, <1>4, <1>5 DEF OnChange

(* Stop() keeps it. *)
LEMMA StopInv == ViInv /\ (StopClose \/ StopJoin) => ViInv'
<1> SUFFICES ASSUME ViInv, StopClose \/ StopJoin PROVE ViInv'
  OBVIOUS
<1> USE DEF ViInv, ViTypeOK, SessionHasThread, PcTellsDevice, voVars, deviceVars
<1>1. CASE StopClose BY <1>1 DEF StopClose, ViCloseBegin
<1>2. CASE StopJoin BY <1>2 DEF StopJoin, ViCloseJoin
<1> QED BY <1>1, <1>2

-----------------------------------------------------------------------------
(* Every reachable state satisfies the invariant. *)
LEMMA Initially == Init => IInv
BY ViStartInv, FmtType DEF Init, IInv, TypeOK, ViInv, ViStart, LockHeld, TeardownOrder,
   ScreenOpen, Passed, OnChangeOrder, Agrees, ZeroFmt, Fmt

(* The thread of Tw6874. *)
LEMMA DetectorInv == IInv /\ Detector => IInv'
<1> SUFFICES ASSUME IInv, Detector PROVE IInv'
  OBVIOUS
<1> USE DEF IInv, TypeOK, ViTypeOK, ViInv, SessionHasThread, PcTellsDevice, LockHeld,
            TeardownOrder, ScreenOpen, Passed, OnChangeOrder, Agrees,
            viVars, sessionVars, deviceVars, voVars, callVars, fmtVars, lockVars
<1>1. CASE Poll BY <1>1 DEF Poll
<1>2. CASE Compare
  <2>1. cb = "none" /\ pc # "callback" /\ ~Differs(ZeroFmt, ZeroFmt)
    BY <1>2 DEF Compare, Differs
  <2>2. CASE ~Differs(runFmt, nowFmt)
    BY <1>2, <2>1, <2>2 DEF Compare
  <2>3. CASE Differs(runFmt, nowFmt) /\ listener
    <3>1. runFmt' = nowFmt /\ cbFmt' = nowFmt /\ cb' = "close" /\ mux' = "thread"
            /\ pc' = "callback"
      BY <1>2, <2>3 DEF Compare
    <3>2. main \notin {"init", "listen"}
      BY <2>1, <2>3
    <3>3. UNCHANGED <<sessionVars, viPc, deviceVars, voVars, stop, signal, main, init,
                      run, nowFmt, asked, listener>>
      BY <1>2 DEF Compare
    <3>4. ViInv'
      BY <3>1, <3>3
    <3>5. TypeOK'
      BY <3>1, <3>3, <3>4
    <3>6. init /\ pc = "lock"
      BY <1>2 DEF Compare
    <3>7. LockHeld'
      BY <3>1, <3>3, <3>6
    <3>8. TeardownOrder' /\ ScreenOpen'
      BY <3>3
    <3>9. listener' /\ nowFmt' = nowFmt /\ main' = main
      BY <2>3, <3>3
    <3>10. Passed'
      BY <3>1, <3>2, <3>9
    <3> QED BY <3>4, <3>5, <3>7, <3>8, <3>10
  <2>4. CASE Differs(runFmt, nowFmt) /\ ~listener
    <3>1. runFmt' = nowFmt /\ UNCHANGED <<cb, cbFmt, mux>> /\ pc' = "sleep"
      BY <1>2, <2>4 DEF Compare
    <3>2. main \notin {"init", "listen", "vo", "set_vo", "idle", "update", "exit",
                       "exit_vo", "exit_listen"}
      BY <2>1, <2>4
    <3>3. UNCHANGED <<sessionVars, viPc, deviceVars, voVars, stop, signal, main, init,
                      run, nowFmt, asked, listener>>
      BY <1>2 DEF Compare
    <3>4. pc = "lock"
      BY <1>2 DEF Compare
    <3>5. ViInv' /\ TypeOK'
      BY <3>1, <3>3
    <3> QED BY <2>1, <3>1, <3>2, <3>3, <3>4, <3>5
  <2> QED BY <2>2, <2>3, <2>4
<1>3. CASE Told BY <1>3 DEF Told
<1>4. CASE Sleep BY <1>4 DEF Sleep
<1> QED BY <1>1, <1>2, <1>3, <1>4 DEF Detector

(* The calls VIHelper and VideoInput are in the middle of. *)
LEMMA InnerInv == IInv /\ Inner => IInv'
<1> SUFFICES ASSUME IInv, Inner PROVE IInv'
  OBVIOUS
<1> DEFINE Mine == <<main, init, run, pc, fmtVars, lockVars>>
<1>1. UNCHANGED Mine
  BY DEF Inner
<1> USE DEF fmtVars, lockVars
<1>2. CASE ViThread
  <2>1. ViInv'
    BY <1>2, ViThreadInv DEF IInv
  <2>2. UNCHANGED <<sessionVars, voVars, callVars, signal>>
    BY <1>2 DEF ViThread, StartDev, StartChn, Watch, Wait, OffChn, OffDev, StopChn,
                StopDev, ThreadKeeps
  <2> QED
    BY <1>1, <2>1, <2>2 DEF IInv, TypeOK, ViInv, LockHeld, TeardownOrder, ScreenOpen,
       Passed, OnChangeOrder, Agrees, sessionVars, voVars, callVars
<1>3. CASE OnChange
  <2>1. PICK x \in Fmt : x = runFmt
    BY DEF IInv, TypeOK
  <2>2. runFmt' = x
    BY <1>1, <2>1
  <2>3. OnChangeOrder(x)
    BY <2>1 DEF IInv, Passed
  <2>4. ViInv' /\ (OnChangeOrder(x))' /\ (cb = "none" => Agrees(x))'
    BY <1>3, <2>3, OnChangeInv DEF IInv
  <2>5. UNCHANGED <<voVars, stop>> /\ cb # "none"
    BY <1>3 DEF OnChange, OnChangeClose, OnChangeJoin, OnChangeOpen, OnChangeLock,
                OnChangeCleared
  <2>6. Passed'
    BY <1>1, <2>2, <2>4 DEF IInv, Passed, OnChangeOrder, Agrees
  <2> QED
    BY <1>1, <2>4, <2>5, <2>6 DEF IInv, TypeOK, ViInv, LockHeld, TeardownOrder,
       ScreenOpen, voVars
<1>4. CASE StopClose \/ StopJoin
  <2>1. ViInv'
    BY <1>4, StopInv DEF IInv
  <2>2. main = "exit_stopping" /\ UNCHANGED <<vo, voOpen, cb, cbFmt>>
    BY <1>4 DEF IInv, TeardownOrder, StopClose, StopJoin, voVars
  <2>3. cb = "none"
    BY <2>2 DEF IInv, LockHeld, TeardownOrder
  <2> QED
    BY <1>1, <2>1, <2>2, <2>3 DEF IInv, TypeOK, ViInv, LockHeld, TeardownOrder,
       ScreenOpen, Passed, OnChangeOrder
<1> QED BY <1>2, <1>3, <1>4 DEF Inner

(* Main and the input. *)
LEMMA MainInv ==
  IInv /\ (Main \/ Command \/ \E f \in Signals : NewSignal(f)) => IInv'
<1> SUFFICES ASSUME IInv, Main \/ Command \/ \E f \in Signals : NewSignal(f)
             PROVE  IInv'
  OBVIOUS
<1> USE DEF IInv, Goes, viVars, voVars, callVars, fmtVars, lockVars
<1>1. ViInv'
  <2>1. UNCHANGED <<sessionVars, viPc, deviceVars, cb, cbFmt>>
    BY DEF Main, Startup, Teardown, Command, Initialize, SetVIFmtListener,
           VoSet, HelperVoSet, UpdateVIFmt, ClearListener, CloseBegin, CloseJoin,
           CallStop, StopReturned, NewSignal
  <2>2. vo' \in BOOLEAN /\ voOpen' \in BOOLEAN
    BY DEF Main, Startup, Teardown, Command, Initialize, SetVIFmtListener,
           VoSet, HelperVoSet, UpdateVIFmt, ClearListener, CloseBegin, CloseJoin,
           CallStop, StopReturned, NewSignal, SetVideoOutput, ViInv, ViTypeOK
  <2>3. stop' \in {"none", "close", "join"} /\ signal' \in Fmt
    BY FmtType
       DEF Main, Startup, Teardown, Command, Initialize, SetVIFmtListener,
           VoSet, HelperVoSet, UpdateVIFmt, ClearListener, CloseBegin, CloseJoin,
           CallStop, StopReturned, NewSignal, ViInv, ViTypeOK
  <2> QED BY <2>1, <2>2, <2>3, ViOutside
<1> USE DEF sessionVars, deviceVars
<1>2. TypeOK'
  <2>1. CASE Initialize
    BY <2>1, <1>1, FmtType DEF Initialize, TypeOK, ViInv
  <2>2. CASE SetVIFmtListener("listen", "vo", TRUE)
    BY <2>2, <1>1 DEF SetVIFmtListener, TypeOK, ViInv
  <2>3. CASE VoSet("vo", "set_vo", TRUE)
    BY <2>3, <1>1 DEF VoSet, TypeOK, ViInv
  <2>4. CASE HelperVoSet("set_vo", "idle", TRUE)
    BY <2>4, <1>1 DEF HelperVoSet, SetVideoOutput, TypeOK, ViInv
  <2>5. CASE UpdateVIFmt
    BY <2>5, <1>1 DEF UpdateVIFmt, TypeOK, ViInv
  <2>6. CASE HelperVoSet("exit", "exit_vo", FALSE)
    BY <2>6, <1>1 DEF HelperVoSet, SetVideoOutput, TypeOK, ViInv
  <2>7. CASE VoSet("exit_vo", "exit_listen", FALSE)
    BY <2>7, <1>1 DEF VoSet, TypeOK, ViInv
  <2>8. CASE ClearListener
    BY <2>8, <1>1 DEF ClearListener, TypeOK, ViInv
  <2>9. CASE CloseBegin
    BY <2>9, <1>1 DEF CloseBegin, TypeOK, ViInv
  <2>10. CASE CloseJoin
    BY <2>10, <1>1 DEF CloseJoin, TypeOK, ViInv
  <2>11. CASE CallStop
    BY <2>11, <1>1 DEF CallStop, TypeOK, ViInv
  <2>12. CASE StopReturned
    BY <2>12, <1>1 DEF StopReturned, TypeOK, ViInv
  <2>13. CASE Command
    BY <2>13, <1>1, FmtType DEF Command, TypeOK, ViInv
  <2>14. ASSUME NEW f \in Signals, NewSignal(f) PROVE TypeOK'
    BY <2>14, <1>1, FmtType DEF NewSignal, TypeOK, ViInv
  <2> QED
    BY <2>1, <2>2, <2>3, <2>4, <2>5, <2>6, <2>7, <2>8, <2>9, <2>10, <2>11, <2>12, <2>13, <2>14
       DEF Main, Startup, Teardown
<1>3. LockHeld' /\ TeardownOrder' /\ ScreenOpen'
  <2>1. CASE Initialize
    BY <2>1, FmtType DEF Initialize, LockHeld, TeardownOrder, ScreenOpen, TypeOK,
       ViInv, ViTypeOK
  <2>2. CASE SetVIFmtListener("listen", "vo", TRUE)
    BY <2>2 DEF SetVIFmtListener, LockHeld, TeardownOrder, ScreenOpen, TypeOK,
       ViInv, ViTypeOK
  <2>3. CASE VoSet("vo", "set_vo", TRUE)
    BY <2>3 DEF VoSet, LockHeld, TeardownOrder, ScreenOpen, TypeOK,
       ViInv, ViTypeOK
  <2>4. CASE HelperVoSet("set_vo", "idle", TRUE)
    BY <2>4 DEF HelperVoSet, SetVideoOutput, LockHeld, TeardownOrder, ScreenOpen, TypeOK,
       ViInv, ViTypeOK
  <2>5. CASE UpdateVIFmt
    BY <2>5 DEF UpdateVIFmt, LockHeld, TeardownOrder, ScreenOpen, TypeOK,
       ViInv, ViTypeOK
  <2>6. CASE HelperVoSet("exit", "exit_vo", FALSE)
    BY <2>6 DEF HelperVoSet, SetVideoOutput, LockHeld, TeardownOrder, ScreenOpen, TypeOK,
       ViInv, ViTypeOK
  <2>7. CASE VoSet("exit_vo", "exit_listen", FALSE)
    BY <2>7 DEF VoSet, LockHeld, TeardownOrder, ScreenOpen, TypeOK,
       ViInv, ViTypeOK
  <2>8. CASE ClearListener
    BY <2>8 DEF ClearListener, LockHeld, TeardownOrder, ScreenOpen, TypeOK,
       ViInv, ViTypeOK
  <2>9. CASE CloseBegin
    BY <2>9 DEF CloseBegin, LockHeld, TeardownOrder, ScreenOpen, TypeOK,
       ViInv, ViTypeOK
  <2>10. CASE CloseJoin
    BY <2>10 DEF CloseJoin, LockHeld, TeardownOrder, ScreenOpen, TypeOK,
       ViInv, ViTypeOK
  <2>11. CASE CallStop
    BY <2>11 DEF CallStop, LockHeld, TeardownOrder, ScreenOpen, TypeOK,
       ViInv, ViTypeOK
  <2>12. CASE StopReturned
    BY <2>12 DEF StopReturned, LockHeld, TeardownOrder, ScreenOpen, TypeOK,
       ViInv, ViTypeOK
  <2>13. CASE Command
    BY <2>13, FmtType DEF Command, LockHeld, TeardownOrder, ScreenOpen, TypeOK,
       ViInv, ViTypeOK
  <2>14. ASSUME NEW f \in Signals, NewSignal(f) PROVE LockHeld' /\ TeardownOrder' /\ ScreenOpen'
    BY <2>14, FmtType DEF NewSignal, LockHeld, TeardownOrder, ScreenOpen, TypeOK,
       ViInv, ViTypeOK
  <2> QED
    BY <2>1, <2>2, <2>3, <2>4, <2>5, <2>6, <2>7, <2>8, <2>9, <2>10, <2>11, <2>12, <2>13, <2>14
       DEF Main, Startup, Teardown
<1>4. Passed'
  <2>1. CASE Initialize
    BY <2>1, FmtType DEF Initialize, Passed, OnChangeOrder, Agrees, TypeOK
  <2>2. CASE SetVIFmtListener("listen", "vo", TRUE)
    BY <2>2 DEF SetVIFmtListener, Passed, OnChangeOrder, Agrees, TypeOK
  <2>3. CASE VoSet("vo", "set_vo", TRUE)
    BY <2>3 DEF VoSet, Passed, OnChangeOrder, Agrees, TypeOK
  <2>4. CASE HelperVoSet("set_vo", "idle", TRUE)
    BY <2>4 DEF HelperVoSet, SetVideoOutput, Passed, OnChangeOrder, Agrees, TypeOK
  <2>5. CASE UpdateVIFmt
    BY <2>5 DEF UpdateVIFmt, Passed, OnChangeOrder, Agrees, TypeOK
  <2>6. CASE HelperVoSet("exit", "exit_vo", FALSE)
    BY <2>6 DEF HelperVoSet, SetVideoOutput, Passed, OnChangeOrder, Agrees, TypeOK
  <2>7. CASE VoSet("exit_vo", "exit_listen", FALSE)
    BY <2>7 DEF VoSet, Passed, OnChangeOrder, Agrees, TypeOK
  <2>8. CASE ClearListener
    BY <2>8 DEF ClearListener, Passed, OnChangeOrder, Agrees, TypeOK
  <2>9. CASE CloseBegin
    BY <2>9 DEF CloseBegin, Passed, OnChangeOrder, Agrees, TypeOK
  <2>10. CASE CloseJoin
    BY <2>10 DEF CloseJoin, Passed, OnChangeOrder, Agrees, TypeOK
  <2>11. CASE CallStop
    BY <2>11 DEF CallStop, Passed, OnChangeOrder, Agrees, TypeOK
  <2>12. CASE StopReturned
    BY <2>12 DEF StopReturned, Passed, OnChangeOrder, Agrees, TypeOK
  <2>13. CASE Command
    BY <2>13, FmtType DEF Command, Passed, OnChangeOrder, Agrees, TypeOK
  <2>14. ASSUME NEW f \in Signals, NewSignal(f) PROVE Passed'
    BY <2>14, FmtType DEF NewSignal, Passed, OnChangeOrder, Agrees, TypeOK
  <2> QED
    BY <2>1, <2>2, <2>3, <2>4, <2>5, <2>6, <2>7, <2>8, <2>9, <2>10, <2>11, <2>12, <2>13, <2>14
       DEF Main, Startup, Teardown
<1> QED BY <1>1, <1>2, <1>3, <1>4

(* The invariant holds in every reachable state.                            *)
THEOREM Invariance == Spec => []IInv
<1>1. IInv /\ [Next]_vars => IInv'
  <2> SUFFICES ASSUME IInv, [Next]_vars PROVE IInv'
    OBVIOUS
  <2>1. CASE UNCHANGED vars
    BY <2>1 DEF IInv, TypeOK, ViTypeOK, ViInv, SessionHasThread, PcTellsDevice,
       LockHeld, TeardownOrder, ScreenOpen, Passed, OnChangeOrder, Agrees, vars, viVars,
       sessionVars, deviceVars, voVars, callVars, fmtVars, lockVars
  <2> QED
    BY <2>1, DetectorInv, InnerInv, MainInv DEF Next, Exited
<1> QED BY Initially, <1>1, PTL DEF Spec

(* Type correctness. *)
THEOREM TypeCorrect == Spec => []TypeOK
BY Invariance, PTL DEF IInv

(* The methods of VideoInput are never entered by two threads, and the      *)
(* screen is blanked only while main has it open, also for the chain that   *)
(* keeps its listener through the teardown.                                 *)
THEOREM SingleCaller == Spec => []OneCaller
<1>1. IInv => OneCaller
  BY DEF IInv, LockHeld, TeardownOrder, ScreenOpen, Passed, OnChangeOrder, OneCaller
<1> QED BY <1>1, Invariance, PTL

(* While main serves messages, run_fmt_ and what VideoInput does part only  *)
(* under mux_.                                                              *)
THEOREM ActsOnRunFmt == Spec => []ActedOnRunFmt
<1>1. IInv => ActedOnRunFmt
  BY DEF IInv, LockHeld, Passed, Agrees, ActedOnRunFmt
<1> QED BY <1>1, Invariance, PTL

(* If no HI_MPI_VI call fails, a session leaves device and channel off.     *)
THEOREM LeavesDeviceOff == Spec => []DeviceLeftOff
<1>1. IInv => DeviceLeftOff
  BY DEF IInv, ViInv, PcTellsDevice, DeviceLeftOff
<1> QED BY <1>1, Invariance, PTL
=============================================================================
