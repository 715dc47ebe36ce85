------------------------------ MODULE VIHelper ------------------------------
(***************************************************************************)
(* class VideoInput, whose thread switches a capture device on, watches it *)
(* and restarts it when it stalls, and class VIHelper, which a detector of *)
(* the input format tells of every change.                                 *)
(*                                                                         *)
(* VideoInput has no lock.  The module has the pieces; Adv7842 and Tw6874  *)
(* compose them with a detector and with the main thread.                  *)
(***************************************************************************)
EXTENDS Integers

CONSTANTS
  Modes,     \* what a format says of width, height and interlacing
  Rates,     \* frame rates that are more than 5 apart
  NoMode,    \* the mode of a format that memset cleared
  ViFaults   \* may a HI_MPI_VI call fail?

Fmt == [has_signal : BOOLEAN, mode : Modes \cup {NoMode}, frame_rate : Rates \cup {0}]
ZeroFmt == [has_signal |-> FALSE, mode |-> NoMode, frame_rate |-> 0]

(* External: the formats of an input.  One without a signal may still have  *)
(* sizes; its frame rate is 0.                                              *)
Signals == {f \in Fmt : (f.mode = NoMode => f = ZeroFmt)
                          /\ (f.has_signal <=> f.frame_rate # 0)}

ASSUME VIAssumption ==
  /\ NoMode \notin Modes
  /\ Rates \subseteq Nat \ {0}
  /\ ViFaults \in BOOLEAN

(* VideoInputFormat::operator!= leaves the frame rate out. *)
Differs(a, b) == a.has_signal # b.has_signal \/ a.mode # b.mode

VARIABLES
  viInit,  \* VideoInput::init_
  viRun,   \* VideoInput::run_
  viPar,   \* params_: the format the session was opened with
  viPc,    \* its thread, "off" when there is none
  first,   \* the thread's local first
  devOn, chnOn,  \* the capture device and its channel are enabled
  vo,      \* VIHelper::vo_ is set
  voOpen,  \* the VideoOutput behind it is initialised
  cb,      \* where OnChange() is; "none" when it does not run
  cbFmt,   \* its argument, ZeroFmt when it does not run
  stop,    \* where VIHelper::Stop() is
  signal   \* external: what the input carries

sessionVars == <<viInit, viRun, viPar>>
deviceVars  == <<first, devOn, chnOn>>
voVars      == <<vo, voOpen>>
callVars    == <<cb, cbFmt, stop>>
viVars == <<sessionVars, viPc, deviceVars, voVars, callVars, signal>>

ViStart ==
  /\ viInit = FALSE /\ viRun = FALSE /\ viPar = ZeroFmt
  /\ viPc = "off" /\ first = FALSE /\ devOn = FALSE /\ chnOn = FALSE
  /\ vo = FALSE /\ voOpen = FALSE
  /\ cb = "none" /\ cbFmt = ZeroFmt /\ stop = "none"
  /\ signal = ZeroFmt

-----------------------------------------------------------------------------
(* VideoInput's thread. *)

ThreadGoes(from, to) == viPc = from /\ viPc' = to
ThreadKeeps == UNCHANGED <<sessionVars, voVars, callVars, signal>>

(* External: a device that is still enabled may refuse new attributes.      *)
DevRefuses == ViFaults \/ devOn

StartDev ==
  /\ \/ ThreadGoes("dev", "chn") /\ devOn' = TRUE
     \/ DevRefuses /\ ThreadGoes("dev", "ended") /\ UNCHANGED devOn
  /\ UNCHANGED <<first, chnOn>> /\ ThreadKeeps

(* A failure leaves the device on. *)
StartChn ==
  /\ \/ ThreadGoes("chn", "watch") /\ chnOn' = TRUE /\ first' = TRUE
     \/ ViFaults /\ ThreadGoes("chn", "ended") /\ UNCHANGED <<chnOn, first>>
  /\ UNCHANGED devOn /\ ThreadKeeps

(* External: an input that is not what the device was opened for may stop   *)
(* its interrupts, or show another frame rate.                              *)
Stalls == ~signal.has_signal \/ signal.mode # viPar.mode
            \/ signal.frame_rate # viPar.frame_rate

(* Mutant: while (true).                                                    *)
WatchIgnoresRun ==
  /\ \/ ThreadGoes("watch", "wait") /\ first' = FALSE
     \/ ~first /\ Stalls /\ ThreadGoes("watch", "off_chn") /\ UNCHANGED first
  /\ UNCHANGED <<devOn, chnOn>> /\ ThreadKeeps

(* while (run_), HI_MPI_VI_Query and the comparison with the last one.      *)
Watch ==
  /\ \/ ~viRun /\ ThreadGoes("watch", "stop_chn") /\ UNCHANGED first
     \/ viRun /\ ThreadGoes("watch", "wait") /\ first' = FALSE
     \/ viRun /\ ~first /\ Stalls /\ ThreadGoes("watch", "off_chn") /\ UNCHANGED first
     \/ viRun /\ ViFaults /\ ThreadGoes("watch", "ended") /\ UNCHANGED first
  /\ UNCHANGED <<devOn, chnOn>> /\ ThreadKeeps

(* Five seconds, or until run_ is cleared. *)
Wait ==
  /\ ThreadGoes("wait", "watch")
  /\ UNCHANGED deviceVars /\ ThreadKeeps

(* The restart: both off, then again. *)
OffChn ==
  /\ \/ ThreadGoes("off_chn", "off_dev") /\ chnOn' = FALSE
     \/ ViFaults /\ ThreadGoes("off_chn", "ended") /\ UNCHANGED chnOn
  /\ UNCHANGED <<first, devOn>> /\ ThreadKeeps

OffDev ==
  /\ \/ ThreadGoes("off_dev", "dev") /\ devOn' = FALSE
     \/ ViFaults /\ ThreadGoes("off_dev", "ended") /\ UNCHANGED devOn
  /\ UNCHANGED <<first, chnOn>> /\ ThreadKeeps

(* Mutant: the thread returns without disabling the channel and the device. *)
StopChnSkipped ==
  /\ ThreadGoes("stop_chn", "ended")
  /\ UNCHANGED deviceVars /\ ThreadKeeps

(* The end of the thread only logs what fails. *)
StopChn ==
  /\ ThreadGoes("stop_chn", "stop_dev")
  /\ \/ chnOn' = FALSE
     \/ ViFaults /\ UNCHANGED chnOn
  /\ UNCHANGED <<first, devOn>> /\ ThreadKeeps

StopDev ==
  /\ ThreadGoes("stop_dev", "ended")
  /\ \/ devOn' = FALSE
     \/ ViFaults /\ UNCHANGED devOn
  /\ UNCHANGED <<first, chnOn>> /\ ThreadKeeps

ViThread ==
  \/ StartDev \/ StartChn \/ Watch \/ Wait
  \/ OffChn \/ OffDev \/ StopChn \/ StopDev

-----------------------------------------------------------------------------
(* VideoInput::Initialize and Close, called from OnChange() and Stop().     *)

ViInitialize(fmt) ==
  IF viInit THEN UNCHANGED <<sessionVars, viPc>>
  ELSE viInit' = TRUE /\ viRun' = TRUE /\ viPar' = fmt /\ viPc' = "dev"

ViCloseBegin == IF viInit THEN viRun' = FALSE ELSE UNCHANGED viRun

ViCloseJoin ==
  IF viInit THEN viPc = "ended" /\ viPc' = "off" /\ viInit' = FALSE
            ELSE UNCHANGED <<viPc, viInit>>

(* Mutant: a lost signal leaves the session open.                           *)
OnChangeCloseForSignal ==
  /\ cb = "close"
  /\ IF cbFmt.has_signal THEN cb' = "join" /\ ViCloseBegin
                         ELSE cb' = "lock" /\ UNCHANGED viRun
  /\ UNCHANGED <<viInit, viPar, viPc, deviceVars, voVars, cbFmt, stop, signal>>

(* OnChange(): close what runs, then open what is there ... *)
OnChangeClose ==
  /\ cb = "close" /\ cb' = "join"
  /\ ViCloseBegin
  /\ UNCHANGED <<viInit, viPar, viPc, deviceVars, voVars, cbFmt, stop, signal>>

(* Mutant: a new signal is opened although the old thread still runs.       *)
OnChangeJoinEarly ==
  /\ cb = "join"
  /\ cb' = IF cbFmt.has_signal THEN "open" ELSE "lock"
  /\ UNCHANGED <<sessionVars, viPc, deviceVars, voVars, cbFmt, stop, signal>>

OnChangeJoin ==
  /\ cb = "join"
  /\ cb' = IF cbFmt.has_signal THEN "open" ELSE "lock"
  /\ ViCloseJoin
  /\ UNCHANGED <<viRun, viPar, deviceVars, voVars, cbFmt, stop, signal>>

OnChangeOpen ==
  /\ cb = "open" /\ cb' = "none" /\ cbFmt' = ZeroFmt
  /\ ViInitialize(cbFmt)
  /\ UNCHANGED <<deviceVars, voVars, stop, signal>>

(* ... or blank the screen, under VIHelper::mux_, which is held exactly     *)
(* while cb is "clear".                                                     *)
OnChangeLock ==
  /\ cb = "lock"
  /\ cb' = IF vo THEN "clear" ELSE "none"
  /\ cbFmt' = ZeroFmt
  /\ UNCHANGED <<sessionVars, viPc, deviceVars, voVars, stop, signal>>

OnChangeCleared ==
  /\ cb = "clear" /\ cb' = "none"
  /\ UNCHANGED <<sessionVars, viPc, deviceVars, voVars, cbFmt, stop, signal>>

OnChange ==
  \/ OnChangeClose \/ OnChangeJoin \/ OnChangeOpen
  \/ OnChangeLock \/ OnChangeCleared

(* VIHelper::Stop(). *)
StopClose ==
  /\ stop = "close" /\ stop' = "join"
  /\ ViCloseBegin
  /\ UNCHANGED <<viInit, viPar, viPc, deviceVars, voVars, cb, cbFmt, signal>>

StopJoin ==
  /\ stop = "join" /\ stop' = "none"
  /\ ViCloseJoin
  /\ UNCHANGED <<viRun, viPar, deviceVars, voVars, cb, cbFmt, signal>>

(* Mutant: without the lock.                                                *)
SetVideoOutputUnlocked(given) == vo' = given

(* VIHelper::SetVideoOutput(), under mux_.                                   *)
SetVideoOutput(given) == cb # "clear" /\ vo' = given

-----------------------------------------------------------------------------
ViTypeOK ==
  /\ viInit \in BOOLEAN /\ viRun \in BOOLEAN /\ viPar \in Fmt
  /\ viPc \in {"off", "dev", "chn", "watch", "wait", "off_chn", "off_dev",
               "stop_chn", "stop_dev", "ended"}
  /\ first \in BOOLEAN /\ devOn \in BOOLEAN /\ chnOn \in BOOLEAN
  /\ vo \in BOOLEAN /\ voOpen \in BOOLEAN
  /\ cb \in {"none", "close", "join", "open", "lock", "clear"}
  /\ cbFmt \in Fmt
  /\ stop \in {"none", "close", "join"}
  /\ signal \in Fmt

(* VideoInput and VideoOutput have no locks.  The methods of VideoInput are *)
(* never entered by two threads, OnChange() never opens a session over one  *)
(* that is still open (Initialize() would return KInitialized, and the      *)
(* change be lost), and it blanks only a screen that main has not closed.   *)
OneCaller ==
  /\ cb # "none" => stop = "none"
  /\ cb = "open" => ~viInit
  /\ cb = "clear" => voOpen

(* A session that has been closed left its device and channel off, so that  *)
(* the next one finds a device that takes its attributes.                   *)
DeviceLeftOff == ~ViFaults /\ viPc = "off" => ~devOn /\ ~chnOn

(* What VideoInput does agrees with format f: closed without a signal, open *)
(* in its mode with one, and capturing if the frame rate is also right.     *)
Captures(f) ==
  IF f.has_signal
  THEN /\ viInit /\ viPar.mode = f.mode
       /\ viPar.frame_rate = f.frame_rate => devOn /\ chnOn
  ELSE ~viInit

-----------------------------------------------------------------------------
(* What VideoInput and VIHelper keep true by themselves, whoever composes    *)
(* them with a detector: the part of both chains' inductive invariants.      *)

(* init_ is set exactly while the thread exists.                            *)
SessionHasThread == viInit <=> viPc # "off"

(* If no HI_MPI_VI call fails, the position of the thread says what is on.  *)
PcTellsDevice ==
  ~ViFaults =>
    /\ devOn <=> viPc \in {"chn", "watch", "wait", "off_chn", "off_dev",
                           "stop_chn", "stop_dev"}
    /\ chnOn <=> viPc \in {"watch", "wait", "off_chn", "stop_chn"}

(* OnChange() runs with the format VIHelper was told of, has closed the old *)
(* session before it opens one, and blanks only a screen that is set.       *)
OnChangeOrder(f) ==
  /\ cb \in {"close", "join", "open", "lock"} => cbFmt = f
  /\ cb = "open" => ~viInit /\ f.has_signal
  /\ cb \in {"lock", "clear"} => ~viInit /\ ~f.has_signal
  /\ cb = "clear" => vo

(* What the session was opened for, as long as nobody is about to change it.*)
Agrees(f) ==
  /\ viInit <=> f.has_signal
  /\ f.has_signal => viPar = f

ViInv == ViTypeOK /\ SessionHasThread /\ PcTellsDevice
=============================================================================
