------------------------------ MODULE Pipeline ------------------------------
(***************************************************************************)
(* How main() builds the video pipeline of its chip, one chain per input   *)
(* (VPSS group, video output, encoder, and the bindings between them), and *)
(* takes it down.  main() looks at no result; the classes return at the    *)
(* first SDK call that fails, and a Close() of what is not initialised     *)
(* does nothing.  The SDK keeps its state when the process dies.           *)
(***************************************************************************)
EXTENDS Integers, Sequences, FiniteSets

CONSTANTS
  Chains,     \* the chains, in the order main() starts them
  MaxFaults,  \* bound: SDK calls that fail of their own accord
  MaxLives    \* bound: times the program is started

ChainSet == {Chains[i] : i \in DOMAIN Chains}

ASSUME PipelineAssumption ==
  /\ Chains \in Seq(STRING) /\ Len(Chains) > 0 /\ "mpp" \notin ChainSet
  /\ \A i, j \in DOMAIN Chains : i # j => Chains[i] # Chains[j]
  /\ MaxFaults \in Nat /\ MaxLives \in Nat \ {0}

-----------------------------------------------------------------------------
(* The calls.                                                                *)

(* Initialize() of each class, by the SDK objects its calls make.           *)
VpssInitialize == <<"vpss_grp", "vpss_chns", "vpss_run">>
StartDevLayer == <<"vo_dev", "vo_layer">>
VencInitialize == <<"venc_grp", "venc_chn", "venc_reg", "venc_cnt">>
StartChannel == "vo_chn"

Create == [vpss |-> VpssInitialize, vo |-> StartDevLayer, venc |-> VencInitialize]

(* Mutant: the encoder's group is not destroyed.                            *)
VencCloseKeepsGroup == <<"venc_reg", "venc_chn">>

(* Close() of each class. *)
VencClose == <<"venc_reg", "venc_chn", "venc_grp">>
VpssClose == <<"vpss_run", "vpss_chns", "vpss_grp">>
StopAllChn == <<StartChannel>>
VoClose == StopAllChn \o <<"vo_layer", "vo_dev">>

Destroy == [vpss |-> VpssClose, vo |-> VoClose, venc |-> VencClose]

ConfigVB == <<"vb">>
ConfigSys == <<"sys">>
ConfigMem == <<"mem">>

(* Mutant: MPPSystem::Initialize() takes the SDK to be as after power-on.   *)
MppInitializeAfresh == ConfigVB \o ConfigSys \o ConfigMem

MppInitialize == <<"exit_sys", "exit_vb">> \o ConfigVB \o ConfigSys \o ConfigMem

(* Mutant: the buffers go before the system that uses them.                 *)
MppCloseSwapped == <<"exit_vb", "exit_sys">>

MppClose == <<"exit_sys", "exit_vb">>

(* main(): each step for every chain, the teardown in reverse order.        *)
Each(kind, obj) ==
  [i \in DOMAIN Chains |-> [kind |-> kind, obj |-> obj, chain |-> Chains[i]]]
EachBack(kind, obj) ==
  [i \in DOMAIN Chains |-> Each(kind, obj)[Len(Chains) + 1 - i]]
Whole(kind, obj) == <<[kind |-> kind, obj |-> obj, chain |-> "mpp"]>>

StartVo ==
  [i \in 1 .. 2 * Len(Chains) |->
     IF i % 2 = 1 THEN Each("init", "vo")[(i + 1) \div 2]
                  ELSE Each("start", StartChannel)[i \div 2]]

(* Mutant: the bindings are made before the encoders.                       *)
StartupBindsFirst ==
  Whole("mpp_init", "mpp")
    \o Each("init", "vpss") \o StartVo
    \o Each("start", "bind_vi") \o Each("start", "bind_vo") \o Each("start", "bind_venc")
    \o Each("init", "venc")

Startup ==
  Whole("mpp_init", "mpp")
    \o Each("init", "vpss") \o StartVo \o Each("init", "venc")
    \o Each("start", "bind_vi") \o Each("start", "bind_vo") \o Each("start", "bind_venc")

Teardown ==
  Whole("trans_close", "trans")
    \o EachBack("stop", "bind_venc") \o EachBack("stop", "bind_vo")
    \o EachBack("stop", "bind_vi")
    \o EachBack("close", "venc") \o EachBack("close", "vo") \o EachBack("close", "vpss")
    \o Whole("mpp_close", "mpp")

Program == Startup \o Whole("loop", "main") \o Teardown \o Whole("gone", "main")

-----------------------------------------------------------------------------
(* External: the SDK.  An object needs others; it is made once, and not     *)
(* destroyed while something needs it.  HI_MPI_SYS_Exit destroys whatever   *)
(* there is.                                                                *)

Needs == [vpss_grp |-> {}, vpss_chns |-> {"vpss_grp"}, vpss_run |-> {"vpss_grp"},
          vo_dev |-> {}, vo_layer |-> {"vo_dev"}, vo_chn |-> {"vo_layer"},
          venc_grp |-> {}, venc_chn |-> {}, venc_reg |-> {"venc_grp", "venc_chn"},
          venc_cnt |-> {},
          bind_vi |-> {"vpss_grp"}, bind_vo |-> {"vpss_grp", "vo_chn"},
          bind_venc |-> {"vo_dev", "venc_grp"},
          recv |-> {"venc_reg"}]
ChainObjects == DOMAIN Needs
MppObjects == {"vb", "sys", "mem"}

(* What the SDK has, as pairs of object and chain. *)
Requires(r) ==
  CASE r[1] = "vb"  -> {}
    [] r[1] = "sys" -> {<<"vb", "mpp">>}
    [] r[1] = "mem" -> {<<"sys", "mpp">>}
    [] OTHER -> {<<q, r[2]>> : q \in Needs[r[1]]} \cup {<<"sys", "mpp">>}

VARIABLES
  at, k,     \* the step of Program main is in, and its SDK call
  inits,     \* <<class, chain>> whose init_ is set; <<"mpp", "mpp">> likewise
  trans,     \* the transport: "off", "on", or "dead" when its thread returned
  have,      \* external: the objects the SDK has
  \* history of this life: the chains of which an SDK call failed of its own
  \* accord, and of which the SDK had to refuse a call
  faulted, refused,
  faults, lives

vars == <<at, k, inits, trans, have, faulted, refused, faults, lives>>

Init ==
  /\ at = 1 /\ k = 1 /\ inits = {} /\ trans = "off" /\ have = {}
  /\ faulted = {} /\ refused = {} /\ faults = 0 /\ lives = 1

-----------------------------------------------------------------------------
Step == Program[at]
Owner == <<Step.obj, Step.chain>>

Calls(step) ==
  CASE step.kind = "init"      -> Create[step.obj]
    [] step.kind = "close"     -> Destroy[step.obj]
    [] step.kind = "mpp_init"  -> MppInitialize
    [] step.kind = "mpp_close" -> MppClose
    [] OTHER                   -> <<step.obj>>
LastCall == k = Len(Calls(Step))
Object == <<Calls(Step)[k], Step.chain>>

(* Mutant: the next step starts where the last one ended.                   *)
NextStepKeepsCall == at' = at + 1 /\ UNCHANGED k

NextStep == at' = at + 1 /\ k' = 1
NextCall == IF LastCall THEN NextStep ELSE at' = at /\ k' = k + 1

(* External: a call fails, of its own accord or because it must.            *)
Fails(legal) ==
  IF legal
  THEN /\ faults < MaxFaults /\ faults' = faults + 1
       /\ faulted' = faulted \cup IF Step.chain = "mpp" THEN ChainSet \cup {"mpp"}
                                                        ELSE {Step.chain}
       /\ UNCHANGED refused
  ELSE refused' = refused \cup {Step.chain} /\ UNCHANGED <<faulted, faults>>
Succeeds == UNCHANGED <<faulted, refused, faults>>

CanCreate(r) == r \notin have /\ Requires(r) \subseteq have
CanDestroy(r) == r \in have /\ \A q \in have : r \notin Requires(q)

(* Initialize(), StartChannel() and Bind(): the guard on init_, the calls   *)
(* in turn, an early return.                                                *)
Guarded ==
  CASE Step.kind = "init" -> Owner \in inits
    [] Step.kind = "start" /\ Step.obj = StartChannel -> <<"vo", Step.chain>> \notin inits
    [] Step.kind = "close" -> Owner \notin inits
    [] OTHER -> FALSE

Skip ==
  /\ Step.kind \in {"init", "start", "close"} /\ Guarded
  /\ NextStep
  /\ UNCHANGED <<inits, trans, have, faulted, refused, faults, lives>>

CreateCall ==
  /\ Step.kind \in {"init", "start"} /\ ~Guarded
  /\ \/ /\ CanCreate(Object) /\ Succeeds
        /\ have' = have \cup {Object}
        /\ NextCall
        /\ inits' = IF Step.kind = "init" /\ LastCall THEN inits \cup {Owner} ELSE inits
     \/ Fails(CanCreate(Object)) /\ NextStep /\ UNCHANGED <<inits, have>>
  /\ UNCHANGED <<trans, lives>>

(* Close() and UnBind(): what fails is logged, and the next call made.      *)
DestroyCall ==
  /\ Step.kind \in {"close", "stop"} /\ ~Guarded
  /\ \/ /\ CanDestroy(Object) /\ Succeeds
        /\ have' = have \ ({Object} \cup IF Object[1] = "venc_chn"
                                         THEN {<<"venc_cnt", Step.chain>>} ELSE {})
     \/ Fails(CanDestroy(Object)) /\ UNCHANGED have
  /\ NextCall
  /\ inits' = IF Step.kind = "close" /\ LastCall THEN inits \ {Owner} ELSE inits
  /\ UNCHANGED <<trans, lives>>

(* MPPSystem::Initialize() clears away what an earlier process left, and    *)
(* returns when a call fails; Close() goes on.                              *)
MppLegal ==
  CASE Object[1] = "exit_sys" -> TRUE
    [] Object[1] = "exit_vb"  -> <<"sys", "mpp">> \notin have
    [] OTHER                  -> CanCreate(Object)
MppEffect ==
  CASE Object[1] = "exit_sys" -> have \cap {<<"vb", "mpp">>}
    [] Object[1] = "exit_vb"  -> have \ {<<"vb", "mpp">>}
    [] OTHER                  -> have \cup {Object}

MppInitCall ==
  /\ Step.kind = "mpp_init"
  /\ \/ /\ MppLegal /\ Succeeds /\ have' = MppEffect /\ NextCall
        /\ inits' = IF LastCall THEN inits \cup {Owner} ELSE inits
     \/ Fails(MppLegal) /\ NextStep /\ UNCHANGED <<inits, have>>
  /\ UNCHANGED <<trans, lives>>

MppCloseCall ==
  /\ Step.kind = "mpp_close"
  /\ IF Owner \in inits
     THEN /\ \/ MppLegal /\ Succeeds /\ have' = MppEffect
             \/ Fails(MppLegal) /\ UNCHANGED have
          /\ NextCall
          /\ inits' = IF LastCall THEN inits \ {Owner} ELSE inits
     ELSE NextStep /\ UNCHANGED <<inits, have, faulted, refused, faults>>
  /\ UNCHANGED <<trans, lives>>

-----------------------------------------------------------------------------
(* The transport's thread starts the encoders one by one, and stops them    *)
(* when its loop ends, but not when it returns on an error.                 *)

Recv(c) == <<"recv", c>>

StartTrans ==
  /\ Step.kind = "loop" /\ trans = "off"
  /\ \E n \in 0 .. Len(Chains) :
       /\ have' = have \cup {Recv(Chains[i]) : i \in
                     {j \in 1 .. n : <<"venc_reg", Chains[j]>> \in have}}
       /\ IF n = Len(Chains)
          THEN trans' = "on" /\ UNCHANGED <<faulted, faults>>
          ELSE /\ faults < MaxFaults /\ faults' = faults + 1
               /\ trans' = "dead" /\ faulted' = faulted \cup ChainSet
  /\ UNCHANGED <<at, k, inits, refused, lives>>

TransDies ==
  /\ trans = "on" /\ trans' = "dead"
  /\ faults < MaxFaults /\ faults' = faults + 1
  /\ faulted' = faulted \cup ChainSet
  /\ UNCHANGED <<at, k, inits, have, refused, lives>>

CloseTrans ==
  /\ trans' = "off"
  /\ have' = IF trans = "on" THEN have \ {Recv(c) : c \in ChainSet} ELSE have

StopTrans ==
  /\ Step.kind = "loop" /\ trans # "off"
  /\ CloseTrans
  /\ UNCHANGED <<at, k, inits, faulted, refused, faults, lives>>

Leave ==
  /\ Step.kind = "loop" /\ NextStep
  /\ UNCHANGED <<inits, trans, have, faulted, refused, faults, lives>>

LastCloseTrans ==
  /\ Step.kind = "trans_close"
  /\ CloseTrans /\ NextStep
  /\ UNCHANGED <<inits, faulted, refused, faults, lives>>

(* The process ends, or dies at any point, and is started again.            *)
Restart ==
  /\ lives < MaxLives /\ lives' = lives + 1
  /\ at' = 1 /\ k' = 1 /\ inits' = {} /\ trans' = "off"
  /\ faulted' = {} /\ refused' = {}
  /\ UNCHANGED <<have, faults>>

Exited == Step.kind = "gone" /\ UNCHANGED vars

Next ==
  \/ Skip \/ CreateCall \/ DestroyCall \/ MppInitCall \/ MppCloseCall
  \/ StartTrans \/ TransDies \/ StopTrans \/ Leave \/ LastCloseTrans
  \/ Restart \/ Exited

Spec == Init /\ [][Next]_vars

-----------------------------------------------------------------------------
TypeOK ==
  /\ at \in 1 .. Len(Program) /\ k \in 1 .. Len(Calls(Step))
  /\ inits \subseteq ({"vpss", "vo", "venc"} \X ChainSet) \cup {<<"mpp", "mpp">>}
  /\ trans \in {"off", "on", "dead"}
  /\ have \subseteq (ChainObjects \X ChainSet) \cup (MppObjects \X {"mpp"})
  /\ faulted \subseteq ChainSet \cup {"mpp"} /\ refused \subseteq ChainSet \cup {"mpp"}
  /\ faults \in 0 .. MaxFaults /\ lives \in 1 .. MaxLives

(* The order in which main() makes and destroys is right, whatever state an *)
(* earlier process left the SDK in: it only ever refuses a call because of  *)
(* an earlier failure in the same chain (or of MPPSystem).  A transport     *)
(* thread that has returned counts as a failure of every chain: it may have *)
(* left their encoders receiving, and those cannot be unregistered.         *)
NeverRefused == refused \subseteq faulted

(* A failure stays in its chain: in the message loop every chain of which   *)
(* no call failed is complete and bound.  Of the transport thread's return  *)
(* on an error, see NeverRefused.                                           *)
CompleteInLoop ==
  Step.kind = "loop" =>
    \A c \in ChainSet \ faulted : (ChainObjects \ {"recv"}) \X {c} \subseteq have

(* Before the system goes, the chains without failures have been taken down *)
(* to the last object, by their own Close() and UnBind(); after the death   *)
(* of the transport thread, which counts for every chain, none is promised. *)
CleanBeforeExit ==
  Step.kind = "mpp_close" /\ k = 1 =>
    \A c \in ChainSet \ faulted : \A r \in have : r[2] # c

(* What half-finished Initialize()s left behind goes with the system.       *)
NothingLeft ==
  Step.kind = "gone" => have = {} \/ "mpp" \in faulted
=============================================================================
