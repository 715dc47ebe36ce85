------------------------------- MODULE Devices -------------------------------
(***************************************************************************)
(* The classes VideoOutput and VideoProcess, all their methods, in the     *)
(* hands of a client that calls them in any order on several objects, as   *)
(* main() does with one fixed order (Pipeline).  A method is a list of SDK *)
(* calls, made one by one, and any of them may fail: Initialize() and the  *)
(* methods of an open object return then, Close() goes on.  The outputs    *)
(* share the one HDMI transmitter, HdmiDev.                                *)
(***************************************************************************)
EXTENDS Utils, Sequences

CONSTANTS
  Outputs,   \* the VideoOutput objects, each with a device of its own
  Syncs,     \* for each of them, the values intf_sync may have
  Groups,    \* the VideoProcess objects, each with a group of its own
  VoChns,    \* VO_MAX_CHN_NUM
  VpssChns,  \* VPSS_MAX_CHN_NUM
  MaxFaults  \* bound: SDK calls that fail of their own accord

Devs == Outputs \cup Groups
HdmiDev == "hdmi"

ASSUME DevicesAssumption ==
  /\ Outputs \cap Groups = {} /\ HdmiDev \notin Devs
  /\ VoChns \in Nat \ {0} /\ VpssChns \in Nat \ {0} /\ MaxFaults \in Nat

(* Whether intf_type has the HDMI bit, and intf_sync. *)
Params(o) == [hdmi : BOOLEAN, sync : Syncs[o]]
NoParams == [hdmi |-> FALSE, sync |-> "none"]
AllParams == {NoParams} \cup UNION {Params(o) : o \in Outputs}

-----------------------------------------------------------------------------
(* External: the SDK has objects, each part of one of ours or of HdmiDev.   *)

Part(what, no, of) == [what |-> what, no |-> no, of |-> of]
OfHdmi == {Part(w, 0, HdmiDev) : w \in {"init", "open", "link"}}
OfOutput(o) == {Part(w, 0, o) : w \in {"dev", "layer"}}
OfGroup(g) ==
  {Part(w, 0, g) : w \in {"grp", "run"}} \cup {Part("chn", c, g) : c \in 1 .. VpssChns}
OutputChns(o) == {Part("chn", c, o) : c \in 1 .. VoChns}

Parts == UNION ({OfHdmi} \cup {OfOutput(o) \cup OutputChns(o) : o \in Outputs}
                         \cup {OfGroup(g) : g \in Groups})

(* What a part is made on. *)
Base(p) ==
  CASE p.what = "open"  -> {Part("init", 0, p.of)}
    [] p.what = "link"  -> {Part("open", 0, p.of)}
    [] p.what = "layer" -> {Part("dev", 0, p.of)}
    [] p.what = "run"   -> {Part("grp", 0, p.of)}
    [] p.what = "chn"   -> {Part(IF p.of \in Outputs THEN "layer" ELSE "grp", 0, p.of)}
    [] OTHER            -> {}

VARIABLES
  init,    \* the objects whose init_ is set
  params,  \* params_ of each output while it is open
  method,  \* the method that runs, its kind and object; or Idle
  todo,    \* the SDK calls it has still to make
  on,      \* external: the parts that are made or enabled
  \* external: the attributes of a device, a layer and the HDMI link
  pubAttr, layerAttr, hdmiFmt,
  \* history: the objects of which a call failed of its own accord, and those
  \* (or HdmiDev) of which the SDK had to refuse one
  failed, refused,
  faults

attrVars == <<pubAttr, layerAttr, hdmiFmt>>
sdkVars  == <<on, attrVars>>
vars == <<init, params, method, todo, sdkVars, failed, refused, faults>>

Idle == [kind |-> "none", dev |-> HdmiDev]
NoLayer == [size |-> <<0, 0>>, rate |-> 0]

Init ==
  /\ init = {} /\ params = [o \in Outputs |-> NoParams]
  /\ method = Idle /\ todo = <<>> /\ on = {}
  /\ pubAttr = [o \in Outputs |-> "none"]
  /\ layerAttr = [o \in Outputs |-> NoLayer] /\ hdmiFmt = "none"
  /\ failed = {} /\ refused = {} /\ faults = 0

-----------------------------------------------------------------------------
(* The methods, as lists of SDK calls: "on" and "off" of a part, "set" of   *)
(* its attributes, or "use", which changes nothing that is modelled.        *)

On(p) == [do |-> "on", part |-> p]
Off(p) == [do |-> "off", part |-> p]
Set(p) == [do |-> "set", part |-> p]
Use(p) == [do |-> "use", part |-> p]

InitHdmi == Part("init", 0, HdmiDev)
OpenHdmi == Part("open", 0, HdmiDev)
Link == Part("link", 0, HdmiDev)

(* HI_MPI_HDMI_Init, Open, GetAttr, SetAttr and Start. *)
StartHDMI == <<On(InitHdmi), On(OpenHdmi), Use(OpenHdmi), Set(Link), On(Link)>>

StartDevLayer(o) ==
  LET dev == Part("dev", 0, o) layer == Part("layer", 0, o)
  IN  <<Set(dev), On(dev), Set(layer), On(layer)>>

VoInitialize(o, p) == (IF p.hdmi THEN StartHDMI ELSE <<>>) \o StartDevLayer(o)

(* Mutant: the last channel is left out.                                     *)
StopAllChnButLast(o) == [c \in 1 .. VoChns - 1 |-> Off(Part("chn", c, o))]

StopAllChn(o) == [c \in 1 .. VoChns |-> Off(Part("chn", c, o))]

VoClose(o) ==
  StopAllChn(o) \o <<Off(Part("layer", 0, o)), Off(Part("dev", 0, o))>>
    \o (IF params[o].hdmi THEN <<Off(Link), Off(OpenHdmi), Off(InitHdmi)>> ELSE <<>>)

VpssInitialize(g) ==
  <<On(Part("grp", 0, g))>>
    \o [c \in 1 .. VpssChns |-> On(Part("chn", c, g))]
    \o <<On(Part("run", 0, g))>>

VpssClose(g) ==
  <<Off(Part("run", 0, g))>>
    \o [c \in 1 .. VpssChns |-> Off(Part("chn", c, g))]
    \o <<Off(Part("grp", 0, g))>>

(* A method is entered; one of a closed object returns KUnInitialized, and  *)
(* Initialize() of an open one KInitialized: nothing changes.               *)
Call(kind, d, calls) ==
  /\ method = Idle
  /\ method' = [kind |-> kind, dev |-> d] /\ todo' = calls
  /\ UNCHANGED <<init, sdkVars, failed, refused, faults>>

(* The client has at most one output on the transmitter at a time.  (main() *)
(* has none there: every intf_type is 0.)                                   *)
HdmiFree == \A o \in init \cap Outputs : ~params[o].hdmi

(* Mutant: Initialize() does not look at init_.                             *)
OpenOutputAgain(o, p) ==
  /\ p.hdmi => HdmiFree
  /\ params' = [params EXCEPT ![o] = p]
  /\ Call("init", o, VoInitialize(o, p))

OpenOutput(o, p) ==
  /\ o \notin init
  /\ p.hdmi => HdmiFree
  /\ params' = [params EXCEPT ![o] = p]
  /\ Call("init", o, VoInitialize(o, p))

OpenGroup(g) ==
  /\ g \notin init
  /\ Call("init", g, VpssInitialize(g)) /\ UNCHANGED params

Close(d) ==
  /\ d \in init
  /\ Call("close", d, IF d \in Outputs THEN VoClose(d) ELSE VpssClose(d))
  /\ UNCHANGED params

(* StartChannel(): attributes, then enable.  The rectangle is not modelled. *)
StartChannel(o, c) ==
  /\ o \in init
  /\ Call("use", o, <<Use(Part("layer", 0, o)), On(Part("chn", c, o))>>)
  /\ UNCHANGED params

StopChannel(o, c) ==
  /\ o \in init
  /\ Call("use", o, <<Off(Part("chn", c, o))>>) /\ UNCHANGED params

CallStopAllChn(o) ==
  /\ o \in init
  /\ Call("stop", o, StopAllChn(o)) /\ UNCHANGED params

(* SetChannelFrameRate and ClearDispBuffer; StartUserChannel,               *)
(* StopUserChannal and SetFrameRateControl.                                 *)
Tune(d) ==
  /\ d \in init
  /\ Call("use", d, <<Use(Part(IF d \in Outputs THEN "layer" ELSE "grp", 0, d))>>)
  /\ UNCHANGED params

Enter ==
  \/ \E o \in Outputs :
       \/ \E p \in Params(o) : OpenOutput(o, p)
       \/ \E c \in 1 .. VoChns : StartChannel(o, c) \/ StopChannel(o, c)
       \/ CallStopAllChn(o)
  \/ \E g \in Groups : OpenGroup(g)
  \/ \E d \in Devs : Close(d) \/ Tune(d)

-----------------------------------------------------------------------------
(* One SDK call. *)

(* External: a part is made once, on what it needs, takes attributes before *)
(* and goes when nothing needs it.  A channel of an output may be switched  *)
(* on or off again, as StopAllChn() does with all of them.                  *)
Legal(call) ==
  LET p == call.part
      twice == \E o \in Outputs : p \in OutputChns(o)
  IN  CASE call.do = "on"  -> Base(p) \subseteq on /\ (twice \/ p \notin on)
        [] call.do = "off" -> (twice \/ p \in on) /\ \A q \in on : p \notin Base(q)
        [] call.do = "set" -> Base(p) \subseteq on /\ p \notin on
        [] call.do = "use" -> p \in on

(* The attributes that method gives a part. *)
Sync == params[method.dev].sync
SetAttr(p) ==
  CASE p.what = "dev" ->
         pubAttr' = [pubAttr EXCEPT ![p.of] = Sync] /\ UNCHANGED <<layerAttr, hdmiFmt>>
    [] p.what = "layer" ->
         /\ layerAttr' = [layerAttr EXCEPT ![p.of] =
                            [size |-> GetSize(Sync), rate |-> GetFrameRate(Sync)]]
         /\ UNCHANGED <<pubAttr, hdmiFmt>>
    [] p.what = "link" ->
         hdmiFmt' = GetHDMIFmt(Sync) /\ UNCHANGED <<pubAttr, layerAttr>>

(* External: what has been switched off has lost its attributes.            *)
ForgetAttr(p) ==
  /\ pubAttr' = [o \in Outputs |-> IF p = Part("dev", 0, o) THEN "none" ELSE pubAttr[o]]
  /\ layerAttr' = [o \in Outputs |-> IF p = Part("layer", 0, o) THEN NoLayer
                                                               ELSE layerAttr[o]]
  /\ hdmiFmt' = IF p = Link THEN "none" ELSE hdmiFmt

CallSucceeds ==
  /\ todo # <<>> /\ Legal(Head(todo))
  /\ LET call == Head(todo)
     IN  /\ on' = CASE call.do = "on"  -> on \cup {call.part}
                    [] call.do = "off" -> on \ {call.part}
                    [] OTHER           -> on
         /\ CASE call.do = "set" -> SetAttr(call.part)
              [] call.do = "off" -> ForgetAttr(call.part)
              [] OTHER           -> UNCHANGED attrVars
  /\ todo' = Tail(todo)
  /\ UNCHANGED <<init, params, method, failed, refused, faults>>

(* Mutant: Initialize() does not look at the results.                       *)
GoesOnInInit == method.kind \in {"init", "close", "stop"}

(* What fails ends the method, but not Close() and StopAllChn(). *)
GoesOn == method.kind \in {"close", "stop"}

CallFails ==
  /\ todo # <<>>
  /\ IF Legal(Head(todo))
     THEN /\ faults < MaxFaults /\ faults' = faults + 1
          /\ failed' = failed \cup {method.dev} /\ UNCHANGED refused
     ELSE /\ refused' = refused \cup {Head(todo).part.of}
          /\ UNCHANGED <<failed, faults>>
  /\ todo' = IF GoesOn THEN Tail(todo) ELSE <<>>
  /\ method' = IF GoesOn THEN method ELSE [method EXCEPT !.kind = "use"]
  /\ UNCHANGED <<init, params, sdkVars>>

Return ==
  /\ method # Idle /\ todo = <<>>
  /\ init' = CASE method.kind = "init"  -> init \cup {method.dev}
               [] method.kind = "close" -> init \ {method.dev}
               [] OTHER                 -> init
  /\ params' = [o \in Outputs |-> IF o \in init' THEN params[o] ELSE NoParams]
  /\ method' = Idle
  /\ UNCHANGED <<todo, sdkVars, failed, refused, faults>>

Next == Enter \/ CallSucceeds \/ CallFails \/ Return

Spec == Init /\ [][Next]_vars

-----------------------------------------------------------------------------
TypeOK ==
  /\ init \subseteq Devs
  /\ params \in [Outputs -> AllParams]
  /\ method \in [kind : {"init", "close", "use", "stop"}, dev : Devs] \cup {Idle}
  /\ todo \in Seq([do : {"on", "off", "set", "use"}, part : Parts])
  /\ on \subseteq Parts
  /\ failed \subseteq Devs /\ refused \subseteq Devs \cup {HdmiDev}
  /\ faults \in 0 .. MaxFaults

(* An object that is open and not being closed is whole, whatever has       *)
(* failed before, on it or on the others: Initialize() that found leftovers *)
(* of an earlier failure in its way did not succeed, and nobody else's      *)
(* Close() took the transmitter from it.  The HDMI format, the device and   *)
(* the layer show the same picture.                                         *)
OpenIsWhole ==
  \A d \in init : method # [kind |-> "close", dev |-> d] =>
    IF d \in Groups THEN OfGroup(d) \subseteq on
    ELSE /\ OfOutput(d) \subseteq on
         /\ pubAttr[d] = params[d].sync
         /\ Fills(layerAttr[d], params[d].sync)
         /\ params[d].hdmi => OfHdmi \subseteq on /\ Fills(layerAttr[d], hdmiFmt)

(* Close() undoes all that Initialize() and StartChannel() did, in an order *)
(* the SDK accepts: of a closed object of which no call has failed nothing  *)
(* is left, and with no failure at all nothing of the transmitter that no   *)
(* open output uses.                                                        *)
ClosedIsGone ==
  method = Idle =>
    /\ \A d \in Devs \ (init \cup failed) : \A p \in on : p.of # d
    /\ failed = {} /\ HdmiFree => on \cap OfHdmi = {}

(* No order of calls makes the SDK refuse one, before something has failed  *)
(* by itself: of the object, or, for the transmitter, of any.               *)
RefusedOnlyAfterFailure ==
  /\ refused \ {HdmiDev} \subseteq failed
  /\ failed = {} => refused = {}
=============================================================================
