--------------------------- MODULE DevicesProofs ---------------------------
(***************************************************************************)
(* Devices, for every set of outputs and groups, every number of channels  *)
(* and every bound on the failures: its types, and that what is open is    *)
(* whole, what is closed is gone, and that the SDK refuses nothing before  *)
(* something has failed.                                                   *)
(***************************************************************************)
EXTENDS Devices, TLAPS

Calls == [do : {"on", "off", "set", "use"}, part : Parts]

(* The types, and that between two methods no call is waiting.              *)
Typed == TypeOK /\ (method = Idle => todo = <<>>)

-----------------------------------------------------------------------------
(* The invariant.                                                           *)

(* Call c is still to be made. *)
Waits(s, c) == \E i \in DOMAIN s : s[i] = c

(* Whether d is an output on the transmitter, and what Initialize() makes.  *)
Hdmi(d) == d \in Outputs /\ params[d].hdmi
WholeOf(d, hdmi) ==
  IF d \in Groups THEN OfGroup(d) ELSE OfOutput(d) \cup (IF hdmi THEN OfHdmi ELSE {})
Whole(d) == WholeOf(d, Hdmi(d))

(* What runs on which object.  An Initialize() that is given up goes on as  *)
(* an empty "use" of an object that is not open, and only after a failure.  *)
Entered ==
  /\ method.kind = "init" => method.dev \notin init
  /\ method.kind \in {"close", "stop"} => method.dev \in init
  /\ method.kind = "use" => method.dev \in init \/ (todo = <<>> /\ failed # {})

(* One output at a time is on the transmitter. *)
OneOnHdmi ==
  /\ \A o \in Outputs : Hdmi(o) => o \in init \/ o = method.dev
  /\ \A o, r \in Outputs : Hdmi(o) /\ Hdmi(r) => o = r

(* The calls of a method of kind on d are about the parts of d and, while   *)
(* it has it, of the transmitter.                                           *)
Fits(c, kind, d, hdmi) ==
  /\ c.part.of = d \/ (c.part.of = HdmiDev /\ hdmi /\ kind \in {"init", "close"})
  /\ kind = "init" => c.do # "off"
  /\ kind \in {"close", "stop"} => c.do = "off"
  /\ kind \in {"use", "stop"} =>
       c.do = "use" \/ (c.part.what = "chn" /\ c.part.of \in Outputs)
  /\ c.do = "set" => c.part.what \in {"dev", "layer", "link"}

(* No method makes and destroys, and Initialize() begins with HDMI. *)
OneWay(s) == \A i, j \in DOMAIN s : ~(s[i].do = "on" /\ s[j].do = "off")
HdmiFirst(s) ==
  \A i, j \in DOMAIN s : i < j /\ s[j].part.of = HdmiDev => s[i].part.of = HdmiDev

CallsFit ==
  /\ \A i \in DOMAIN todo : Fits(todo[i], method.kind, method.dev, Hdmi(method.dev))
  /\ OneWay(todo)
  /\ method.kind = "init" => HdmiFirst(todo)

(* The attributes are those of intf_sync. *)
Attributes == /\ pubAttr = [o \in Outputs |-> pubAttr[o]]
              /\ layerAttr = [o \in Outputs |-> layerAttr[o]]
LayerOf(sync) == [size |-> GetSize(sync), rate |-> GetFrameRate(sync)]
DevSet(d) == pubAttr[d] = params[d].sync
LayerSet(d) == layerAttr[d] = LayerOf(params[d].sync)
LinkSet(d) == Hdmi(d) => hdmiFmt = GetHDMIFmt(params[d].sync)

(* What Initialize() has not made yet, it will. *)
Opening ==
  method.kind = "init" =>
    LET d == method.dev
    IN  /\ \A p \in Whole(d) : p \in on \/ Waits(todo, On(p))
        /\ d \in Outputs =>
             /\ params[d] \in Params(d)
             /\ DevSet(d) \/ Waits(todo, Set(Part("dev", 0, d)))
             /\ LayerSet(d) \/ Waits(todo, Set(Part("layer", 0, d)))
             /\ LinkSet(d) \/ Waits(todo, Set(Link))

(* What it made stays until Close(). *)
StaysWhole ==
  \A d \in init : method # [kind |-> "close", dev |-> d] =>
    /\ Whole(d) \subseteq on
    /\ d \in Outputs => params[d] \in Params(d) /\ DevSet(d) /\ LayerSet(d) /\ LinkSet(d)

(* What Close() has not destroyed yet, it will, if nothing fails. *)
Closing ==
  method.kind = "close" =>
    \A p \in on :
      (IF p.of = HdmiDev THEN Hdmi(method.dev) /\ failed = {}
                         ELSE p.of = method.dev /\ method.dev \notin failed)
        => Waits(todo, Off(p))

(* What is on belongs to somebody who is open, or opens and has come past   *)
(* the transmitter, where leftovers of another output may stop it.          *)
Clean ==
  /\ \A p \in on : p.of # HdmiDev /\ p.of \notin failed =>
       \/ p.of \in init
       \/ /\ method = [kind |-> "init", dev |-> p.of]
          /\ \A i \in DOMAIN todo : todo[i].part.of # HdmiDev
  /\ failed = {} => \A p \in on : p.of = HdmiDev => \E o \in Outputs : Hdmi(o)

(* Part p is on when call i of s is made, if it all begins in S and nothing *)
(* fails; and the SDK then takes that call.                                 *)
OnAt(s, i, p, S) ==
  \/ p \in S /\ \A j \in 1 .. i - 1 : s[j] # Off(p)
  \/ \E j \in 1 .. i - 1 : s[j] = On(p)
Twice(p) == p.what = "chn" /\ p.of \in Outputs
LegalAt(s, i, S) ==
  LET p == s[i].part
  IN  /\ s[i].do \in {"on", "set"} => \A b \in Base(p) : OnAt(s, i, b, S)
      /\ s[i].do = "on" => Twice(p) \/ ~OnAt(s, i, p, S)
      /\ s[i].do = "set" => ~OnAt(s, i, p, S)
      /\ s[i].do = "use" => OnAt(s, i, p, S)
      /\ s[i].do = "off" =>
           /\ Twice(p) \/ OnAt(s, i, p, S)
           /\ \A q \in Parts : OnAt(s, i, q, S) => p \notin Base(q)

(* All the calls of an object that has not failed will be taken; those on   *)
(* the transmitter, if no object has failed.                                *)
Sound(c) == IF c.part.of = HdmiDev THEN failed = {} ELSE method.dev \notin failed
Accepted == \A i \in DOMAIN todo : Sound(todo[i]) => LegalAt(todo, i, on)

IInv ==
  /\ Typed /\ Entered /\ OneOnHdmi /\ CallsFit /\ Opening /\ StaysWhole /\ Closing
  /\ Clean /\ Accepted /\ RefusedOnlyAfterFailure /\ Attributes

(* What the parts are. *)
LEMMA PartsAre ==
  ASSUME NEW p
  PROVE  p \in Parts <=>
           \/ p \in OfHdmi
           \/ \E o \in Outputs : p \in OfOutput(o) \cup OutputChns(o)
           \/ \E g \in Groups : p \in OfGroup(g)
BY Zenon DEF Parts

(* The parts the methods name are parts. *)
LEMMA PartsOf ==
  /\ \A w \in {"init", "open", "link"} : Part(w, 0, HdmiDev) \in Parts
  /\ \A o \in Outputs :
       /\ Part("dev", 0, o) \in Parts /\ Part("layer", 0, o) \in Parts
       /\ \A c \in 1 .. VoChns : Part("chn", c, o) \in Parts
  /\ \A g \in Groups :
       /\ Part("grp", 0, g) \in Parts /\ Part("run", 0, g) \in Parts
       /\ \A c \in 1 .. VpssChns : Part("chn", c, g) \in Parts
<1>1. \A w \in {"init", "open", "link"} : Part(w, 0, HdmiDev) \in OfHdmi
  BY DEF OfHdmi
<1>2. ASSUME NEW o \in Outputs
      PROVE  /\ Part("dev", 0, o) \in OfOutput(o) /\ Part("layer", 0, o) \in OfOutput(o)
             /\ \A c \in 1 .. VoChns : Part("chn", c, o) \in OutputChns(o)
  BY DEF OfOutput, OutputChns
<1>3. ASSUME NEW g \in Groups
      PROVE  /\ Part("grp", 0, g) \in OfGroup(g) /\ Part("run", 0, g) \in OfGroup(g)
             /\ \A c \in 1 .. VpssChns : Part("chn", c, g) \in OfGroup(g)
  BY DEF OfGroup
<1>4. \A w \in {"init", "open", "link"} : Part(w, 0, HdmiDev) \in Parts
  BY <1>1, PartsAre
<1>5. ASSUME NEW o \in Outputs
      PROVE  /\ Part("dev", 0, o) \in Parts /\ Part("layer", 0, o) \in Parts
             /\ \A c \in 1 .. VoChns : Part("chn", c, o) \in Parts
  BY <1>2, PartsAre
<1>6. ASSUME NEW g \in Groups
      PROVE  /\ Part("grp", 0, g) \in Parts /\ Part("run", 0, g) \in Parts
             /\ \A c \in 1 .. VpssChns : Part("chn", c, g) \in Parts
  BY <1>3, PartsAre
<1> QED BY <1>4, <1>5, <1>6

(* Every part belongs to one of the objects or to the transmitter. *)
LEMMA OwnerOf == \A p \in Parts : p.of \in Devs \cup {HdmiDev}
<1>1. \A p \in OfHdmi : p.of = HdmiDev
  BY DEF OfHdmi, Part
<1>2. ASSUME NEW o \in Outputs PROVE \A p \in OfOutput(o) \cup OutputChns(o) : p.of = o
  BY DEF OfOutput, OutputChns, Part
<1>3. ASSUME NEW g \in Groups PROVE \A p \in OfGroup(g) : p.of = g
  BY DEF OfGroup, Part
<1> SUFFICES ASSUME NEW p \in Parts PROVE p.of \in Devs \cup {HdmiDev}
  OBVIOUS
<1>4. CASE p \in OfHdmi
  BY <1>1, <1>4
<1>5. CASE \E o \in Outputs : p \in OfOutput(o) \cup OutputChns(o)
  BY <1>2, <1>5 DEF Devs
<1>6. CASE \E g \in Groups : p \in OfGroup(g)
  BY <1>3, <1>6 DEF Devs
<1> QED BY <1>4, <1>5, <1>6, PartsAre

(* A method is a list of calls. *)
LEMMA MethodsAreCalls ==
  /\ \A o \in Outputs :
       /\ \A p \in Params(o) : VoInitialize(o, p) \in Seq(Calls)
       /\ VoClose(o) \in Seq(Calls) /\ StopAllChn(o) \in Seq(Calls)
       /\ \A c \in 1 .. VoChns :
            /\ <<Use(Part("layer", 0, o)), On(Part("chn", c, o))>> \in Seq(Calls)
            /\ <<Off(Part("chn", c, o))>> \in Seq(Calls)
       /\ <<Use(Part("layer", 0, o))>> \in Seq(Calls)
  /\ \A g \in Groups :
       /\ VpssInitialize(g) \in Seq(Calls) /\ VpssClose(g) \in Seq(Calls)
       /\ <<Use(Part("grp", 0, g))>> \in Seq(Calls)
<1>1. ASSUME NEW p \in Parts
      PROVE  On(p) \in Calls /\ Off(p) \in Calls /\ Set(p) \in Calls /\ Use(p) \in Calls
  BY DEF Calls, On, Off, Set, Use
<1>2. ASSUME NEW a \in Calls PROVE <<a>> \in Seq(Calls)
  OBVIOUS
<1>3. ASSUME NEW s \in Seq(Calls), NEW t \in Seq(Calls) PROVE s \o t \in Seq(Calls)
  OBVIOUS
<1>4. <<>> \in Seq(Calls)
  OBVIOUS
<1>5. InitHdmi \in Parts /\ OpenHdmi \in Parts /\ Link \in Parts
  BY PartsOf DEF InitHdmi, OpenHdmi, Link
<1>6. StartHDMI \in Seq(Calls)
  <2>1. /\ On(InitHdmi) \in Calls /\ On(OpenHdmi) \in Calls /\ Use(OpenHdmi) \in Calls
        /\ Set(Link) \in Calls /\ On(Link) \in Calls
    BY <1>1, <1>5
  <2> QED BY <2>1 DEF StartHDMI
<1>7. ASSUME NEW o \in Outputs
      PROVE  /\ \A p \in Params(o) : VoInitialize(o, p) \in Seq(Calls)
             /\ VoClose(o) \in Seq(Calls) /\ StopAllChn(o) \in Seq(Calls)
             /\ \A c \in 1 .. VoChns :
                  /\ <<Use(Part("layer", 0, o)), On(Part("chn", c, o))>> \in Seq(Calls)
                  /\ <<Off(Part("chn", c, o))>> \in Seq(Calls)
             /\ <<Use(Part("layer", 0, o))>> \in Seq(Calls)
  <2> DEFINE dev == Part("dev", 0, o)
             layer == Part("layer", 0, o)
             chn(c) == Part("chn", c, o)
  <2>1. dev \in Parts /\ layer \in Parts /\ \A c \in 1 .. VoChns : chn(c) \in Parts
    BY PartsOf
  <2>2. StartDevLayer(o) \in Seq(Calls)
    <3>1. Set(dev) \in Calls /\ On(dev) \in Calls /\ Set(layer) \in Calls /\ On(layer) \in Calls
      BY <1>1, <2>1
    <3> QED BY <3>1 DEF StartDevLayer
  <2>3. \A p \in Params(o) : VoInitialize(o, p) \in Seq(Calls)
    BY <1>3, <1>4, <1>6, <2>2 DEF VoInitialize
  <2>4. StopAllChn(o) \in Seq(Calls)
    <3>1. \A c \in 1 .. VoChns : Off(Part("chn", c, o)) \in Calls
      BY <1>1, <2>1
    <3> QED BY <3>1, DevicesAssumption DEF StopAllChn
  <2>5. VoClose(o) \in Seq(Calls)
    <3>1. /\ Off(layer) \in Calls /\ Off(dev) \in Calls
          /\ Off(Link) \in Calls /\ Off(OpenHdmi) \in Calls /\ Off(InitHdmi) \in Calls
      BY <1>1, <1>5, <2>1
    <3>2. /\ <<Off(layer), Off(dev)>> \in Seq(Calls)
          /\ <<Off(Link), Off(OpenHdmi), Off(InitHdmi)>> \in Seq(Calls)
      BY <3>1
    <3> DEFINE tail == IF params[o].hdmi THEN <<Off(Link), Off(OpenHdmi), Off(InitHdmi)>>
                                         ELSE <<>>
    <3>3. tail \in Seq(Calls)
      BY <1>4, <3>2
    <3>4. (StopAllChn(o) \o <<Off(layer), Off(dev)>>) \o tail \in Seq(Calls)
      BY <1>3, <2>4, <3>2, <3>3
    <3> QED BY <3>4 DEF VoClose
  <2>6. ASSUME NEW c \in 1 .. VoChns
        PROVE  /\ <<Use(layer), On(chn(c))>> \in Seq(Calls)
               /\ <<Off(chn(c))>> \in Seq(Calls)
    <3>1. Use(layer) \in Calls /\ On(chn(c)) \in Calls /\ Off(chn(c)) \in Calls
      BY <1>1, <2>1
    <3> QED BY <3>1
  <2>7. <<Use(layer)>> \in Seq(Calls)
    BY <1>1, <1>2, <2>1
  <2> QED BY <2>3, <2>4, <2>5, <2>6, <2>7
<1>8. ASSUME NEW g \in Groups
      PROVE  /\ VpssInitialize(g) \in Seq(Calls) /\ VpssClose(g) \in Seq(Calls)
             /\ <<Use(Part("grp", 0, g))>> \in Seq(Calls)
  <2> DEFINE grp == Part("grp", 0, g)
             run == Part("run", 0, g)
             ons == [c \in 1 .. VpssChns |-> On(Part("chn", c, g))]
             offs == [c \in 1 .. VpssChns |-> Off(Part("chn", c, g))]
  <2>1. grp \in Parts /\ run \in Parts /\ \A c \in 1 .. VpssChns : Part("chn", c, g) \in Parts
    BY PartsOf
  <2>2. \A c \in 1 .. VpssChns :
          On(Part("chn", c, g)) \in Calls /\ Off(Part("chn", c, g)) \in Calls
    BY <1>1, <2>1
  <2>3. ons \in Seq(Calls) /\ offs \in Seq(Calls)
    BY <2>2, DevicesAssumption
  <2>4. /\ <<On(grp)>> \in Seq(Calls) /\ <<On(run)>> \in Seq(Calls) /\ <<Use(grp)>> \in Seq(Calls)
        /\ <<Off(grp)>> \in Seq(Calls) /\ <<Off(run)>> \in Seq(Calls)
    BY <1>1, <1>2, <2>1
  <2> HIDE DEF ons, offs
  <2>5. /\ (<<On(grp)>> \o ons) \o <<On(run)>> \in Seq(Calls)
        /\ (<<Off(run)>> \o offs) \o <<Off(grp)>> \in Seq(Calls)
    BY <1>3, <2>3, <2>4
  <2> QED BY <2>4, <2>5 DEF VpssInitialize, VpssClose, ons, offs
<1> QED BY <1>7, <1>8

(* The first call of a list and the rest of it. *)
LEMMA HeadAndTail ==
  ASSUME NEW S, NEW s \in Seq(S), s # <<>>
  PROVE  Head(s) \in S /\ Tail(s) \in Seq(S)
OBVIOUS

-----------------------------------------------------------------------------
(* Parts and calls. *)

LEMMA PartIs ==
  \A w, n, d : /\ Part(w, n, d).what = w /\ Part(w, n, d).no = n /\ Part(w, n, d).of = d
               /\ Part(w, n, d) = [what |-> w, no |-> n, of |-> d]
BY DEF Part

LEMMA CallIs ==
  \A p : /\ On(p) = [do |-> "on", part |-> p] /\ On(p).do = "on" /\ On(p).part = p
         /\ Off(p) = [do |-> "off", part |-> p] /\ Off(p).do = "off" /\ Off(p).part = p
         /\ Set(p) = [do |-> "set", part |-> p] /\ Set(p).do = "set" /\ Set(p).part = p
         /\ Use(p) = [do |-> "use", part |-> p] /\ Use(p).do = "use" /\ Use(p).part = p
BY DEF On, Off, Set, Use

LEMMA Owners == /\ \A o \in Outputs : o # HdmiDev /\ o \notin Groups /\ o \in Devs
                /\ \A g \in Groups : g # HdmiDev /\ g \notin Outputs /\ g \in Devs
BY DevicesAssumption DEF Devs

(* A part of an output, of a group, of the transmitter is one of its parts. *)
LEMMA PartOfOutput ==
  ASSUME NEW o \in Outputs, NEW p \in Parts, p.of = o
  PROVE  \/ p = Part("dev", 0, o) \/ p = Part("layer", 0, o)
         \/ \E c \in 1 .. VoChns : p = Part("chn", c, o)
<1>1. p \notin OfHdmi
  BY PartIs, Owners DEF OfHdmi
<1>2. \A r \in Outputs : p \in OfOutput(r) \cup OutputChns(r) => r = o
  BY PartIs DEF OfOutput, OutputChns
<1>3. \A g \in Groups : p \notin OfGroup(g)
  BY PartIs, Owners DEF OfGroup
<1>4. p \in OfOutput(o) \cup OutputChns(o)
  BY <1>1, <1>2, <1>3, PartsAre
<1> QED BY <1>4 DEF OfOutput, OutputChns

LEMMA PartOfGroup ==
  ASSUME NEW g \in Groups, NEW p \in Parts, p.of = g
  PROVE  /\ p \in OfGroup(g)
         /\ \/ p = Part("grp", 0, g) \/ p = Part("run", 0, g)
            \/ \E c \in 1 .. VpssChns : p = Part("chn", c, g)
<1>1. p \notin OfHdmi
  BY PartIs, Owners DEF OfHdmi
<1>2. \A r \in Outputs : p \notin OfOutput(r) \cup OutputChns(r)
  BY PartIs, Owners DEF OfOutput, OutputChns
<1>3. \A h \in Groups : p \in OfGroup(h) => h = g
  BY PartIs DEF OfGroup
<1>4. p \in OfGroup(g)
  BY <1>1, <1>2, <1>3, PartsAre
<1> QED BY <1>4 DEF OfGroup

LEMMA PartOfHdmi ==
  ASSUME NEW p \in Parts, p.of = HdmiDev
  PROVE  p \in OfHdmi /\ p \in {InitHdmi, OpenHdmi, Link}
<1>1. \A r \in Outputs : p \notin OfOutput(r) \cup OutputChns(r)
  BY PartIs, Owners DEF OfOutput, OutputChns
<1>2. \A g \in Groups : p \notin OfGroup(g)
  BY PartIs, Owners DEF OfGroup
<1>3. p \in OfHdmi
  BY <1>1, <1>2, PartsAre
<1> QED BY <1>3 DEF OfHdmi, InitHdmi, OpenHdmi, Link

(* What the parts of an output, of a group, of the transmitter look like.   *)
LEMMA WholeIs ==
  /\ \A o \in Outputs : OfOutput(o) = {Part("dev", 0, o), Part("layer", 0, o)}
  /\ OfHdmi = {InitHdmi, OpenHdmi, Link}
  /\ \A g \in Groups : \A p : p \in OfGroup(g) <=>
       \/ p = Part("grp", 0, g) \/ p = Part("run", 0, g)
       \/ \E c \in 1 .. VpssChns : p = Part("chn", c, g)
<1>1. ASSUME NEW o \in Outputs PROVE OfOutput(o) = {Part("dev", 0, o), Part("layer", 0, o)}
  BY DEF OfOutput
<1>2. OfHdmi = {InitHdmi, OpenHdmi, Link}
  BY DEF OfHdmi, InitHdmi, OpenHdmi, Link
<1>3. ASSUME NEW g \in Groups, NEW p
      PROVE  p \in OfGroup(g) <=>
               \/ p = Part("grp", 0, g) \/ p = Part("run", 0, g)
               \/ \E c \in 1 .. VpssChns : p = Part("chn", c, g)
  BY DEF OfGroup
<1> QED BY <1>1, <1>2, <1>3

(* What each part is made on. *)
LEMMA BaseIs ==
  /\ \A o \in Outputs :
       /\ Base(Part("dev", 0, o)) = {} /\ Base(Part("layer", 0, o)) = {Part("dev", 0, o)}
       /\ \A c : Base(Part("chn", c, o)) = {Part("layer", 0, o)}
  /\ \A g \in Groups :
       /\ Base(Part("grp", 0, g)) = {} /\ Base(Part("run", 0, g)) = {Part("grp", 0, g)}
       /\ \A c : Base(Part("chn", c, g)) = {Part("grp", 0, g)}
  /\ Base(InitHdmi) = {} /\ Base(OpenHdmi) = {InitHdmi} /\ Base(Link) = {OpenHdmi}
<1>1. ASSUME NEW o \in Outputs
      PROVE  /\ Base(Part("dev", 0, o)) = {}
             /\ Base(Part("layer", 0, o)) = {Part("dev", 0, o)}
             /\ \A c : Base(Part("chn", c, o)) = {Part("layer", 0, o)}
  <2>1. Base(Part("dev", 0, o)) = {}
    BY PartIs DEF Base
  <2>2. Base(Part("layer", 0, o)) = {Part("dev", 0, o)}
    BY PartIs DEF Base
  <2>3. ASSUME NEW c PROVE Base(Part("chn", c, o)) = {Part("layer", 0, o)}
    BY PartIs DEF Base
  <2> QED BY <2>1, <2>2, <2>3
<1>2. ASSUME NEW g \in Groups
      PROVE  /\ Base(Part("grp", 0, g)) = {}
             /\ Base(Part("run", 0, g)) = {Part("grp", 0, g)}
             /\ \A c : Base(Part("chn", c, g)) = {Part("grp", 0, g)}
  <2>1. Base(Part("grp", 0, g)) = {}
    BY PartIs DEF Base
  <2>2. Base(Part("run", 0, g)) = {Part("grp", 0, g)}
    BY PartIs DEF Base
  <2>3. ASSUME NEW c PROVE Base(Part("chn", c, g)) = {Part("grp", 0, g)}
    BY PartIs, Owners DEF Base
  <2> QED BY <2>1, <2>2, <2>3
<1>3. Base(InitHdmi) = {}
  BY PartIs DEF Base, InitHdmi
<1>4. Base(OpenHdmi) = {InitHdmi}
  BY PartIs DEF Base, InitHdmi, OpenHdmi
<1>5. Base(Link) = {OpenHdmi}
  BY PartIs DEF Base, OpenHdmi, Link
<1> QED BY <1>1, <1>2, <1>3, <1>4, <1>5

(* Who is made on what. *)
LEMMA Dependents ==
  ASSUME NEW q \in Parts, NEW b \in Base(q)
  PROVE  /\ b.of = q.of
         /\ \/ q.what = "open" /\ b = Part("init", 0, q.of)
            \/ q.what = "link" /\ b = Part("open", 0, q.of)
            \/ q.what = "layer" /\ b = Part("dev", 0, q.of)
            \/ q.what = "run" /\ b = Part("grp", 0, q.of)
            \/ q.what = "chn" /\ q.of \in Outputs /\ b = Part("layer", 0, q.of)
            \/ q.what = "chn" /\ q.of \notin Outputs /\ b = Part("grp", 0, q.of)
BY PartIs DEF Base

LEMMA TwiceIs ==
  ASSUME NEW p \in Parts PROVE (\E o \in Outputs : p \in OutputChns(o)) <=> Twice(p)
<1>1. ASSUME NEW o \in Outputs, p \in OutputChns(o) PROVE Twice(p)
  BY <1>1, PartIs DEF OutputChns, Twice
<1>2. ASSUME Twice(p) PROVE p \in OutputChns(p.of)
  <2>1. p.of \in Outputs /\ p.what = "chn"
    BY <1>2 DEF Twice
  <2>2. \E c \in 1 .. VoChns : p = Part("chn", c, p.of)
    BY <2>1, PartOfOutput, PartIs
  <2> QED BY <2>2 DEF OutputChns
<1> QED BY <1>1, <1>2 DEF Twice

-----------------------------------------------------------------------------
(* A list of calls, one call on. *)

After(c, S) == CASE c.do = "on" -> S \cup {c.part}
                 [] c.do = "off" -> S \ {c.part}
                 [] OTHER -> S

LEMMA TailIs ==
  ASSUME NEW s \in Seq(Calls), s # <<>>
  PROVE  /\ Len(s) \in Nat /\ Len(s) > 0 /\ Tail(s) \in Seq(Calls)
         /\ DOMAIN s = 1 .. Len(s) /\ DOMAIN Tail(s) = 1 .. Len(s) - 1
         /\ Head(s) = s[1] /\ 1 \in DOMAIN s /\ s[1] \in Calls
         /\ \A i \in 1 .. Len(s) - 1 : Tail(s)[i] = s[i + 1] /\ i + 1 \in DOMAIN s
OBVIOUS

(* List u is s with t behind it. *)
IsCat(u, s, t) ==
  /\ u \in Seq(Calls) /\ Len(u) = Len(s) + Len(t) /\ Len(s) \in Nat /\ Len(t) \in Nat
  /\ \A m \in 1 .. Len(s) + Len(t) : u[m] = IF m <= Len(s) THEN s[m] ELSE t[m - Len(s)]

LEMMA Cat ==
  ASSUME NEW s \in Seq(Calls), NEW t \in Seq(Calls) PROVE IsCat(s \o t, s, t)
<1>1. /\ s \o t \in Seq(Calls) /\ Len(s \o t) = Len(s) + Len(t)
      /\ Len(s) \in Nat /\ Len(t) \in Nat
      /\ \A m \in 1 .. Len(s) + Len(t) :
           (s \o t)[m] = IF m <= Len(s) THEN s[m] ELSE t[m - Len(s)]
  OBVIOUS
<1> QED BY <1>1 DEF IsCat

LEMMA WaitsOn ==
  ASSUME NEW s \in Seq(Calls), s # <<>>, NEW c
  PROVE  Waits(s, c) <=> (c = Head(s) \/ Waits(Tail(s), c))
<1>1. ASSUME Waits(s, c), c # Head(s) PROVE Waits(Tail(s), c)
  <2>1. PICK i \in DOMAIN s : s[i] = c
    BY <1>1 DEF Waits
  <2>2. i \in 1 .. Len(s) /\ i # 1
    BY <2>1, <1>1, TailIs
  <2>3. i - 1 \in DOMAIN Tail(s) /\ Tail(s)[i - 1] = s[i]
    BY <2>2, TailIs
  <2> QED BY <2>1, <2>3 DEF Waits
<1>2. ASSUME Waits(Tail(s), c) PROVE Waits(s, c)
  <2>1. PICK i \in DOMAIN Tail(s) : Tail(s)[i] = c
    BY <1>2 DEF Waits
  <2>2. i + 1 \in DOMAIN s /\ s[i + 1] = c
    BY <2>1, TailIs
  <2> QED BY <2>2 DEF Waits
<1>3. ASSUME c = Head(s) PROVE Waits(s, c)
  BY <1>3, TailIs DEF Waits
<1> QED BY <1>1, <1>2, <1>3

LEMMA NothingWaits == \A c : ~Waits(<<>>, c)
BY DEF Waits

(* What is on at a later call stays the same when a call is made, ... *)
LEMMA OnAtAfter ==
  ASSUME NEW s \in Seq(Calls), s # <<>>, OneWay(s), NEW S,
         NEW i \in DOMAIN Tail(s), NEW p
  PROVE  OnAt(Tail(s), i, p, After(Head(s), S)) <=> OnAt(s, i + 1, p, S)
<1> DEFINE T == Tail(s)
           S2 == After(s[1], S)
<1>1. /\ Head(s) = s[1] /\ i \in Int /\ i >= 1 /\ DOMAIN s = 1 .. Len(s) /\ Len(s) \in Nat
      /\ i <= Len(s) - 1
      /\ \A j \in 1 .. i - 1 : T[j] = s[j + 1] /\ j + 1 \in DOMAIN s
      /\ \A j \in 2 .. i : s[j] = T[j - 1] /\ j - 1 \in 1 .. i - 1 /\ j \in DOMAIN s
  BY TailIs
<1>2. ASSUME NEW c
      PROVE  (\E j \in 1 .. (i + 1) - 1 : s[j] = c)
               <=> (s[1] = c \/ \E j \in 1 .. i - 1 : T[j] = c)
  <2>1. ASSUME NEW j \in 1 .. (i + 1) - 1, s[j] = c, j # 1
        PROVE  \E k \in 1 .. i - 1 : T[k] = c
    <3>1. j \in 2 .. i
      BY <1>1, <2>1
    <3> QED BY <1>1, <2>1, <3>1
  <2>2. ASSUME NEW j \in 1 .. i - 1, T[j] = c PROVE \E k \in 1 .. (i + 1) - 1 : s[k] = c
    <3>1. j + 1 \in 1 .. (i + 1) - 1 /\ s[j + 1] = c
      BY <1>1, <2>2
    <3> QED BY <3>1
  <2>3. 1 \in 1 .. (i + 1) - 1
    BY <1>1
  <2> QED BY <2>1, <2>2, <2>3
<1>3. OnAt(s, i + 1, p, S) <=>
        \/ p \in S /\ s[1] # Off(p) /\ ~\E j \in 1 .. i - 1 : T[j] = Off(p)
        \/ s[1] = On(p) \/ \E j \in 1 .. i - 1 : T[j] = On(p)
  BY <1>2 DEF OnAt
<1>4. OnAt(T, i, p, S2) <=>
        \/ p \in S2 /\ ~\E j \in 1 .. i - 1 : T[j] = Off(p)
        \/ \E j \in 1 .. i - 1 : T[j] = On(p)
  BY DEF OnAt
<1> HIDE DEF T, S2
<1>5. s[1] \in Calls
  BY TailIs
<1>6. CASE s[1].do = "on"
  <2>1. S2 = S \cup {s[1].part}
    BY <1>6 DEF After, S2
  <2>2. s[1] # Off(p) /\ (s[1] = On(p) <=> s[1].part = p)
    BY <1>5, <1>6, CallIs DEF Calls
  <2>3. \A j \in 1 .. i - 1 : T[j] # Off(p)
    <3> SUFFICES ASSUME NEW j \in 1 .. i - 1, T[j] = Off(p) PROVE FALSE
      OBVIOUS
    <3>1. j + 1 \in DOMAIN s /\ s[j + 1].do = "off" /\ 1 \in DOMAIN s
      BY <1>1, CallIs
    <3> QED BY <1>6, <3>1 DEF OneWay
  <2> QED BY <1>1, <1>3, <1>4, <2>1, <2>2, <2>3 DEF T, S2
<1>7. CASE s[1].do = "off"
  <2>1. S2 = S \ {s[1].part}
    BY <1>7 DEF After, S2
  <2>2. s[1] # On(p) /\ (s[1] = Off(p) <=> s[1].part = p)
    BY <1>5, <1>7, CallIs DEF Calls
  <2> QED BY <1>1, <1>3, <1>4, <2>1, <2>2 DEF T, S2
<1>8. CASE s[1].do \notin {"on", "off"}
  <2>1. S2 = S
    BY <1>8 DEF After, S2
  <2>2. s[1] # On(p) /\ s[1] # Off(p)
    BY <1>8, CallIs
  <2> QED BY <1>1, <1>3, <1>4, <2>1, <2>2 DEF T, S2
<1> QED BY <1>6, <1>7, <1>8

(* ... or when one about another part is not. *)
LEMMA OnAtSkip ==
  ASSUME NEW s \in Seq(Calls), s # <<>>, NEW S,
         NEW i \in DOMAIN Tail(s), NEW p, Head(s).part # p
  PROVE  OnAt(Tail(s), i, p, S) <=> OnAt(s, i + 1, p, S)
<1>1. /\ Head(s) = s[1] /\ i \in Int /\ i >= 1 /\ DOMAIN s = 1 .. Len(s) /\ Len(s) \in Nat
      /\ \A j \in 1 .. i - 1 : Tail(s)[j] = s[j + 1] /\ j + 1 \in 1 .. (i + 1) - 1
      /\ \A j \in 2 .. i : s[j] = Tail(s)[j - 1] /\ j - 1 \in 1 .. i - 1
      /\ \A j \in 1 .. (i + 1) - 1 : j = 1 \/ j \in 2 .. i
  BY TailIs
<1>2. s[1] # On(p) /\ s[1] # Off(p)
  BY <1>1, CallIs
<1>3. ASSUME NEW c, s[1] # c
      PROVE  (\E j \in 1 .. (i + 1) - 1 : s[j] = c) <=> (\E j \in 1 .. i - 1 : Tail(s)[j] = c)
  BY <1>1, <1>3
<1> QED BY <1>2, <1>3 DEF OnAt

(* So what was legal stays legal. *)
LEMMA LegalAfter ==
  ASSUME NEW s \in Seq(Calls), s # <<>>, OneWay(s), NEW S,
         NEW i \in DOMAIN Tail(s), LegalAt(s, i + 1, S)
  PROVE  LegalAt(Tail(s), i, After(Head(s), S))
<1>1. Tail(s)[i] = s[i + 1]
  BY TailIs
<1>2. \A p : OnAt(Tail(s), i, p, After(Head(s), S)) <=> OnAt(s, i + 1, p, S)
  BY OnAtAfter
<1> QED BY <1>1, <1>2 DEF LegalAt

LEMMA LegalSkip ==
  ASSUME NEW s \in Seq(Calls), s # <<>>, NEW S,
         NEW i \in DOMAIN Tail(s), LegalAt(s, i + 1, S),
         Head(s).part.of # Tail(s)[i].part.of
  PROVE  LegalAt(Tail(s), i, S)
<1>0. Tail(s)[i] = s[i + 1] /\ s[i + 1] \in Calls
  <2>1. i \in 1 .. Len(s) - 1
    BY TailIs
  <2>2. Tail(s)[i] = s[i + 1] /\ i + 1 \in DOMAIN s
    BY <2>1, TailIs
  <2> QED BY <2>2
<1>1. Tail(s)[i] = s[i + 1] /\ s[i + 1] \in Calls /\ s[i + 1].part \in Parts
  BY <1>0 DEF Calls
<1> DEFINE p == s[i + 1].part
<1>2. \A q : q.of = p.of => (OnAt(Tail(s), i, q, S) <=> OnAt(s, i + 1, q, S))
  BY <1>1, OnAtSkip
<1>3. \A b \in Base(p) : b.of = p.of
  BY <1>1, Dependents
<1>4. \A q \in Parts : p \in Base(q) => q.of = p.of
  BY Dependents
<1> QED BY <1>1, <1>2, <1>3, <1>4 DEF LegalAt

(* The call at the head is legal if it is legal in the list. *)
LEMMA LegalNow ==
  ASSUME NEW s \in Seq(Calls), s # <<>>, LegalAt(s, 1, on), on \subseteq Parts
  PROVE  Legal(Head(s))
<1>1. Head(s) = s[1] /\ s[1] \in Calls
  BY TailIs
<1>2. s[1].part \in Parts /\ s[1].do \in {"on", "off", "set", "use"}
  BY <1>1 DEF Calls
<1>3. \A p : OnAt(s, 1, p, on) <=> p \in on
  BY DEF OnAt
<1>4. (\E o \in Outputs : s[1].part \in OutputChns(o)) <=> Twice(s[1].part)
  BY <1>2, TwiceIs
<1> DEFINE c == s[1]
<1>5. CASE c.do = "on"
  BY <1>1, <1>3, <1>4, <1>5 DEF Legal, LegalAt
<1>6. CASE c.do = "off"
  BY <1>1, <1>3, <1>4, <1>6 DEF Legal, LegalAt
<1>7. CASE c.do = "set"
  BY <1>1, <1>3, <1>7 DEF Legal, LegalAt
<1>8. CASE c.do = "use"
  BY <1>1, <1>3, <1>8 DEF Legal, LegalAt
<1> QED BY <1>2, <1>5, <1>6, <1>7, <1>8

-----------------------------------------------------------------------------
(* The methods, call by call. *)

LEMMA VoInitializeIs ==
  ASSUME NEW o \in Outputs, NEW p \in Params(o), NEW L, L = VoInitialize(o, p),
         NEW h, h = IF p.hdmi THEN 5 ELSE 0
  PROVE  /\ L \in Seq(Calls) /\ DOMAIN L = 1 .. h + 4
         /\ L[h + 1] = Set(Part("dev", 0, o)) /\ L[h + 2] = On(Part("dev", 0, o))
         /\ L[h + 3] = Set(Part("layer", 0, o)) /\ L[h + 4] = On(Part("layer", 0, o))
         /\ p.hdmi => /\ L[1] = On(InitHdmi) /\ L[2] = On(OpenHdmi) /\ L[3] = Use(OpenHdmi)
                      /\ L[4] = Set(Link) /\ L[5] = On(Link)
<1>1. L \in Seq(Calls)
  BY MethodsAreCalls
<1>2. CASE p.hdmi
  <2>1. L = StartHDMI \o StartDevLayer(o)
    BY <1>2 DEF VoInitialize
  <2>2. /\ Len(StartHDMI) = 5 /\ StartHDMI[1] = On(InitHdmi) /\ StartHDMI[2] = On(OpenHdmi)
        /\ StartHDMI[3] = Use(OpenHdmi) /\ StartHDMI[4] = Set(Link)
        /\ StartHDMI[5] = On(Link)
    BY DEF StartHDMI
  <2>3. /\ Len(StartDevLayer(o)) = 4
        /\ StartDevLayer(o)[1] = Set(Part("dev", 0, o))
        /\ StartDevLayer(o)[2] = On(Part("dev", 0, o))
        /\ StartDevLayer(o)[3] = Set(Part("layer", 0, o))
        /\ StartDevLayer(o)[4] = On(Part("layer", 0, o))
    BY DEF StartDevLayer
  <2>5. StartHDMI \in Seq(Calls) /\ StartDevLayer(o) \in Seq(Calls)
    <3>1. /\ InitHdmi \in Parts /\ OpenHdmi \in Parts /\ Link \in Parts
          /\ Part("dev", 0, o) \in Parts /\ Part("layer", 0, o) \in Parts
      BY PartsOf DEF InitHdmi, OpenHdmi, Link
    <3>2. \A q \in Parts : On(q) \in Calls /\ Set(q) \in Calls /\ Use(q) \in Calls
      BY CallIs DEF Calls
    <3>3. /\ On(InitHdmi) \in Calls /\ On(OpenHdmi) \in Calls /\ Use(OpenHdmi) \in Calls
          /\ Set(Link) \in Calls /\ On(Link) \in Calls
          /\ Set(Part("dev", 0, o)) \in Calls /\ On(Part("dev", 0, o)) \in Calls
          /\ Set(Part("layer", 0, o)) \in Calls /\ On(Part("layer", 0, o)) \in Calls
      BY <3>1, <3>2
    <3> QED BY <3>3 DEF StartHDMI, StartDevLayer
  <2>4. /\ Len(L) = 9 /\ \A i \in 1 .. 5 : L[i] = StartHDMI[i]
        /\ \A i \in 6 .. 9 : L[i] = StartDevLayer(o)[i - 5]
    <3>1. /\ Len(L) = 5 + 4 /\ \A i \in 1 .. 5 : L[i] = StartHDMI[i]
          /\ \A i \in 5 + 1 .. 5 + 4 : L[i] = StartDevLayer(o)[i - 5]
      <4>2. Len(StartHDMI) = 5 /\ Len(StartDevLayer(o)) = 4
        BY <2>2, <2>3
      <4>3. IsCat(L, StartHDMI, StartDevLayer(o))
        BY Zenon, <2>1, <2>5, Cat
      <4> QED BY <4>2, <4>3 DEF IsCat
    <3> QED BY <3>1
  <2> QED BY <1>1, <1>2, <2>2, <2>3, <2>4
<1>3. CASE ~p.hdmi
  <2>1. L = <<>> \o StartDevLayer(o)
    BY <1>3 DEF VoInitialize
  <2>2. L = StartDevLayer(o)
    BY <2>1 DEF StartDevLayer
  <2>3. /\ Len(L) = 4 /\ L[1] = Set(Part("dev", 0, o)) /\ L[2] = On(Part("dev", 0, o))
        /\ L[3] = Set(Part("layer", 0, o)) /\ L[4] = On(Part("layer", 0, o))
    BY <2>2 DEF StartDevLayer
  <2> QED BY <1>1, <1>3, <2>3
<1> QED BY <1>2, <1>3

LEMMA StopAllChnIs ==
  ASSUME NEW o \in Outputs, NEW L, L = StopAllChn(o)
  PROVE  /\ L \in Seq(Calls) /\ DOMAIN L = 1 .. VoChns /\ Len(L) = VoChns
         /\ \A i \in 1 .. VoChns : L[i] = Off(Part("chn", i, o))
<1>1. L \in Seq(Calls)
  BY MethodsAreCalls
<1> QED BY <1>1, DevicesAssumption DEF StopAllChn

LEMMA VoCloseIs ==
  ASSUME NEW o \in Outputs, NEW L, L = VoClose(o), NEW n, n = VoChns
  PROVE  /\ L \in Seq(Calls) /\ n \in Nat \ {0}
         /\ DOMAIN L = 1 .. (IF params[o].hdmi THEN n + 5 ELSE n + 2)
         /\ \A i \in 1 .. n : L[i] = Off(Part("chn", i, o))
         /\ L[n + 1] = Off(Part("layer", 0, o)) /\ L[n + 2] = Off(Part("dev", 0, o))
         /\ params[o].hdmi => /\ L[n + 3] = Off(Link) /\ L[n + 4] = Off(OpenHdmi)
                              /\ L[n + 5] = Off(InitHdmi)
<1>1. L \in Seq(Calls) /\ n \in Nat \ {0}
  BY MethodsAreCalls, DevicesAssumption
<1> DEFINE A == StopAllChn(o)
           B == <<Off(Part("layer", 0, o)), Off(Part("dev", 0, o))>>
           C == <<Off(Link), Off(OpenHdmi), Off(InitHdmi)>>
           D == IF params[o].hdmi THEN C ELSE <<>>
<1>2. A \in Seq(Calls) /\ Len(A) = n /\ \A i \in 1 .. n : A[i] = Off(Part("chn", i, o))
  BY StopAllChnIs
<1>3. /\ Off(Part("layer", 0, o)) \in Calls /\ Off(Part("dev", 0, o)) \in Calls
      /\ Off(Link) \in Calls /\ Off(OpenHdmi) \in Calls /\ Off(InitHdmi) \in Calls
  BY PartsOf, CallIs DEF Calls, InitHdmi, OpenHdmi, Link
<1>4. /\ B \in Seq(Calls) /\ Len(B) = 2 /\ B[1] = Off(Part("layer", 0, o))
      /\ B[2] = Off(Part("dev", 0, o))
  BY <1>3
<1>5. /\ C \in Seq(Calls) /\ Len(C) = 3 /\ C[1] = Off(Link) /\ C[2] = Off(OpenHdmi)
      /\ C[3] = Off(InitHdmi)
  BY <1>3
<1>6. /\ D \in Seq(Calls)
      /\ params[o].hdmi => /\ Len(D) = 3 /\ D[1] = Off(Link) /\ D[2] = Off(OpenHdmi)
                           /\ D[3] = Off(InitHdmi)
      /\ ~params[o].hdmi => Len(D) = 0
  <2>1. CASE params[o].hdmi
    BY <1>5, <2>1
  <2>2. CASE ~params[o].hdmi
    BY <2>2
  <2> QED BY <2>1, <2>2
<1>7. L = (A \o B) \o D
  BY DEF VoClose
<1> HIDE DEF A, B, C, D
<1> DEFINE E == A \o B
<1> HIDE DEF E
<1>8. /\ E \in Seq(Calls) /\ Len(E) = n + 2 /\ \A i \in 1 .. n : E[i] = A[i]
      /\ E[n + 1] = B[1] /\ E[n + 2] = B[2]
  <2>1. n \in Nat /\ 2 \in Nat
    BY <1>1
  <2>2. /\ E \in Seq(Calls) /\ Len(E) = n + 2 /\ \A i \in 1 .. n : E[i] = A[i]
        /\ \A i \in n + 1 .. n + 2 : E[i] = B[i - n]
    <3>1. IsCat(E, A, B)
      BY Zenon, <1>2, <1>4, Cat DEF E
    <3>2. Len(A) = n /\ Len(B) = 2
      BY <1>2, <1>4
    <3>3. /\ E \in Seq(Calls) /\ Len(E) = n + 2
          /\ \A m \in 1 .. n + 2 : E[m] = IF m <= n THEN A[m] ELSE B[m - n]
      BY Zenon, <3>1, <3>2 DEF IsCat
    <3> QED BY <2>1, <3>3
  <2>3. n + 1 \in n + 1 .. n + 2 /\ n + 2 \in n + 1 .. n + 2 /\ (n + 1) - n = 1 /\ (n + 2) - n = 2
    BY <1>1
  <2>4. E[n + 1] = B[1] /\ E[n + 2] = B[2]
    BY <2>2, <2>3
  <2> QED BY <2>2, <2>4
<1>9. /\ Len(L) = n + 2 + Len(D) /\ \A i \in 1 .. n + 2 : L[i] = E[i]
      /\ \A i \in n + 3 .. n + 2 + Len(D) : L[i] = D[i - (n + 2)]
  <2>1. L = E \o D
    BY <1>7 DEF E
  <2>2. n + 2 \in Nat /\ Len(D) \in Nat /\ n + 3 = (n + 2) + 1
    BY <1>1, <1>6
  <2>3. /\ Len(L) = (n + 2) + Len(D) /\ \A i \in 1 .. n + 2 : L[i] = E[i]
        /\ \A i \in (n + 2) + 1 .. (n + 2) + Len(D) : L[i] = D[i - (n + 2)]
    <3>1. IsCat(L, E, D)
      BY Zenon, <1>6, <1>8, <2>1, Cat
    <3> QED BY <1>6, <1>8, <2>2, <3>1 DEF IsCat
  <2> QED BY <2>2, <2>3
<1>10. /\ \A i \in 1 .. n : L[i] = Off(Part("chn", i, o))
       /\ L[n + 1] = Off(Part("layer", 0, o)) /\ L[n + 2] = Off(Part("dev", 0, o))
  BY <1>1, <1>2, <1>4, <1>8, <1>9
<1>11. CASE params[o].hdmi
  <2>1. Len(L) = n + 5 /\ L[n + 3] = D[1] /\ L[n + 4] = D[2] /\ L[n + 5] = D[3]
    <3>1. Len(D) = 3
      BY <1>6, <1>11
    <3>2. /\ n + 3 \in n + 3 .. n + 2 + Len(D) /\ (n + 3) - (n + 2) = 1
          /\ n + 4 \in n + 3 .. n + 2 + Len(D) /\ (n + 4) - (n + 2) = 2
          /\ n + 5 \in n + 3 .. n + 2 + Len(D) /\ (n + 5) - (n + 2) = 3
          /\ n + 2 + Len(D) = n + 5
      BY <1>1, <3>1
    <3> QED BY <1>9, <3>2
  <2> QED BY <1>1, <1>6, <1>10, <1>11, <2>1
<1>12. CASE ~params[o].hdmi
  <2>1. Len(L) = n + 2
    BY <1>1, <1>6, <1>9, <1>12
  <2> QED BY <1>1, <1>10, <1>12, <2>1
<1> QED BY <1>11, <1>12

LEMMA VpssIs ==
  ASSUME NEW g \in Groups, NEW n, n = VpssChns
  PROVE  /\ n \in Nat \ {0}
         /\ LET L == VpssInitialize(g)
            IN  /\ L \in Seq(Calls) /\ DOMAIN L = 1 .. n + 2
                /\ L[1] = On(Part("grp", 0, g)) /\ L[n + 2] = On(Part("run", 0, g))
                /\ \A i \in 2 .. n + 1 : L[i] = On(Part("chn", i - 1, g))
         /\ LET L == VpssClose(g)
            IN  /\ L \in Seq(Calls) /\ DOMAIN L = 1 .. n + 2
                /\ L[1] = Off(Part("run", 0, g)) /\ L[n + 2] = Off(Part("grp", 0, g))
                /\ \A i \in 2 .. n + 1 : L[i] = Off(Part("chn", i - 1, g))
<1>1. n \in Nat \ {0}
  BY DevicesAssumption
<1>2. ASSUME NEW a \in Calls, NEW b \in Calls, NEW s \in Seq(Calls), Len(s) = n
      PROVE  LET L == (<<a>> \o s) \o <<b>>
             IN  /\ L \in Seq(Calls) /\ DOMAIN L = 1 .. n + 2 /\ L[1] = a /\ L[n + 2] = b
                 /\ \A i \in 2 .. n + 1 : L[i] = s[i - 1]
  <2> DEFINE E == <<a>> \o s
  <2>1. /\ E \in Seq(Calls) /\ Len(E) = n + 1 /\ E[1] = a
        /\ \A i \in 2 .. n + 1 : E[i] = s[i - 1]
    BY <1>1, <1>2
  <2> HIDE DEF E
  <2> DEFINE L == E \o <<b>>
  <2>2. /\ L \in Seq(Calls) /\ Len(L) = n + 2 /\ L[n + 2] = b
        /\ \A i \in 1 .. n + 1 : L[i] = E[i]
    BY <1>1, <2>1
  <2>3. L \in Seq(Calls) /\ DOMAIN L = 1 .. n + 2 /\ L[1] = a /\ L[n + 2] = b
    BY <1>1, <2>1, <2>2
  <2>4. \A i \in 2 .. n + 1 : L[i] = s[i - 1]
    BY <1>1, <2>1, <2>2
  <2> QED BY <2>3, <2>4 DEF E
<1> DEFINE ons == [c \in 1 .. VpssChns |-> On(Part("chn", c, g))]
           offs == [c \in 1 .. VpssChns |-> Off(Part("chn", c, g))]
<1>3. \A c \in 1 .. VpssChns :
        On(Part("chn", c, g)) \in Calls /\ Off(Part("chn", c, g)) \in Calls
  BY PartsOf, CallIs DEF Calls
<1>4. /\ ons \in Seq(Calls) /\ Len(ons) = n /\ offs \in Seq(Calls) /\ Len(offs) = n
      /\ \A i \in 2 .. n + 1 : /\ ons[i - 1] = On(Part("chn", i - 1, g))
                               /\ offs[i - 1] = Off(Part("chn", i - 1, g))
  BY <1>1, <1>3
<1>5. /\ On(Part("grp", 0, g)) \in Calls /\ On(Part("run", 0, g)) \in Calls
      /\ Off(Part("grp", 0, g)) \in Calls /\ Off(Part("run", 0, g)) \in Calls
  BY PartsOf, CallIs DEF Calls
<1>6. /\ VpssInitialize(g) = (<<On(Part("grp", 0, g))>> \o ons) \o <<On(Part("run", 0, g))>>
      /\ VpssClose(g) = (<<Off(Part("run", 0, g))>> \o offs) \o <<Off(Part("grp", 0, g))>>
  BY DEF VpssInitialize, VpssClose
<1> HIDE DEF ons, offs
<1>7. LET L == VpssInitialize(g)
      IN  /\ L \in Seq(Calls) /\ DOMAIN L = 1 .. n + 2
          /\ L[1] = On(Part("grp", 0, g)) /\ L[n + 2] = On(Part("run", 0, g))
          /\ \A i \in 2 .. n + 1 : L[i] = On(Part("chn", i - 1, g))
  BY <1>2, <1>4, <1>5, <1>6
<1>8. LET L == VpssClose(g)
      IN  /\ L \in Seq(Calls) /\ DOMAIN L = 1 .. n + 2
          /\ L[1] = Off(Part("run", 0, g)) /\ L[n + 2] = Off(Part("grp", 0, g))
          /\ \A i \in 2 .. n + 1 : L[i] = Off(Part("chn", i - 1, g))
  BY <1>2, <1>4, <1>5, <1>6
<1> QED BY <1>1, <1>7, <1>8

-----------------------------------------------------------------------------
(* What the lists of the methods have in common. *)

(* Each is about the right parts, and leaves none out. *)
Listed(L, kind, d, hdmi) ==
  /\ L \in Seq(Calls) /\ OneWay(L)
  /\ \A i \in DOMAIN L : Fits(L[i], kind, d, hdmi)
  /\ kind = "init" =>
       /\ HdmiFirst(L)
       /\ \A p \in WholeOf(d, hdmi) : Waits(L, On(p))
       /\ d \in Outputs => /\ Waits(L, Set(Part("dev", 0, d)))
                           /\ Waits(L, Set(Part("layer", 0, d)))
                           /\ hdmi => Waits(L, Set(Link))
  /\ kind = "close" =>
       \A p \in Parts : p.of = d \/ (hdmi /\ p.of = HdmiDev) => Waits(L, Off(p))

LEMMA HdmiParts ==
  /\ InitHdmi.of = HdmiDev /\ OpenHdmi.of = HdmiDev /\ Link.of = HdmiDev
  /\ InitHdmi.what = "init" /\ OpenHdmi.what = "open" /\ Link.what = "link"
  /\ InitHdmi \in Parts /\ OpenHdmi \in Parts /\ Link \in Parts
BY PartIs, PartsOf DEF InitHdmi, OpenHdmi, Link

LEMMA VoInitializeListed ==
  ASSUME NEW o \in Outputs, NEW p \in Params(o)
  PROVE  Listed(VoInitialize(o, p), "init", o, p.hdmi)
<1> DEFINE L == VoInitialize(o, p)
           dev == Part("dev", 0, o)
           layer == Part("layer", 0, o)
<1>0. p.hdmi \in BOOLEAN
  BY DEF Params
<1>p. dev.of = o /\ dev.what = "dev" /\ layer.of = o /\ layer.what = "layer"
  BY PartIs
<1>w. OfOutput(o) = {dev, layer} /\ OfHdmi = {InitHdmi, OpenHdmi, Link} /\ o \notin Groups
      /\ o # HdmiDev
  BY WholeIs, Owners
<1> HIDE DEF L, dev, layer
<1>1. CASE p.hdmi
  <2>1. /\ L \in Seq(Calls) /\ DOMAIN L = 1 .. 9
        /\ L[1] = On(InitHdmi) /\ L[2] = On(OpenHdmi) /\ L[3] = Use(OpenHdmi)
        /\ L[4] = Set(Link) /\ L[5] = On(Link)
        /\ L[6] = Set(dev) /\ L[7] = On(dev) /\ L[8] = Set(layer) /\ L[9] = On(layer)
    <3> DEFINE h == IF p.hdmi THEN 5 ELSE 0
    <3>1. /\ L \in Seq(Calls) /\ DOMAIN L = 1 .. h + 4
          /\ L[h + 1] = Set(dev) /\ L[h + 2] = On(dev)
          /\ L[h + 3] = Set(layer) /\ L[h + 4] = On(layer)
          /\ p.hdmi => /\ L[1] = On(InitHdmi) /\ L[2] = On(OpenHdmi) /\ L[3] = Use(OpenHdmi)
                       /\ L[4] = Set(Link) /\ L[5] = On(Link)
      BY VoInitializeIs DEF L, dev, layer
    <3>2. h = 5
      BY <1>1
    <3> QED BY <1>1, <3>1, <3>2
  <2>2. ASSUME NEW i \in DOMAIN L
        PROVE  /\ Fits(L[i], "init", o, p.hdmi) /\ L[i].do # "off"
               /\ L[i].part.of = HdmiDev <=> i <= 5
    <3>1. CASE i \in 1 .. 5
      <4>1. /\ L[i].part.of = HdmiDev /\ L[i].do # "off"
            /\ L[i].do = "set" => L[i].part.what = "link"
        BY <2>1, <3>1, CallIs, HdmiParts
      <4> QED BY <1>1, <3>1, <4>1 DEF Fits
    <3>2. CASE i \in 6 .. 9
      <4>1. /\ L[i].part.of = o /\ L[i].do # "off"
            /\ L[i].do = "set" => L[i].part.what \in {"dev", "layer"}
        BY <1>p, <2>1, <3>2, CallIs
      <4> QED BY <1>w, <3>2, <4>1 DEF Fits
    <3> QED BY <2>1, <3>1, <3>2
  <2>3. OneWay(L)
    BY <2>2 DEF OneWay
  <2>4. HdmiFirst(L)
    BY <2>1, <2>2 DEF HdmiFirst
  <2>5. ASSUME NEW q \in WholeOf(o, p.hdmi) PROVE Waits(L, On(q))
    <3>1. q \in {dev, layer, InitHdmi, OpenHdmi, Link}
      BY <1>1, <1>w DEF WholeOf
    <3>2. 1 \in DOMAIN L /\ 2 \in DOMAIN L /\ 5 \in DOMAIN L /\ 7 \in DOMAIN L /\ 9 \in DOMAIN L
      BY <2>1
    <3> QED BY <2>1, <3>1, <3>2 DEF Waits
  <2>6. Waits(L, Set(dev)) /\ Waits(L, Set(layer)) /\ Waits(L, Set(Link))
    <3>1. 4 \in DOMAIN L /\ 6 \in DOMAIN L /\ 8 \in DOMAIN L
      BY <2>1
    <3> QED BY <2>1, <3>1 DEF Waits
  <2> QED BY <2>1, <2>2, <2>3, <2>4, <2>5, <2>6 DEF Listed, L, dev, layer
<1>2. CASE ~p.hdmi
  <2>1. /\ L \in Seq(Calls) /\ DOMAIN L = 1 .. 4
        /\ L[1] = Set(dev) /\ L[2] = On(dev) /\ L[3] = Set(layer) /\ L[4] = On(layer)
    <3> DEFINE h == IF p.hdmi THEN 5 ELSE 0
    <3>1. /\ L \in Seq(Calls) /\ DOMAIN L = 1 .. h + 4
          /\ L[h + 1] = Set(dev) /\ L[h + 2] = On(dev)
          /\ L[h + 3] = Set(layer) /\ L[h + 4] = On(layer)
      BY VoInitializeIs DEF L, dev, layer
    <3>2. h = 0
      BY <1>2
    <3> QED BY <3>1, <3>2
  <2>2. ASSUME NEW i \in DOMAIN L
        PROVE  /\ Fits(L[i], "init", o, p.hdmi) /\ L[i].do # "off"
               /\ L[i].part.of # HdmiDev
    <3>1. /\ L[i].part.of = o /\ L[i].do # "off"
          /\ L[i].do = "set" => L[i].part.what \in {"dev", "layer"}
      BY <1>p, <2>1, CallIs
    <3> QED BY <1>w, <3>1 DEF Fits
  <2>3. OneWay(L)
    BY <2>2 DEF OneWay
  <2>4. HdmiFirst(L)
    BY <2>2 DEF HdmiFirst
  <2>5. ASSUME NEW q \in WholeOf(o, p.hdmi) PROVE Waits(L, On(q))
    <3>1. q \in {dev, layer}
      BY <1>2, <1>w DEF WholeOf
    <3>2. 2 \in DOMAIN L /\ 4 \in DOMAIN L
      BY <2>1
    <3> QED BY <2>1, <3>1, <3>2 DEF Waits
  <2>6. Waits(L, Set(dev)) /\ Waits(L, Set(layer))
    <3>1. 1 \in DOMAIN L /\ 3 \in DOMAIN L
      BY <2>1
    <3> QED BY <2>1, <3>1 DEF Waits
  <2> QED BY <1>2, <2>1, <2>2, <2>3, <2>4, <2>5, <2>6 DEF Listed, L, dev, layer
<1> QED BY <1>0, <1>1, <1>2

LEMMA VpssInitializeListed ==
  ASSUME NEW g \in Groups PROVE Listed(VpssInitialize(g), "init", g, FALSE)
<1> DEFINE L == VpssInitialize(g)
           n == VpssChns
<1>1. /\ n \in Nat \ {0} /\ L \in Seq(Calls) /\ DOMAIN L = 1 .. n + 2
      /\ L[1] = On(Part("grp", 0, g)) /\ L[n + 2] = On(Part("run", 0, g))
      /\ \A i \in 2 .. n + 1 : L[i] = On(Part("chn", i - 1, g))
  BY VpssIs
<1> HIDE DEF L, n
<1>2. ASSUME NEW i \in DOMAIN L PROVE L[i].part.of = g /\ L[i].do = "on"
  <2>1. i = 1 \/ i = n + 2 \/ i \in 2 .. n + 1
    BY <1>1
  <2> QED BY <1>1, <2>1, CallIs, PartIs
<1>3. \A i \in DOMAIN L : Fits(L[i], "init", g, FALSE)
  BY <1>2 DEF Fits
<1>4. OneWay(L) /\ HdmiFirst(L)
  BY <1>2, Owners DEF OneWay, HdmiFirst
<1>5. ASSUME NEW q \in WholeOf(g, FALSE) PROVE Waits(L, On(q))
  <2>1. q \in OfGroup(g)
    BY DEF WholeOf
  <2>2. CASE q = Part("grp", 0, g)
    BY <1>1, <2>2 DEF Waits
  <2>3. CASE q = Part("run", 0, g)
    BY <1>1, <2>3 DEF Waits
  <2>4. ASSUME NEW c \in 1 .. VpssChns, q = Part("chn", c, g) PROVE Waits(L, On(q))
    <3>1. c + 1 \in 2 .. n + 1 /\ c + 1 \in DOMAIN L /\ (c + 1) - 1 = c
      BY <1>1 DEF n
    <3>2. L[c + 1] = On(q)
      BY <1>1, <2>4, <3>1
    <3> QED BY <3>1, <3>2 DEF Waits
  <2> QED BY <2>1, <2>2, <2>3, <2>4, WholeIs
<1> QED BY <1>1, <1>3, <1>4, <1>5, Owners DEF Listed, L

LEMMA VpssCloseListed ==
  ASSUME NEW g \in Groups PROVE Listed(VpssClose(g), "close", g, FALSE)
<1> DEFINE L == VpssClose(g)
           n == VpssChns
<1>1. /\ n \in Nat \ {0} /\ L \in Seq(Calls) /\ DOMAIN L = 1 .. n + 2
      /\ L[1] = Off(Part("run", 0, g)) /\ L[n + 2] = Off(Part("grp", 0, g))
      /\ \A i \in 2 .. n + 1 : L[i] = Off(Part("chn", i - 1, g))
  BY VpssIs
<1> HIDE DEF L, n
<1>2. ASSUME NEW i \in DOMAIN L PROVE L[i].part.of = g /\ L[i].do = "off"
  <2>1. i = 1 \/ i = n + 2 \/ i \in 2 .. n + 1
    BY <1>1
  <2> QED BY <1>1, <2>1, CallIs, PartIs
<1>3. \A i \in DOMAIN L : Fits(L[i], "close", g, FALSE)
  BY <1>2 DEF Fits
<1>4. OneWay(L)
  BY <1>2 DEF OneWay
<1>5. ASSUME NEW q \in Parts, q.of = g PROVE Waits(L, Off(q))
  <2>2. CASE q = Part("grp", 0, g)
    BY <1>1, <2>2 DEF Waits
  <2>3. CASE q = Part("run", 0, g)
    BY <1>1, <2>3 DEF Waits
  <2>4. ASSUME NEW c \in 1 .. VpssChns, q = Part("chn", c, g) PROVE Waits(L, Off(q))
    <3>1. c + 1 \in 2 .. n + 1 /\ c + 1 \in DOMAIN L /\ (c + 1) - 1 = c
      BY <1>1 DEF n
    <3>2. L[c + 1] = Off(q)
      BY <1>1, <2>4, <3>1
    <3> QED BY <3>1, <3>2 DEF Waits
  <2> QED BY <1>5, <2>2, <2>3, <2>4, PartOfGroup
<1> QED BY <1>1, <1>3, <1>4, <1>5 DEF Listed, L

LEMMA VoCloseListed ==
  ASSUME NEW o \in Outputs, params[o].hdmi \in BOOLEAN
  PROVE  Listed(VoClose(o), "close", o, params[o].hdmi)
<1> DEFINE L == VoClose(o)
           n == VoChns
           hdmi == params[o].hdmi
           dev == Part("dev", 0, o)
           layer == Part("layer", 0, o)
<1>1. /\ L \in Seq(Calls) /\ n \in Nat \ {0}
      /\ DOMAIN L = 1 .. (IF hdmi THEN n + 5 ELSE n + 2)
      /\ \A i \in 1 .. n : L[i] = Off(Part("chn", i, o))
      /\ L[n + 1] = Off(layer) /\ L[n + 2] = Off(dev)
      /\ hdmi => L[n + 3] = Off(Link) /\ L[n + 4] = Off(OpenHdmi) /\ L[n + 5] = Off(InitHdmi)
  BY VoCloseIs
<1>p. dev.of = o /\ layer.of = o
  BY PartIs
<1> HIDE DEF L, n, hdmi, dev, layer
<1>2. ASSUME NEW i \in DOMAIN L
      PROVE  L[i].do = "off" /\ (L[i].part.of = o \/ (L[i].part.of = HdmiDev /\ hdmi))
  <2>1. i \in 1 .. n + 2 \/ (hdmi /\ i \in n + 3 .. n + 5)
    BY <1>1
  <2>2. CASE i \in 1 .. n + 2
    <3>1. i = n + 1 \/ i = n + 2 \/ i \in 1 .. n
      BY <1>1, <2>2
    <3> QED BY <1>1, <1>p, <3>1, CallIs, PartIs
  <2>3. CASE hdmi /\ i \in n + 3 .. n + 5
    <3>1. i = n + 3 \/ i = n + 4 \/ i = n + 5
      BY <1>1, <2>3
    <3> QED BY <1>1, <2>3, <3>1, CallIs, HdmiParts
  <2> QED BY <2>1, <2>2, <2>3
<1>3. \A i \in DOMAIN L : Fits(L[i], "close", o, hdmi)
  BY <1>2 DEF Fits
<1>4. OneWay(L)
  BY <1>2 DEF OneWay
<1>5. ASSUME NEW q \in Parts, q.of = o PROVE Waits(L, Off(q))
  <2>1. n + 1 \in DOMAIN L /\ n + 2 \in DOMAIN L /\ \A c \in 1 .. VoChns : c \in DOMAIN L
    BY <1>1 DEF n
  <2>2. CASE q = dev
    BY <1>1, <2>1, <2>2 DEF Waits
  <2>3. CASE q = layer
    BY <1>1, <2>1, <2>3 DEF Waits
  <2>4. ASSUME NEW c \in 1 .. VoChns, q = Part("chn", c, o) PROVE Waits(L, Off(q))
    BY <1>1, <2>1, <2>4 DEF Waits, n
  <2> QED BY <1>5, <2>2, <2>3, <2>4, PartOfOutput DEF dev, layer
<1>6. ASSUME NEW q \in Parts, q.of = HdmiDev, hdmi PROVE Waits(L, Off(q))
  <2>1. n + 3 \in DOMAIN L /\ n + 4 \in DOMAIN L /\ n + 5 \in DOMAIN L
    BY <1>1, <1>6
  <2>2. q \in {InitHdmi, OpenHdmi, Link}
    BY <1>6, PartOfHdmi
  <2> QED BY <1>1, <1>6, <2>1, <2>2 DEF Waits
<1> QED BY <1>1, <1>3, <1>4, <1>5, <1>6 DEF Listed, L, hdmi

LEMMA UseListed ==
  /\ \A o \in Outputs :
       /\ Listed(StopAllChn(o), "stop", o, Hdmi(o))
       /\ \A c \in 1 .. VoChns :
            /\ Listed(<<Use(Part("layer", 0, o)), On(Part("chn", c, o))>>, "use", o, Hdmi(o))
            /\ Listed(<<Off(Part("chn", c, o))>>, "use", o, Hdmi(o))
       /\ Listed(<<Use(Part("layer", 0, o))>>, "use", o, Hdmi(o))
  /\ \A g \in Groups : Listed(<<Use(Part("grp", 0, g))>>, "use", g, FALSE)
<1>1. ASSUME NEW c \in Calls, NEW d, NEW hdmi, Fits(c, "use", d, hdmi)
      PROVE  Listed(<<c>>, "use", d, hdmi)
  <2>1. <<c>> \in Seq(Calls) /\ DOMAIN <<c>> = {1} /\ <<c>>[1] = c
    OBVIOUS
  <2> QED BY <1>1, <2>1 DEF Listed, OneWay
<1>2. ASSUME NEW o \in Outputs
      PROVE  /\ Listed(StopAllChn(o), "stop", o, Hdmi(o))
             /\ \A c \in 1 .. VoChns :
                  /\ Listed(<<Use(Part("layer", 0, o)), On(Part("chn", c, o))>>,
                            "use", o, Hdmi(o))
                  /\ Listed(<<Off(Part("chn", c, o))>>, "use", o, Hdmi(o))
             /\ Listed(<<Use(Part("layer", 0, o))>>, "use", o, Hdmi(o))
  <2> DEFINE L == StopAllChn(o)
             u == Use(Part("layer", 0, o))
  <2>1. /\ L \in Seq(Calls) /\ DOMAIN L = 1 .. VoChns
        /\ \A i \in 1 .. VoChns : L[i] = Off(Part("chn", i, o))
    BY StopAllChnIs
  <2>2. u \in Calls /\ Fits(u, "use", o, Hdmi(o)) /\ u.do = "use"
    BY PartsOf, CallIs, PartIs DEF Calls, Fits
  <2>3. ASSUME NEW c \in 1 .. VoChns
        PROVE  LET a == On(Part("chn", c, o)) b == Off(Part("chn", c, o))
               IN  /\ a \in Calls /\ Fits(a, "use", o, Hdmi(o)) /\ a.do = "on"
                   /\ b \in Calls /\ Fits(b, "use", o, Hdmi(o))
                   /\ Fits(b, "stop", o, Hdmi(o)) /\ b.do = "off"
    BY PartsOf, CallIs, PartIs DEF Calls, Fits
  <2> HIDE DEF L, u
  <2>4. Listed(L, "stop", o, Hdmi(o))
    BY <2>1, <2>3 DEF Listed, OneWay
  <2>5. ASSUME NEW c \in 1 .. VoChns
        PROVE  Listed(<<u, On(Part("chn", c, o))>>, "use", o, Hdmi(o))
    <3> DEFINE a == On(Part("chn", c, o))
    <3>1. a \in Calls /\ Fits(a, "use", o, Hdmi(o)) /\ a.do = "on"
      BY <2>3
    <3> HIDE DEF a
    <3>2. /\ <<u, a>> \in Seq(Calls) /\ DOMAIN <<u, a>> = 1 .. 2
          /\ <<u, a>>[1] = u /\ <<u, a>>[2] = a
      BY <2>2, <3>1
    <3>3. \A i \in 1 .. 2 : i = 1 \/ i = 2
      OBVIOUS
    <3>4. Listed(<<u, a>>, "use", o, Hdmi(o))
      BY <2>2, <3>1, <3>2, <3>3 DEF Listed, OneWay
    <3> QED BY <3>4 DEF a
  <2>6. \A c \in 1 .. VoChns : Listed(<<Off(Part("chn", c, o))>>, "use", o, Hdmi(o))
    BY <1>1, <2>3
  <2>7. Listed(<<u>>, "use", o, Hdmi(o))
    BY <1>1, <2>2
  <2> QED BY <2>4, <2>5, <2>6, <2>7 DEF L, u
<1>3. ASSUME NEW g \in Groups PROVE Listed(<<Use(Part("grp", 0, g))>>, "use", g, FALSE)
  <2>1. LET u == Use(Part("grp", 0, g)) IN u \in Calls /\ Fits(u, "use", g, FALSE)
    BY PartsOf, CallIs, PartIs DEF Calls, Fits
  <2> QED BY <1>1, <2>1
<1> QED BY <1>2, <1>3

-----------------------------------------------------------------------------
(* When a method finds what it expects, the SDK takes all its calls.        *)

LEMMA VpssInitializeLegal ==
  ASSUME NEW g \in Groups, NEW S, \A q \in S : q.of # g,
         NEW i \in DOMAIN VpssInitialize(g)
  PROVE  LegalAt(VpssInitialize(g), i, S)
<1> DEFINE L == VpssInitialize(g)
           n == VpssChns
           grp == Part("grp", 0, g)
           run == Part("run", 0, g)
           chn(c) == Part("chn", c, g)
<1>1. /\ n \in Nat \ {0} /\ L \in Seq(Calls) /\ DOMAIN L = 1 .. n + 2
      /\ L[1] = On(grp) /\ L[n + 2] = On(run)
      /\ \A j \in 2 .. n + 1 : L[j] = On(chn(j - 1))
  BY VpssIs
<1>2. Base(grp) = {} /\ Base(run) = {grp} /\ \A c : Base(chn(c)) = {grp}
  BY BaseIs
<1>3. /\ grp.of = g /\ grp.what = "grp" /\ run.of = g /\ run.what = "run"
      /\ \A c : chn(c).of = g /\ chn(c).what = "chn" /\ chn(c).no = c
  BY PartIs
<1>4. ASSUME NEW p, p.of = g, ~Twice(p), L[i] = On(p), Base(p) \subseteq {grp}, i = 1 => Base(p) = {},
             \A j \in 1 .. i - 1 : L[j] # On(p)
      PROVE  LegalAt(L, i, S)
  <2>1. L[i].do = "on" /\ L[i].part = p
    BY <1>4, CallIs
  <2>2. ~OnAt(L, i, p, S)
    BY <1>4 DEF OnAt
  <2>3. i > 1 => OnAt(L, i, grp, S)
    BY <1>1 DEF OnAt
  <2> QED BY <1>1, <1>4, <2>1, <2>2, <2>3 DEF LegalAt
<1>5. CASE i = 1
  <2>1. ~Twice(grp) /\ \A j \in 1 .. i - 1 : L[j] # On(grp)
    BY <1>3, <1>5 DEF Twice
  <2> QED BY <1>1, <1>2, <1>3, <1>4, <1>5, <2>1
<1>6. CASE i \in 2 .. n + 1
  <2>1. ~Twice(chn(i - 1))
    BY <1>3, Owners DEF Twice
  <2>2. ASSUME NEW j \in 1 .. i - 1 PROVE L[j] # On(chn(i - 1))
    <3>1. CASE j = 1
      BY <1>1, <1>3, <3>1, CallIs
    <3>2. CASE j # 1
      <4>1. j \in 2 .. n + 1 /\ j - 1 # i - 1
        BY <1>1, <1>6, <2>2, <3>2
      <4> QED BY <1>1, <1>3, <4>1, CallIs
    <3> QED BY <3>1, <3>2
  <2> QED BY <1>1, <1>2, <1>3, <1>4, <1>6, <2>1, <2>2
<1>7. CASE i = n + 2
  <2>1. ~Twice(run)
    BY <1>3 DEF Twice
  <2>2. ASSUME NEW j \in 1 .. i - 1 PROVE L[j] # On(run)
    <3>1. CASE j = 1
      BY <1>1, <1>3, <3>1, CallIs
    <3>2. CASE j # 1
      <4>1. j \in 2 .. n + 1
        BY <1>1, <1>7, <2>2, <3>2
      <4> QED BY <1>1, <1>3, <4>1, CallIs
    <3> QED BY <3>1, <3>2
  <2>3. i # 1
    BY <1>1, <1>7
  <2> QED BY <1>1, <1>2, <1>3, <1>4, <1>7, <2>1, <2>2, <2>3
<1> QED BY <1>1, <1>5, <1>6, <1>7

(* What is not on yet may be made on what is. *)
LEMMA OnLegal ==
  ASSUME NEW L \in Seq(Calls), NEW i \in DOMAIN L, NEW p, NEW S,
         L[i] = On(p) \/ L[i] = Set(p), p \notin S, \A j \in 1 .. i - 1 : L[j] # On(p),
         \A b \in Base(p) : \E j \in 1 .. i - 1 : L[j] = On(b)
  PROVE  LegalAt(L, i, S)
<1>1. (L[i].do = "on" \/ L[i].do = "set") /\ L[i].part = p
  BY CallIs
<1>2. ~OnAt(L, i, p, S)
  BY DEF OnAt
<1>3. \A b \in Base(p) : OnAt(L, i, b, S)
  BY DEF OnAt
<1> QED BY <1>1, <1>2, <1>3 DEF LegalAt

LEMMA VoInitializeLegal ==
  ASSUME NEW o \in Outputs, NEW p \in Params(o), NEW S,
         NEW i \in DOMAIN VoInitialize(o, p),
         \A q \in S : q.of # VoInitialize(o, p)[i].part.of
  PROVE  LegalAt(VoInitialize(o, p), i, S)
<1> DEFINE L == VoInitialize(o, p)
           h == IF p.hdmi THEN 5 ELSE 0
           dev == Part("dev", 0, o)
           layer == Part("layer", 0, o)
<1>1. /\ L \in Seq(Calls) /\ DOMAIN L = 1 .. h + 4
      /\ L[h + 1] = Set(dev) /\ L[h + 2] = On(dev)
      /\ L[h + 3] = Set(layer) /\ L[h + 4] = On(layer)
      /\ p.hdmi => /\ L[1] = On(InitHdmi) /\ L[2] = On(OpenHdmi) /\ L[3] = Use(OpenHdmi)
                   /\ L[4] = Set(Link) /\ L[5] = On(Link)
  BY VoInitializeIs
<1>2. /\ Base(dev) = {} /\ Base(layer) = {dev}
      /\ Base(InitHdmi) = {} /\ Base(OpenHdmi) = {InitHdmi} /\ Base(Link) = {OpenHdmi}
  BY BaseIs
<1>3. /\ dev.of = o /\ dev.what = "dev" /\ layer.of = o /\ layer.what = "layer"
      /\ InitHdmi.what = "init" /\ OpenHdmi.what = "open" /\ Link.what = "link"
      /\ (h = 0 /\ ~p.hdmi) \/ (h = 5 /\ p.hdmi)
  BY PartIs, HdmiParts
<1>i. i \in DOMAIN L /\ L[i].part \notin S
  OBVIOUS
<1> SUFFICES LegalAt(L, i, S)
  OBVIOUS
<1> HIDE DEF L, h, dev, layer
<1>m. ASSUME NEW a, L[i] = On(a) \/ L[i] = Set(a), \A j \in 1 .. i - 1 : L[j] # On(a),
             \A b \in Base(a) : \E j \in 1 .. i - 1 : L[j] = On(b)
      PROVE  LegalAt(L, i, S)
  <2>1. a \notin S
    BY <1>i, <1>m, CallIs
  <2> QED BY <1>1, <1>i, <1>m, <2>1, OnLegal
<1>4. CASE h = 0 \/ i > 5
  <2>1. /\ i = h + 1 \/ i = h + 2 \/ i = h + 3 \/ i = h + 4
        /\ h = 5 => \A j \in 1 .. 5 : L[j] # On(dev) /\ L[j] # On(layer)
    <3>1. i = h + 1 \/ i = h + 2 \/ i = h + 3 \/ i = h + 4
      BY <1>1, <1>3, <1>4, <1>i
    <3>2. h = 5 => \A j \in 1 .. 5 : j = 1 \/ j = 2 \/ j = 3 \/ j = 4 \/ j = 5
      OBVIOUS
    <3>3. h = 5 => \A j \in 1 .. 5 : L[j] # On(dev) /\ L[j] # On(layer)
      BY <1>1, <1>3, <3>2, CallIs
    <3> QED BY <3>1, <3>3
  <2>2. \A j \in 1 .. i - 1 : \/ h = 5 /\ j \in 1 .. 5
                             \/ j = h + 1 \/ j = h + 2 \/ j = h + 3
    BY <1>3, <2>1
  <2>3. \A j \in 1 .. i - 1 : L[j] = On(dev) => i > h + 2
    BY <1>1, <1>3, <2>1, <2>2, CallIs
  <2>4. \A j \in 1 .. i - 1 : L[j] # On(layer)
    BY <1>1, <1>3, <2>1, <2>2, CallIs
  <2>5. i > h + 2 => \E j \in 1 .. i - 1 : L[j] = On(dev)
    <3>1. i > h + 2 => h + 2 \in 1 .. i - 1
      BY <1>3, <2>1
    <3> QED BY <1>1, <3>1
  <2>6. CASE i = h + 1 \/ i = h + 2
    <3>1. L[i] = On(dev) \/ L[i] = Set(dev)
      BY <1>1, <2>6
    <3>2. ~(i > h + 2)
      BY <1>3, <2>6
    <3> QED BY <1>2, <1>m, <2>3, <3>1, <3>2
  <2>7. CASE i = h + 3 \/ i = h + 4
    <3>1. L[i] = On(layer) \/ L[i] = Set(layer)
      BY <1>1, <2>7
    <3>2. i > h + 2
      BY <1>3, <2>7
    <3> QED BY <1>2, <1>m, <2>4, <2>5, <3>1, <3>2
  <2> QED BY <2>1, <2>6, <2>7
<1>5. CASE h = 5 /\ i <= 5
  <2>1. i \in {1, 2, 3, 4, 5}
    BY <1>1, <1>5, <1>i
  <2>2. \A j \in 1 .. i - 1 : j \in {1, 2, 3, 4} /\ j < i
    BY <2>1
  <2>3. CASE i = 1
    BY <1>1, <1>2, <1>3, <1>5, <1>m, <2>2, <2>3
  <2>4. CASE i = 2
    <3>1. 1 \in 1 .. i - 1 /\ \A j \in 1 .. i - 1 : j = 1
      BY <2>4
    <3>2. L[1] # On(OpenHdmi)
      BY <1>1, <1>3, <1>5, CallIs
    <3> QED BY <1>1, <1>2, <1>3, <1>5, <1>m, <2>4, <3>1, <3>2
  <2>5. CASE i = 3
    <3>1. OnAt(L, i, OpenHdmi, S)
      <4>1. 2 \in 1 .. i - 1
        BY <2>5
      <4> QED BY <1>1, <1>3, <1>5, <4>1 DEF OnAt
    <3>2. L[i].do = "use" /\ L[i].part = OpenHdmi
      BY <1>1, <1>3, <1>5, <2>5, CallIs
    <3> QED BY <3>1, <3>2 DEF LegalAt
  <2>6. CASE i = 4 \/ i = 5
    <3>1. 2 \in 1 .. i - 1 /\ \A j \in 1 .. i - 1 : j = 1 \/ j = 2 \/ j = 3 \/ j = 4
      BY <2>6
    <3>2. \A j \in 1 .. i - 1 : L[j] # On(Link)
      BY <1>1, <1>3, <1>5, <3>1, CallIs
    <3>3. L[i] = On(Link) \/ L[i] = Set(Link)
      BY <1>1, <1>3, <1>5, <2>6
    <3> QED BY <1>1, <1>2, <1>3, <1>5, <1>m, <3>1, <3>2, <3>3
  <2> QED BY <2>1, <2>3, <2>4, <2>5, <2>6
<1> QED BY <1>1, <1>3, <1>4, <1>5, <1>i

(* What is made on nothing that is still on may go. *)
LEMMA OffLegal ==
  ASSUME NEW L \in Seq(Calls), NEW i \in DOMAIN L, NEW p, NEW S,
         L[i] = Off(p), \A j \in DOMAIN L : L[j].do # "on",
         Twice(p) \/ (p \in S /\ \A j \in 1 .. i - 1 : L[j] # Off(p)),
         \A q \in Parts : p \in Base(q) => \E j \in 1 .. i - 1 : L[j] = Off(q)
  PROVE  LegalAt(L, i, S)
<1>1. L[i].do = "off" /\ L[i].part = p
  BY CallIs
<1>2. \A j \in 1 .. i - 1 : j \in DOMAIN L
  OBVIOUS
<1>3. \A q : \A j \in 1 .. i - 1 : L[j] # On(q)
  BY <1>2, CallIs
<1>4. Twice(p) \/ OnAt(L, i, p, S)
  BY DEF OnAt
<1>5. \A q \in Parts : OnAt(L, i, q, S) => p \notin Base(q)
  BY <1>3 DEF OnAt
<1> QED BY <1>1, <1>4, <1>5 DEF LegalAt

LEMMA VpssCloseLegal ==
  ASSUME NEW g \in Groups, NEW S, OfGroup(g) \subseteq S,
         NEW i \in DOMAIN VpssClose(g)
  PROVE  LegalAt(VpssClose(g), i, S)
<1> DEFINE L == VpssClose(g)
           n == VpssChns
           grp == Part("grp", 0, g)
           run == Part("run", 0, g)
           chn(c) == Part("chn", c, g)
<1>1. /\ n \in Nat \ {0} /\ L \in Seq(Calls) /\ DOMAIN L = 1 .. n + 2
      /\ L[1] = Off(run) /\ L[n + 2] = Off(grp)
      /\ \A j \in 2 .. n + 1 : L[j] = Off(chn(j - 1))
  BY VpssIs
<1>2. /\ grp \in S /\ run \in S /\ \A c \in 1 .. n : chn(c) \in S
  BY WholeIs
<1>3. /\ grp.of = g /\ grp.what = "grp" /\ run.of = g /\ run.what = "run"
      /\ \A c : chn(c).of = g /\ chn(c).what = "chn" /\ chn(c).no = c
  BY PartIs
<1>4. \A q \in Parts : run \notin Base(q) /\ \A c : chn(c) \notin Base(q)
  BY <1>3, Dependents, PartIs
<1>5. \A j \in DOMAIN L : L[j].do # "on"
  <2>1. ASSUME NEW j \in DOMAIN L PROVE j = 1 \/ j = n + 2 \/ j \in 2 .. n + 1
    BY <1>1
  <2> QED BY <1>1, <2>1, CallIs
<1>6. CASE i = 1
  <2>1. \A j \in 1 .. i - 1 : L[j] # Off(run)
    BY <1>6
  <2> QED BY <1>1, <1>2, <1>4, <1>5, <1>6, <2>1, OffLegal
<1>7. CASE i \in 2 .. n + 1
  <2>1. ASSUME NEW j \in 1 .. i - 1 PROVE L[j] # Off(chn(i - 1))
    <3>1. CASE j = 1
      BY <1>1, <1>3, <3>1, CallIs
    <3>2. CASE j # 1
      <4>1. j \in 2 .. n + 1 /\ j - 1 # i - 1
        BY <1>1, <1>7, <2>1, <3>2
      <4> QED BY <1>1, <1>3, <4>1, CallIs
    <3> QED BY <3>1, <3>2
  <2>2. i - 1 \in 1 .. n
    BY <1>1, <1>7
  <2> QED BY <1>1, <1>2, <1>4, <1>5, <1>7, <2>1, <2>2, OffLegal
<1>8. CASE i = n + 2
  <2>1. ASSUME NEW j \in 1 .. i - 1 PROVE L[j] # Off(grp)
    <3>1. j = 1 \/ j \in 2 .. n + 1
      BY <1>1, <1>8
    <3> QED BY <1>1, <1>3, <3>1, CallIs
  <2>2. ASSUME NEW q \in Parts, grp \in Base(q) PROVE \E j \in 1 .. i - 1 : L[j] = Off(q)
    <3>1. q.of = g /\ (q.what = "run" \/ q.what = "chn")
      BY <1>3, <2>2, Dependents, PartIs
    <3>2. q = run \/ \E c \in 1 .. n : q = chn(c)
      BY <1>3, <3>1, PartOfGroup
    <3>3. CASE q = run
      <4>1. 1 \in 1 .. i - 1
        BY <1>1, <1>8
      <4> QED BY <1>1, <3>3, <4>1
    <3>4. ASSUME NEW c \in 1 .. n, q = chn(c) PROVE \E j \in 1 .. i - 1 : L[j] = Off(q)
      <4>1. c + 1 \in 1 .. i - 1 /\ c + 1 \in 2 .. n + 1 /\ (c + 1) - 1 = c
        BY <1>1, <1>8
      <4>2. L[c + 1] = Off(q)
        BY <1>1, <3>4, <4>1
      <4> QED BY <4>1, <4>2
    <3> QED BY <3>2, <3>3, <3>4
  <2> QED BY <1>1, <1>2, <1>5, <1>8, <2>1, <2>2, OffLegal
<1> QED BY <1>1, <1>6, <1>7, <1>8

(* A channel may always go; nothing is made on it. *)
LEMMA ChnOffLegal ==
  ASSUME NEW L \in Seq(Calls), NEW i \in DOMAIN L, NEW o \in Outputs, NEW c, NEW S,
         L[i] = Off(Part("chn", c, o)), \A j \in DOMAIN L : L[j].do # "on"
  PROVE  LegalAt(L, i, S)
<1>1. Twice(Part("chn", c, o))
  BY PartIs DEF Twice
<1>2. \A q \in Parts : Part("chn", c, o) \notin Base(q)
  BY Dependents, PartIs
<1> QED BY <1>1, <1>2, OffLegal

LEMMA VoCloseLegal ==
  ASSUME NEW o \in Outputs, NEW S, OfOutput(o) \subseteq S,
         params[o].hdmi => OfHdmi \subseteq S, NEW i \in DOMAIN VoClose(o)
  PROVE  LegalAt(VoClose(o), i, S)
<1> DEFINE L == VoClose(o)
           n == VoChns
           dev == Part("dev", 0, o)
           layer == Part("layer", 0, o)
           chn(c) == Part("chn", c, o)
           hdmi == params[o].hdmi
<1>1. /\ L \in Seq(Calls) /\ n \in Nat \ {0}
      /\ DOMAIN L = 1 .. (IF hdmi THEN n + 5 ELSE n + 2)
      /\ \A j \in 1 .. n : L[j] = Off(chn(j))
      /\ L[n + 1] = Off(layer) /\ L[n + 2] = Off(dev)
      /\ hdmi => L[n + 3] = Off(Link) /\ L[n + 4] = Off(OpenHdmi) /\ L[n + 5] = Off(InitHdmi)
  BY VoCloseIs
<1>2. /\ dev \in S /\ layer \in S
      /\ hdmi => Link \in S /\ OpenHdmi \in S /\ InitHdmi \in S
  BY WholeIs
<1>3. /\ dev.of = o /\ dev.what = "dev" /\ layer.of = o /\ layer.what = "layer"
      /\ \A c : chn(c).of = o /\ chn(c).what = "chn" /\ chn(c).no = c
      /\ o # HdmiDev
  BY PartIs, Owners
<1>i. i \in DOMAIN L
  OBVIOUS
<1> SUFFICES LegalAt(L, i, S)
  OBVIOUS
<1> HIDE DEF L, n, dev, layer, chn, hdmi
<1>c. ASSUME NEW p, L[i] = Off(p), Twice(p) \/ (p \in S /\ \A j \in 1 .. i - 1 : L[j] # Off(p)),
             \A j \in DOMAIN L : L[j].do # "on",
             \A q \in Parts : p \in Base(q) => \E j \in 1 .. i - 1 : L[j] = Off(q)
      PROVE  LegalAt(L, i, S)
  BY <1>1, <1>i, <1>c, OffLegal
<1>4. \A j \in DOMAIN L : \/ j \in 1 .. n \/ j = n + 1 \/ j = n + 2
                          \/ hdmi /\ (j = n + 3 \/ j = n + 4 \/ j = n + 5)
  BY <1>1
<1>5. ASSUME NEW j \in DOMAIN L PROVE L[j].do # "on"
  <2>1. CASE j \in 1 .. n
    BY <1>1, <2>1, CallIs
  <2>2. CASE j = n + 1 \/ j = n + 2
    BY <1>1, <2>2, CallIs
  <2>3. CASE hdmi /\ (j = n + 3 \/ j = n + 4 \/ j = n + 5)
    BY <1>1, <2>3, CallIs
  <2> QED BY <1>4, <2>1, <2>2, <2>3
<1>6. CASE i \in 1 .. n
  <2>1. L[i] = Off(chn(i))
    BY <1>1, <1>6
  <2> QED BY <1>1, <1>5, <1>i, <2>1, ChnOffLegal DEF chn
<1>7. CASE i = n + 1
  <2>1. ASSUME NEW j \in 1 .. i - 1 PROVE L[j] # Off(layer)
    <3>1. j \in 1 .. n
      BY <1>1, <1>7
    <3> QED BY <1>1, <1>3, <3>1, CallIs
  <2>2. ASSUME NEW q \in Parts, layer \in Base(q) PROVE \E j \in 1 .. i - 1 : L[j] = Off(q)
    <3>1. q.of = o /\ q.what = "chn"
      BY <1>3, <2>2, Dependents, PartIs
    <3>2. \E c \in 1 .. n : q = chn(c)
      BY <1>3, <3>1, PartOfOutput DEF chn, n, dev, layer
    <3>3. \A c \in 1 .. n : c \in 1 .. i - 1
      BY <1>1, <1>7
    <3> QED BY <1>1, <3>2, <3>3
  <2>3. L[i] = Off(layer) /\ layer \in S
    BY <1>1, <1>2, <1>7
  <2> QED BY <1>5, <1>c, <2>1, <2>2, <2>3
<1>8. CASE i = n + 2
  <2>1. ASSUME NEW j \in 1 .. i - 1 PROVE L[j] # Off(dev)
    <3>1. j \in 1 .. n \/ j = n + 1
      BY <1>1, <1>8
    <3> QED BY <1>1, <1>3, <3>1, CallIs
  <2>2. ASSUME NEW q \in Parts, dev \in Base(q) PROVE \E j \in 1 .. i - 1 : L[j] = Off(q)
    <3>1. q.of = o /\ q.what = "layer"
      BY <1>3, <2>2, Dependents, PartIs
    <3>2. q = layer
      BY <1>3, <3>1, PartOfOutput DEF chn, n, dev, layer
    <3>3. n + 1 \in 1 .. i - 1
      BY <1>1, <1>8
    <3> QED BY <1>1, <3>2, <3>3
  <2>3. L[i] = Off(dev) /\ dev \in S
    BY <1>1, <1>2, <1>8
  <2> QED BY <1>5, <1>c, <2>1, <2>2, <2>3
<1>9. ASSUME hdmi, i \in n + 3 .. n + 5, NEW j \in 1 .. i - 1
      PROVE  \/ L[j].part.of = o \/ (j = n + 3 /\ L[j] = Off(Link))
             \/ (j = n + 4 /\ L[j] = Off(OpenHdmi))
  <2>1. j \in 1 .. n \/ j = n + 1 \/ j = n + 2 \/ j = n + 3 \/ j = n + 4
    BY <1>1, <1>9
  <2>2. CASE j \in 1 .. n
    BY <1>1, <1>3, <2>2, CallIs
  <2>3. CASE j = n + 1 \/ j = n + 2
    BY <1>1, <1>3, <2>3, CallIs
  <2>4. CASE j = n + 3 \/ j = n + 4
    BY <1>1, <1>9, <2>4
  <2> QED BY <2>1, <2>2, <2>3, <2>4
<1>10. CASE hdmi /\ i = n + 3
  <2>1. \A j \in 1 .. i - 1 : L[j] # Off(Link)
    <3>1. \A j \in 1 .. i - 1 : j # n + 3 /\ j # n + 4
      BY <1>1, <1>10
    <3>2. i \in n + 3 .. n + 5
      BY <1>1, <1>10
    <3> QED BY <1>3, <1>9, <1>10, <3>1, <3>2, CallIs, HdmiParts
  <2>2. \A q \in Parts : Link \notin Base(q)
    BY Dependents, HdmiParts, PartIs
  <2>3. L[i] = Off(Link) /\ Link \in S
    BY <1>1, <1>2, <1>10
  <2> QED BY <1>5, <1>c, <2>1, <2>2, <2>3
<1>11. CASE hdmi /\ i = n + 4
  <2>1. \A j \in 1 .. i - 1 : L[j] # Off(OpenHdmi)
    <3>1. \A j \in 1 .. i - 1 : j # n + 4
      BY <1>1, <1>11
    <3>2. i \in n + 3 .. n + 5
      BY <1>1, <1>11
    <3> QED BY <1>3, <1>9, <1>11, <3>1, <3>2, CallIs, HdmiParts
  <2>2. ASSUME NEW q \in Parts, OpenHdmi \in Base(q)
        PROVE  \E j \in 1 .. i - 1 : L[j] = Off(q)
    <3>1. q.of = HdmiDev /\ q.what = "link"
      BY <2>2, Dependents, HdmiParts, PartIs
    <3>2. q = Link
      BY <3>1, PartOfHdmi, HdmiParts
    <3>3. n + 3 \in 1 .. i - 1
      BY <1>1, <1>11
    <3> QED BY <1>1, <1>11, <3>2, <3>3
  <2>3. L[i] = Off(OpenHdmi) /\ OpenHdmi \in S
    BY <1>1, <1>2, <1>11
  <2> QED BY <1>5, <1>c, <2>1, <2>2, <2>3
<1>12. CASE hdmi /\ i = n + 5
  <2>1. \A j \in 1 .. i - 1 : L[j] # Off(InitHdmi)
    <3>1. i \in n + 3 .. n + 5
      BY <1>1, <1>12
    <3> QED BY <1>3, <1>9, <1>12, <3>1, CallIs, HdmiParts
  <2>2. ASSUME NEW q \in Parts, InitHdmi \in Base(q)
        PROVE  \E j \in 1 .. i - 1 : L[j] = Off(q)
    <3>1. q.of = HdmiDev /\ q.what = "open"
      BY <2>2, Dependents, HdmiParts, PartIs
    <3>2. q = OpenHdmi
      BY <3>1, PartOfHdmi, HdmiParts
    <3>3. n + 4 \in 1 .. i - 1
      BY <1>1, <1>12
    <3> QED BY <1>1, <1>12, <3>2, <3>3
  <2>3. L[i] = Off(InitHdmi) /\ InitHdmi \in S
    BY <1>1, <1>2, <1>12
  <2> QED BY <1>5, <1>c, <2>1, <2>2, <2>3
<1> QED BY <1>4, <1>6, <1>7, <1>8, <1>10, <1>11, <1>12, <1>i

LEMMA UseLegal ==
  /\ \A o \in Outputs : \A S : OfOutput(o) \subseteq S =>
       /\ \A i \in DOMAIN StopAllChn(o) : LegalAt(StopAllChn(o), i, S)
       /\ \A c \in 1 .. VoChns :
            LET L == <<Use(Part("layer", 0, o)), On(Part("chn", c, o))>>
                M == <<Off(Part("chn", c, o))>>
            IN  /\ \A i \in DOMAIN L : LegalAt(L, i, S)
                /\ \A i \in DOMAIN M : LegalAt(M, i, S)
       /\ LET L == <<Use(Part("layer", 0, o))>> IN \A i \in DOMAIN L : LegalAt(L, i, S)
  /\ \A g \in Groups : \A S : OfGroup(g) \subseteq S =>
       LET L == <<Use(Part("grp", 0, g))>> IN \A i \in DOMAIN L : LegalAt(L, i, S)
<1>1. ASSUME NEW p \in Parts, NEW S, p \in S, NEW i \in DOMAIN <<Use(p)>>
      PROVE  LegalAt(<<Use(p)>>, i, S)
  <2>1. i = 1 /\ <<Use(p)>>[1] = Use(p)
    OBVIOUS
  <2>2. OnAt(<<Use(p)>>, i, p, S)
    BY <1>1, <2>1 DEF OnAt
  <2> QED BY <2>1, <2>2, CallIs DEF LegalAt
<1>2. ASSUME NEW o \in Outputs, NEW S, OfOutput(o) \subseteq S
      PROVE  /\ \A i \in DOMAIN StopAllChn(o) : LegalAt(StopAllChn(o), i, S)
             /\ \A c \in 1 .. VoChns :
                  LET L == <<Use(Part("layer", 0, o)), On(Part("chn", c, o))>>
                      M == <<Off(Part("chn", c, o))>>
                  IN  /\ \A i \in DOMAIN L : LegalAt(L, i, S)
                      /\ \A i \in DOMAIN M : LegalAt(M, i, S)
             /\ LET L == <<Use(Part("layer", 0, o))>> IN \A i \in DOMAIN L : LegalAt(L, i, S)
  <2> DEFINE layer == Part("layer", 0, o)
             A == StopAllChn(o)
  <2>1. layer \in S /\ layer \in Parts /\ layer.what = "layer"
    BY <1>2, WholeIs, PartIs, PartsOf
  <2>2. /\ A \in Seq(Calls) /\ DOMAIN A = 1 .. VoChns
        /\ \A i \in 1 .. VoChns : A[i] = Off(Part("chn", i, o))
    BY StopAllChnIs
  <2> HIDE DEF layer, A
  <2>3. \A i \in DOMAIN A : LegalAt(A, i, S)
    <3>1. \A j \in DOMAIN A : A[j].do # "on"
      BY <2>2, CallIs
    <3> QED BY <2>2, <3>1, ChnOffLegal
  <2>4. \A i \in DOMAIN <<Use(layer)>> : LegalAt(<<Use(layer)>>, i, S)
    BY <1>1, <2>1
  <2>5. ASSUME NEW c \in 1 .. VoChns, NEW M, M = <<Off(Part("chn", c, o))>>, NEW i \in DOMAIN M
        PROVE  LegalAt(M, i, S)
    <3>1. Off(Part("chn", c, o)) \in Calls
      BY CallIs, PartsOf DEF Calls
    <3>2. M \in Seq(Calls) /\ M[i] = Off(Part("chn", c, o)) /\ \A j \in DOMAIN M : M[j] = M[i]
      BY <2>5, <3>1
    <3>3. \A j \in DOMAIN M : M[j].do # "on"
      BY <3>2, CallIs
    <3> QED BY <3>2, <3>3, ChnOffLegal
  <2>6. ASSUME NEW c \in 1 .. VoChns, NEW L, L = <<Use(layer), On(Part("chn", c, o))>>,
               NEW i \in DOMAIN L
        PROVE  LegalAt(L, i, S)
    <3> DEFINE a == Part("chn", c, o)
    <3>1. Twice(a) /\ Base(a) = {layer} /\ a # layer
      BY <2>1, BaseIs, PartIs DEF Twice, layer
    <3> HIDE DEF a
    <3>2. L[1] = Use(layer) /\ L[2] = On(a) /\ (i = 1 \/ i = 2)
      BY <2>6 DEF a
    <3>3. OnAt(L, 1, layer, S)
      BY <2>1 DEF OnAt
    <3>4. OnAt(L, 2, layer, S)
      <4>1. \A j \in 1 .. 2 - 1 : j = 1
        OBVIOUS
      <4> QED BY <2>1, <3>2, <4>1, CallIs DEF OnAt
    <3>5. CASE i = 1
      BY <3>2, <3>3, <3>5, CallIs DEF LegalAt
    <3>6. CASE i = 2
      BY <3>1, <3>2, <3>4, <3>6, CallIs DEF LegalAt
    <3> QED BY <3>2, <3>5, <3>6
  <2> QED BY <2>3, <2>4, <2>5, <2>6 DEF A, layer
<1>3. ASSUME NEW g \in Groups, NEW S, OfGroup(g) \subseteq S
      PROVE  LET L == <<Use(Part("grp", 0, g))>> IN \A i \in DOMAIN L : LegalAt(L, i, S)
  <2>1. Part("grp", 0, g) \in S /\ Part("grp", 0, g) \in Parts
    BY <1>3, WholeIs, PartsOf
  <2> QED BY <1>1, <2>1
<1> QED BY <1>2, <1>3

(* At the start nothing is open and nothing waits. *)
LEMMA Initially == Init => Typed
<1> SUFFICES ASSUME Init PROVE Typed
  OBVIOUS
<1>1. params \in [Outputs -> AllParams]
  BY DEF Init, AllParams
<1>2. todo \in Seq([do : {"on", "off", "set", "use"}, part : Parts])
  BY DEF Init
<1>3. faults \in 0 .. MaxFaults
  BY DevicesAssumption DEF Init
<1> QED BY <1>1, <1>2, <1>3 DEF Init, Typed, TypeOK

(* A method is entered, with its list of calls. *)
LEMMA EnterInv == Typed /\ Enter => Typed'
<1> SUFFICES ASSUME Typed, Enter PROVE Typed'
  OBVIOUS
<1>1. ASSUME NEW kind \in {"init", "close", "use", "stop"}, NEW d \in Devs,
             NEW list \in Seq(Calls), Call(kind, d, list),
             params' \in [Outputs -> AllParams]
      PROVE  Typed'
  <2>1. method' \in [kind : {"init", "close", "use", "stop"}, dev : Devs] /\ method' # Idle
    BY <1>1, DevicesAssumption DEF Call, Idle
  <2> QED BY <1>1, <2>1 DEF Typed, TypeOK, Call, Calls, sdkVars
<1>2. params \in [Outputs -> AllParams]
  BY DEF Typed, TypeOK
<1>3. \A o \in Outputs : o \in Devs
  BY DEF Devs
<1>4. \A g \in Groups : g \in Devs
  BY DEF Devs
<1>5. ASSUME NEW o \in Outputs, NEW p \in Params(o), OpenOutput(o, p) PROVE Typed'
  <2>1. params' \in [Outputs -> AllParams]
    <3>1. p \in AllParams
      BY DEF AllParams
    <3> QED BY <1>2, <1>5, <3>1 DEF OpenOutput
  <2> QED BY <1>1, <1>3, <1>5, <2>1, MethodsAreCalls DEF OpenOutput
<1>6. ASSUME NEW o \in Outputs, NEW c \in 1 .. VoChns, StartChannel(o, c) \/ StopChannel(o, c)
      PROVE  Typed'
  BY <1>1, <1>2, <1>3, <1>6, MethodsAreCalls DEF StartChannel, StopChannel
<1>7. ASSUME NEW o \in Outputs, CallStopAllChn(o) PROVE Typed'
  BY <1>1, <1>2, <1>3, <1>7, MethodsAreCalls DEF CallStopAllChn
<1>8. ASSUME NEW g \in Groups, OpenGroup(g) PROVE Typed'
  BY <1>1, <1>2, <1>4, <1>8, MethodsAreCalls DEF OpenGroup
<1>9. ASSUME NEW d \in Devs, Close(d) PROVE Typed'
  <2>1. (IF d \in Outputs THEN VoClose(d) ELSE VpssClose(d)) \in Seq(Calls)
    BY MethodsAreCalls DEF Devs
  <2> QED BY <1>1, <1>2, <1>9, <2>1 DEF Close
<1>10. ASSUME NEW d \in Devs, Tune(d) PROVE Typed'
  <2>1. <<Use(Part(IF d \in Outputs THEN "layer" ELSE "grp", 0, d))>> \in Seq(Calls)
    BY MethodsAreCalls DEF Devs
  <2> QED BY <1>1, <1>2, <1>10, <2>1 DEF Tune
<1> QED BY <1>5, <1>6, <1>7, <1>8, <1>9, <1>10 DEF Enter

(* One SDK call, or the return of the method. *)
LEMMA CallInv == Typed /\ (CallSucceeds \/ CallFails \/ Return) => Typed'
<1> SUFFICES ASSUME Typed, CallSucceeds \/ CallFails \/ Return PROVE Typed'
  OBVIOUS
<1> USE DEF Typed, TypeOK
<1>1. CASE CallSucceeds
  <2>1. todo # <<>> /\ method # Idle
    BY <1>1 DEF CallSucceeds
  <2>2. Head(todo).part \in Parts /\ Tail(todo) \in Seq(Calls)
    <3>1. Head(todo) \in Calls /\ Tail(todo) \in Seq(Calls)
      BY <2>1, HeadAndTail DEF Calls
    <3> QED BY <3>1 DEF Calls
  <2>3. on' \subseteq Parts /\ todo' = Tail(todo)
    BY <1>1, <2>2 DEF CallSucceeds
  <2> QED BY <1>1, <2>1, <2>2, <2>3 DEF CallSucceeds, Calls
<1>2. CASE CallFails
  <2>1. todo # <<>> /\ method # Idle
    BY <1>2 DEF CallFails
  <2>2. method \in [kind : {"init", "close", "use", "stop"}, dev : Devs]
    BY <2>1
  <2>3. /\ Head(todo).part \in Parts /\ Head(todo).part.of \in Devs \cup {HdmiDev}
        /\ Tail(todo) \in Seq(Calls)
    <3>1. Head(todo) \in Calls /\ Tail(todo) \in Seq(Calls)
      BY <2>1, HeadAndTail DEF Calls
    <3>2. Head(todo).part \in Parts
      BY <3>1 DEF Calls
    <3> QED BY <3>1, <3>2, OwnerOf
  <2>4. todo' \in Seq(Calls)
    BY <1>2, <2>3 DEF CallFails
  <2>5. failed' \subseteq Devs /\ refused' \subseteq Devs \cup {HdmiDev}
          /\ faults' \in 0 .. MaxFaults
    BY <1>2, <2>2, <2>3, DevicesAssumption DEF CallFails
  <2>6. method' \in [kind : {"init", "close", "use", "stop"}, dev : Devs]
    BY <1>2, <2>2 DEF CallFails
  <2>7. method' # Idle
    BY <2>6, DevicesAssumption DEF Idle
  <2> QED BY <1>2, <2>4, <2>5, <2>6, <2>7 DEF CallFails, sdkVars, Calls
<1>3. CASE Return
  <2>1. method \in [kind : {"init", "close", "use", "stop"}, dev : Devs]
    BY <1>3 DEF Return
  <2>2. init' \subseteq Devs
    BY <1>3, <2>1 DEF Return
  <2>3. params' \in [Outputs -> AllParams]
    <3>1. params \in [Outputs -> AllParams] /\ NoParams \in AllParams
      BY DEF AllParams
    <3>2. params' = [o \in Outputs |-> IF o \in init' THEN params[o] ELSE NoParams]
      BY <1>3 DEF Return
    <3> QED BY <3>1, <3>2
  <2> QED BY <1>3, <2>2, <2>3 DEF Return, sdkVars
<1> QED BY <1>1, <1>2, <1>3

-----------------------------------------------------------------------------
(* A method is entered. *)

LEMMA Enters ==
  ASSUME IInv, Typed', NEW kind \in {"init", "close", "use", "stop"}, NEW d \in Devs,
         NEW L, NEW hdmi, Call(kind, d, L), Listed(L, kind, d, hdmi), Hdmi(d)' <=> hdmi,
         kind = "init" => d \notin init, kind # "init" => d \in init /\ params' = params,
         \A o \in Outputs : o # d => params'[o] = params[o],
         kind = "init" /\ d \in Outputs => params'[d] \in Params(d),
         kind = "init" /\ hdmi => HdmiFree,
         \A i \in DOMAIN L :
           (IF L[i].part.of = HdmiDev THEN failed = {} ELSE d \notin failed) => LegalAt(L, i, on)
  PROVE  IInv'
<1>1. /\ method = Idle /\ method.kind = "none" /\ method.dev = HdmiDev
      /\ method' = [kind |-> kind, dev |-> d] /\ method'.kind = kind /\ method'.dev = d
      /\ todo' = L /\ init' = init /\ on' = on /\ failed' = failed /\ refused' = refused
      /\ pubAttr' = pubAttr /\ layerAttr' = layerAttr /\ hdmiFmt' = hdmiFmt
      /\ d # HdmiDev /\ HdmiDev \notin Outputs
  BY DevicesAssumption DEF Call, Idle, sdkVars, attrVars, Devs
<1>2. \A o \in Outputs : o # d => (Hdmi(o)' <=> Hdmi(o))
  BY DEF Hdmi
<1>3. kind # "init" => \A o \in Outputs : Hdmi(o)' <=> Hdmi(o)
  BY DEF Hdmi
<1>4. \A o \in Outputs : Hdmi(o) => o \in init
  BY <1>1 DEF IInv, OneOnHdmi
<1>5. Entered'
  BY <1>1 DEF Entered
<1>6. OneOnHdmi'
  <2>1. \A o \in Outputs : Hdmi(o)' => o \in init \/ o = d
    BY <1>2, <1>4
  <2>2. ASSUME NEW o \in Outputs, NEW r \in Outputs, Hdmi(o)', Hdmi(r)' PROVE o = r
    <3>1. CASE kind # "init"
      BY <1>3, <2>2, <3>1 DEF IInv, OneOnHdmi
    <3>2. CASE kind = "init"
      <4>1. ASSUME NEW q \in Outputs, Hdmi(q), q # d PROVE ~hdmi
        BY <1>4, <3>2, <4>1 DEF HdmiFree, Hdmi
      <4>2. CASE o # d /\ r # d
        BY <1>2, <2>2, <4>2 DEF IInv, OneOnHdmi
      <4>3. CASE o = d /\ r # d
        BY <1>2, <2>2, <4>1, <4>3
      <4>4. CASE o # d /\ r = d
        BY <1>2, <2>2, <4>1, <4>4
      <4> QED BY <4>2, <4>3, <4>4
    <3> QED BY <3>1, <3>2
  <2> QED BY <1>1, <2>1, <2>2 DEF OneOnHdmi
<1>7. CallsFit'
  <2>1. \A i \in DOMAIN L : Fits(L[i], kind, d, Hdmi(d)')
    BY DEF Listed, Fits
  <2> QED BY <1>1, <2>1 DEF CallsFit, Listed
<1>8. Opening'
  <2> SUFFICES ASSUME kind = "init" PROVE Opening'
    BY <1>1 DEF Opening
  <2>1. Whole(d)' = WholeOf(d, hdmi)
    BY DEF Whole, WholeOf
  <2>2. \A p \in Whole(d)' : Waits(L, On(p))
    BY <2>1 DEF Listed
  <2>3. d \in Outputs => /\ Waits(L, Set(Part("dev", 0, d))) /\ Waits(L, Set(Part("layer", 0, d)))
                         /\ LinkSet(d)' \/ Waits(L, Set(Link))
    BY DEF Listed, LinkSet
  <2> QED BY <1>1, <2>2, <2>3 DEF Opening
<1>9. StaysWhole'
  <2> SUFFICES ASSUME NEW e \in init PROVE
        /\ Whole(e)' \subseteq on'
        /\ e \in Outputs =>
             params'[e] \in Params(e) /\ DevSet(e)' /\ LayerSet(e)' /\ LinkSet(e)'
    BY <1>1 DEF StaysWhole
  <2>1. /\ Whole(e) \subseteq on
        /\ e \in Outputs => params[e] \in Params(e) /\ DevSet(e) /\ LayerSet(e) /\ LinkSet(e)
    <3>1. method # [kind |-> "close", dev |-> e]
      BY <1>1
    <3> QED BY <3>1 DEF IInv, StaysWhole
  <2>2. e \in Outputs => params'[e] = params[e]
    BY DEF Hdmi
  <2>3. Hdmi(e)' <=> Hdmi(e)
    BY <2>2 DEF Hdmi
  <2>4. Whole(e)' = Whole(e)
    BY <2>3 DEF Whole, WholeOf
  <2>5. e \in Outputs => DevSet(e)' /\ LayerSet(e)' /\ LinkSet(e)'
    BY <1>1, <2>1, <2>2, <2>3 DEF DevSet, LayerSet, LinkSet
  <2> QED BY <1>1, <2>1, <2>2, <2>4, <2>5
<1>10. Closing'
  <2>1. on \subseteq Parts
    BY DEF IInv, Typed, TypeOK
  <2>2. ASSUME NEW p \in on, kind = "close", p.of = d \/ (p.of = HdmiDev /\ Hdmi(d)')
        PROVE  Waits(L, Off(p))
    BY <2>1, <2>2 DEF Listed
  <2> QED BY <1>1, <2>2 DEF Closing
<1>11. Clean'
  <2>1. ASSUME NEW p \in on, p.of # HdmiDev, p.of \notin failed PROVE p.of \in init
    <3>1. method # [kind |-> "init", dev |-> p.of]
      BY <1>1
    <3> QED BY <2>1, <3>1 DEF IInv, Clean
  <2>2. ASSUME failed = {}, NEW p \in on, p.of = HdmiDev PROVE \E o \in Outputs : Hdmi(o)'
    <3>1. PICK o \in Outputs : Hdmi(o)
      BY <2>2 DEF IInv, Clean
    <3>2. o \in init
      BY <1>4, <3>1
    <3>3. Hdmi(o)'
      BY <1>2, <1>3, <3>1, <3>2
    <3> QED BY <3>3
  <2> QED BY <1>1, <2>1, <2>2 DEF Clean
<1>12. Accepted'
  BY <1>1 DEF Accepted, Sound
<1>13. RefusedOnlyAfterFailure' /\ Attributes'
  BY <1>1 DEF IInv, RefusedOnlyAfterFailure, Attributes
<1> QED BY <1>5, <1>6, <1>7, <1>8, <1>9, <1>10, <1>11, <1>12, <1>13 DEF IInv

(* Nobody's parts are on while it is closed, unless one of its calls failed. *)
LEMMA ClosedIsClean ==
  ASSUME IInv, method = Idle
  PROVE  /\ \A d \in Devs \ (init \cup failed) : \A p \in on : p.of # d
         /\ failed = {} /\ HdmiFree => \A p \in on : p.of # HdmiDev
<1>1. method.dev = HdmiDev /\ HdmiDev \notin Devs /\ HdmiDev \notin Outputs
      /\ \A d : method # [kind |-> "init", dev |-> d]
  BY DevicesAssumption DEF Idle, Devs
<1>2. ASSUME NEW d \in Devs \ (init \cup failed), NEW p \in on, p.of = d PROVE FALSE
  BY <1>1, <1>2 DEF IInv, Clean
<1>3. ASSUME failed = {}, HdmiFree, NEW p \in on, p.of = HdmiDev PROVE FALSE
  <2>1. PICK o \in Outputs : Hdmi(o)
    BY <1>3 DEF IInv, Clean
  <2>2. o \in init
    BY <1>1, <2>1 DEF IInv, OneOnHdmi
  <2> QED BY <1>3, <2>1, <2>2 DEF HdmiFree, Hdmi
<1> QED BY <1>2, <1>3

(* What is open is whole when a method is entered. *)
LEMMA OpenIsMade ==
  ASSUME IInv, method = Idle, NEW d \in init
  PROVE  /\ d \in Groups => OfGroup(d) \subseteq on
         /\ d \in Outputs => /\ OfOutput(d) \subseteq on /\ params[d].hdmi \in BOOLEAN
                             /\ params[d].hdmi => OfHdmi \subseteq on
<1>1. method # [kind |-> "close", dev |-> d]
  BY DEF Idle
<1>2. /\ Whole(d) \subseteq on
      /\ d \in Outputs => params[d] \in Params(d)
  BY <1>1 DEF IInv, StaysWhole
<1> QED BY <1>2, Owners DEF Whole, WholeOf, Hdmi, Params

LEMMA EnterStep == IInv /\ Typed' /\ Enter => IInv'
<1> SUFFICES ASSUME IInv, Typed', Enter PROVE IInv'
  OBVIOUS
<1>0. params \in [Outputs -> AllParams] /\ \A o \in Outputs : Hdmi(o) <=> params[o].hdmi
  BY DEF IInv, Typed, TypeOK, Hdmi
<1>1. ASSUME NEW o \in Outputs, NEW p \in Params(o), OpenOutput(o, p) PROVE IInv'
  <2> DEFINE L == VoInitialize(o, p)
  <2>1. /\ o \notin init /\ (p.hdmi => HdmiFree)
        /\ params' = [params EXCEPT ![o] = p] /\ Call("init", o, L) /\ method = Idle
    BY <1>1 DEF OpenOutput, Call
  <2>2. params'[o] = p /\ \A r \in Outputs : r # o => params'[r] = params[r]
    BY <1>0, <2>1
  <2>3. Hdmi(o)' <=> p.hdmi
    BY <2>2 DEF Hdmi
  <2>4. Listed(L, "init", o, p.hdmi)
    BY VoInitializeListed
  <2>5. ASSUME NEW i \in DOMAIN L,
               IF L[i].part.of = HdmiDev THEN failed = {} ELSE o \notin failed
        PROVE  LegalAt(L, i, on)
    <3>1. Fits(L[i], "init", o, p.hdmi)
      BY <2>4 DEF Listed
    <3>2. \A q \in on : q.of # L[i].part.of
      <4>1. CASE L[i].part.of = HdmiDev
        <5>1. failed = {} /\ HdmiFree
          BY <2>1, <2>5, <3>1, <4>1, Owners DEF Fits
        <5> QED BY <2>1, <4>1, <5>1, ClosedIsClean
      <4>2. CASE L[i].part.of # HdmiDev
        <5>1. L[i].part.of = o /\ o \notin failed
          BY <2>5, <3>1, <4>2 DEF Fits
        <5> QED BY <2>1, <5>1, ClosedIsClean, Owners
      <4> QED BY <4>1, <4>2
    <3> QED BY <3>2, VoInitializeLegal
  <2> HIDE DEF L
  <2> QED BY <2>1, <2>2, <2>3, <2>4, <2>5, Owners, Enters
<1>2. ASSUME NEW o \in Outputs, NEW L, NEW kind \in {"use", "stop"}, o \in init, method = Idle,
             Call(kind, o, L), params' = params, Listed(L, kind, o, Hdmi(o)),
             OfOutput(o) \subseteq on => \A i \in DOMAIN L : LegalAt(L, i, on)
      PROVE  IInv'
  <2>1. \A i \in DOMAIN L : LegalAt(L, i, on)
    BY <1>2, OpenIsMade
  <2>2. Hdmi(o)' <=> Hdmi(o)
    BY <1>2 DEF Hdmi
  <2>3. kind \in {"init", "close", "use", "stop"} /\ kind # "init" /\ o \in Devs
    BY <1>2, Owners
  <2> QED BY <1>2, <2>1, <2>2, <2>3, Enters
<1>3. ASSUME NEW o \in Outputs, NEW c \in 1 .. VoChns, StartChannel(o, c) \/ StopChannel(o, c)
      PROVE  IInv'
  <2>1. CASE StartChannel(o, c)
    <3> DEFINE L == <<Use(Part("layer", 0, o)), On(Part("chn", c, o))>>
    <3>1. o \in init /\ method = Idle /\ Call("use", o, L) /\ params' = params
      BY <2>1 DEF StartChannel, Call
    <3>2. /\ Listed(L, "use", o, Hdmi(o))
          /\ OfOutput(o) \subseteq on => \A i \in DOMAIN L : LegalAt(L, i, on)
      BY UseListed, UseLegal
    <3> HIDE DEF L
    <3> QED BY <1>2, <3>1, <3>2
  <2>2. CASE StopChannel(o, c)
    <3> DEFINE L == <<Off(Part("chn", c, o))>>
    <3>1. o \in init /\ method = Idle /\ Call("use", o, L) /\ params' = params
      BY <2>2 DEF StopChannel, Call
    <3>2. /\ Listed(L, "use", o, Hdmi(o))
          /\ OfOutput(o) \subseteq on => \A i \in DOMAIN L : LegalAt(L, i, on)
      BY UseListed, UseLegal
    <3> HIDE DEF L
    <3> QED BY <1>2, <3>1, <3>2
  <2> QED BY <1>3, <2>1, <2>2
<1>4. ASSUME NEW o \in Outputs, CallStopAllChn(o) PROVE IInv'
  <2> DEFINE L == StopAllChn(o)
  <2>1. o \in init /\ method = Idle /\ Call("stop", o, L) /\ params' = params
    BY <1>4 DEF CallStopAllChn, Call
  <2>2. /\ Listed(L, "stop", o, Hdmi(o))
        /\ OfOutput(o) \subseteq on => \A i \in DOMAIN L : LegalAt(L, i, on)
    BY UseListed, UseLegal
  <2> HIDE DEF L
  <2> QED BY <1>2, <2>1, <2>2
<1>5. ASSUME NEW g \in Groups, NEW L, NEW kind \in {"close", "use"}, g \in init, method = Idle,
             Call(kind, g, L), params' = params, Listed(L, kind, g, FALSE),
             OfGroup(g) \subseteq on => \A i \in DOMAIN L : LegalAt(L, i, on)
      PROVE  IInv'
  <2>1. \A i \in DOMAIN L : LegalAt(L, i, on)
    BY <1>5, OpenIsMade
  <2>2. Hdmi(g)' <=> FALSE
    BY Owners DEF Hdmi
  <2>3. kind \in {"init", "close", "use", "stop"} /\ kind # "init" /\ g \in Devs
    BY <1>5, Owners
  <2> QED BY <1>5, <2>1, <2>2, <2>3, Enters
<1>6. ASSUME NEW g \in Groups, OpenGroup(g) PROVE IInv'
  <2> DEFINE L == VpssInitialize(g)
  <2>1. g \notin init /\ params' = params /\ Call("init", g, L) /\ method = Idle
    BY <1>6 DEF OpenGroup, Call
  <2>2. Listed(L, "init", g, FALSE)
    BY VpssInitializeListed
  <2>3. ASSUME NEW i \in DOMAIN L,
               IF L[i].part.of = HdmiDev THEN failed = {} ELSE g \notin failed
        PROVE  LegalAt(L, i, on)
    <3>1. Fits(L[i], "init", g, FALSE)
      BY <2>2 DEF Listed
    <3>2. g \notin failed
      BY <2>3, <3>1, Owners DEF Fits
    <3>3. \A q \in on : q.of # g
      BY <2>1, <3>2, ClosedIsClean, Owners
    <3> QED BY <3>3, VpssInitializeLegal
  <2>4. Hdmi(g)' <=> FALSE
    BY Owners DEF Hdmi
  <2> HIDE DEF L
  <2> QED BY <2>1, <2>2, <2>3, <2>4, Owners, Enters
<1>7. ASSUME NEW d \in Devs, Close(d) PROVE IInv'
  <2>1. d \in init /\ method = Idle /\ params' = params
    BY <1>7 DEF Close, Call
  <2>2. CASE d \in Groups
    <3> DEFINE L == VpssClose(d)
    <3>1. Call("close", d, L)
      BY <1>7, <2>2, Owners DEF Close
    <3>2. /\ Listed(L, "close", d, FALSE)
          /\ OfGroup(d) \subseteq on => \A i \in DOMAIN L : LegalAt(L, i, on)
      BY <2>2, VpssCloseListed, VpssCloseLegal
    <3> HIDE DEF L
    <3> QED BY <1>5, <2>1, <2>2, <3>1, <3>2
  <2>3. CASE d \in Outputs
    <3> DEFINE L == VoClose(d)
    <3>1. Call("close", d, L)
      BY <1>7, <2>3 DEF Close
    <3>2. /\ OfOutput(d) \subseteq on /\ params[d].hdmi \in BOOLEAN
          /\ params[d].hdmi => OfHdmi \subseteq on
      BY <2>1, <2>3, OpenIsMade
    <3>3. Listed(L, "close", d, params[d].hdmi)
      BY <2>3, <3>2, VoCloseListed
    <3>4. \A i \in DOMAIN L : LegalAt(L, i, on)
      BY <2>3, <3>2, VoCloseLegal
    <3>5. Hdmi(d)' <=> params[d].hdmi
      BY <2>1, <2>3 DEF Hdmi
    <3> HIDE DEF L
    <3> QED BY <2>1, <3>1, <3>3, <3>4, <3>5, Enters
  <2> QED BY <2>2, <2>3 DEF Devs
<1>8. ASSUME NEW d \in Devs, Tune(d) PROVE IInv'
  <2>1. d \in init /\ method = Idle /\ params' = params
    BY <1>8 DEF Tune, Call
  <2>2. CASE d \in Groups
    <3> DEFINE L == <<Use(Part("grp", 0, d))>>
    <3>1. Call("use", d, L)
      BY <1>8, <2>2, Owners DEF Tune
    <3>2. /\ Listed(L, "use", d, FALSE)
          /\ OfGroup(d) \subseteq on => \A i \in DOMAIN L : LegalAt(L, i, on)
      BY <2>2, UseListed, UseLegal
    <3> HIDE DEF L
    <3> QED BY <1>5, <2>1, <2>2, <3>1, <3>2
  <2>3. CASE d \in Outputs
    <3> DEFINE L == <<Use(Part("layer", 0, d))>>
    <3>1. Call("use", d, L)
      BY <1>8, <2>3 DEF Tune
    <3>2. /\ Listed(L, "use", d, Hdmi(d))
          /\ OfOutput(d) \subseteq on => \A i \in DOMAIN L : LegalAt(L, i, on)
      BY <2>3, UseListed, UseLegal
    <3> HIDE DEF L
    <3> QED BY <1>2, <2>1, <2>3, <3>1, <3>2
  <2> QED BY <2>2, <2>3 DEF Devs
<1> QED BY <1>1, <1>3, <1>4, <1>6, <1>7, <1>8 DEF Enter

-----------------------------------------------------------------------------
(* One SDK call. *)

(* What a running method is about. *)
LEMMA RunningIs ==
  ASSUME IInv, todo # <<>>
  PROVE  /\ method # Idle /\ method.dev \in Devs /\ method.dev # HdmiDev
         /\ method.kind \in {"init", "close", "use", "stop"}
         /\ method = [kind |-> method.kind, dev |-> method.dev]
         /\ method.kind = "use" => method.dev \in init
         /\ todo \in Seq(Calls) /\ Head(todo) \in Calls /\ Head(todo).part \in Parts
         /\ Head(todo) = todo[1] /\ 1 \in DOMAIN todo
         /\ Fits(Head(todo), method.kind, method.dev, Hdmi(method.dev))
         /\ Sound(Head(todo)) => Legal(Head(todo))
<1>1. method # Idle /\ todo \in Seq(Calls) /\ on \subseteq Parts
  BY DEF IInv, Typed, TypeOK, Calls
<1>2. method \in [kind : {"init", "close", "use", "stop"}, dev : Devs]
  BY <1>1 DEF IInv, Typed, TypeOK
<1>3. Head(todo) = todo[1] /\ 1 \in DOMAIN todo /\ todo[1] \in Calls
  BY <1>1, TailIs
<1>4. Head(todo).part \in Parts
  BY <1>3 DEF Calls
<1>5. Fits(Head(todo), method.kind, method.dev, Hdmi(method.dev))
  BY <1>3 DEF IInv, CallsFit
<1>6. Sound(Head(todo)) => Legal(Head(todo))
  BY <1>1, <1>3, LegalNow DEF IInv, Accepted
<1>7. method.dev # HdmiDev
  BY <1>2, DevicesAssumption
<1>8. method.kind = "use" => method.dev \in init
  BY DEF IInv, Entered
<1> QED BY <1>1, <1>2, <1>3, <1>4, <1>5, <1>6, <1>7, <1>8

(* What is left of a list is as good as the list. *)
LEMMA RestFits ==
  ASSUME NEW s \in Seq(Calls), s # <<>>, OneWay(s)
  PROVE  /\ OneWay(Tail(s)) /\ (HdmiFirst(s) => HdmiFirst(Tail(s)))
         /\ \A i \in DOMAIN Tail(s) : \E j \in DOMAIN s : Tail(s)[i] = s[j]
<1>1. \A i \in DOMAIN Tail(s) : i \in Int /\ Tail(s)[i] = s[i + 1] /\ i + 1 \in DOMAIN s
  BY TailIs
<1>2. OneWay(Tail(s))
  BY <1>1 DEF OneWay
<1>3. ASSUME HdmiFirst(s) PROVE HdmiFirst(Tail(s))
  <2>1. ASSUME NEW i \in DOMAIN Tail(s), NEW j \in DOMAIN Tail(s), i < j
        PROVE  i + 1 < j + 1
    BY <1>1, <2>1
  <2> QED BY <1>1, <1>3, <2>1 DEF HdmiFirst
<1>4. \A i \in DOMAIN Tail(s) : \E j \in DOMAIN s : Tail(s)[i] = s[j]
  BY <1>1
<1> QED BY <1>2, <1>3, <1>4

(* The attributes of a part change only in a call on that part. *)
LEMMA AttributesKept ==
  ASSUME IInv, CallSucceeds
  PROVE  /\ \A e \in Outputs :
              /\ Head(todo).part # Part("dev", 0, e) \/ Head(todo).do \notin {"set", "off"}
                   => pubAttr'[e] = pubAttr[e]
              /\ Head(todo).part # Part("layer", 0, e) \/ Head(todo).do \notin {"set", "off"}
                   => layerAttr'[e] = layerAttr[e]
         /\ Head(todo).part # Link \/ Head(todo).do \notin {"set", "off"} => hdmiFmt' = hdmiFmt
         /\ Attributes'
<1> DEFINE c == Head(todo)
           p == Head(todo).part
<1>1. todo # <<>>
  BY DEF CallSucceeds
<1>2. /\ c \in Calls /\ p \in Parts
      /\ Fits(c, method.kind, method.dev, Hdmi(method.dev))
  BY <1>1, RunningIs
<1>3. Attributes
  BY DEF IInv
<1> HIDE DEF c
<1>4. CASE c.do = "set"
  <2>1. SetAttr(c.part) /\ c.part = p
    BY <1>4 DEF CallSucceeds, c
  <2>2. c.part.what \in {"dev", "layer", "link"}
    BY <1>2, <1>4 DEF Fits
  <2>3. CASE c.part.what = "dev"
    <3>1. c.part.of \in Outputs /\ c.part = Part("dev", 0, c.part.of)
      <4>1. c.part \notin OfHdmi
        BY <2>3, PartIs DEF OfHdmi
      <4>2. \A g \in Groups : c.part \notin OfGroup(g)
        BY <2>3, PartIs DEF OfGroup
      <4>3. PICK o \in Outputs : c.part \in OfOutput(o) \cup OutputChns(o)
        BY <1>2, <2>1, <4>1, <4>2, PartsAre
      <4>4. c.part.of = o
        BY <4>3, PartIs DEF OfOutput, OutputChns
      <4> QED BY <1>2, <2>1, <2>3, <4>4, PartOfOutput, PartIs
    <3>2. /\ pubAttr' = [pubAttr EXCEPT ![c.part.of] = Sync]
          /\ layerAttr' = layerAttr /\ hdmiFmt' = hdmiFmt
      BY <2>1, <2>3 DEF SetAttr
    <3>3. \A e \in Outputs : c.part # Part("dev", 0, e) => c.part.of # e
      BY <3>1
    <3>4. \A e \in Outputs : c.part.of # e => pubAttr'[e] = pubAttr[e]
      BY <1>3, <3>1, <3>2 DEF Attributes
    <3>5. Attributes'
      BY <1>3, <3>1, <3>2 DEF Attributes
    <3> QED BY <3>2, <3>3, <3>4, <3>5, <1>4 DEF c
  <2>4. CASE c.part.what = "layer"
    <3>1. c.part.of \in Outputs /\ c.part = Part("layer", 0, c.part.of)
      <4>1. c.part \notin OfHdmi
        BY <2>4, PartIs DEF OfHdmi
      <4>2. \A g \in Groups : c.part \notin OfGroup(g)
        BY <2>4, PartIs DEF OfGroup
      <4>3. PICK o \in Outputs : c.part \in OfOutput(o) \cup OutputChns(o)
        BY <1>2, <2>1, <4>1, <4>2, PartsAre
      <4>4. c.part.of = o
        BY <4>3, PartIs DEF OfOutput, OutputChns
      <4> QED BY <1>2, <2>1, <2>4, <4>4, PartOfOutput, PartIs
    <3>2. /\ layerAttr' = [layerAttr EXCEPT ![c.part.of] =
                             [size |-> GetSize(Sync), rate |-> GetFrameRate(Sync)]]
          /\ pubAttr' = pubAttr /\ hdmiFmt' = hdmiFmt
      BY <2>1, <2>4 DEF SetAttr
    <3>3. \A e \in Outputs : c.part # Part("layer", 0, e) => c.part.of # e
      BY <3>1
    <3>4. \A e \in Outputs : c.part.of # e => layerAttr'[e] = layerAttr[e]
      BY <1>3, <3>1, <3>2 DEF Attributes
    <3>5. Attributes'
      BY <1>3, <3>1, <3>2 DEF Attributes
    <3> QED BY <3>2, <3>3, <3>4, <3>5, <1>4 DEF c
  <2>5. CASE c.part.what = "link"
    <3>1. c.part = Link
      <4>1. \A o \in Outputs : c.part \notin OfOutput(o) \cup OutputChns(o)
        BY <2>5, PartIs DEF OfOutput, OutputChns
      <4>2. \A g \in Groups : c.part \notin OfGroup(g)
        BY <2>5, PartIs DEF OfGroup
      <4>3. c.part \in OfHdmi
        BY <1>2, <2>1, <4>1, <4>2, PartsAre
      <4> QED BY <2>5, <4>3, WholeIs, HdmiParts
    <3>2. pubAttr' = pubAttr /\ layerAttr' = layerAttr
      BY <2>1, <2>5 DEF SetAttr
    <3> QED BY <1>3, <1>4, <3>1, <3>2 DEF Attributes, c
  <2> QED BY <2>2, <2>3, <2>4, <2>5
<1>5. CASE c.do = "off"
  <2>1. ForgetAttr(c.part)
    BY <1>5 DEF CallSucceeds, c
  <2>2. /\ \A e \in Outputs : c.part # Part("dev", 0, e) => pubAttr'[e] = pubAttr[e]
        /\ \A e \in Outputs : c.part # Part("layer", 0, e) => layerAttr'[e] = layerAttr[e]
        /\ c.part # Link => hdmiFmt' = hdmiFmt
    BY <2>1 DEF ForgetAttr
  <2>3. Attributes'
    BY <2>1 DEF ForgetAttr, Attributes
  <2> QED BY <1>5, <2>2, <2>3 DEF c
<1>6. CASE c.do \notin {"set", "off"}
  <2>1. pubAttr' = pubAttr /\ layerAttr' = layerAttr /\ hdmiFmt' = hdmiFmt
    BY <1>6 DEF CallSucceeds, attrVars, c
  <2> QED BY <1>3, <2>1 DEF Attributes
<1> QED BY <1>4, <1>5, <1>6

(* A call that sets attributes sets those of intf_sync. *)
LEMMA AttributesSet ==
  ASSUME IInv, CallSucceeds, method.dev \in Outputs
  PROVE  /\ Head(todo) = Set(Part("dev", 0, method.dev)) => DevSet(method.dev)'
         /\ Head(todo) = Set(Part("layer", 0, method.dev)) => LayerSet(method.dev)'
         /\ Head(todo) = Set(Link) => LinkSet(method.dev)'
<1> DEFINE o == method.dev
<1>1. params' = params /\ method' = method /\ Attributes
  BY DEF CallSucceeds, IInv
<1>2. ASSUME Head(todo) = Set(Part("dev", 0, o)) PROVE DevSet(o)'
  <2>1. SetAttr(Part("dev", 0, o))
    BY <1>2, CallIs DEF CallSucceeds
  <2>2. pubAttr' = [pubAttr EXCEPT ![o] = Sync]
    BY <2>1, PartIs DEF SetAttr
  <2>3. pubAttr'[o] = Sync
    BY <1>1, <2>2 DEF Attributes
  <2> QED BY <1>1, <2>3 DEF DevSet, Sync
<1>3. ASSUME Head(todo) = Set(Part("layer", 0, o)) PROVE LayerSet(o)'
  <2>1. SetAttr(Part("layer", 0, o))
    BY <1>3, CallIs DEF CallSucceeds
  <2>2. layerAttr' = [layerAttr EXCEPT ![o] =
                        [size |-> GetSize(Sync), rate |-> GetFrameRate(Sync)]]
    BY <2>1, PartIs DEF SetAttr
  <2>3. layerAttr'[o] = LayerOf(Sync)
    BY <1>1, <2>2 DEF Attributes, LayerOf
  <2> QED BY <1>1, <2>3 DEF LayerSet, Sync
<1>4. ASSUME Head(todo) = Set(Link) PROVE LinkSet(o)'
  <2>1. SetAttr(Link)
    BY <1>4, CallIs DEF CallSucceeds
  <2>2. hdmiFmt' = GetHDMIFmt(Sync)
    BY <2>1, HdmiParts DEF SetAttr
  <2> QED BY <1>1, <2>2 DEF LinkSet, Sync
<1> QED BY <1>2, <1>3, <1>4

(* What an open object needs is not touched by any call but in its Close(). *)
LEMMA OthersKept ==
  ASSUME IInv, todo # <<>>, NEW e \in init, method # [kind |-> "close", dev |-> e],
         Head(todo).do \in {"set", "off"}
  PROVE  Head(todo).part \notin Whole(e)
<1> DEFINE c == Head(todo)
           d == method.dev
<1>1. /\ Fits(c, method.kind, d, Hdmi(d)) /\ d # HdmiDev
      /\ method = [kind |-> method.kind, dev |-> d]
      /\ method.kind \in {"init", "close", "use", "stop"} /\ c.part \in Parts
  BY RunningIs
<1>2. e \in Devs
  BY DEF IInv, Typed, TypeOK
<1>3. \A q \in Whole(e) : /\ q.of = e \/ (q.of = HdmiDev /\ Hdmi(e))
                          /\ e \in Outputs => q.what # "chn"
  <2>1. CASE e \in Groups
    BY <2>1, PartIs, Owners DEF Whole, WholeOf, OfGroup
  <2>2. CASE e \in Outputs
    BY <2>2, PartIs, Owners DEF Whole, WholeOf, OfOutput, OfHdmi
  <2> QED BY <1>2, <2>1, <2>2 DEF Devs
<1>4. CASE e = d
  <2>1. method.kind \in {"use", "stop"}
    BY <1>1, <1>4 DEF IInv, Entered
  <2>2. c.part.what = "chn" /\ c.part.of \in Outputs
    BY <1>1, <2>1 DEF Fits
  <2>3. c.part.of = d
    BY <1>1, <2>1 DEF Fits
  <2> QED BY <1>3, <1>4, <2>2, <2>3
<1>5. CASE e # d
  <2>1. c.part.of = d \/ (c.part.of = HdmiDev /\ Hdmi(d))
    BY <1>1 DEF Fits
  <2>2. ~(Hdmi(d) /\ Hdmi(e))
    BY <1>5 DEF IInv, OneOnHdmi, Hdmi
  <2>3. e # HdmiDev
    BY <1>2, DevicesAssumption
  <2> QED BY <1>1, <1>3, <1>5, <2>1, <2>2, <2>3
<1> QED BY <1>4, <1>5

LEMMA SucceedsStep == IInv /\ Typed' /\ CallSucceeds => IInv'
<1> SUFFICES ASSUME IInv, Typed', CallSucceeds PROVE IInv'
  OBVIOUS
<1> DEFINE c == Head(todo)
           d == method.dev
           kind == method.kind
<1>1. /\ todo # <<>> /\ todo' = Tail(todo) /\ on' = After(c, on)
      /\ init' = init /\ params' = params /\ method' = method
      /\ failed' = failed /\ refused' = refused
  BY DEF CallSucceeds, After
<1>2. /\ d \in Devs /\ d # HdmiDev /\ kind \in {"init", "close", "use", "stop"}
      /\ method = [kind |-> kind, dev |-> d] /\ (kind = "use" => d \in init)
      /\ todo \in Seq(Calls) /\ c \in Calls /\ c.part \in Parts
      /\ c = todo[1] /\ 1 \in DOMAIN todo /\ Fits(c, kind, d, Hdmi(d))
  BY <1>1, RunningIs
<1>3. OneWay(todo)
  BY DEF IInv, CallsFit
<1>4. /\ OneWay(todo') /\ (HdmiFirst(todo) => HdmiFirst(todo'))
      /\ \A i \in DOMAIN todo' : \E j \in DOMAIN todo : todo'[i] = todo[j]
  BY <1>1, <1>2, <1>3, RestFits
<1>5. \A a : Waits(todo, a) => a = c \/ Waits(todo', a)
  BY <1>1, <1>2, WaitsOn
<1>6. \A e : (Hdmi(e)' <=> Hdmi(e)) /\ Whole(e)' = Whole(e)
  BY <1>1 DEF Hdmi, Whole, WholeOf
<1>7. Entered' /\ OneOnHdmi' /\ RefusedOnlyAfterFailure'
  <2>1. Entered'
    BY <1>1, <1>2 DEF IInv, Entered
  <2>2. OneOnHdmi'
    BY <1>1, <1>6 DEF IInv, OneOnHdmi
  <2> QED BY <1>1, <2>1, <2>2 DEF IInv, RefusedOnlyAfterFailure
<1>8. CallsFit'
  <2>1. \A j \in DOMAIN todo : Fits(todo[j], kind, d, Hdmi(d))
    BY DEF IInv, CallsFit
  <2>2. \A i \in DOMAIN todo' : Fits(todo'[i], kind, d, Hdmi(d))
    BY <1>4, <2>1
  <2>3. \A i \in DOMAIN todo' : Fits(todo'[i], kind, d, Hdmi(d)')
    BY <1>1, <1>6, <2>2 DEF Fits
  <2> QED BY <1>1, <1>4, <2>3 DEF CallsFit, IInv
<1>9. Opening'
  <2> SUFFICES ASSUME kind = "init" PROVE Opening'
    BY <1>1 DEF Opening
  <2>1. c.do # "off"
    BY <1>2 DEF Fits
  <2>2. ASSUME NEW p \in Whole(d) PROVE p \in on' \/ Waits(todo', On(p))
    <3>1. p \in on \/ Waits(todo, On(p))
      BY DEF IInv, Opening
    <3>2. p \in on => p \in on'
      BY <1>1, <2>1 DEF After
    <3>3. c = On(p) => p \in on'
      BY <1>1, CallIs DEF After
    <3> QED BY <1>5, <3>1, <3>2, <3>3
  <2>3. ASSUME d \in Outputs
        PROVE  /\ params'[d] \in Params(d)
               /\ DevSet(d)' \/ Waits(todo', Set(Part("dev", 0, d)))
               /\ LayerSet(d)' \/ Waits(todo', Set(Part("layer", 0, d)))
               /\ LinkSet(d)' \/ Waits(todo', Set(Link))
    <3>1. /\ params[d] \in Params(d)
          /\ DevSet(d) \/ Waits(todo, Set(Part("dev", 0, d)))
          /\ LayerSet(d) \/ Waits(todo, Set(Part("layer", 0, d)))
          /\ LinkSet(d) \/ Waits(todo, Set(Link))
      BY <2>3 DEF IInv, Opening
    <3>2. \A q : c.part = q => c = Set(q) \/ c.do \notin {"set", "off"}
      BY <1>2, <2>1, CallIs DEF Calls
    <3>3. DevSet(d)' \/ Waits(todo', Set(Part("dev", 0, d)))
      <4>1. c = Set(Part("dev", 0, d)) => DevSet(d)'
        BY <2>3, AttributesSet
      <4>2. c # Set(Part("dev", 0, d)) => pubAttr'[d] = pubAttr[d]
        BY <2>3, <3>2, AttributesKept
      <4> QED BY <1>1, <1>5, <3>1, <4>1, <4>2 DEF DevSet
    <3>4. LayerSet(d)' \/ Waits(todo', Set(Part("layer", 0, d)))
      <4>1. c = Set(Part("layer", 0, d)) => LayerSet(d)'
        BY <2>3, AttributesSet
      <4>2. c # Set(Part("layer", 0, d)) => layerAttr'[d] = layerAttr[d]
        BY <2>3, <3>2, AttributesKept
      <4> QED BY <1>1, <1>5, <3>1, <4>1, <4>2 DEF LayerSet
    <3>5. LinkSet(d)' \/ Waits(todo', Set(Link))
      <4>1. c = Set(Link) => LinkSet(d)'
        BY <2>3, AttributesSet
      <4>2. c # Set(Link) => hdmiFmt' = hdmiFmt
        BY <3>2, AttributesKept
      <4> QED BY <1>1, <1>5, <1>6, <3>1, <4>1, <4>2 DEF LinkSet
    <3> QED BY <1>1, <3>1, <3>3, <3>4, <3>5
  <2> QED BY <1>1, <1>6, <2>2, <2>3 DEF Opening
<1>10. StaysWhole'
  <2> SUFFICES ASSUME NEW e \in init, method # [kind |-> "close", dev |-> e]
               PROVE  /\ Whole(e) \subseteq on'
                      /\ e \in Outputs => /\ params'[e] \in Params(e)
                                          /\ DevSet(e)' /\ LayerSet(e)' /\ LinkSet(e)'
    BY <1>1, <1>6 DEF StaysWhole
  <2>1. /\ Whole(e) \subseteq on
        /\ e \in Outputs => params[e] \in Params(e) /\ DevSet(e) /\ LayerSet(e) /\ LinkSet(e)
    BY DEF IInv, StaysWhole
  <2>2. c.do \in {"set", "off"} => c.part \notin Whole(e)
    BY <1>1, OthersKept
  <2>3. Whole(e) \subseteq on'
    BY <1>1, <2>1, <2>2 DEF After
  <2>4. ASSUME e \in Outputs PROVE DevSet(e)' /\ LayerSet(e)' /\ LinkSet(e)'
    <3>1. /\ Part("dev", 0, e) \in Whole(e) /\ Part("layer", 0, e) \in Whole(e)
          /\ Hdmi(e) => Link \in Whole(e)
      BY <2>4, WholeIs, Owners DEF Whole, WholeOf
    <3>2. pubAttr'[e] = pubAttr[e]
      BY <2>2, <2>4, <3>1, AttributesKept
    <3>3. layerAttr'[e] = layerAttr[e]
      BY <2>2, <2>4, <3>1, AttributesKept
    <3>4. Hdmi(e) => hdmiFmt' = hdmiFmt
      BY <2>2, <3>1, AttributesKept
    <3> QED BY <1>1, <1>6, <2>1, <2>4, <3>2, <3>3, <3>4 DEF DevSet, LayerSet, LinkSet
  <2> QED BY <1>1, <2>1, <2>3, <2>4
<1>11. Closing'
  <2> SUFFICES ASSUME kind = "close", NEW p \in on',
                      IF p.of = HdmiDev THEN Hdmi(d) /\ failed = {}
                                        ELSE p.of = d /\ d \notin failed
               PROVE  Waits(todo', Off(p))
    BY <1>1, <1>6 DEF Closing
  <2>1. c.do = "off"
    BY <1>2 DEF Fits
  <2>2. p \in on /\ p # c.part
    BY <1>1, <2>1 DEF After
  <2>3. Waits(todo, Off(p))
    BY <2>2 DEF IInv, Closing
  <2>4. Off(p) # c
    BY <2>2, CallIs
  <2> QED BY <1>5, <2>3, <2>4
<1>12. Clean'
  <2>1. ASSUME NEW p \in on', p.of # HdmiDev, p.of \notin failed
        PROVE  \/ p.of \in init
               \/ /\ method = [kind |-> "init", dev |-> p.of]
                  /\ \A i \in DOMAIN todo' : todo'[i].part.of # HdmiDev
    <3>1. CASE p \in on
      <4>1. \/ p.of \in init
            \/ /\ method = [kind |-> "init", dev |-> p.of]
               /\ \A i \in DOMAIN todo : todo[i].part.of # HdmiDev
        BY <2>1, <3>1 DEF IInv, Clean
      <4> QED BY <1>4, <4>1
    <3>2. CASE p \notin on
      <4>1. p = c.part
        BY <1>1, <2>1, <3>2 DEF After
      <4>2. p.of = d
        BY <1>2, <2>1, <4>1 DEF Fits
      <4>3. CASE kind = "init"
        <5>1. HdmiFirst(todo) /\ c.part.of # HdmiDev
          BY <2>1, <4>1, <4>3 DEF IInv, CallsFit
        <5>2. ASSUME NEW i \in DOMAIN todo' PROVE todo'[i].part.of # HdmiDev
          <6>1. i + 1 \in DOMAIN todo /\ todo'[i] = todo[i + 1] /\ 1 < i + 1
            BY <1>1, <1>2, TailIs
          <6> QED BY <1>2, <5>1, <6>1 DEF HdmiFirst
        <5> QED BY <1>2, <4>2, <4>3, <5>2
      <4>4. CASE kind # "init"
        BY <1>2, <4>2, <4>4 DEF IInv, Entered
      <4> QED BY <4>3, <4>4
    <3> QED BY <3>1, <3>2
  <2>2. ASSUME failed = {}, NEW p \in on', p.of = HdmiDev PROVE \E o \in Outputs : Hdmi(o)'
    <3>1. CASE p \in on
      BY <1>6, <2>2, <3>1 DEF IInv, Clean
    <3>2. CASE p \notin on
      <4>1. p = c.part
        BY <1>1, <2>2, <3>2 DEF After
      <4>2. Hdmi(d)
        BY <1>2, <2>2, <4>1 DEF Fits
      <4> QED BY <1>6, <4>2 DEF Hdmi
    <3> QED BY <3>1, <3>2
  <2> QED BY <1>1, <2>1, <2>2 DEF Clean
<1>13. Accepted'
  <2> SUFFICES ASSUME NEW i \in DOMAIN todo', Sound(todo[i])' PROVE LegalAt(todo', i, on')
    BY DEF Accepted
  <2>1. i + 1 \in DOMAIN todo /\ todo'[i] = todo[i + 1]
    BY <1>1, <1>2, TailIs
  <2>2. Sound(todo[i + 1])
    BY <1>1, <2>1 DEF Sound
  <2>3. LegalAt(todo, i + 1, on)
    BY <2>1, <2>2 DEF IInv, Accepted
  <2>4. i \in DOMAIN Tail(todo)
    BY <1>1
  <2>5. LegalAt(Tail(todo), i, After(c, on))
    BY <1>1, <1>2, <1>3, <2>3, <2>4, LegalAfter
  <2> QED BY <1>1, <2>5
<1>14. Attributes'
  BY AttributesKept
<1> QED BY <1>7, <1>8, <1>9, <1>10, <1>11, <1>12, <1>13, <1>14 DEF IInv

LEMMA FailsStep == IInv /\ Typed' /\ CallFails => IInv'
<1> SUFFICES ASSUME IInv, Typed', CallFails PROVE IInv'
  OBVIOUS
<1> DEFINE c == Head(todo)
           d == method.dev
           kind == method.kind
<1>1. /\ todo # <<>> /\ init' = init /\ params' = params /\ on' = on
      /\ pubAttr' = pubAttr /\ layerAttr' = layerAttr /\ hdmiFmt' = hdmiFmt
      /\ GoesOn <=> kind \in {"close", "stop"}
      /\ GoesOn => method' = method /\ todo' = Tail(todo)
      /\ ~GoesOn => method' = [method EXCEPT !.kind = "use"] /\ todo' = <<>>
  BY DEF CallFails, GoesOn, sdkVars, attrVars
<1>2. /\ d \in Devs /\ d # HdmiDev /\ kind \in {"init", "close", "use", "stop"}
      /\ method = [kind |-> kind, dev |-> d] /\ (kind = "use" => d \in init)
      /\ todo \in Seq(Calls) /\ c = todo[1] /\ 1 \in DOMAIN todo
      /\ Fits(c, kind, d, Hdmi(d))
  BY <1>1, RunningIs
(* Either the object has failed now, or what it relied on had already.      *)
<1>3. \/ failed' = failed \cup {d} /\ refused' = refused
      \/ failed' = failed /\ refused' = refused \cup {c.part.of} /\ ~Sound(c)
  BY <1>1, RunningIs DEF CallFails
<1>4. /\ failed \subseteq failed' /\ failed' # {}
      /\ d \notin failed' => c.part.of = HdmiDev
  BY <1>3 DEF Sound
<1>5. ~GoesOn => method' = [kind |-> "use", dev |-> d]
  BY <1>1, <1>2
<1>6. method'.dev = d /\ (GoesOn => method'.kind = kind) /\ (~GoesOn => method'.kind = "use")
  BY <1>1, <1>5
<1>7. \A e : (Hdmi(e)' <=> Hdmi(e)) /\ Whole(e)' = Whole(e)
  BY <1>1 DEF Hdmi, Whole, WholeOf
<1>8. Entered'
  <2>1. CASE GoesOn
    BY <1>1, <1>6, <2>1 DEF IInv, Entered
  <2>2. CASE ~GoesOn
    BY <1>1, <1>4, <1>6, <2>2 DEF Entered
  <2> QED BY <2>1, <2>2
<1>9. OneOnHdmi'
  BY <1>1, <1>6, <1>7 DEF IInv, OneOnHdmi
<1>10. CallsFit'
  <2>1. CASE GoesOn
    <3>1. OneWay(todo) /\ \A j \in DOMAIN todo : Fits(todo[j], kind, d, Hdmi(d))
      BY DEF IInv, CallsFit
    <3>2. /\ OneWay(Tail(todo))
          /\ \A i \in DOMAIN Tail(todo) : \E j \in DOMAIN todo : Tail(todo)[i] = todo[j]
      <4>1. todo \in Seq(Calls) /\ todo # <<>> /\ OneWay(todo)
        BY <1>1, <1>2, <3>1
      <4> QED BY <4>1, RestFits
    <3>3. todo' = Tail(todo)
      BY <1>1, <2>1
    <3>4. OneWay(todo') /\ \A i \in DOMAIN todo' : \E j \in DOMAIN todo : todo'[i] = todo[j]
      BY <3>2, <3>3 DEF OneWay
    <3>5. \A i \in DOMAIN todo' : Fits(todo'[i], kind, d, Hdmi(d))
      BY <3>1, <3>4
    <3>6. \A i \in DOMAIN todo' : Fits(todo'[i], kind, d, Hdmi(d)')
      BY <1>6, <1>7, <3>5 DEF Fits
    <3>7. kind # "init"
      BY <1>1, <2>1
    <3> QED BY <1>6, <2>1, <3>4, <3>6, <3>7 DEF CallsFit
  <2>2. CASE ~GoesOn
    <3>1. todo' = <<>> /\ method'.kind = "use"
      BY <1>1, <1>6, <2>2
    <3> QED BY <3>1 DEF CallsFit, OneWay
  <2> QED BY <2>1, <2>2
<1>11. Opening'
  BY <1>1, <1>6 DEF Opening
<1>12. StaysWhole'
  <2> SUFFICES ASSUME NEW e \in init, method' # [kind |-> "close", dev |-> e]
               PROVE  /\ Whole(e) \subseteq on
                      /\ e \in Outputs => /\ params[e] \in Params(e)
                                          /\ DevSet(e) /\ LayerSet(e) /\ LinkSet(e)
    BY <1>1, <1>7 DEF StaysWhole, DevSet, LayerSet, LinkSet
  <2>1. method # [kind |-> "close", dev |-> e]
    <3>1. CASE GoesOn
      BY <1>1, <3>1
    <3>2. CASE ~GoesOn
      BY <1>1, <1>2, <3>2
    <3> QED BY <3>1, <3>2
  <2> QED BY <2>1 DEF IInv, StaysWhole
<1>13. Closing'
  <2> SUFFICES ASSUME kind = "close", GoesOn, NEW p \in on, p.of = d, d \notin failed'
               PROVE  Waits(todo', Off(p))
    BY <1>1, <1>4, <1>6 DEF Closing
  <2>1. Waits(todo, Off(p))
    BY <1>2, <1>4 DEF IInv, Closing
  <2>2. c # Off(p)
    BY <1>2, <1>4, CallIs
  <2> QED BY <1>1, <1>2, <2>1, <2>2, WaitsOn
<1>14. Clean'
  <2>1. ASSUME NEW p \in on, p.of # HdmiDev, p.of \notin failed' PROVE p.of \in init
    <3>1. \/ p.of \in init
          \/ /\ method = [kind |-> "init", dev |-> p.of]
             /\ \A i \in DOMAIN todo : todo[i].part.of # HdmiDev
      BY <1>4, <2>1 DEF IInv, Clean
    <3>2. ~(method = [kind |-> "init", dev |-> p.of]
              /\ \A i \in DOMAIN todo : todo[i].part.of # HdmiDev)
      BY <1>2, <1>4, <2>1
    <3> QED BY <3>1, <3>2
  <2> QED BY <1>1, <1>4, <2>1 DEF Clean
<1>15. Accepted'
  <2> SUFFICES ASSUME NEW i \in DOMAIN todo', Sound(todo[i])' PROVE LegalAt(todo, i, on)'
    BY DEF Accepted
  <2>1. GoesOn /\ todo' = Tail(todo)
    BY <1>1
  <2>2. i + 1 \in DOMAIN todo /\ todo'[i] = todo[i + 1]
    BY <1>2, <1>1, <2>1, TailIs
  <2>3. /\ todo[i + 1].part.of # HdmiDev /\ d \notin failed'
    BY <1>4, <1>6, <2>2 DEF Sound
  <2>4. Sound(todo[i + 1])
    BY <1>4, <2>3 DEF Sound
  <2>5. LegalAt(todo, i + 1, on)
    BY <2>2, <2>4 DEF IInv, Accepted
  <2>6. i \in DOMAIN Tail(todo) /\ c.part.of # Tail(todo)[i].part.of
    BY <1>4, <2>1, <2>2, <2>3
  <2>7. LegalAt(Tail(todo), i, on)
    BY <1>1, <1>2, <2>5, <2>6, LegalSkip
  <2> QED BY <1>1, <2>1, <2>7
<1>16. RefusedOnlyAfterFailure'
  <2>1. refused \ {HdmiDev} \subseteq failed
    BY DEF IInv, RefusedOnlyAfterFailure
  <2>2. c.part.of \in {d, HdmiDev}
    BY <1>2 DEF Fits
  <2>3. refused' \ {HdmiDev} \subseteq failed'
    BY <1>2, <1>3, <2>1, <2>2 DEF Sound
  <2> QED BY <1>4, <2>3 DEF RefusedOnlyAfterFailure
<1>17. Attributes'
  BY <1>1 DEF IInv, Attributes
<1> QED BY <1>8, <1>9, <1>10, <1>11, <1>12, <1>13, <1>14, <1>15, <1>16, <1>17 DEF IInv

LEMMA ReturnStep == IInv /\ Typed' /\ Return => IInv'
<1> SUFFICES ASSUME IInv, Typed', Return PROVE IInv'
  OBVIOUS
<1> DEFINE d == method.dev
           kind == method.kind
<1>1. /\ method # Idle /\ todo = <<>> /\ todo' = <<>> /\ on' = on
      /\ method' = Idle /\ method'.kind = "none" /\ method'.dev = HdmiDev
      /\ failed' = failed /\ refused' = refused
      /\ pubAttr' = pubAttr /\ layerAttr' = layerAttr /\ hdmiFmt' = hdmiFmt
      /\ kind = "init" => init' = init \cup {d}
      /\ kind = "close" => init' = init \ {d}
      /\ kind \notin {"init", "close"} => init' = init
      /\ params' = [o \in Outputs |-> IF o \in init' THEN params[o] ELSE NoParams]
  BY DEF Return, Idle, sdkVars, attrVars
<1>2. /\ method \in [kind : {"init", "close", "use", "stop"}, dev : Devs]
      /\ method = [kind |-> kind, dev |-> d] /\ d # HdmiDev
  BY <1>1, DevicesAssumption DEF IInv, Typed, TypeOK
<1>3. \A o \in Outputs : /\ o \in init' => params'[o] = params[o]
                         /\ o \notin init' => params'[o] = NoParams
  BY <1>1
<1>4. \A o : Hdmi(o)' <=> Hdmi(o) /\ o \in init'
  BY <1>3 DEF Hdmi, NoParams
<1>5. \A e \in init' : Whole(e)' = Whole(e)
  BY <1>4 DEF Whole, WholeOf
<1>6. Entered' /\ CallsFit' /\ Opening' /\ Closing' /\ Accepted'
  BY <1>1 DEF Entered, CallsFit, OneWay, Opening, Closing, Accepted
<1>7. OneOnHdmi'
  BY <1>4 DEF IInv, OneOnHdmi
<1>8. StaysWhole'
  <2> SUFFICES ASSUME NEW e \in init'
               PROVE  /\ Whole(e) \subseteq on
                      /\ e \in Outputs => /\ params[e] \in Params(e)
                                          /\ DevSet(e) /\ LayerSet(e) /\ LinkSet(e)
    BY <1>1, <1>3, <1>4, <1>5 DEF StaysWhole, DevSet, LayerSet, LinkSet
  <2>1. CASE kind = "init" /\ e = d
    BY <1>1, <2>1, NothingWaits DEF IInv, Opening
  <2>2. CASE ~(kind = "init" /\ e = d)
    <3>1. e \in init /\ method # [kind |-> "close", dev |-> e]
      BY <1>1, <1>2, <2>2
    <3> QED BY <3>1 DEF IInv, StaysWhole
  <2> QED BY <2>1, <2>2
<1>9. kind = "close" =>
        \A p \in on : ~(IF p.of = HdmiDev THEN Hdmi(d) /\ failed = {}
                                          ELSE p.of = d /\ d \notin failed)
  BY <1>1, NothingWaits DEF IInv, Closing
<1>10. Clean'
  <2>1. ASSUME NEW p \in on, p.of # HdmiDev, p.of \notin failed PROVE p.of \in init'
    <3>1. p.of \in init \/ method = [kind |-> "init", dev |-> p.of]
      BY <2>1 DEF IInv, Clean
    <3>2. CASE kind = "init"
      BY <1>1, <3>1, <3>2
    <3>3. CASE kind = "close"
      BY <1>1, <1>9, <2>1, <3>1, <3>3
    <3>4. CASE kind \notin {"init", "close"}
      BY <1>1, <3>1, <3>4
    <3> QED BY <3>2, <3>3, <3>4
  <2>2. ASSUME failed = {}, NEW p \in on, p.of = HdmiDev PROVE \E o \in Outputs : Hdmi(o)'
    <3>1. PICK o \in Outputs : Hdmi(o)
      BY <2>2 DEF IInv, Clean
    <3>2. o \in init \/ o = d
      BY <3>1 DEF IInv, OneOnHdmi
    <3>3. kind # "init" => d \in init
      BY <1>2, <2>2 DEF IInv, Entered
    <3>4. kind = "close" => o # d
      BY <1>9, <2>2, <3>1
    <3>5. o \in init'
      BY <1>1, <3>2, <3>3, <3>4
    <3> QED BY <1>4, <3>1, <3>5
  <2> QED BY <1>1, <2>1, <2>2 DEF Clean
<1>11. RefusedOnlyAfterFailure' /\ Attributes'
  BY <1>1 DEF IInv, RefusedOnlyAfterFailure, Attributes
<1> QED BY <1>6, <1>7, <1>8, <1>10, <1>11 DEF IInv

-----------------------------------------------------------------------------
(* The theorems. *)

(* The invariant holds at the start and in every step.                      *)
THEOREM Invariance == Spec => []IInv
<1>1. Init => IInv
  <2> SUFFICES ASSUME Init PROVE IInv
    OBVIOUS
  <2>1. Typed
    BY Initially
  <2>2. /\ init = {} /\ todo = <<>> /\ on = {} /\ refused = {} /\ failed = {}
        /\ method.kind = "none" /\ \A o \in Outputs : ~params[o].hdmi
    BY DEF Init, Idle, NoParams
  <2>3. Entered /\ CallsFit /\ Opening /\ StaysWhole /\ Closing /\ Clean /\ Accepted
    BY <2>2 DEF Entered, CallsFit, OneWay, Opening, StaysWhole, Closing, Clean, Accepted
  <2>4. OneOnHdmi
    BY <2>2 DEF OneOnHdmi, Hdmi
  <2>5. RefusedOnlyAfterFailure /\ Attributes
    BY <2>2 DEF RefusedOnlyAfterFailure, Attributes, Init
  <2> QED BY <2>1, <2>3, <2>4, <2>5 DEF IInv
<1>2. IInv /\ [Next]_vars => IInv'
  <2> SUFFICES ASSUME IInv, [Next]_vars PROVE IInv'
    OBVIOUS
  <2>1. CASE Enter
    <3>1. Typed'
      BY <2>1, EnterInv DEF IInv
    <3> QED BY <2>1, <3>1, EnterStep
  <2>2. CASE CallSucceeds
    <3>1. Typed'
      BY <2>2, CallInv DEF IInv
    <3> QED BY <2>2, <3>1, SucceedsStep
  <2>3. CASE CallFails
    <3>1. Typed'
      BY <2>3, CallInv DEF IInv
    <3> QED BY <2>3, <3>1, FailsStep
  <2>4. CASE Return
    <3>1. Typed'
      BY <2>4, CallInv DEF IInv
    <3> QED BY <2>4, <3>1, ReturnStep
  <2>5. CASE UNCHANGED vars
    <3>1. /\ UNCHANGED <<init, params, method, todo, on, pubAttr, layerAttr, hdmiFmt>>
          /\ UNCHANGED <<failed, refused, faults>>
      BY <2>5 DEF vars, sdkVars, attrVars
    <3>2. Typed' /\ Entered' /\ OneOnHdmi'
      BY <3>1 DEF IInv, Typed, TypeOK, Entered, OneOnHdmi, Hdmi
    <3>3. CallsFit' /\ Opening'
      BY <3>1 DEF IInv, CallsFit, Opening, Whole, WholeOf, Hdmi, DevSet, LayerSet, LinkSet
    <3>4. StaysWhole' /\ Closing'
      BY <3>1 DEF IInv, StaysWhole, Closing, Whole, WholeOf, Hdmi, DevSet, LayerSet, LinkSet
    <3>5. Clean' /\ Accepted'
      BY <3>1 DEF IInv, Clean, Accepted, Sound, Hdmi
    <3>6. RefusedOnlyAfterFailure' /\ Attributes'
      BY <3>1 DEF IInv, RefusedOnlyAfterFailure, Attributes
    <3> QED BY <3>2, <3>3, <3>4, <3>5, <3>6 DEF IInv
  <2> QED BY <2>1, <2>2, <2>3, <2>4, <2>5 DEF Next
<1> QED BY <1>1, <1>2, PTL DEF Spec

(* Type correctness: a method makes calls only on its own parts and those   *)
(* of the transmitter, and a call that fails is charged to an object.       *)
THEOREM TypeCorrect == Spec => []TypeOK
<1>1. IInv => TypeOK
  BY DEF IInv, Typed
<1> QED BY <1>1, Invariance, PTL

(* The tables of Utils agree for every mode but 1440x900_60: the layer has  *)
(* the size and the rate of the picture that HDMI shows.                    *)
THEOREM TablesAgree == \A m \in Agreeing : Fills(LayerOf(m), GetHDMIFmt(m))
<1> SUFFICES ASSUME NEW m \in Agreeing PROVE Fills(LayerOf(m), m)
  BY DEF GetHDMIFmt
<1>1. CASE m = "PAL"
  <2>1. GetSize(m) = <<720, 576>>
    BY <1>1 DEF GetSize
  <2>2. GetFrameRate(m) = 25
    BY <1>1 DEF GetFrameRate
  <2>3. Timing(m) = [size |-> <<720, 576>>, hz |-> 50, interlaced |-> TRUE]
    BY <1>1 DEF Timing
  <2> QED BY <2>1, <2>2, <2>3 DEF Fills, LayerOf
<1>2. CASE m = "NTSC"
  <2>1. GetSize(m) = <<720, 480>>
    BY <1>2 DEF GetSize
  <2>2. GetFrameRate(m) = 30
    BY <1>2 DEF GetFrameRate
  <2>3. Timing(m) = [size |-> <<720, 480>>, hz |-> 60, interlaced |-> TRUE]
    BY <1>2 DEF Timing
  <2> QED BY <2>1, <2>2, <2>3 DEF Fills, LayerOf
<1>3. CASE m = "576P50"
  <2>1. GetSize(m) = <<720, 576>>
    BY <1>3 DEF GetSize
  <2>2. GetFrameRate(m) = 50
    BY <1>3 DEF GetFrameRate
  <2>3. Timing(m) = [size |-> <<720, 576>>, hz |-> 50, interlaced |-> FALSE]
    BY <1>3 DEF Timing
  <2> QED BY <2>1, <2>2, <2>3 DEF Fills, LayerOf
<1>4. CASE m = "480P60"
  <2>1. GetSize(m) = <<720, 480>>
    BY <1>4 DEF GetSize
  <2>2. GetFrameRate(m) = 60
    BY <1>4 DEF GetFrameRate
  <2>3. Timing(m) = [size |-> <<720, 480>>, hz |-> 60, interlaced |-> FALSE]
    BY <1>4 DEF Timing
  <2> QED BY <2>1, <2>2, <2>3 DEF Fills, LayerOf
<1>5. CASE m = "1080P24"
  <2>1. GetSize(m) = <<1920, 1080>>
    BY <1>5 DEF GetSize
  <2>2. GetFrameRate(m) = 24
    BY <1>5 DEF GetFrameRate
  <2>3. Timing(m) = [size |-> <<1920, 1080>>, hz |-> 24, interlaced |-> FALSE]
    BY <1>5 DEF Timing
  <2> QED BY <2>1, <2>2, <2>3 DEF Fills, LayerOf
<1>6. CASE m = "1080P25"
  <2>1. GetSize(m) = <<1920, 1080>>
    BY <1>6 DEF GetSize
  <2>2. GetFrameRate(m) = 25
    BY <1>6 DEF GetFrameRate
  <2>3. Timing(m) = [size |-> <<1920, 1080>>, hz |-> 25, interlaced |-> FALSE]
    BY <1>6 DEF Timing
  <2> QED BY <2>1, <2>2, <2>3 DEF Fills, LayerOf
<1>7. CASE m = "1080P30"
  <2>1. GetSize(m) = <<1920, 1080>>
    BY <1>7 DEF GetSize
  <2>2. GetFrameRate(m) = 30
    BY <1>7 DEF GetFrameRate
  <2>3. Timing(m) = [size |-> <<1920, 1080>>, hz |-> 30, interlaced |-> FALSE]
    BY <1>7 DEF Timing
  <2> QED BY <2>1, <2>2, <2>3 DEF Fills, LayerOf
<1>8. CASE m = "1080P50"
  <2>1. GetSize(m) = <<1920, 1080>>
    BY <1>8 DEF GetSize
  <2>2. GetFrameRate(m) = 50
    BY <1>8 DEF GetFrameRate
  <2>3. Timing(m) = [size |-> <<1920, 1080>>, hz |-> 50, interlaced |-> FALSE]
    BY <1>8 DEF Timing
  <2> QED BY <2>1, <2>2, <2>3 DEF Fills, LayerOf
<1>9. CASE m = "1080P60"
  <2>1. GetSize(m) = <<1920, 1080>>
    BY <1>9 DEF GetSize
  <2>2. GetFrameRate(m) = 60
    BY <1>9 DEF GetFrameRate
  <2>3. Timing(m) = [size |-> <<1920, 1080>>, hz |-> 60, interlaced |-> FALSE]
    BY <1>9 DEF Timing
  <2> QED BY <2>1, <2>2, <2>3 DEF Fills, LayerOf
<1>10. CASE m = "1080I50"
  <2>1. GetSize(m) = <<1920, 1080>>
    BY <1>10 DEF GetSize
  <2>2. GetFrameRate(m) = 50
    BY <1>10 DEF GetFrameRate
  <2>3. Timing(m) = [size |-> <<1920, 1080>>, hz |-> 50, interlaced |-> TRUE]
    BY <1>10 DEF Timing
  <2> QED BY <2>1, <2>2, <2>3 DEF Fills, LayerOf
<1>11. CASE m = "1080I60"
  <2>1. GetSize(m) = <<1920, 1080>>
    BY <1>11 DEF GetSize
  <2>2. GetFrameRate(m) = 60
    BY <1>11 DEF GetFrameRate
  <2>3. Timing(m) = [size |-> <<1920, 1080>>, hz |-> 60, interlaced |-> TRUE]
    BY <1>11 DEF Timing
  <2> QED BY <2>1, <2>2, <2>3 DEF Fills, LayerOf
<1>12. CASE m = "720P50"
  <2>1. GetSize(m) = <<1280, 720>>
    BY <1>12 DEF GetSize
  <2>2. GetFrameRate(m) = 50
    BY <1>12 DEF GetFrameRate
  <2>3. Timing(m) = [size |-> <<1280, 720>>, hz |-> 50, interlaced |-> FALSE]
    BY <1>12 DEF Timing
  <2> QED BY <2>1, <2>2, <2>3 DEF Fills, LayerOf
<1>13. CASE m = "720P60"
  <2>1. GetSize(m) = <<1280, 720>>
    BY <1>13 DEF GetSize
  <2>2. GetFrameRate(m) = 60
    BY <1>13 DEF GetFrameRate
  <2>3. Timing(m) = [size |-> <<1280, 720>>, hz |-> 60, interlaced |-> FALSE]
    BY <1>13 DEF Timing
  <2> QED BY <2>1, <2>2, <2>3 DEF Fills, LayerOf
<1>14. CASE m = "800x600_60"
  <2>1. GetSize(m) = <<800, 600>>
    BY <1>14 DEF GetSize
  <2>2. GetFrameRate(m) = 60
    BY <1>14 DEF GetFrameRate
  <2>3. Timing(m) = [size |-> <<800, 600>>, hz |-> 60, interlaced |-> FALSE]
    BY <1>14 DEF Timing
  <2> QED BY <2>1, <2>2, <2>3 DEF Fills, LayerOf
<1>15. CASE m = "1024x768_60"
  <2>1. GetSize(m) = <<1024, 768>>
    BY <1>15 DEF GetSize
  <2>2. GetFrameRate(m) = 60
    BY <1>15 DEF GetFrameRate
  <2>3. Timing(m) = [size |-> <<1024, 768>>, hz |-> 60, interlaced |-> FALSE]
    BY <1>15 DEF Timing
  <2> QED BY <2>1, <2>2, <2>3 DEF Fills, LayerOf
<1>16. CASE m = "1280x1024_60"
  <2>1. GetSize(m) = <<1280, 1024>>
    BY <1>16 DEF GetSize
  <2>2. GetFrameRate(m) = 60
    BY <1>16 DEF GetFrameRate
  <2>3. Timing(m) = [size |-> <<1280, 1024>>, hz |-> 60, interlaced |-> FALSE]
    BY <1>16 DEF Timing
  <2> QED BY <2>1, <2>2, <2>3 DEF Fills, LayerOf
<1>17. CASE m = "1366x768_60"
  <2>1. GetSize(m) = <<1366, 768>>
    BY <1>17 DEF GetSize
  <2>2. GetFrameRate(m) = 60
    BY <1>17 DEF GetFrameRate
  <2>3. Timing(m) = [size |-> <<1366, 768>>, hz |-> 60, interlaced |-> FALSE]
    BY <1>17 DEF Timing
  <2> QED BY <2>1, <2>2, <2>3 DEF Fills, LayerOf
<1>18. CASE m = "1280x800_60"
  <2>1. GetSize(m) = <<1280, 800>>
    BY <1>18 DEF GetSize
  <2>2. GetFrameRate(m) = 60
    BY <1>18 DEF GetFrameRate
  <2>3. Timing(m) = [size |-> <<1280, 800>>, hz |-> 60, interlaced |-> FALSE]
    BY <1>18 DEF Timing
  <2> QED BY <2>1, <2>2, <2>3 DEF Fills, LayerOf
<1> QED BY <1>1, <1>2, <1>3, <1>4, <1>5, <1>6, <1>7, <1>8, <1>9,
       <1>10, <1>11, <1>12, <1>13, <1>14, <1>15, <1>16, <1>17, <1>18 DEF Agreeing

(* What init_ says is open is whole, whatever has failed before and whoever *)
(* else uses the transmitter; and its layer, its device and HDMI show the   *)
(* same picture, when the modes are those whose tables agree.               *)
THEOREM OpenStaysWhole ==
  ASSUME \A o \in Outputs : Syncs[o] \subseteq Agreeing
  PROVE  Spec => []OpenIsWhole
<1>1. IInv => OpenIsWhole
  <2> SUFFICES ASSUME IInv, NEW d \in init, method # [kind |-> "close", dev |-> d]
               PROVE  IF d \in Groups THEN OfGroup(d) \subseteq on
                      ELSE /\ OfOutput(d) \subseteq on
                           /\ pubAttr[d] = params[d].sync
                           /\ Fills(layerAttr[d], params[d].sync)
                           /\ params[d].hdmi => /\ OfHdmi \subseteq on
                                                /\ Fills(layerAttr[d], hdmiFmt)
    BY DEF OpenIsWhole
  <2>1. /\ Whole(d) \subseteq on
        /\ d \in Outputs => params[d] \in Params(d) /\ DevSet(d) /\ LayerSet(d) /\ LinkSet(d)
    BY DEF IInv, StaysWhole
  <2>2. CASE d \in Groups
    BY <2>1, <2>2 DEF Whole, WholeOf
  <2>3. CASE d \in Outputs
    <3>1. d \notin Groups
      BY <2>3, Owners
    <3>2. /\ OfOutput(d) \subseteq on
          /\ params[d].hdmi => OfHdmi \subseteq on
      BY <2>1, <2>3, <3>1 DEF Whole, WholeOf, Hdmi
    <3>3. params[d].sync \in Agreeing
      BY <2>1, <2>3 DEF Params
    <3>4. Fills(LayerOf(params[d].sync), params[d].sync)
      BY <3>3, TablesAgree DEF GetHDMIFmt
    <3>5. layerAttr[d] = LayerOf(params[d].sync) /\ pubAttr[d] = params[d].sync
      BY <2>1, <2>3 DEF LayerSet, DevSet
    <3>6. params[d].hdmi => hdmiFmt = params[d].sync
      BY <2>1, <2>3 DEF LinkSet, Hdmi, GetHDMIFmt
    <3> QED BY <3>1, <3>2, <3>4, <3>5, <3>6
  <2> QED BY <2>2, <2>3 DEF IInv, Typed, TypeOK, Devs
<1> QED BY <1>1, Invariance, PTL

(* Of what is closed nothing is left, unless one of its calls has failed.   *)
THEOREM ClosedStaysGone == Spec => []ClosedIsGone
<1>1. IInv => ClosedIsGone
  <2> SUFFICES ASSUME IInv, method = Idle
               PROVE  /\ \A d \in Devs \ (init \cup failed) : \A p \in on : p.of # d
                      /\ failed = {} /\ HdmiFree => on \cap OfHdmi = {}
    BY DEF ClosedIsGone
  <2>1. \A p \in OfHdmi : p.of = HdmiDev
    BY WholeIs, HdmiParts
  <2> QED BY <2>1, ClosedIsClean
<1> QED BY <1>1, Invariance, PTL

(* In whatever order the methods of however many objects are called, the    *)
(* SDK refuses a call only after one has failed by itself.                  *)
THEOREM FailureComesFirst == Spec => []RefusedOnlyAfterFailure
<1>1. IInv => RefusedOnlyAfterFailure
  BY DEF IInv
<1> QED BY <1>1, Invariance, PTL
=============================================================================
