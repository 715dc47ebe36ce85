--------------------------- MODULE PCIVTransProofs ---------------------------
(***************************************************************************)
(* Theorems about PCIVTrans, for every number of channels, every window,   *)
(* every port capacity and every set of frame lengths.                     *)
(***************************************************************************)
EXTENDS PCIVTrans, SequenceTheorems, FiniteSetTheorems, WellFoundedInduction, TLAPS

-----------------------------------------------------------------------------
(* The arithmetic of PcivWindow. *)

LEMMA HalfFits == Half \in Nat /\ 2 * Half <= Window
BY WindowAssumption, SMT DEF Half

(* An aligned length is a length, and at least as long as what it aligns.  *)
LEMMA DmaLenType ==
  ASSUME NEW len \in Nat
  PROVE  DmaLen(len) \in Nat /\ len <= DmaLen(len) /\ EntryLen(len) \in Nat
<1>1. len % DmaAlign \in 0 .. DmaAlign - 1
  BY WindowAssumption, SMT
<1> QED BY <1>1, WindowAssumption, SMT DEF DmaLen, EntryLen

(* QueryWritePos: a block it places starts at 0 or at end_pos.             *)
LEMMA WritePosType ==
  ASSUME NEW s \in Int, NEW e \in Nat, NEW len \in Nat
  PROVE  QueryWritePos(s, e, len) \in {0, e, NoRoom}
BY SMT DEF QueryWritePos

(* An empty ring has room for half a window.                               *)
LEMMA RoomWhenEmpty ==
  ASSUME NEW e \in Nat, NEW len \in 0 .. Half
  PROVE  QueryWritePos(e, e, len) # NoRoom
BY HalfFits, WindowAssumption, SMT DEF QueryWritePos, NoRoom

(* A non-empty set of positions of a sequence has a last one.              *)
LEMMA LastPosition ==
  ASSUME NEW n \in Nat, NEW P \in SUBSET (1 .. n), P # {}
  PROVE  \E k \in P : \A j \in P : j <= k
<1> DEFINE T == {n - k : k \in P}
<1>1. T \subseteq Nat /\ T # {}
  <2>1. \A k \in P : n - k \in Nat BY SMT
  <2> QED BY <2>1
<1>2. PICK x \in T : \A y \in T : <<y, x>> \notin OpToRel(<, Nat)
  BY <1>1, NatLessThanWellFounded, WFMin, Zenon
<1>3. \A y \in T : ~(y < x)
  <2> SUFFICES ASSUME NEW y \in T, y < x PROVE FALSE OBVIOUS
  <2> HIDE DEF T
  <2>1. x \in Nat /\ y \in Nat BY <1>1
  <2>2. <<y, x>> \in OpToRel(<, Nat) BY <2>1 DEF OpToRel
  <2> QED BY <2>2, <1>2
<1>4. PICK k \in P : x = n - k OBVIOUS
<1>5. \A j \in P : j <= k
  <2> SUFFICES ASSUME NEW j \in P PROVE j <= k OBVIOUS
  <2>1. n - j \in T OBVIOUS
  <2>2. ~(n - j < n - k) BY <2>1, <1>3, <1>4
  <2>3. j \in Nat /\ k \in Nat OBVIOUS
  <2> HIDE DEF T
  <2> QED BY <2>2, <2>3
<1> QED BY <1>5

-----------------------------------------------------------------------------
(* Types. *)

LEMMA ChnType == Chns \subseteq Nat /\ 0 \in Chns
BY TransAssumption, SMT DEF Chns

LEMMA NextChnType ==
  ASSUME i \in Chns, ready \subseteq Chns, NextChn
  PROVE  i' \in Chns /\ ready' \subseteq Chns /\ pc' \in {"write", "scan"}
<1>1. i + 1 # NChn => i + 1 \in Chns
  BY TransAssumption, SMT DEF Chns
<1> QED BY <1>1, ChnType DEF NextChn

(* A frame of the encoders is a Frame, and its length a natural number.    *)
LEMMA FrameLenType == \A f \in Frame : f.len \in Nat
BY TransAssumption, SMT DEF Frame

LEMMA VdecOfType == \A c \in Chns : VdecOf(c) \in Int
BY TransAssumption, SMT DEF VdecOf

(* The scan handles a real frame: the left-over one, or the first one of a *)
(* channel that select() reported.                                         *)
LEMMA TurnFrameType ==
  ASSUME TypeOK, Scanning, pc = "scan", full \/ i \in ready
  PROVE  TurnFrame \in Frame
<1>1. CASE full
  BY <1>1 DEF TurnFrame, Scanning, TypeOK
<1>2. CASE ~full
  <2>1. venc[i] # <<>> /\ venc[i] \in Seq(Frame)
    BY <1>2, ChnType DEF Scanning, TypeOK
  <2> QED BY <2>1, <1>2, HeadTailProperties DEF TurnFrame
<1> QED BY <1>1, <1>2

(* A channel the scan handles without a left-over frame has a frame.       *)
LEMMA TakeType ==
  ASSUME TypeOK, Scanning, pc = "scan", full \/ i \in ready, Take
  PROVE  venc' \in [Chns -> Seq(Frame)]
<1>1. CASE full
  BY <1>1 DEF Take, TypeOK
<1>2. CASE ~full
  <2>1. venc[i] # <<>> /\ venc[i] \in Seq(Frame)
    BY <1>2, ChnType DEF Scanning, TypeOK
  <2>2. Tail(venc[i]) \in Seq(Frame)
    BY <2>1, HeadTailProperties
  <2> QED BY <2>2, <1>2 DEF Take, TypeOK
<1> QED BY <1>1, <1>2

LEMMA LastSeenType ==
  ASSUME NEW s \in -1 .. FrameMod - 1, NEW body \in Seq(Entry), NEW c \in Chns
  PROVE  LastSeen(s, body, c) \in -1 .. FrameMod - 1
<1> DEFINE mine == {k \in DOMAIN body : body[k].chn = c}
<1>1. CASE mine = {}
  BY <1>1 DEF LastSeen
<1>2. CASE mine # {}
  <2> DEFINE k == CHOOSE k \in mine : \A j \in mine : j <= k
  <2>1. Len(body) \in Nat /\ mine \subseteq 1 .. Len(body)
    BY LenProperties
  <2>2. \E x \in mine : \A j \in mine : j <= x
    BY <2>1, <1>2, LastPosition
  <2>3. k \in mine
    BY <2>2
  <2>4. body[k] \in Entry
    BY <2>1, <2>3, ElementOfSeq
  <2>5. body[k].seq \in 0 .. FrameMod - 1
    BY <2>4 DEF Entry
  <2>6. LastSeen(s, body, c) = body[k].seq
    BY <1>2 DEF LastSeen
  <2> QED BY <2>5, <2>6, TransAssumption
<1> QED BY <1>1, <1>2

LEMMA NoMsgType == NoMsg \in Msg /\ GarbageMsgs \subseteq Msg
BY TransAssumption DEF NoMsg, Msg

LEMMA EmptyTypes == <<>> \in Seq(Entry) /\ <<>> \in Seq(Msg)
BY EmptySeq

(* Types of the two queues when a session retires.                         *)
LEMMA RetireType ==
  ASSUME TypeOK
  PROVE  RetireNotes(toMaster) \in Seq(Note) /\ RetireMsgs(toSlave) \in Seq(Msg)
<1>1. \A k \in DOMAIN toMaster : [toMaster[k] EXCEPT !.cur = FALSE, !.body = <<>>] \in Note
  <2> SUFFICES ASSUME NEW k \in DOMAIN toMaster
               PROVE [toMaster[k] EXCEPT !.cur = FALSE, !.body = <<>>] \in Note
    OBVIOUS
  <2>1. toMaster[k] \in Note BY ElementOfSeq, LenProperties DEF TypeOK
  <2>2. <<>> \in Seq(Entry) BY EmptySeq
  <2> QED BY <2>1, <2>2 DEF Note
<1>2. \A k \in DOMAIN toSlave : [toSlave[k] EXCEPT !.cur = FALSE] \in Msg
  <2> SUFFICES ASSUME NEW k \in DOMAIN toSlave
               PROVE [toSlave[k] EXCEPT !.cur = FALSE] \in Msg
    OBVIOUS
  <2>1. toSlave[k] \in Msg BY ElementOfSeq, LenProperties DEF TypeOK
  <2> QED BY <2>1 DEF Msg
<1>3. /\ Len(toMaster) \in Nat /\ DOMAIN toMaster = 1 .. Len(toMaster)
      /\ Len(toSlave) \in Nat /\ DOMAIN toSlave = 1 .. Len(toSlave)
  BY LenProperties DEF TypeOK
<1>4. RetireNotes(toMaster) \in [1 .. Len(toMaster) -> Note]
  BY <1>1, <1>3 DEF RetireNotes
<1>5. RetireMsgs(toSlave) \in [1 .. Len(toSlave) -> Msg]
  BY <1>2, <1>3 DEF RetireMsgs
<1> QED BY <1>3, <1>4, <1>5, SMT

(* The queues of the received messages shrink to parts of themselves.      *)
LEMMA MsgPart ==
  ASSUME NEW q \in Seq(Msg), NEW k \in Nat
  PROVE  /\ SubSeq(q, k + 1, Len(q)) \in Seq(Msg)
         /\ k <= Len(q) => SubSeq(q, 1, k) \in Seq(Msg)
         /\ AfterGetAndConsume(q) \in Seq(Msg)
<1>1. Len(q) \in Nat /\ \A j \in 1 .. Len(q) : q[j] \in Msg
  BY LenProperties, ElementOfSeq
<1>2. \A j \in k + 1 .. Len(q) : q[j] \in Msg
  BY <1>1, SMT
<1>3. \A j \in 3 .. Len(q) : q[j] \in Msg
  BY <1>1, SMT
<1>4. k <= Len(q) => \A j \in 1 .. k : q[j] \in Msg
  BY <1>1, SMT
<1>5. SubSeq(q, k + 1, Len(q)) \in Seq(Msg)
  BY <1>1, <1>2, SubSeqProperties
<1>6. SubSeq(q, 3, Len(q)) \in Seq(Msg)
  BY <1>1, <1>3, SubSeqProperties
<1>7. k <= Len(q) => SubSeq(q, 1, k) \in Seq(Msg)
  BY <1>4, SubSeqProperties
<1> QED BY <1>5, <1>6, <1>7 DEF AfterGetAndConsume

(* What a read leaves to look at: what msg_buf held and k new messages.    *)
LEMMA GotType ==
  ASSUME TypeOK, NEW k \in 1 .. MaxCoalesce, k <= Len(toSlave)
  PROVE  LET got == msgBuf \o SubSeq(toSlave, 1, k)
         IN  /\ got \in Seq(Msg) /\ got[1] \in Msg
             /\ Len(got) = Len(msgBuf) + k
             /\ \A j \in 1 .. Len(got) :
                  got[j] = IF j <= Len(msgBuf) THEN msgBuf[j] ELSE toSlave[j - Len(msgBuf)]
<1> DEFINE new == SubSeq(toSlave, 1, k)
           got == msgBuf \o new
<1>1. k \in Nat /\ msgBuf \in Seq(Msg) /\ toSlave \in Seq(Msg)
  BY TransAssumption DEF TypeOK
<1>2. new \in Seq(Msg)
  BY <1>1, MsgPart
<1>3. /\ Len(msgBuf) \in Nat /\ Len(toSlave) \in Nat
      /\ \A j \in 1 .. Len(toSlave) : toSlave[j] \in Msg
  BY <1>1, LenProperties, ElementOfSeq
<1>4. Len(new) = k /\ \A j \in 1 .. k : new[j] = toSlave[j]
  <2>1. \A j \in 1 .. k : toSlave[j] \in Msg
    BY <1>3
  <2>2. /\ Len(new) = IF 1 <= k THEN k - 1 + 1 ELSE 0
        /\ \A j \in 1 .. k - 1 + 1 : new[j] = toSlave[1 + j - 1]
    BY <2>1, <1>1, SubSeqProperties
  <2> QED BY <2>2, SMT
<1>5. /\ got \in Seq(Msg) /\ Len(got) = Len(msgBuf) + Len(new)
      /\ \A j \in 1 .. Len(msgBuf) + Len(new) :
           got[j] = IF j <= Len(msgBuf) THEN msgBuf[j] ELSE new[j - Len(msgBuf)]
  BY <1>1, <1>2, ConcatProperties
<1> HIDE DEF got, new
<1>6. \A j \in 1 .. Len(got) :
        got[j] = IF j <= Len(msgBuf) THEN msgBuf[j] ELSE toSlave[j - Len(msgBuf)]
  BY <1>1, <1>3, <1>4, <1>5
<1>7. got[1] \in Msg
  BY <1>1, <1>3, <1>4, <1>5, ElementOfSeq
<1> QED BY <1>4, <1>5, <1>6, <1>7 DEF got, new

LEMMA DispatchType ==
  ASSUME TypeOK, NEW m \in Msg, Dispatch(m)
  PROVE  startPos' \in Int /\ stale' \in 0 .. 2 /\ msg' \in Msg /\ pc' = "loop"
<1>1. startPos \in Int /\ stale \in {0, 1, 2}
  BY DEF TypeOK
<1>2. m.end \in Int
  BY DEF Msg
<1>3. startPos' \in Int
  BY <1>1, <1>2, Zenon DEF Dispatch
<1>4. stale' = stale \/ (stale # 2 /\ stale' = stale + 1)
  BY Zenon DEF Dispatch
<1>5. stale' \in 0 .. 2
  BY <1>1, <1>4
<1> QED BY <1>3, <1>5 DEF Dispatch

THEOREM TypeInit == Init => TypeOK
<1> SUFFICES ASSUME Init PROVE TypeOK
  OBVIOUS
<1>1. /\ i \in Chns /\ msg \in Msg /\ msgBuf \in Seq(Msg) /\ buf \in Seq(Entry)
      /\ toMaster \in Seq(Note) /\ toSlave \in Seq(Msg)
  BY ChnType, NoMsgType, EmptySeq DEF Init
<1>2. /\ venc \in [Chns -> Seq(Frame)] /\ encSeq \in [Chns -> 0 .. FrameMod - 1]
      /\ seen \in [Chns -> -1 .. FrameMod - 1]
  BY TransAssumption, EmptySeq DEF Init
<1>3. vbFree \in 0 .. VBBlkCnt /\ blen \in 0 .. Half /\ startPos \in Int /\ endPos \in Nat
  BY TransAssumption, HalfFits DEF Init
<1> QED
  BY <1>1, <1>2, <1>3 DEF Init, TypeOK, Alive, Ended, Commands

(* Each action preserves the types.                                        *)
THEOREM TypeStep == IInv /\ [Next]_vars => TypeOK'
<1> SUFFICES ASSUME IInv, [Next]_vars PROVE TypeOK'
  OBVIOUS
<1> USE DEF IInv, Alive, Ended
<1>1. ASSUME NEW cmd \in Commands, Handle(cmd) PROVE TypeOK'
  <2>1. /\ main' \in {"join", "open", "idle", "gone"}
        /\ job' \in Commands \cup {"NONE"} /\ run' \in BOOLEAN
    BY <1>1 DEF Handle, AfterClose, TypeOK, Commands
  <2> QED BY <1>1, <2>1 DEF Handle, TypeOK, stageVars, threadVars, encVars
<1>2. CASE Join
  <2>1. msg' \in Msg /\ msgBuf' \in Seq(Msg) /\ i' \in Chns /\ ready' \subseteq Chns
    BY <1>2, ChnType, NoMsgType, EmptyTypes DEF Join
  <2>2. vbFree' \in 0 .. VBBlkCnt
    BY <1>2, TransAssumption DEF Join, Lifecycle, TypeOK
  <2>3. main' \in {"idle", "open", "gone"}
    BY <1>2 DEF Join, Lifecycle, AfterClose, TypeOK, Commands
  <2> QED BY <1>2, <2>1, <2>2, <2>3 DEF Join, TypeOK, stageVars, encVars
<1>3. CASE Open
  <2>1. /\ toMaster' \in Seq(Note) /\ toSlave' \in Seq(Msg)
        /\ seen' \in [Chns -> -1 .. FrameMod - 1]
    BY <1>3, RetireType, TransAssumption DEF Open
  <2>2. buf' \in Seq(Entry) /\ blen' \in 0 .. Half /\ startPos' = 0 /\ endPos' = 0
    BY <1>3, HalfFits, EmptyTypes DEF Open
  <2>3. /\ vbFree' \in 0 .. VBBlkCnt /\ run' \in BOOLEAN /\ init' \in BOOLEAN
        /\ pc' \in Alive \cup Ended \cup {"off"}
    <3>1. /\ VBBlkCnt \in Nat /\ vbFree \in 0 .. VBBlkCnt /\ run \in BOOLEAN
          /\ init \in BOOLEAN /\ pc \in Alive \cup Ended \cup {"off"}
      BY TransAssumption DEF TypeOK
    <3>2. /\ vbFree' = vbFree \/ (vbFree > 0 /\ vbFree' = vbFree - 1)
          /\ run' \in {TRUE, run} /\ init' \in {TRUE, init} /\ pc' \in {"begin", pc}
      BY <1>3 DEF Open
    <3>3. vbFree' \in 0 .. VBBlkCnt
      BY <3>1, <3>2, SMT
    <3>4. run' \in BOOLEAN /\ init' \in BOOLEAN
      BY <3>1, <3>2, Zenon
    <3>5. pc' \in Alive \cup Ended \cup {"off"}
      BY <3>1, <3>2
    <3> QED BY <3>3, <3>4, <3>5
  <2> QED BY <1>3, <2>1, <2>2, <2>3 DEF Open, TypeOK, threadVars, encVars
<1>4. CASE Ack
  BY <1>4 DEF Ack, TypeOK, stageVars, threadVars, encVars
<1>5. CASE Begin
  <2>1. msg' \in Msg /\ msgBuf' \in Seq(Msg)
    BY <1>5, NoMsgType, EmptyTypes DEF Begin
  <2>2. \A c \in Chns : 0 .. c - 1 \subseteq Chns
    BY TransAssumption, SMT DEF Chns
  <2>3. receiving' \subseteq Chns
    BY <1>5, <2>2 DEF Begin, TypeOK
  <2> QED BY <1>5, <2>1, <2>3 DEF Begin, TypeOK, mainVars, stageVars
<1>6. CASE Loop
  BY <1>6 DEF Loop, TypeOK, mainVars, stageVars, threadVars
<1>7. CASE Select
  BY <1>7, ChnType DEF Select, TypeOK, mainVars, stageVars, encVars
<1>8. CASE Skip
  <2>1. i' \in Chns /\ ready' \subseteq Chns /\ pc' \in {"write", "scan"}
    BY <1>8, NextChnType DEF Skip, TypeOK
  <2> QED BY <1>8, <2>1 DEF Skip, TypeOK, mainVars, stageVars, encVars
<1>9. CASE FetchFails
  BY <1>9 DEF FetchFails, TypeOK, mainVars, stageVars, threadVars, encVars
<1>10. CASE Store
  <2>1. TurnFrame \in Frame /\ venc' \in [Chns -> Seq(Frame)]
    BY <1>10, TurnFrameType, TakeType DEF Store
  <2>2. [vdec |-> VdecOf(i), chn |-> TurnFrame.chn, seq |-> TurnFrame.seq,
         size |-> EntryLen(TurnFrame.len)] \in Entry
    BY <2>1, VdecOfType, FrameLenType, DmaLenType DEF Entry, Frame, TypeOK
  <2>3. buf' \in Seq(Entry)
    BY <2>2, <1>10, AppendProperties DEF Store, TypeOK
  <2>4. blen' \in 0 .. Half
    <3>1. EntryLen(TurnFrame.len) \in Nat
      BY <2>1, FrameLenType, DmaLenType
    <3>2. /\ blen' = blen + EntryLen(TurnFrame.len)
          /\ ~(Half - blen < EntryLen(TurnFrame.len))
      BY <1>10 DEF Store, Fits
    <3>3. Half \in Nat /\ blen \in 0 .. Half
      BY HalfFits DEF TypeOK
    <3> QED BY <3>1, <3>2, <3>3
  <2>5. i' \in Chns /\ ready' \subseteq Chns /\ pc' \in Alive \cup Ended
    BY <1>10, NextChnType DEF Store, TypeOK
  <2> QED BY <1>10, <2>1, <2>3, <2>4, <2>5
          DEF Store, TypeOK, mainVars
<1>11. CASE Keep
  <2>1. TurnFrame \in Frame /\ venc' \in [Chns -> Seq(Frame)]
    BY <1>11, TurnFrameType, TakeType DEF Keep
  <2> QED BY <1>11, <2>1, ChnType DEF Keep, TypeOK, mainVars, stageVars
<1>12. CASE Write
  <2>1. endPos' \in Nat
    <3> DEFINE wp == QueryWritePos(startPos, endPos, blen)
    <3>1. blen \in Nat /\ startPos \in Int /\ endPos \in Nat
      BY HalfFits DEF TypeOK
    <3>2. wp \in {0, endPos, NoRoom}
      BY <3>1, WritePosType
    <3>3. endPos' = endPos \/ (wp # NoRoom /\ endPos' = wp + blen)
      BY <1>12 DEF Write
    <3> QED BY <3>1, <3>2, <3>3
  <2> QED BY <1>12, <2>1
          DEF Write, TypeOK, mainVars, stageVars, threadVars, encVars
<1>13. CASE Notify
  <2>1. Written \in Note
    BY HalfFits DEF Written, Note, TypeOK
  <2>2. Append(toMaster, Written) \in Seq(Note)
    BY <2>1, AppendProperties DEF TypeOK
  <2>3. 0 \in 0 .. Half
    BY HalfFits
  <2> QED BY <1>13, <2>2, <2>3, EmptyTypes
          DEF Notify, TypeOK, mainVars, stageVars, threadVars, encVars
<1>14. CASE RecvRead
  <2>1. PICK k \in 1 .. MaxCoalesce :
          /\ k <= Len(toSlave)
          /\ toSlave' = SubSeq(toSlave, k + 1, Len(toSlave))
          /\ LET got == msgBuf \o SubSeq(toSlave, 1, k)
             IN  IF Len(got) > MsgCap
                 THEN pc' = "failed" /\ UNCHANGED <<msg, msgBuf, startPos, stale>>
                 ELSE Dispatch(got[1]) /\ msgBuf' = AfterGetAndConsume(got)
    BY <1>14 DEF RecvRead
  <2> DEFINE got == msgBuf \o SubSeq(toSlave, 1, k)
  <2>2. got \in Seq(Msg) /\ got[1] \in Msg
    BY <2>1, GotType
  <2>3. toSlave' \in Seq(Msg) /\ AfterGetAndConsume(got) \in Seq(Msg)
    <3>1. toSlave \in Seq(Msg) /\ k \in Nat
      BY TransAssumption DEF TypeOK
    <3> HIDE DEF got
    <3> QED BY <2>1, <2>2, <3>1, MsgPart
  <2> HIDE DEF got
  <2>4. /\ msg' \in Msg /\ msgBuf' \in Seq(Msg) /\ startPos' \in Int
        /\ stale' \in 0 .. 2 /\ pc' \in {"failed", "loop"}
    <3>1. CASE Len(got) > MsgCap
      BY <3>1, <2>1 DEF got, TypeOK
    <3>2. CASE ~(Len(got) > MsgCap)
      <4>1. Dispatch(got[1]) /\ msgBuf' = AfterGetAndConsume(got)
        BY <3>2, <2>1 DEF got
      <4>2. startPos' \in Int /\ stale' \in 0 .. 2 /\ msg' \in Msg /\ pc' = "loop"
        BY <4>1, <2>2, DispatchType
      <4> QED BY <4>1, <4>2, <2>3
    <3> QED BY <3>1, <3>2
  <2> QED BY <1>14, <2>3, <2>4 DEF RecvRead, TypeOK, mainVars, stageVars, encVars
<1>15. CASE RecvTimeout
  <2>1. CASE msgBuf # <<>>
    <3>1. msgBuf \in Seq(Msg) /\ 0 \in Nat
      BY DEF TypeOK
    <3>2. Head(msgBuf) \in Msg /\ AfterGetAndConsume(msgBuf) \in Seq(Msg)
      BY <2>1, <3>1, MsgPart, HeadTailProperties
    <3>3. Dispatch(Head(msgBuf)) /\ msgBuf' = AfterGetAndConsume(msgBuf)
      BY <1>15, <2>1 DEF RecvTimeout
    <3>4. startPos' \in Int /\ stale' \in 0 .. 2
      BY <3>2, <3>3, DispatchType
    <3> QED BY <1>15, <3>2, <3>3, <3>4
            DEF RecvTimeout, Dispatch, TypeOK, mainVars, stageVars, encVars
  <2>2. CASE msgBuf = <<>>
    <3>1. Dispatch(msg) /\ UNCHANGED msgBuf /\ msg \in Msg
      BY <1>15, <2>2 DEF RecvTimeout, TypeOK
    <3>2. startPos' \in Int /\ stale' \in 0 .. 2
      BY <3>1, DispatchType
    <3> QED BY <1>15, <3>1, <3>2
            DEF RecvTimeout, Dispatch, TypeOK, mainVars, stageVars, encVars
  <2> QED BY <2>1, <2>2
<1>16. CASE RecvFails
  BY <1>16 DEF RecvFails, TypeOK, mainVars, stageVars, threadVars, encVars
<1>17. ASSUME NEW c \in Encoders, NEW l \in FrameLens[c], Encode(c, l) PROVE TypeOK'
  <2>1. c \in Chns /\ encSeq[c] \in 0 .. FrameMod - 1
    BY TransAssumption DEF TypeOK
  <2>2. [chn |-> c, seq |-> encSeq[c], len |-> l] \in Frame
    BY <2>1 DEF Frame
  <2>3. Append(venc[c], [chn |-> c, seq |-> encSeq[c], len |-> l]) \in Seq(Frame)
    BY <2>1, <2>2, AppendProperties DEF TypeOK
  <2>4. (encSeq[c] + 1) % FrameMod \in 0 .. FrameMod - 1
    BY <2>1, TransAssumption, SMT
  <2>5. venc' \in [Chns -> Seq(Frame)] /\ encSeq' \in [Chns -> 0 .. FrameMod - 1]
    BY <1>17, <2>1, <2>3, <2>4 DEF Encode, TypeOK
  <2>6. UNCHANGED <<mainVars, startPos, endPos, stageVars, pc, threadVars, receiving,
                    toMaster, toSlave, seen, stale>>
    BY <1>17 DEF Encode
  <2> QED BY <2>5, <2>6 DEF TypeOK, mainVars, stageVars, threadVars
<1>18. CASE MasterReads
  <2>1. Head(toMaster) \in Note /\ Tail(toMaster) \in Seq(Note)
    BY <1>18, HeadTailProperties DEF MasterReads, TypeOK
  <2>2. [type |-> "READ_DONE", cur |-> Head(toMaster).cur, end |-> Head(toMaster).end] \in Msg
    BY <2>1 DEF Note, Msg
  <2>3. toSlave' \in Seq(Msg)
    BY <1>18, <2>2, AppendProperties DEF MasterReads, TypeOK
  <2>4. \A c \in Chns : LastSeen(seen[c], Head(toMaster).body, c) \in -1 .. FrameMod - 1
    BY <2>1, LastSeenType DEF Note, TypeOK
  <2>5. seen' \in [Chns -> -1 .. FrameMod - 1]
    BY <1>18, <2>4 DEF MasterReads, TypeOK
  <2>6. toMaster' \in Seq(Note)
    BY <1>18, <2>1 DEF MasterReads
  <2>7. UNCHANGED <<mainVars, startPos, endPos, stageVars, pc, threadVars, encVars, stale>>
    BY <1>18 DEF MasterReads
  <2> QED BY <2>3, <2>5, <2>6, <2>7, SMTT(30)
          DEF TypeOK, mainVars, stageVars, threadVars, encVars
<1>19. CASE MasterDiscards
  <2>1. Tail(toMaster) \in Seq(Note)
    BY <1>19, HeadTailProperties DEF MasterDiscards, TypeOK
  <2>2. toMaster' \in Seq(Note)
    BY <1>19, <2>1 DEF MasterDiscards
  <2>3. UNCHANGED <<mainVars, startPos, endPos, stageVars, pc, threadVars, encVars,
                    toSlave, seen, stale>>
    BY <1>19 DEF MasterDiscards
  <2> QED BY <2>2, <2>3 DEF TypeOK, mainVars, stageVars, threadVars, encVars
<1>20. CASE Exited \/ UNCHANGED vars
  <2>1. UNCHANGED vars
    BY <1>20 DEF Exited
  <2>2. UNCHANGED <<mainVars, startPos, endPos, stageVars, pc, threadVars, encVars,
                    toMaster, toSlave, seen, stale>>
    BY <2>1 DEF vars
  <2> QED BY <2>2 DEF TypeOK, mainVars, stageVars, threadVars, encVars
<1> QED BY <1>1, <1>2, <1>3, <1>4, <1>5, <1>6, <1>7, <1>8, <1>9, <1>10, <1>11,
           <1>12, <1>13, <1>14, <1>15, <1>16, <1>17, <1>18, <1>19, <1>20
        DEF Next, Main, Thread

-----------------------------------------------------------------------------
(* The other parts of the inductive invariant. *)

THEOREM LifecycleStep == IInv /\ [Next]_vars => Lifecycle'
<1> SUFFICES ASSUME IInv, [Next]_vars PROVE Lifecycle'
  OBVIOUS
<1> USE DEF IInv, Lifecycle
<1>t. /\ VBBlkCnt \in Nat /\ VBBlkCnt # 0 /\ vbFree \in 0 .. VBBlkCnt
      /\ init \in BOOLEAN /\ run \in BOOLEAN /\ InitFaults \in BOOLEAN
      /\ pc \in Alive \cup Ended \cup {"off"}
  BY TransAssumption DEF TypeOK
<1>1. ASSUME NEW cmd \in Commands, Handle(cmd) PROVE Lifecycle'
  <2>1. cmd # "NONE" BY DEF Commands
  <2> QED BY <1>1, <2>1 DEF Handle, AfterClose, Commands
<1>2. CASE Join
  <2>1. main' \in {"open", "idle", "gone"}
    BY <1>2 DEF Join, AfterClose, TypeOK, Commands
  <2> QED BY <1>2, <1>t, <2>1 DEF Join, Ended
<1>3. CASE Open
  BY <1>3, <1>t DEF Open
<1>4. CASE Ack
  BY <1>4 DEF Ack
<1>5. CASE Begin \/ Loop \/ Select \/ Skip \/ FetchFails \/ Store \/ Keep
  BY <1>5 DEF Begin, Loop, Select, Skip, FetchFails, Store, Keep, NextChn, mainVars
<1>6. CASE Write \/ Notify \/ RecvRead \/ RecvTimeout \/ RecvFails
  BY <1>6 DEF Write, Notify, RecvRead, RecvTimeout, RecvFails, Dispatch, mainVars
<1>7. ASSUME NEW c \in Encoders, NEW l \in FrameLens[c], Encode(c, l) PROVE Lifecycle'
  BY <1>7 DEF Encode, mainVars
<1>8. CASE MasterReads \/ MasterDiscards \/ Exited \/ UNCHANGED vars
  BY <1>8 DEF MasterReads, MasterDiscards, Exited, vars, mainVars
<1> QED BY <1>1, <1>2, <1>3, <1>4, <1>5, <1>6, <1>7, <1>8 DEF Next, Main, Thread

THEOREM ScanningStep == IInv /\ [Next]_vars => Scanning'
<1> SUFFICES ASSUME IInv, [Next]_vars PROVE Scanning'
  OBVIOUS
<1> USE DEF IInv, Scanning
<1>1. ASSUME NEW cmd \in Commands, Handle(cmd) PROVE Scanning'
  BY <1>1 DEF Handle, stageVars, threadVars, encVars
<1>2. CASE Join
  BY <1>2 DEF Join
<1>10. CASE Open
  BY <1>10 DEF Open, Lifecycle, threadVars, encVars
<1>11. CASE Ack
  BY <1>11 DEF Ack, stageVars, threadVars, encVars
<1>3. CASE Begin
  BY <1>3 DEF Begin, mainVars, stageVars
<1>12. CASE Loop
  BY <1>12 DEF Loop, mainVars, stageVars, threadVars
<1>13. CASE Select
  BY <1>13 DEF Select, mainVars, stageVars, encVars
<1>14. CASE FetchFails
  BY <1>14 DEF FetchFails, mainVars, stageVars, threadVars, encVars
<1>4. CASE Skip
  <2>1. i \in Nat /\ \A c \in ready : c \in Nat
    BY ChnType DEF TypeOK
  <2>2. \A c \in ready : c >= i + 1 => venc[c] # <<>>
    <3> SUFFICES ASSUME NEW c \in ready, c >= i + 1 PROVE venc[c] # <<>>
      OBVIOUS
    <3>1. c >= i BY <2>1
    <3> QED BY <3>1, <1>4 DEF Skip
  <2> QED BY <1>4, <2>2 DEF Skip, NextChn, stageVars, encVars
<1>5. CASE Store
  <2>1. \A c \in Chns : c >= i + 1 => venc'[c] = venc[c]
    BY <1>5, ChnType DEF Store, Take, TypeOK
  <2>2. i \in Nat /\ Chns \subseteq Nat /\ ready \subseteq Chns
    BY ChnType DEF TypeOK
  <2>3. /\ full' = FALSE /\ st' = NoFrame
        /\ pc' \in {"write", "scan", "failed"}
    BY <1>5 DEF Store, NextChn
  <2>4. pc' = "scan" => i' = i + 1 /\ ready' = ready
    BY <1>5 DEF Store, NextChn
  <2>5. ASSUME pc' = "scan", NEW c \in ready', c >= i' PROVE venc'[c] # <<>>
    <3>1. c \in ready /\ c \in Chns /\ c \in Nat /\ c >= i + 1
      BY <2>2, <2>4, <2>5
    <3>2. c >= i
      BY <3>1, <2>2
    <3>3. venc[c] # <<>>
      BY <3>1, <3>2, <1>5 DEF Store
    <3> QED BY <3>1, <3>3, <2>1
  <2> QED BY <2>3, <2>5
<1>6. CASE Keep
  <2>1. TurnFrame \in Frame
    BY <1>6, TurnFrameType DEF Keep
  <2>2. TurnFrame # NoFrame
    BY <2>1, ChnType DEF Frame, NoFrame
  <2> QED BY <1>6, <2>2 DEF Keep
<1>7. CASE Write \/ Notify \/ RecvRead \/ RecvTimeout \/ RecvFails
  BY <1>7 DEF Write, Notify, RecvRead, RecvTimeout, RecvFails, Dispatch,
              stageVars, threadVars, encVars
<1>8. ASSUME NEW c \in Encoders, NEW l \in FrameLens[c], Encode(c, l) PROVE Scanning'
  <2>1. \A d \in Chns : venc[d] # <<>> => venc'[d] # <<>>
    <3> SUFFICES ASSUME NEW d \in Chns, venc[d] # <<>> PROVE venc'[d] # <<>>
      OBVIOUS
    <3>1. CASE d = c
      <4>1. encSeq[c] \in 0 .. FrameMod - 1 /\ c \in Chns
        BY TransAssumption DEF TypeOK
      <4>2. [chn |-> c, seq |-> encSeq[c], len |-> l] \in Frame
        BY <4>1 DEF Frame
      <4>3. Append(venc[c], [chn |-> c, seq |-> encSeq[c], len |-> l]) # <<>>
        <5>1. venc[c] \in Seq(Frame)
          BY <4>1 DEF TypeOK
        <5> QED BY <4>2, <5>1, AppendProperties
      <4>4. venc'[d] = Append(venc[c], [chn |-> c, seq |-> encSeq[c], len |-> l])
        BY <3>1, <1>8, <4>1 DEF Encode, TypeOK
      <4> QED BY <4>3, <4>4
    <3>2. CASE d # c
      BY <3>2, <1>8 DEF Encode, TypeOK
    <3> QED BY <3>1, <3>2
  <2>2. ready \subseteq Chns
    BY DEF TypeOK
  <2> QED BY <1>8, <2>1, <2>2 DEF Encode, mainVars, stageVars, threadVars
<1>9. CASE MasterReads \/ MasterDiscards \/ Exited \/ UNCHANGED vars
  BY <1>9 DEF MasterReads, MasterDiscards, Exited, vars, mainVars, stageVars,
              threadVars, encVars
<1> QED BY <1>1, <1>2, <1>3, <1>4, <1>5, <1>6, <1>7, <1>8, <1>9, <1>10, <1>11,
           <1>12, <1>13, <1>14
        DEF Next, Main, Thread

(* What is in the queues after the head of q is dropped, an element is     *)
(* appended, a prefix is read, and msg_buf is read.                        *)
LEMMA TailElements ==
  ASSUME NEW S, NEW q \in Seq(S), q # <<>>
  PROVE  \A k \in DOMAIN Tail(q) : k + 1 \in DOMAIN q /\ k >= 1 /\ Tail(q)[k] = q[k + 1]
<1>1. /\ Tail(q) \in Seq(S) /\ Len(Tail(q)) = Len(q) - 1
      /\ \A k \in 1 .. Len(Tail(q)) : Tail(q)[k] = q[k + 1]
  BY HeadTailProperties
<1>2. Len(q) \in Nat /\ DOMAIN q = 1 .. Len(q) /\ DOMAIN Tail(q) = 1 .. Len(Tail(q))
  BY <1>1, LenProperties
<1> QED BY <1>1, <1>2

LEMMA AppendElements ==
  ASSUME NEW S, NEW q \in Seq(S), NEW e \in S
  PROVE  /\ Len(q) \in Nat
         /\ \A k \in DOMAIN Append(q, e) :
              \/ k \in DOMAIN q /\ k # Len(q) + 1 /\ Append(q, e)[k] = q[k]
              \/ k = Len(q) + 1 /\ Append(q, e)[k] = e
<1>1. /\ Append(q, e) \in Seq(S) /\ Len(Append(q, e)) = Len(q) + 1
      /\ \A k \in 1 .. Len(q) : Append(q, e)[k] = q[k]
      /\ Append(q, e)[Len(q) + 1] = e
  BY AppendProperties
<1>2. /\ Len(q) \in Nat /\ DOMAIN q = 1 .. Len(q)
      /\ DOMAIN Append(q, e) = 1 .. Len(Append(q, e))
  BY <1>1, LenProperties
<1> QED BY <1>1, <1>2

LEMMA SuffixElements ==
  ASSUME NEW S, NEW q \in Seq(S), NEW n \in Nat
  PROVE  LET r == SubSeq(q, n + 1, Len(q))
         IN  \A k \in DOMAIN r : k >= 1 /\ k + n \in DOMAIN q /\ r[k] = q[k + n]
<1> DEFINE r == SubSeq(q, n + 1, Len(q))
<1>1. /\ Len(q) \in Nat /\ DOMAIN q = 1 .. Len(q)
      /\ \A k \in 1 .. Len(q) : q[k] \in S
  BY LenProperties, ElementOfSeq
<1>2. \A k \in n + 1 .. Len(q) : q[k] \in S
  BY <1>1
<1>3. /\ r \in Seq(S)
      /\ Len(r) = IF n + 1 <= Len(q) THEN Len(q) - (n + 1) + 1 ELSE 0
      /\ \A k \in 1 .. Len(q) - (n + 1) + 1 : r[k] = q[n + 1 + k - 1]
  BY <1>1, <1>2, SubSeqProperties
<1>4. DOMAIN r = 1 .. Len(r)
  BY <1>3, LenProperties
<1> HIDE DEF r
<1>5. ASSUME NEW k \in DOMAIN r PROVE k >= 1 /\ k + n \in DOMAIN q /\ r[k] = q[k + n]
  <2>1. k \in 1 .. Len(q) - (n + 1) + 1
    <3>1. k \in 1 .. Len(r) /\ Len(q) \in Nat
      BY <1>1, <1>4
    <3>2. n + 1 <= Len(q) /\ Len(r) = Len(q) - (n + 1) + 1
      BY <3>1, <1>3
    <3> QED BY <3>1, <3>2
  <2>2. n + 1 + k - 1 = k + n
    BY <2>1, <1>1
  <2>3. k + n \in DOMAIN q
    BY <2>1, <1>1
  <2>4. k >= 1 /\ r[k] = q[n + 1 + k - 1]
    BY <2>1, <1>1, <1>3
  <2> QED BY <2>2, <2>3, <2>4
<1> QED BY <1>5 DEF r

THEOREM AnswersStep == IInv /\ [Next]_vars => Answers'
<1> SUFFICES ASSUME IInv, [Next]_vars PROVE Answers'
  OBVIOUS
<1> USE DEF IInv, Answers
<1>1. ASSUME NEW cmd \in Commands, Handle(cmd) PROVE Answers'
  BY <1>1 DEF Handle, threadVars
<1>2. CASE Join
  BY <1>2 DEF Join
<1>3. CASE Open
  <2>1. \A k \in DOMAIN toSlave' : toSlave'[k].type = "READ_DONE"
    <3>1. toSlave \in Seq(Msg)
      BY DEF TypeOK
    <3>2. \A k \in DOMAIN toSlave : toSlave[k] \in Msg
      BY <3>1, LenProperties, ElementOfSeq
    <3> QED BY <3>2, <1>3 DEF Open, RetireMsgs, Msg
  <2> QED BY <1>3, <2>1 DEF Open, threadVars
<1>4. CASE Ack \/ Loop \/ Select \/ Skip \/ FetchFails
  BY <1>4 DEF Ack, Loop, Select, Skip, FetchFails, threadVars
<1>5. CASE Begin
  BY <1>5 DEF Begin
<1>6. CASE Store \/ Keep \/ Write \/ Notify \/ RecvFails
  BY <1>6 DEF Store, Keep, Write, Notify, RecvFails, threadVars
<1>7. CASE RecvRead
  <2>1. PICK k \in 1 .. MaxCoalesce :
          /\ k <= Len(toSlave)
          /\ toSlave' = SubSeq(toSlave, k + 1, Len(toSlave))
          /\ LET got == msgBuf \o SubSeq(toSlave, 1, k)
             IN  IF Len(got) > MsgCap
                 THEN pc' = "failed" /\ UNCHANGED <<msg, msgBuf, startPos, stale>>
                 ELSE Dispatch(got[1]) /\ msgBuf' = AfterGetAndConsume(got)
    BY <1>7 DEF RecvRead
  <2> DEFINE got == msgBuf \o SubSeq(toSlave, 1, k)
  <2>2. /\ k \in Nat /\ toSlave \in Seq(Msg) /\ msgBuf \in Seq(Msg)
        /\ Len(msgBuf) \in Nat /\ Len(toSlave) \in Nat
        /\ DOMAIN toSlave = 1 .. Len(toSlave) /\ DOMAIN msgBuf = 1 .. Len(msgBuf)
    BY TransAssumption, LenProperties DEF TypeOK
  <2>3. /\ got \in Seq(Msg) /\ Len(got) = Len(msgBuf) + k
        /\ \A j \in 1 .. Len(got) :
             got[j] = IF j <= Len(msgBuf) THEN msgBuf[j] ELSE toSlave[j - Len(msgBuf)]
    BY <2>1, GotType
  <2>4. \A j \in DOMAIN toSlave' : toSlave'[j].type = "READ_DONE"
    BY <2>1, <2>2, SuffixElements
  <2>5. DOMAIN got = 1 .. Len(got) /\ 2 \in Nat
    BY <2>3, LenProperties
  <2>6. msgBuf' = msgBuf \/ msgBuf' = SubSeq(got, 2 + 1, Len(got))
    BY <2>1 DEF AfterGetAndConsume
  <2> HIDE DEF got
  <2>7. \A j \in DOMAIN got : got[j].type = "READ_DONE"
    <3> SUFFICES ASSUME NEW j \in 1 .. Len(got) PROVE got[j].type = "READ_DONE"
      BY <2>5
    <3>1. CASE j <= Len(msgBuf)
      BY <3>1, <2>2, <2>3
    <3>2. CASE ~(j <= Len(msgBuf))
      <4>1. j - Len(msgBuf) \in 1 .. Len(toSlave)
        BY <3>2, <2>1, <2>2, <2>3
      <4> QED BY <4>1, <3>2, <2>2, <2>3
    <3> QED BY <3>1, <3>2
  <2>8. \A j \in DOMAIN msgBuf' : msgBuf'[j].type = "READ_DONE"
    <3>1. \A j \in DOMAIN SubSeq(got, 2 + 1, Len(got)) :
            SubSeq(got, 2 + 1, Len(got))[j].type = "READ_DONE"
      BY <2>3, <2>5, <2>7, SuffixElements
    <3> QED BY <3>1, <2>6
  <2> QED BY <2>4, <2>8
<1>8. CASE RecvTimeout
  <2>1. /\ toSlave' = toSlave
        /\ msgBuf' = msgBuf \/ msgBuf' = SubSeq(msgBuf, 2 + 1, Len(msgBuf))
    BY <1>8 DEF RecvTimeout, AfterGetAndConsume
  <2>2. msgBuf \in Seq(Msg) /\ 2 \in Nat
    BY DEF TypeOK
  <2>3. \A j \in DOMAIN SubSeq(msgBuf, 2 + 1, Len(msgBuf)) :
          SubSeq(msgBuf, 2 + 1, Len(msgBuf))[j].type = "READ_DONE"
    BY <2>2, SuffixElements
  <2> QED BY <2>1, <2>3
<1>9. ASSUME NEW c \in Encoders, NEW l \in FrameLens[c], Encode(c, l) PROVE Answers'
  BY <1>9 DEF Encode, threadVars
<1>10. CASE MasterReads
  <2>1. Head(toMaster) \in Note
    BY <1>10, HeadTailProperties DEF MasterReads, TypeOK
  <2> DEFINE e == [type |-> "READ_DONE", cur |-> Head(toMaster).cur, end |-> Head(toMaster).end]
  <2>2. e \in Msg
    BY <2>1 DEF Note, Msg
  <2>3. toSlave \in Seq(Msg)
    BY DEF TypeOK
  <2>4. toSlave' = Append(toSlave, e) /\ msgBuf' = msgBuf
    BY <1>10 DEF MasterReads, threadVars
  <2>5. e.type = "READ_DONE"
    OBVIOUS
  <2> HIDE DEF e
  <2>6. \A k \in DOMAIN Append(toSlave, e) :
           \/ k \in DOMAIN toSlave /\ Append(toSlave, e)[k] = toSlave[k]
           \/ Append(toSlave, e)[k] = e
    BY <2>2, <2>3, AppendElements
  <2> QED BY <2>4, <2>5, <2>6
<1>11. CASE MasterDiscards \/ Exited \/ UNCHANGED vars
  BY <1>11 DEF MasterDiscards, Exited, vars, threadVars
<1> QED BY <1>1, <1>2, <1>3, <1>4, <1>5, <1>6, <1>7, <1>8, <1>9, <1>10, <1>11
        DEF Next, Main, Thread

-----------------------------------------------------------------------------
(* Blocks in flight. *)

(* At most one block is in flight, said queue by queue.                    *)
AtMostOne(p, q, r) ==
  /\ \A j, k \in Cur(p) : j = k
  /\ \A j, k \in Cur(q) : j = k
  /\ \A j, k \in Cur(r) : j = k
  /\ Cur(p) = {} \/ Cur(q) = {}
  /\ Cur(p) = {} \/ Cur(r) = {}
  /\ Cur(q) = {} \/ Cur(r) = {}

LEMMA InFlightAtMostOne ==
  ASSUME NEW p, NEW q, NEW r
  PROVE  /\ (\A x, y \in InFlight(p, q, r) : x = y) <=> AtMostOne(p, q, r)
         /\ InFlight(p, q, r) = {} <=> Cur(p) = {} /\ Cur(q) = {} /\ Cur(r) = {}
<1> DEFINE A == Cur(p)  B == Cur(q)  C == Cur(r)
           F == ({"toMaster"} \X A) \cup ({"toSlave"} \X B) \cup ({"msgBuf"} \X C)
<1>1. InFlight(p, q, r) = F BY DEF InFlight
<1>2. AtMostOne(p, q, r) <=>
        /\ \A j, k \in A : j = k
        /\ \A j, k \in B : j = k
        /\ \A j, k \in C : j = k
        /\ A = {} \/ B = {}
        /\ A = {} \/ C = {}
        /\ B = {} \/ C = {}
  BY DEF AtMostOne
<1> HIDE DEF A, B, C
<1>3. /\ \A a \in A : <<"toMaster", a>> \in F
      /\ \A b \in B : <<"toSlave", b>> \in F
      /\ \A c \in C : <<"msgBuf", c>> \in F
  OBVIOUS
<1>4. \A x \in F : \/ \E a \in A : x = <<"toMaster", a>>
                   \/ \E b \in B : x = <<"toSlave", b>>
                   \/ \E c \in C : x = <<"msgBuf", c>>
  OBVIOUS
<1> HIDE DEF F
<1>5. ASSUME \A x, y \in F : x = y PROVE AtMostOne(p, q, r)
  <2>1. \A j, k \in A : j = k BY <1>3, <1>5
  <2>2. \A j, k \in B : j = k BY <1>3, <1>5
  <2>3. \A j, k \in C : j = k BY <1>3, <1>5
  <2>4. A = {} \/ B = {} BY <1>3, <1>5
  <2>5. A = {} \/ C = {} BY <1>3, <1>5
  <2>6. B = {} \/ C = {} BY <1>3, <1>5
  <2> QED BY <1>2, <2>1, <2>2, <2>3, <2>4, <2>5, <2>6
<1>6. ASSUME AtMostOne(p, q, r), NEW x \in F, NEW y \in F PROVE x = y
  BY <1>2, <1>4, <1>6
<1>7. F = {} <=> A = {} /\ B = {} /\ C = {}
  BY <1>3, <1>4
<1> QED BY <1>1, <1>5, <1>6, <1>7 DEF A, B, C

LEMMA CurEmpty == Cur(<<>>) = {}
BY DEF Cur

LEMMA RetiredNotCur ==
  ASSUME TypeOK
  PROVE  Cur(RetireNotes(toMaster)) = {} /\ Cur(RetireMsgs(toSlave)) = {}
<1>1. /\ \A k \in DOMAIN toMaster : toMaster[k] \in Note
      /\ \A k \in DOMAIN toSlave : toSlave[k] \in Msg
  BY LenProperties, ElementOfSeq DEF TypeOK
<1>2. \A n \in Note : [n EXCEPT !.cur = FALSE, !.body = <<>>].cur = FALSE
  BY DEF Note
<1>3. \A m \in Msg : [m EXCEPT !.cur = FALSE].cur = FALSE
  BY DEF Msg
<1>4. Cur(RetireNotes(toMaster)) = {}
  BY <1>1, <1>2 DEF RetireNotes, Cur
<1>5. Cur(RetireMsgs(toSlave)) = {}
  BY <1>1, <1>3 DEF RetireMsgs, Cur
<1> QED BY <1>4, <1>5

LEMMA CurTail ==
  ASSUME NEW S, NEW q \in Seq(S), q # <<>>
  PROVE  \A k \in Cur(Tail(q)) : k >= 1 /\ k + 1 \in Cur(q) /\ Tail(q)[k] = q[k + 1]
BY TailElements DEF Cur

LEMMA CurAppend ==
  ASSUME NEW S, NEW q \in Seq(S), NEW e \in S
  PROVE  \A k \in Cur(Append(q, e)) : k \in Cur(q) \/ (k = Len(q) + 1 /\ e.cur)
BY AppendElements DEF Cur

(* If every block in flight in q ends at p, and so does e's, the same is    *)
(* true after e is appended.                                               *)
LEMMA EndsAppend ==
  ASSUME NEW S, NEW q \in Seq(S), NEW e \in S, NEW p,
         \A k \in DOMAIN q : q[k].cur => q[k].end = p, e.cur => e.end = p
  PROVE  \A k \in DOMAIN Append(q, e) : Append(q, e)[k].cur => Append(q, e)[k].end = p
BY AppendElements

LEMMA CurSuffix ==
  ASSUME NEW S, NEW q \in Seq(S), NEW n \in Nat
  PROVE  LET r == SubSeq(q, n + 1, Len(q))
         IN  \A k \in Cur(r) : k >= 1 /\ k + n \in Cur(q) /\ r[k] = q[k + n]
BY SuffixElements DEF Cur

(* A message is answered: its block moves on, and stays the only one.      *)
LEMMA AnswerKeepsOne ==
  ASSUME NEW S, NEW T, NEW p \in Seq(S), p # <<>>, NEW q \in Seq(T), NEW r,
         NEW e \in T, e.cur => Head(p).cur
  PROVE  /\ AtMostOne(p, q, r) => AtMostOne(Tail(p), Append(q, e), r)
         /\ InFlight(p, q, r) = {} => InFlight(Tail(p), Append(q, e), r) = {}
<1>1. Head(p) = p[1] /\ 1 \in DOMAIN p
  BY HeadTailProperties, LenProperties
<1>2. e.cur => 1 \in Cur(p)
  BY <1>1 DEF Cur
<1>3. \A k \in Cur(Tail(p)) : k + 1 \in Cur(p) /\ k + 1 # 1 /\ k \in Int
  <2>1. \A k \in Cur(Tail(p)) : k \in Int
    BY HeadTailProperties, LenProperties DEF Cur
  <2> QED BY <2>1, CurTail
<1>4. \A k \in Cur(Append(q, e)) : k \in Cur(q) \/ (k = Len(q) + 1 /\ e.cur)
  BY CurAppend
<1>5. ASSUME AtMostOne(p, q, r) PROVE AtMostOne(Tail(p), Append(q, e), r)
  <2>1. \A j, k \in Cur(Tail(p)) : j = k
    BY <1>3, <1>5 DEF AtMostOne
  <2>2. e.cur => Cur(Tail(p)) = {} /\ Cur(q) = {} /\ Cur(r) = {}
    BY <1>2, <1>3, <1>5 DEF AtMostOne
  <2>3. \A j, k \in Cur(Append(q, e)) : j = k
    BY <1>4, <2>2, <1>5 DEF AtMostOne
  <2>4. Cur(Tail(p)) # {} => Cur(p) # {}
    BY <1>3
  <2>5. Cur(Tail(p)) = {} \/ Cur(Append(q, e)) = {}
    BY <1>4, <2>2, <2>4, <1>5 DEF AtMostOne
  <2>6. Cur(Append(q, e)) = {} \/ Cur(r) = {}
    BY <1>4, <2>2, <1>5 DEF AtMostOne
  <2> QED BY <2>1, <2>3, <2>4, <2>5, <2>6, <1>5 DEF AtMostOne
<1>6. ASSUME InFlight(p, q, r) = {} PROVE InFlight(Tail(p), Append(q, e), r) = {}
  BY <1>2, <1>3, <1>4, <1>6, InFlightAtMostOne
<1> QED BY <1>5, <1>6

(* A retired announcement is thrown away.                                  *)
LEMMA DiscardKeepsOne ==
  ASSUME NEW S, NEW p \in Seq(S), p # <<>>, NEW q, NEW r
  PROVE  /\ AtMostOne(p, q, r) => AtMostOne(Tail(p), q, r)
         /\ InFlight(p, q, r) = {} => InFlight(Tail(p), q, r) = {}
<1>1. \A k \in Cur(Tail(p)) : k + 1 \in Cur(p) /\ k \in Int
  <2>1. \A k \in Cur(Tail(p)) : k \in Int
    BY HeadTailProperties, LenProperties DEF Cur
  <2> QED BY <2>1, CurTail
<1>2. ASSUME AtMostOne(p, q, r) PROVE AtMostOne(Tail(p), q, r)
  <2>1. \A j, k \in Cur(Tail(p)) : j = k
    BY <1>1, <1>2 DEF AtMostOne
  <2>2. Cur(Tail(p)) # {} => Cur(p) # {}
    BY <1>1
  <2> QED BY <2>1, <2>2, <1>2 DEF AtMostOne
<1>3. ASSUME InFlight(p, q, r) = {} PROVE InFlight(Tail(p), q, r) = {}
  BY <1>1, <1>3, InFlightAtMostOne
<1> QED BY <1>2, <1>3

(* After an announcement of an empty ring, its block is the only one.      *)
LEMMA AnnounceIsOne ==
  ASSUME NEW S, NEW p \in Seq(S), NEW q, NEW r, NEW e \in S, InFlight(p, q, r) = {}
  PROVE  AtMostOne(Append(p, e), q, r)
<1>1. Cur(p) = {} /\ Cur(q) = {} /\ Cur(r) = {}
  BY InFlightAtMostOne
<1>2. \A k \in Cur(Append(p, e)) : k = Len(p) + 1
  BY <1>1, CurAppend
<1> QED BY <1>1, <1>2 DEF AtMostOne

(* What the parts of Outstanding that mention the queues say, step by step *)
(* of the thread and of the master.                                        *)
LEMMA OutstandingRecvRead ==
  ASSUME IInv, RecvRead PROVE Outstanding'
<1> SUFFICES ASSUME run', stale' = 0
             PROVE  /\ pc' \in {"loop", "failed"}
                    /\ pc' = "loop" => startPos' = endPos' /\ Unacked' = {}
                    /\ AtMostOne(toMaster', toSlave', msgBuf')
  BY InFlightAtMostOne DEF Outstanding, Alive, Unacked
<1> USE DEF IInv
<1>1. PICK k \in 1 .. MaxCoalesce :
        /\ k <= Len(toSlave)
        /\ toSlave' = SubSeq(toSlave, k + 1, Len(toSlave))
        /\ LET got == msgBuf \o SubSeq(toSlave, 1, k)
           IN  IF Len(got) > MsgCap
               THEN pc' = "failed" /\ UNCHANGED <<msg, msgBuf, startPos, stale>>
               ELSE Dispatch(got[1]) /\ msgBuf' = AfterGetAndConsume(got)
  BY DEF RecvRead
<1> DEFINE got == msgBuf \o SubSeq(toSlave, 1, k)
<1>2. /\ k \in Nat /\ k >= 1 /\ 2 \in Nat /\ toSlave \in Seq(Msg) /\ msgBuf \in Seq(Msg)
      /\ Len(msgBuf) \in Nat /\ Len(toSlave) \in Nat
      /\ DOMAIN toSlave = 1 .. Len(toSlave) /\ DOMAIN msgBuf = 1 .. Len(msgBuf)
  BY TransAssumption, LenProperties DEF TypeOK
<1>3. /\ got \in Seq(Msg) /\ Len(got) = Len(msgBuf) + k /\ DOMAIN got = 1 .. Len(got)
      /\ \A j \in 1 .. Len(got) :
           got[j] = IF j <= Len(msgBuf) THEN msgBuf[j] ELSE toSlave[j - Len(msgBuf)]
  BY <1>1, GotType, LenProperties
<1> HIDE DEF got
<1>4. /\ run /\ stale \in {0, 1, 2} /\ pc = "recv" /\ toMaster' = toMaster /\ endPos' = endPos
      /\ run' = run
  BY DEF RecvRead, mainVars, TypeOK
<1>5. \A j \in Cur(toSlave') : j >= 1 /\ j + k \in Cur(toSlave) /\ j \in Int
  <2>1. \A j \in Cur(toSlave') : j \in Int
    <3>1. toSlave' \in Seq(Msg) BY <1>1, <1>2, MsgPart
    <3> QED BY <3>1, LenProperties DEF Cur
  <2> QED BY <1>1, <1>2, <2>1, CurSuffix
<1>6. CASE Len(got) > MsgCap
  <2>1. pc' = "failed" /\ msgBuf' = msgBuf /\ stale = 0
    BY <1>1, <1>6 DEF got
  <2>2. AtMostOne(toMaster, toSlave, msgBuf)
    BY <2>1, <1>4, InFlightAtMostOne DEF Outstanding, Unacked
  <2>3. \A j1, j2 \in Cur(toSlave') : j1 = j2
    BY <2>2, <1>2, <1>5 DEF AtMostOne
  <2>4. Cur(toSlave') # {} => Cur(toSlave) # {}
    BY <1>5
  <2> QED BY <2>1, <2>2, <2>3, <2>4, <1>4 DEF AtMostOne
<1>7. CASE ~(Len(got) > MsgCap)
  <2>1. Dispatch(got[1]) /\ msgBuf' = SubSeq(got, 2 + 1, Len(got))
    BY <1>1, <1>7 DEF got, AfterGetAndConsume
  <2>2. got[1].type = "READ_DONE"
    <3>1. 1 \in 1 .. Len(got)
      BY <1>1, <1>2, <1>3
    <3>2. CASE 1 <= Len(msgBuf)
      BY <1>2, <1>3, <3>1, <3>2 DEF Answers
    <3>3. CASE ~(1 <= Len(msgBuf))
      <4>1. Len(msgBuf) = 0 /\ 1 \in DOMAIN toSlave
        BY <1>1, <1>2, <3>3
      <4> QED BY <1>3, <3>1, <3>3, <4>1 DEF Answers
    <3> QED BY <3>2, <3>3
  <2>3. got[1].cur /\ stale = 0
    BY <2>1, <2>2, <1>4 DEF Dispatch
  <2>4. pc' = "loop" /\ startPos' = got[1].end
    BY <2>1, <2>2 DEF Dispatch
  <2>5. AtMostOne(toMaster, toSlave, msgBuf)
    BY <2>3, <1>4, InFlightAtMostOne DEF Outstanding, Unacked
  <2>6. \/ 1 \in Cur(msgBuf) /\ got[1] = msgBuf[1]
        \/ msgBuf = <<>> /\ Len(msgBuf) = 0 /\ 1 \in Cur(toSlave) /\ got[1] = toSlave[1]
    <3>1. CASE Len(msgBuf) = 0
      <4>1. msgBuf = <<>> BY <3>1, <1>2, EmptySeq
      <4>2. got[1] = toSlave[1] /\ 1 \in DOMAIN toSlave BY <3>1, <1>1, <1>2, <1>3
      <4> QED BY <3>1, <4>1, <4>2, <2>3 DEF Cur
    <3>2. CASE Len(msgBuf) # 0
      <4>1. got[1] = msgBuf[1] /\ 1 \in DOMAIN msgBuf BY <3>2, <1>2, <1>3
      <4> QED BY <4>1, <2>3 DEF Cur
    <3> QED BY <3>1, <3>2
  <2>7. startPos' = endPos'
    BY <2>3, <2>4, <2>6, <1>4 DEF Outstanding
  <2>8. Cur(toMaster') = {}
    BY <1>4, <2>5, <2>6 DEF AtMostOne
  <2>9. Cur(toSlave') = {}
    <3>1. ASSUME NEW j \in Cur(toSlave') PROVE FALSE
      <4>1. j + k \in Cur(toSlave) /\ j + k # 1
        BY <3>1, <1>2, <1>5
      <4> QED BY <4>1, <2>5, <2>6 DEF AtMostOne
    <3> QED BY <3>1
  <2>10. Cur(msgBuf') = {}
    <3>1. ASSUME NEW j \in Cur(msgBuf') PROVE FALSE
      <4>1. j >= 1 /\ j + 2 \in Cur(got) /\ j \in Int
        <5>1. j >= 1 /\ j + 2 \in Cur(got)
          BY <3>1, <2>1, <1>2, <1>3, CurSuffix
        <5>2. msgBuf' \in Seq(Msg)
          BY <1>2, <1>3, <2>1, MsgPart
        <5> QED BY <5>1, <5>2, LenProperties DEF Cur
      <4>2. j + 2 \in 1 .. Len(got) /\ got[j + 2].cur
        BY <4>1, <1>3 DEF Cur
      <4>3. CASE j + 2 <= Len(msgBuf)
        <5>1. j + 2 \in Cur(msgBuf) /\ j + 2 # 1
          BY <4>1, <4>2, <4>3, <1>2, <1>3 DEF Cur
        <5> QED BY <5>1, <2>5, <2>6, EmptySeq, <1>2 DEF AtMostOne, Cur
      <4>4. CASE ~(j + 2 <= Len(msgBuf))
        <5>1. j + 2 - Len(msgBuf) \in Cur(toSlave) /\ (Len(msgBuf) = 0 => j + 2 - Len(msgBuf) # 1)
          BY <4>1, <4>2, <4>4, <1>1, <1>2, <1>3 DEF Cur
        <5> QED BY <5>1, <2>5, <2>6 DEF AtMostOne
      <4> QED BY <4>3, <4>4
    <3> QED BY <3>1
  <2>11. Unacked' = {} /\ AtMostOne(toMaster', toSlave', msgBuf')
    BY <2>8, <2>9, <2>10, InFlightAtMostOne DEF Unacked, AtMostOne
  <2> QED BY <2>4, <2>7, <2>11
<1> QED BY <1>6, <1>7

LEMMA OutstandingRecvTimeout ==
  ASSUME IInv, RecvTimeout PROVE Outstanding'
<1> SUFFICES ASSUME run', stale' = 0
             PROVE  pc' = "loop" /\ startPos' = endPos' /\ Unacked' = {}
  BY DEF Outstanding, Alive
<1> USE DEF IInv
<1>1. /\ run /\ stale \in {0, 1, 2} /\ pc = "recv" /\ toMaster' = toMaster /\ endPos' = endPos
      /\ toSlave = <<>> /\ toSlave' = toSlave
  BY DEF RecvTimeout, mainVars, TypeOK
<1>2. /\ msgBuf # <<>> /\ Dispatch(Head(msgBuf))
      /\ msgBuf' = SubSeq(msgBuf, 2 + 1, Len(msgBuf))
  BY <1>1 DEF RecvTimeout, AfterGetAndConsume
<1>3. msgBuf \in Seq(Msg) /\ Head(msgBuf) = msgBuf[1] /\ 1 \in DOMAIN msgBuf /\ 2 \in Nat
  BY <1>2, HeadTailProperties, LenProperties DEF TypeOK
<1>4. pc' = "loop" /\ startPos' = msgBuf[1].end /\ msgBuf[1].cur /\ stale = 0
  BY <1>1, <1>2, <1>3 DEF Dispatch, Answers
<1>5. 1 \in Cur(msgBuf)
  BY <1>3, <1>4 DEF Cur
<1>6. AtMostOne(toMaster, toSlave, msgBuf)
  BY <1>1, <1>4, InFlightAtMostOne DEF Outstanding, Unacked
<1>7. \A j \in Cur(msgBuf') : j >= 1 /\ j + 2 \in Cur(msgBuf)
  BY <1>2, <1>3, CurSuffix
<1>8. \A j \in Cur(msgBuf') : j \in Int
  <2>1. msgBuf' \in Seq(Msg)
    BY <1>2, <1>3, MsgPart DEF AfterGetAndConsume
  <2> QED BY <2>1, LenProperties DEF Cur
<1>9. Cur(msgBuf') = {}
  BY <1>5, <1>6, <1>7, <1>8 DEF AtMostOne
<1>10. Unacked' = {}
  BY <1>1, <1>5, <1>6, <1>9, CurEmpty, InFlightAtMostOne DEF Unacked, AtMostOne
<1>11. startPos' = endPos'
  BY <1>1, <1>4, <1>5 DEF Outstanding
<1> QED BY <1>4, <1>10, <1>11

LEMMA OutstandingMasterReads ==
  ASSUME IInv, MasterReads PROVE Outstanding'
<1> USE DEF IInv
<1> DEFINE n == Head(toMaster)
           e == [type |-> "READ_DONE", cur |-> n.cur, end |-> n.end]
<1>1. /\ toMaster \in Seq(Note) /\ toMaster # <<>> /\ toSlave \in Seq(Msg)
      /\ n \in Note /\ n = toMaster[1] /\ 1 \in DOMAIN toMaster
  BY HeadTailProperties, LenProperties DEF MasterReads, TypeOK
<1>2. e \in Msg /\ e.cur = n.cur /\ e.end = n.end
  BY <1>1 DEF Note, Msg
<1>3. /\ toMaster' = Tail(toMaster) /\ toSlave' = Append(toSlave, e) /\ msgBuf' = msgBuf
      /\ startPos' = startPos /\ endPos' = endPos /\ run' = run /\ stale' = stale /\ pc' = pc
  BY DEF MasterReads, threadVars, mainVars
<1> HIDE DEF e, n
<1>4. SUFFICES ASSUME run, stale = 0 PROVE Outstanding'
  BY <1>3 DEF Outstanding
<1>5. Unacked = {} => Unacked' = {}
  BY <1>1, <1>2, <1>3, AnswerKeepsOne DEF Unacked
<1>6. AtMostOne(toMaster', toSlave', msgBuf')
  <2>1. AtMostOne(toMaster, toSlave, msgBuf)
    BY <1>4, InFlightAtMostOne DEF Outstanding, Unacked
  <2> QED BY <2>1, <1>1, <1>2, <1>3, AnswerKeepsOne DEF n
<1>7. ASSUME pc = "recv"
      PROVE  /\ \A k \in Cur(toMaster') : toMaster'[k].end = endPos
             /\ \A k \in Cur(toSlave') : toSlave'[k].end = endPos
             /\ \A k \in Cur(msgBuf') : msgBuf'[k].end = endPos
  <2>1. /\ \A k \in Cur(toMaster) : toMaster[k].end = endPos
        /\ \A k \in Cur(toSlave) : toSlave[k].end = endPos
        /\ \A k \in Cur(msgBuf) : msgBuf[k].end = endPos
    BY <1>4, <1>7 DEF Outstanding
  <2>2. \A k \in Cur(toMaster') : toMaster'[k].end = endPos
    <3>1. \A k \in Cur(Tail(toMaster)) : Tail(toMaster)[k].end = endPos
      <4>1. \A k \in Cur(Tail(toMaster)) :
              k + 1 \in Cur(toMaster) /\ Tail(toMaster)[k] = toMaster[k + 1]
        BY <1>1, CurTail, Zenon
      <4> QED BY <4>1, <2>1
    <3> QED BY <3>1, <1>3
  <2>3. e.cur => e.end = endPos
    BY <2>1, <1>1, <1>2 DEF Cur
  <2>4. \A k \in Cur(toSlave') : toSlave'[k].end = endPos
    <3>1. toSlave \in Seq(Msg) /\ e \in Msg /\ toSlave' = Append(toSlave, e)
      BY <1>1, <1>2, <1>3
    <3>2. \A k \in DOMAIN toSlave : toSlave[k].cur => toSlave[k].end = endPos
      BY <2>1 DEF Cur
    <3> HIDE DEF IInv
    <3> QED BY <3>1, <3>2, <2>3, EndsAppend DEF Cur
  <2> QED BY <2>1, <2>2, <2>4, <1>3
<1>8. \A x, y \in Unacked' : x = y
  BY <1>6, InFlightAtMostOne DEF Unacked
<1> QED BY <1>3, <1>4, <1>5, <1>7, <1>8 DEF Outstanding

LEMMA OutstandingMasterDiscards ==
  ASSUME IInv, MasterDiscards PROVE Outstanding'
<1> USE DEF IInv
<1>1. toMaster \in Seq(Note) /\ toMaster # <<>>
  BY DEF MasterDiscards, TypeOK
<1>2. /\ toMaster' = Tail(toMaster) /\ toSlave' = toSlave /\ msgBuf' = msgBuf
      /\ startPos' = startPos /\ endPos' = endPos /\ run' = run /\ stale' = stale /\ pc' = pc
  BY DEF MasterDiscards, threadVars, mainVars
<1>3. SUFFICES ASSUME run, stale = 0 PROVE Outstanding'
  BY <1>2 DEF Outstanding
<1>4. Unacked = {} => Unacked' = {}
  BY <1>1, <1>2, DiscardKeepsOne DEF Unacked
<1>5. AtMostOne(toMaster', toSlave', msgBuf')
  <2>1. AtMostOne(toMaster, toSlave, msgBuf)
    BY <1>3, InFlightAtMostOne DEF Outstanding, Unacked
  <2> QED BY <2>1, <1>1, <1>2, DiscardKeepsOne
<1>6. pc = "recv" => \A k \in Cur(toMaster') : toMaster'[k].end = endPos
  <2>1. \A k \in Cur(Tail(toMaster)) :
          k + 1 \in Cur(toMaster) /\ Tail(toMaster)[k] = toMaster[k + 1]
    BY <1>1, CurTail, Zenon
  <2>2. pc = "recv" => \A k \in Cur(Tail(toMaster)) : Tail(toMaster)[k].end = endPos
    BY <2>1, <1>3 DEF Outstanding
  <2> QED BY <2>2, <1>2
<1>7. \A x, y \in Unacked' : x = y
  BY <1>5, InFlightAtMostOne DEF Unacked
<1> QED BY <1>2, <1>3, <1>4, <1>6, <1>7 DEF Outstanding

LEMMA OutstandingNotify ==
  ASSUME IInv, Notify PROVE Outstanding'
<1> USE DEF IInv
<1>1. /\ toSlave' = toSlave /\ msgBuf' = msgBuf /\ pc = "notify"
      /\ endPos' = endPos /\ run' = run /\ stale' = stale
  BY DEF Notify, threadVars, mainVars
<1>2. SUFFICES ASSUME run, stale = 0 PROVE Outstanding'
  BY <1>1 DEF Outstanding
<1>3. Unacked = {}
  BY <1>1, <1>2 DEF Outstanding, Alive
<1>4. CASE pc' = "failed" /\ toMaster' = toMaster
  BY <1>1, <1>3, <1>4 DEF Outstanding, Alive, Unacked
<1>5. CASE pc' = "recv" /\ toMaster' = Append(toMaster, Written)
  <2>1. Written \in Note /\ Written.end = endPos /\ toMaster \in Seq(Note)
    BY HalfFits DEF Written, Note, TypeOK
  <2>2. AtMostOne(toMaster', toSlave', msgBuf') /\ Cur(toSlave) = {} /\ Cur(msgBuf) = {}
    <3>1. InFlight(toMaster, toSlave, msgBuf) = {}
      BY <1>3 DEF Unacked
    <3>2. AtMostOne(Append(toMaster, Written), toSlave, msgBuf)
      BY <2>1, <3>1, AnnounceIsOne
    <3> QED BY <3>1, <3>2, <1>1, <1>5, InFlightAtMostOne
  <2>4. \A k \in Cur(toMaster') : toMaster'[k].end = endPos
    <3>1. \A k \in DOMAIN toMaster : toMaster[k].cur => toMaster[k].end = endPos
      BY <1>3, InFlightAtMostOne DEF Unacked, Cur
    <3> HIDE DEF IInv
    <3> QED BY <3>1, <2>1, <1>5, EndsAppend DEF Cur
  <2>3. \A x, y \in Unacked' : x = y
    BY <2>2, InFlightAtMostOne DEF Unacked
  <2> QED BY <1>1, <1>5, <2>2, <2>3, <2>4 DEF Outstanding, Alive
<1> QED BY <1>4, <1>5 DEF Notify

THEOREM OutstandingStep == IInv /\ [Next]_vars => Outstanding'
<1> SUFFICES ASSUME IInv, [Next]_vars PROVE Outstanding'
  OBVIOUS
<1> USE DEF IInv
<1>1. ASSUME NEW cmd \in Commands, Handle(cmd) PROVE Outstanding'
  BY <1>1 DEF Handle, Outstanding, Unacked, threadVars
<1>2. CASE Join
  BY <1>2 DEF Join, Lifecycle, Outstanding
<1>3. CASE Open
  <2>1. Cur(toMaster') = {} /\ Cur(toSlave') = {}
    <3>1. Cur(RetireNotes(toMaster)) = {} /\ Cur(RetireMsgs(toSlave)) = {}
      <4>1. TypeOK OBVIOUS
      <4> QED BY <4>1, RetiredNotCur, Zenon
    <3> QED BY <3>1, <1>3 DEF Open
  <2>2. msgBuf' = <<>>
    BY <1>3 DEF Open, Lifecycle, Scanning, threadVars
  <2>3. Unacked' = {}
    BY <2>1, <2>2, CurEmpty, InFlightAtMostOne DEF Unacked
  <2>4. startPos' = endPos' /\ (run' => pc' = "begin")
    BY <1>3 DEF Open, Lifecycle
  <2> QED BY <2>3, <2>4 DEF Outstanding
<1>4. CASE Ack
  BY <1>4 DEF Ack, Outstanding, Unacked, threadVars
<1>5. CASE Begin
  <2>1. run' /\ stale' = 0 => startPos' = endPos' /\ Unacked = {}
    BY <1>5 DEF Begin, Outstanding, Alive, mainVars
  <2>2. Unacked = {} => Unacked' = {}
    BY <1>5, CurEmpty, InFlightAtMostOne DEF Begin, Unacked
  <2> QED BY <1>5, <2>1, <2>2 DEF Begin, Outstanding
<1>6. CASE Loop \/ Select \/ Skip \/ FetchFails
  BY <1>6 DEF Loop, Select, Skip, NextChn, FetchFails, Outstanding, Unacked, Alive,
              mainVars, threadVars
<1>7. CASE Store \/ Keep
  BY <1>7 DEF Store, NextChn, Keep, Outstanding, Unacked, Alive, mainVars
<1>8. CASE Write
  BY <1>8 DEF Write, Outstanding, Unacked, Alive, mainVars, threadVars
<1>9. CASE Notify
  BY <1>9, OutstandingNotify
<1>10. CASE RecvRead
  BY <1>10, OutstandingRecvRead
<1>11. CASE RecvTimeout
  BY <1>11, OutstandingRecvTimeout
<1>12. CASE RecvFails
  BY <1>12 DEF RecvFails, Outstanding, Unacked, Alive, mainVars, threadVars
<1>13. ASSUME NEW c \in Encoders, NEW l \in FrameLens[c], Encode(c, l) PROVE Outstanding'
  BY <1>13 DEF Encode, Outstanding, Unacked, mainVars, threadVars
<1>14. CASE MasterReads
  BY <1>14, OutstandingMasterReads
<1>15. CASE MasterDiscards
  BY <1>15, OutstandingMasterDiscards
<1>16. CASE Exited \/ UNCHANGED vars
  BY <1>16 DEF Exited, vars, Outstanding, Unacked, mainVars, threadVars
<1> QED BY <1>1, <1>2, <1>3, <1>4, <1>5, <1>6, <1>7, <1>8, <1>9, <1>10, <1>11,
           <1>12, <1>13, <1>14, <1>15, <1>16
        DEF Next, Main, Thread

-----------------------------------------------------------------------------
(* The ring.                                                                *)

(* Position p, or the block from b to c, lies in the part of the ring that  *)
(* runs from s up to e.                                                     *)
OnArc(s, e, p) == IF s <= e THEN s <= p /\ p <= e
                  ELSE (s <= p /\ p <= Window) \/ (0 <= p /\ p <= e)
Within(s, e, b, c) == IF s <= e THEN s <= b /\ c <= e
                      ELSE (s <= b /\ c <= Window) \/ c <= e

LEMMA EndOfBlock ==
  ASSUME NEW s \in Int, NEW e \in Int, NEW b \in Int, NEW c \in Int,
         0 <= b, b <= c, Within(s, e, b, c)
  PROVE  OnArc(s, e, c)
BY SMT DEF OnArc, Within

LEMMA ArcInWindow ==
  ASSUME NEW s \in 0 .. Window, NEW e \in 0 .. Window, NEW p \in Int, OnArc(s, e, p)
  PROVE  p \in 0 .. Window
BY WindowAssumption, SMT DEF OnArc

(* Where QueryWritePos puts a block, the window has room for it, and what   *)
(* lay behind a position of the arc still does, with the new block.         *)
LEMMA GrowRoom ==
  ASSUME NEW s \in 0 .. Window, NEW e \in 0 .. Window, NEW len \in 0 .. Half, NEW w,
         w = QueryWritePos(s, e, len), w # NoRoom
  PROVE  w \in 0 .. Window /\ w + len \in 0 .. Window
BY HalfFits, WindowAssumption, SMT DEF QueryWritePos, NoRoom

LEMMA GrowPoint ==
  ASSUME NEW s \in 0 .. Window, NEW e \in 0 .. Window, NEW len \in 0 .. Half, NEW w,
         w = QueryWritePos(s, e, len), w # NoRoom,
         NEW a \in Int, NEW p \in Int, OnArc(s, e, a), OnArc(s, e, p), OnArc(a, e, p)
  PROVE  OnArc(a, w + len, p)
BY HalfFits, WindowAssumption, SMT DEF QueryWritePos, NoRoom, OnArc

LEMMA GrowBlock ==
  ASSUME NEW s \in 0 .. Window, NEW e \in 0 .. Window, NEW len \in 0 .. Half, NEW w,
         w = QueryWritePos(s, e, len), w # NoRoom,
         NEW a \in Int, NEW b \in Int, NEW c \in Int, OnArc(s, e, a),
         0 <= b, b <= c, Within(s, e, b, c), Within(a, e, b, c)
  PROVE  Within(a, w + len, b, c)
BY HalfFits, WindowAssumption, SMT DEF QueryWritePos, NoRoom, OnArc, Within

LEMMA GrowNew ==
  ASSUME NEW s \in 0 .. Window, NEW e \in 0 .. Window, NEW len \in 0 .. Half, NEW w,
         w = QueryWritePos(s, e, len), w # NoRoom, NEW a \in Int, OnArc(s, e, a)
  PROVE  Within(a, w + len, w, w + len)
BY HalfFits, WindowAssumption, SMT DEF QueryWritePos, NoRoom, OnArc, Within

LEMMA GrowApart ==
  ASSUME NEW s \in 0 .. Window, NEW e \in 0 .. Window, NEW len \in 0 .. Half, NEW w,
         w = QueryWritePos(s, e, len), w # NoRoom,
         NEW b \in Int, NEW c \in Int, 0 <= b, b <= c, Within(s, e, b, c)
  PROVE  c <= w \/ w + len <= b
BY HalfFits, WindowAssumption, SMT DEF QueryWritePos, NoRoom, Within

(* acks and blocks are the answers not yet applied and the blocks not yet   *)
(* read, oldest first; those of the session lie in the ring from s to e in  *)
(* this order, and no two blocks overlap.                                   *)
FifoRing(s, e, acks, blocks) ==
  /\ s \in 0 .. Window /\ e \in 0 .. Window
  /\ \A k \in Cur(acks) : OnArc(s, e, acks[k].end)
  /\ \A j, k \in Cur(acks) : j < k => OnArc(acks[j].end, e, acks[k].end)
  /\ \A k \in Cur(blocks) :
       /\ 0 <= blocks[k].start /\ blocks[k].start <= blocks[k].end
       /\ Within(s, e, blocks[k].start, blocks[k].end)
  /\ \A j \in Cur(acks), k \in Cur(blocks) :
       Within(acks[j].end, e, blocks[k].start, blocks[k].end)
  /\ \A j, k \in Cur(blocks) : j < k =>
       /\ Within(blocks[j].end, e, blocks[k].start, blocks[k].end)
       /\ Apart(blocks[j], blocks[k])

(* Messages of earlier sessions come before those of this one.              *)
Sorted(acks, blocks) ==
  /\ \A j \in Cur(acks), k \in DOMAIN acks : j < k => k \in Cur(acks)
  /\ \A j \in Cur(blocks), k \in DOMAIN blocks : j < k => k \in Cur(blocks)
  /\ Cur(acks) # {} => Cur(blocks) = DOMAIN blocks

AllCur(acks, blocks) == Cur(acks) = DOMAIN acks /\ Cur(blocks) = DOMAIN blocks

(* q has lost some of its elements, the first m among them.                 *)
Thinned(r, q, m) ==
  \E f \in [DOMAIN r -> DOMAIN q] :
    /\ \A k \in DOMAIN r : f[k] > m /\ r[k] = q[f[k]]
    /\ \A j, k \in DOMAIN r : j < k => f[j] < f[k]

LEMMA Shifted ==
  ASSUME NEW r, NEW q, NEW n \in Nat, DOMAIN r \subseteq Nat,
         \A k \in DOMAIN r : k >= 1 /\ k + n \in DOMAIN q /\ r[k] = q[k + n]
  PROVE  Thinned(r, q, 0) /\ (n >= 1 => Thinned(r, q, 1))
<1> DEFINE f == [k \in DOMAIN r |-> k + n]
<1>1. /\ f \in [DOMAIN r -> DOMAIN q]
      /\ \A k \in DOMAIN r : f[k] > 0 /\ (n >= 1 => f[k] > 1) /\ r[k] = q[f[k]]
      /\ \A j, k \in DOMAIN r : j < k => f[j] < f[k]
  OBVIOUS
<1> HIDE DEF f
<1> QED BY <1>1 DEF Thinned

LEMMA CurThinned ==
  ASSUME NEW r, NEW q, NEW m, NEW f \in [DOMAIN r -> DOMAIN q],
         \A k \in DOMAIN r : r[k] = q[f[k]]
  PROVE  \A k \in DOMAIN r : k \in Cur(r) <=> f[k] \in Cur(q)
BY DEF Cur

LEMMA RingThinned ==
  ASSUME NEW s, NEW e, NEW a, NEW b, NEW c, NEW d, FifoRing(s, e, a, b),
         Thinned(c, a, 0), Thinned(d, b, 0)
  PROVE  FifoRing(s, e, c, d)
<1>1. PICK f \in [DOMAIN c -> DOMAIN a] :
        /\ \A k \in DOMAIN c : c[k] = a[f[k]]
        /\ \A j, k \in DOMAIN c : j < k => f[j] < f[k]
  BY DEF Thinned
<1>2. PICK g \in [DOMAIN d -> DOMAIN b] :
        /\ \A k \in DOMAIN d : d[k] = b[g[k]]
        /\ \A j, k \in DOMAIN d : j < k => g[j] < g[k]
  BY DEF Thinned
<1>3. /\ \A k \in Cur(c) : k \in DOMAIN c /\ f[k] \in Cur(a) /\ c[k] = a[f[k]]
      /\ \A k \in Cur(d) : k \in DOMAIN d /\ g[k] \in Cur(b) /\ d[k] = b[g[k]]
  BY <1>1, <1>2 DEF Cur
<1>4. s \in 0 .. Window /\ e \in 0 .. Window
  BY DEF FifoRing
<1>5. \A k \in Cur(c) : OnArc(s, e, c[k].end)
  BY <1>3, Zenon DEF FifoRing
<1>6. \A j, k \in Cur(c) : j < k => OnArc(c[j].end, e, c[k].end)
  BY <1>1, <1>3, Zenon DEF FifoRing
<1>7. \A k \in Cur(d) : /\ 0 <= d[k].start /\ d[k].start <= d[k].end
                        /\ Within(s, e, d[k].start, d[k].end)
  BY <1>3, Zenon DEF FifoRing
<1>8. \A j \in Cur(c), k \in Cur(d) : Within(c[j].end, e, d[k].start, d[k].end)
  BY <1>3, Zenon DEF FifoRing
<1>9. \A j, k \in Cur(d) : j < k => /\ Within(d[j].end, e, d[k].start, d[k].end)
                                    /\ Apart(d[j], d[k])
  BY <1>2, <1>3, Zenon DEF FifoRing
<1> QED BY <1>4, <1>5, <1>6, <1>7, <1>8, <1>9 DEF FifoRing

LEMMA SortedThinned ==
  ASSUME NEW a, NEW b, NEW c, NEW d, Thinned(c, a, 0), Thinned(d, b, 0)
  PROVE  /\ Sorted(a, b) => Sorted(c, d)
         /\ AllCur(a, b) => AllCur(c, d)
<1>1. PICK f \in [DOMAIN c -> DOMAIN a] :
        /\ \A k \in DOMAIN c : c[k] = a[f[k]]
        /\ \A j, k \in DOMAIN c : j < k => f[j] < f[k]
  BY DEF Thinned
<1>2. PICK g \in [DOMAIN d -> DOMAIN b] :
        /\ \A k \in DOMAIN d : d[k] = b[g[k]]
        /\ \A j, k \in DOMAIN d : j < k => g[j] < g[k]
  BY DEF Thinned
<1>3. /\ \A k \in DOMAIN c : f[k] \in DOMAIN a /\ (k \in Cur(c) <=> f[k] \in Cur(a))
      /\ \A k \in DOMAIN d : g[k] \in DOMAIN b /\ (k \in Cur(d) <=> g[k] \in Cur(b))
      /\ Cur(c) \subseteq DOMAIN c /\ Cur(d) \subseteq DOMAIN d
  BY <1>1, <1>2 DEF Cur
<1>4. ASSUME Sorted(a, b) PROVE Sorted(c, d)
  <2>1. \A j \in Cur(c), k \in DOMAIN c : j < k => k \in Cur(c)
    BY <1>1, <1>3, <1>4 DEF Sorted
  <2>2. \A j \in Cur(d), k \in DOMAIN d : j < k => k \in Cur(d)
    BY <1>2, <1>3, <1>4 DEF Sorted
  <2>3. Cur(c) # {} => Cur(d) = DOMAIN d
    BY <1>3, <1>4 DEF Sorted
  <2> QED BY <2>1, <2>2, <2>3 DEF Sorted
<1>5. ASSUME AllCur(a, b) PROVE AllCur(c, d)
  BY <1>3, <1>5 DEF AllCur
<1> QED BY <1>4, <1>5

(* The oldest answer is applied: the ring now begins where it says.         *)
LEMMA RingApplied ==
  ASSUME NEW s, NEW e, NEW a \in Seq(Msg), NEW b, NEW c, FifoRing(s, e, a, b),
         1 \in Cur(a), Thinned(c, a, 1)
  PROVE  FifoRing(a[1].end, e, c, b)
<1>1. PICK f \in [DOMAIN c -> DOMAIN a] :
        /\ \A k \in DOMAIN c : f[k] > 1 /\ c[k] = a[f[k]]
        /\ \A j, k \in DOMAIN c : j < k => f[j] < f[k]
  BY DEF Thinned
<1>2. \A k \in Cur(c) : k \in DOMAIN c /\ f[k] \in Cur(a) /\ c[k] = a[f[k]] /\ 1 < f[k]
  BY <1>1 DEF Cur
<1>3. a[1].end \in 0 .. Window /\ e \in 0 .. Window
  <2>1. a[1] \in Msg
    BY LenProperties, ElementOfSeq DEF Cur
  <2>2. a[1].end \in Int
    BY <2>1 DEF Msg
  <2> QED BY <2>2, ArcInWindow DEF FifoRing
<1>4. \A k \in Cur(c) : OnArc(a[1].end, e, c[k].end)
  BY <1>2, Zenon DEF FifoRing
<1>5. \A j, k \in Cur(c) : j < k => OnArc(c[j].end, e, c[k].end)
  BY <1>1, <1>2, Zenon DEF FifoRing
<1>6. \A k \in Cur(b) : /\ 0 <= b[k].start /\ b[k].start <= b[k].end
                        /\ Within(a[1].end, e, b[k].start, b[k].end)
  BY Zenon DEF FifoRing
<1>7. \A j \in Cur(c), k \in Cur(b) : Within(c[j].end, e, b[k].start, b[k].end)
  BY <1>2, Zenon DEF FifoRing
<1>8. \A j, k \in Cur(b) : j < k => /\ Within(b[j].end, e, b[k].start, b[k].end)
                                    /\ Apart(b[j], b[k])
  BY Zenon DEF FifoRing
<1> QED BY <1>3, <1>4, <1>5, <1>6, <1>7, <1>8 DEF FifoRing

LEMMA CurMsgs ==
  ASSUME NEW a \in Seq(Msg), NEW k \in Cur(a)
  PROVE  k \in DOMAIN a /\ k \in Nat /\ a[k] \in Msg /\ a[k].end \in Int
<1>1. k \in DOMAIN a /\ DOMAIN a = 1 .. Len(a) /\ Len(a) \in Nat
  BY LenProperties DEF Cur
<1>2. k \in 1 .. Len(a) /\ k \in Nat
  BY <1>1
<1>3. a[k] \in Msg
  BY <1>2, ElementOfSeq
<1> QED BY <1>1, <1>2, <1>3 DEF Msg

LEMMA CurNotes ==
  ASSUME NEW b \in Seq(Note), NEW k \in Cur(b)
  PROVE  /\ k \in DOMAIN b /\ k \in Nat /\ b[k] \in Note
         /\ b[k].start \in Int /\ b[k].end \in Int
<1>1. k \in DOMAIN b /\ DOMAIN b = 1 .. Len(b) /\ Len(b) \in Nat
  BY LenProperties DEF Cur
<1>2. k \in 1 .. Len(b) /\ k \in Nat
  BY <1>1
<1>3. b[k] \in Note
  BY <1>2, ElementOfSeq
<1> QED BY <1>1, <1>2, <1>3 DEF Note

(* The master reads the oldest block, and its answer is the newest.         *)
LEMMA RingAnswered ==
  ASSUME NEW s, NEW e, NEW a \in Seq(Msg), NEW b \in Seq(Note), b # <<>>,
         NEW m \in Msg, m.cur = b[1].cur, m.end = b[1].end
  PROVE  /\ FifoRing(s, e, a, b) => FifoRing(s, e, Append(a, m), Tail(b))
         /\ Sorted(a, b) => Sorted(Append(a, m), Tail(b))
         /\ AllCur(a, b) => AllCur(Append(a, m), Tail(b))
<1>1. PICK l \in Nat : l = Len(a) /\ DOMAIN a = 1 .. l
  BY LenProperties
<1>2. PICK c : c = Append(a, m) /\ DOMAIN c = 1 .. l + 1 /\ c[l + 1] = m
               /\ \A k \in 1 .. l : c[k] = a[k]
  <2>1. /\ Append(a, m) \in Seq(Msg) /\ Len(Append(a, m)) = l + 1
        /\ \A k \in 1 .. l : Append(a, m)[k] = a[k]
        /\ Append(a, m)[l + 1] = m
    BY <1>1, AppendProperties
  <2>2. DOMAIN Append(a, m) = 1 .. l + 1
    BY <2>1, LenProperties
  <2> QED BY <2>1, <2>2
<1>3. PICK d : /\ d = Tail(b) /\ DOMAIN d \subseteq Nat
               /\ \A k \in DOMAIN d : k >= 1 /\ k + 1 \in DOMAIN b /\ d[k] = b[k + 1]
  <2>1. DOMAIN Tail(b) \subseteq Nat
    BY HeadTailProperties, LenProperties
  <2> QED BY <2>1, TailElements
<1>4. 1 \in DOMAIN b /\ DOMAIN b \subseteq Nat /\ \A k \in DOMAIN b : b[k] \in Note
  BY LenProperties, ElementOfSeq, EmptySeq
<1>5. /\ \A k \in Cur(c) : \/ k \in Cur(a) /\ k \in 1 .. l /\ c[k] = a[k]
                           \/ k = l + 1 /\ 1 \in Cur(b) /\ c[k] = m
      /\ \A k \in Cur(d) : k \in Nat /\ k >= 1 /\ k + 1 \in Cur(b) /\ d[k] = b[k + 1]
  BY <1>1, <1>2, <1>3, <1>4 DEF Cur
<1>6. ASSUME FifoRing(s, e, a, b) PROVE FifoRing(s, e, c, d)
  <2>1. s \in 0 .. Window /\ e \in 0 .. Window
    BY <1>6 DEF FifoRing
  <2>2. \A j \in Int, k \in Cur(b) :
          Within(j, e, b[k].start, b[k].end) => OnArc(j, e, b[k].end)
    <3>1. \A k \in Cur(b) : /\ b[k].start \in Int /\ b[k].end \in Int
                            /\ 0 <= b[k].start /\ b[k].start <= b[k].end
      BY <1>4, <1>6 DEF Cur, Note, FifoRing
    <3> QED BY <2>1, <3>1, EndOfBlock
  <2>3. \A j \in Cur(a) : a[j].end \in Int
    BY CurMsgs
  <2>4. s \in Int
    BY <2>1
  <2>5. \A k \in Cur(c) : OnArc(s, e, c[k].end)
    BY <1>5, <1>6, <2>2, <2>4, Zenon DEF FifoRing
  <2>6. ASSUME NEW j \in Cur(c), NEW k \in Cur(c), j < k PROVE OnArc(c[j].end, e, c[k].end)
    <3>1. j \in Cur(a) /\ c[j] = a[j]
      BY <1>1, <1>5, <2>6
    <3>2. CASE k \in Cur(a) /\ c[k] = a[k]
      BY <1>6, <2>6, <3>1, <3>2, Zenon DEF FifoRing
    <3>3. CASE 1 \in Cur(b) /\ c[k] = m
      BY <1>6, <2>2, <2>3, <3>1, <3>3, Zenon DEF FifoRing
    <3> QED BY <1>5, <3>2, <3>3
  <2>7. \A k \in Cur(d) : /\ 0 <= d[k].start /\ d[k].start <= d[k].end
                          /\ Within(s, e, d[k].start, d[k].end)
    BY <1>5, <1>6, Zenon DEF FifoRing
  <2>8. ASSUME NEW j \in Cur(c), NEW k \in Cur(d)
        PROVE Within(c[j].end, e, d[k].start, d[k].end)
    <3>1. k + 1 \in Cur(b) /\ d[k] = b[k + 1] /\ 1 < k + 1
      BY <1>5
    <3>2. CASE j \in Cur(a) /\ c[j] = a[j]
      BY <1>6, <3>1, <3>2, Zenon DEF FifoRing
    <3>3. CASE 1 \in Cur(b) /\ c[j] = m
      BY <1>6, <3>1, <3>3, Zenon DEF FifoRing
    <3> QED BY <1>5, <3>2, <3>3
  <2>9. ASSUME NEW j \in Cur(d), NEW k \in Cur(d), j < k
        PROVE  Within(d[j].end, e, d[k].start, d[k].end) /\ Apart(d[j], d[k])
    <3>1. j + 1 < k + 1 /\ j + 1 \in Cur(b) /\ k + 1 \in Cur(b)
          /\ d[j] = b[j + 1] /\ d[k] = b[k + 1]
      BY <1>5, <2>9
    <3> QED BY <1>6, <3>1, Zenon DEF FifoRing
  <2> QED BY <2>1, <2>5, <2>6, <2>7, <2>8, <2>9 DEF FifoRing
<1>7. ASSUME Sorted(a, b) PROVE Sorted(c, d)
  <2>1. ASSUME NEW j \in Cur(c), NEW k \in DOMAIN c, j < k PROVE k \in Cur(c)
    <3>1. j \in Cur(a) /\ j \in 1 .. l
      BY <1>2, <1>5, <2>1 DEF Cur
    <3>2. CASE k \in 1 .. l
      BY <1>1, <1>2, <1>7, <2>1, <3>1, <3>2 DEF Sorted, Cur
    <3>3. CASE k = l + 1
      BY <1>2, <1>4, <1>7, <3>1, <3>3 DEF Sorted, Cur
    <3> QED BY <1>2, <3>2, <3>3
  <2>2. ASSUME NEW j \in Cur(d), NEW k \in DOMAIN d, j < k PROVE k \in Cur(d)
    <3>1. j + 1 < k + 1 /\ j + 1 \in Cur(b) /\ k + 1 \in DOMAIN b /\ d[k] = b[k + 1]
      BY <1>3, <1>5, <2>2
    <3> QED BY <1>7, <3>1 DEF Sorted, Cur
  <2>3. ASSUME Cur(c) # {}, NEW k \in DOMAIN d PROVE k \in Cur(d)
    <3>1. 1 < k + 1 /\ k + 1 \in DOMAIN b /\ d[k] = b[k + 1]
      BY <1>3
    <3>2. Cur(a) # {} \/ 1 \in Cur(b)
      BY <1>5, <2>3
    <3>3. k + 1 \in Cur(b)
      BY <1>7, <3>1, <3>2 DEF Sorted
    <3> QED BY <3>1, <3>3 DEF Cur
  <2> QED BY <2>1, <2>2, <2>3 DEF Sorted, Cur
<1>8. ASSUME AllCur(a, b) PROVE AllCur(c, d)
  <2>1. m.cur
    BY <1>4, <1>8 DEF AllCur, Cur
  <2> QED BY <1>1, <1>2, <1>3, <1>8, <2>1 DEF AllCur, Cur
<1> QED BY <1>2, <1>3, <1>6, <1>7, <1>8

(* The thread writes a block where QueryWritePos says.                      *)
LEMMA RingWritten ==
  ASSUME NEW s, NEW e, NEW a \in Seq(Msg), NEW b \in Seq(Note), FifoRing(s, e, a, b),
         NEW len \in 0 .. Half, NEW w, w = QueryWritePos(s, e, len), w # NoRoom,
         NEW n \in Note, n.start = w, n.end = w + len
  PROVE  FifoRing(s, w + len, a, Append(b, n))
<1>1. s \in 0 .. Window /\ e \in 0 .. Window /\ s \in Int /\ e \in Int
  BY DEF FifoRing
<1>2. w \in 0 .. Window /\ w + len \in 0 .. Window
  BY <1>1, GrowRoom
<1>3. PICK l \in Nat : l = Len(b) /\ DOMAIN b = 1 .. l
  BY LenProperties
<1>4. PICK d : /\ d = Append(b, n)
               /\ \A k \in Cur(d) : \/ k \in Cur(b) /\ k \in 1 .. l /\ d[k] = b[k]
                                    \/ k = l + 1 /\ d[k] = n
  <2>1. PICK d : d = Append(b, n)
    OBVIOUS
  <2>2. \A k \in DOMAIN d : \/ k \in DOMAIN b /\ d[k] = b[k]
                            \/ k = l + 1 /\ d[k] = n
    BY <1>3, <2>1, AppendElements, Zenon
  <2> QED BY <1>3, <2>1, <2>2 DEF Cur
<1>5. /\ \A k \in Cur(a) : a[k].end \in Int
      /\ \A k \in Cur(b) : b[k].start \in Int /\ b[k].end \in Int
  BY CurMsgs, CurNotes
<1>6. OnArc(s, e, s)
  BY <1>1 DEF OnArc
<1>7. \A k \in Cur(b) : OnArc(s, e, b[k].end)
  BY <1>1, <1>5, EndOfBlock DEF FifoRing
<1>g. \A p, q \in Int : OnArc(s, e, p) /\ OnArc(s, e, q) /\ OnArc(p, e, q)
                          => OnArc(p, w + len, q)
  BY <1>1, GrowPoint
<1>8. \A k \in Cur(a) : OnArc(s, w + len, a[k].end)
  BY <1>1, <1>5, <1>6, <1>g, Zenon DEF FifoRing
<1>9. \A j, k \in Cur(a) : j < k => OnArc(a[j].end, w + len, a[k].end)
  BY <1>5, <1>g, Zenon DEF FifoRing
<1>10. ASSUME NEW p \in Int, OnArc(s, e, p), NEW k \in Cur(b),
              Within(p, e, b[k].start, b[k].end)
       PROVE  Within(p, w + len, b[k].start, b[k].end)
  BY <1>1, <1>5, <1>10, GrowBlock DEF FifoRing
<1>11. \A p \in Int : OnArc(s, e, p) => Within(p, w + len, n.start, n.end)
  BY <1>1, GrowNew
<1>12. \A k \in Cur(d) : /\ 0 <= d[k].start /\ d[k].start <= d[k].end
                         /\ Within(s, w + len, d[k].start, d[k].end)
  <2>1. 0 <= n.start /\ n.start <= n.end /\ Within(s, w + len, n.start, n.end)
    BY <1>1, <1>2, <1>6, <1>11
  <2>2. \A k \in Cur(b) : /\ 0 <= b[k].start /\ b[k].start <= b[k].end
                          /\ Within(s, w + len, b[k].start, b[k].end)
    BY <1>1, <1>6, <1>10 DEF FifoRing
  <2> QED BY <1>4, <2>1, <2>2, Zenon
<1>13. \A j \in Cur(a), k \in Cur(d) : Within(a[j].end, w + len, d[k].start, d[k].end)
  <2>1. \A j \in Cur(a), k \in Cur(b) : Within(a[j].end, w + len, b[k].start, b[k].end)
    BY <1>5, <1>10 DEF FifoRing
  <2>2. \A j \in Cur(a) : Within(a[j].end, w + len, n.start, n.end)
    BY <1>5, <1>11 DEF FifoRing
  <2> QED BY <1>4, <2>1, <2>2, Zenon
<1>14. ASSUME NEW j \in Cur(d), NEW k \in Cur(d), j < k
       PROVE  Within(d[j].end, w + len, d[k].start, d[k].end) /\ Apart(d[j], d[k])
  <2>1. j \in Cur(b) /\ d[j] = b[j]
    <3>1. ~(j = l + 1)
      <4>1. k \in 1 .. l + 1
        BY <1>4
      <4> QED BY <1>14, <4>1
    <3> QED BY <1>4, <3>1
  <2>2. CASE k \in Cur(b) /\ d[k] = b[k]
    BY <1>5, <1>7, <1>10, <1>14, <2>1, <2>2 DEF FifoRing
  <2>3. CASE d[k] = n
    <3>1. Within(d[j].end, w + len, d[k].start, d[k].end)
      BY <1>5, <1>7, <1>11, <2>1, <2>3
    <3>2. b[j].end <= w \/ w + len <= b[j].start
      <4>1. PICK p \in Int, q \in Int : p = b[j].start /\ q = b[j].end
        BY <1>5, <2>1
      <4>2. 0 <= p /\ p <= q /\ Within(s, e, p, q)
        BY <2>1, <4>1, Zenon DEF FifoRing
      <4>3. q <= w \/ w + len <= p
        BY <1>1, <4>2, GrowApart
      <4> QED BY <4>1, <4>3, Zenon
    <3> QED BY <2>1, <2>3, <3>1, <3>2 DEF Apart
  <2> QED BY <1>4, <2>2, <2>3
<1> QED BY <1>1, <1>2, <1>4, <1>8, <1>9, <1>12, <1>13, <1>14 DEF FifoRing

LEMMA SortedWritten ==
  ASSUME NEW a, NEW b \in Seq(Note), NEW n \in Note, n.cur
  PROVE  /\ Sorted(a, b) => Sorted(a, Append(b, n))
         /\ AllCur(a, b) => AllCur(a, Append(b, n))
<1>1. PICK l \in Nat : l = Len(b) /\ DOMAIN b = 1 .. l
  BY LenProperties
<1>2. PICK d : d = Append(b, n) /\ DOMAIN d = 1 .. l + 1 /\ d[l + 1] = n
               /\ \A k \in 1 .. l : d[k] = b[k]
  <2>1. /\ Append(b, n) \in Seq(Note) /\ Len(Append(b, n)) = l + 1
        /\ \A k \in 1 .. l : Append(b, n)[k] = b[k]
        /\ Append(b, n)[l + 1] = n
    BY <1>1, AppendProperties
  <2>2. DOMAIN Append(b, n) = 1 .. l + 1
    BY <2>1, LenProperties
  <2> QED BY <2>1, <2>2
<1>3. \A k \in 1 .. l + 1 : k \in Cur(d) <=> k \in Cur(b) \/ k = l + 1
  BY <1>1, <1>2 DEF Cur
<1>4. Cur(d) \subseteq 1 .. l + 1
  BY <1>2 DEF Cur
<1>5. ASSUME Sorted(a, b) PROVE Sorted(a, d)
  <2>1. \A j \in Cur(d), k \in DOMAIN d : j < k => k \in Cur(d)
    BY <1>1, <1>2, <1>3, <1>4, <1>5 DEF Sorted
  <2>2. ASSUME Cur(a) # {}, NEW k \in DOMAIN d PROVE k \in Cur(d)
    <3>1. k \in 1 .. l => k \in Cur(b)
      BY <1>1, <1>5, <2>2, Zenon DEF Sorted
    <3>2. k \in 1 .. l + 1 /\ (k \in 1 .. l \/ k = l + 1)
      BY <1>2
    <3> QED BY <1>3, <3>1, <3>2
  <2> QED BY <1>2, <1>4, <1>5, <2>1, <2>2, Zenon DEF Sorted, Cur
<1>6. ASSUME AllCur(a, b) PROVE AllCur(a, d)
  <2>1. ASSUME NEW k \in DOMAIN d PROVE k \in Cur(d)
    <3>1. k \in 1 .. l => k \in Cur(b)
      BY <1>1, <1>6, Zenon DEF AllCur
    <3>2. k \in 1 .. l + 1 /\ (k \in 1 .. l \/ k = l + 1)
      BY <1>2, <2>1
    <3> QED BY <1>3, <3>1, <3>2
  <2> QED BY <1>6, <2>1 DEF AllCur, Cur
<1> QED BY <1>2, <1>5, <1>6

(* The answers that are not applied yet, and the blocks that are not read,  *)
(* with the one that is written and not announced.                          *)
Acks == msgBuf \o toSlave
Blocks == IF pc = "notify" THEN Append(toMaster, Written) ELSE toMaster

LEMMA JoinElements ==
  ASSUME NEW p \in Seq(Msg), NEW q \in Seq(Msg), NEW l, l = Len(p), NEW m, m = Len(q),
         NEW a, a = p \o q
  PROVE  /\ l \in Nat /\ m \in Nat
         /\ a \in Seq(Msg) /\ Len(a) = l + m /\ DOMAIN a = 1 .. l + m
         /\ \A j \in 1 .. l : a[j] = p[j]
         /\ \A j \in 1 .. m : a[l + j] = q[j]
<1>1. l \in Nat /\ m \in Nat
  BY LenProperties
<1>2. /\ a \in Seq(Msg) /\ Len(a) = l + m
      /\ \A j \in 1 .. l + m : a[j] = IF j <= l THEN p[j] ELSE q[j - l]
  BY ConcatProperties
<1>3. DOMAIN a = 1 .. l + m
  BY <1>2, LenProperties
<1>4. \A j \in 1 .. l : a[j] = p[j]
  BY <1>1, <1>2
<1>5. ASSUME NEW j \in 1 .. m PROVE a[l + j] = q[j]
  <2>1. l + j \in 1 .. l + m /\ ~(l + j <= l) /\ (l + j) - l = j
    BY <1>1
  <2> QED BY <1>2, <2>1
<1> QED BY <1>1, <1>2, <1>3, <1>4, <1>5

LEMMA PartElements ==
  ASSUME NEW q \in Seq(Msg), NEW m, m = Len(q), NEW n \in Nat, n <= m
  PROVE  /\ SubSeq(q, n + 1, m) \in Seq(Msg) /\ Len(SubSeq(q, n + 1, m)) = m - n
         /\ \A j \in 1 .. m - n : SubSeq(q, n + 1, m)[j] = q[n + j]
         /\ SubSeq(q, 1, n) \in Seq(Msg) /\ Len(SubSeq(q, 1, n)) = n
         /\ \A j \in 1 .. n : SubSeq(q, 1, n)[j] = q[j]
<1>1. m \in Nat /\ \A j \in 1 .. m : q[j] \in Msg
  BY LenProperties, ElementOfSeq
<1>2. /\ \A j \in n + 1 .. m : q[j] \in Msg
      /\ \A j \in 1 .. n : q[j] \in Msg
  BY <1>1
<1>3. PICK r : r = SubSeq(q, n + 1, m)
  OBVIOUS
<1>4. PICK x : x = SubSeq(q, 1, n)
  OBVIOUS
<1>5. /\ r \in Seq(Msg) /\ Len(r) = IF n + 1 <= m THEN m - (n + 1) + 1 ELSE 0
      /\ \A j \in 1 .. m - (n + 1) + 1 : r[j] = q[n + 1 + j - 1]
  BY <1>1, <1>2, <1>3, SubSeqProperties
<1>6. /\ x \in Seq(Msg) /\ Len(x) = IF 1 <= n THEN n - 1 + 1 ELSE 0
      /\ \A j \in 1 .. n - 1 + 1 : x[j] = q[1 + j - 1]
  BY <1>2, <1>4, SubSeqProperties
<1>7. Len(r) = m - n /\ Len(x) = n
  <2>1. /\ n + 1 <= m => m - (n + 1) + 1 = m - n
        /\ ~(n + 1 <= m) => 0 = m - n
        /\ 1 <= n => n - 1 + 1 = n
        /\ ~(1 <= n) => 0 = n
    BY <1>1
  <2> QED BY <1>5, <1>6, <2>1
<1>8. ASSUME NEW j \in 1 .. m - n PROVE r[j] = q[n + j]
  <2>1. j \in 1 .. m - (n + 1) + 1 /\ n + 1 + j - 1 = n + j
    BY <1>1
  <2> QED BY <1>5, <2>1
<1>9. ASSUME NEW j \in 1 .. n PROVE x[j] = q[j]
  <2>1. j \in 1 .. n - 1 + 1 /\ 1 + j - 1 = j
    OBVIOUS
  <2> QED BY <1>6, <2>1
<1> QED BY <1>3, <1>4, <1>5, <1>6, <1>7, <1>8, <1>9

LEMMA DropElements ==
  ASSUME NEW q \in Seq(Msg), NEW m, m = Len(q)
  PROVE  /\ AfterGetAndConsume(q) \in Seq(Msg)
         /\ Len(AfterGetAndConsume(q)) = IF 3 <= m THEN m - 2 ELSE 0
         /\ \A j \in 1 .. m - 2 : AfterGetAndConsume(q)[j] = q[j + 2]
<1>1. PICK r : r = SubSeq(q, 3, m)
  OBVIOUS
<1>2. m \in Nat /\ \A j \in 3 .. m : q[j] \in Msg
  BY LenProperties, ElementOfSeq
<1>3. /\ r \in Seq(Msg) /\ Len(r) = IF 3 <= m THEN m - 3 + 1 ELSE 0
      /\ \A j \in 1 .. m - 3 + 1 : r[j] = q[3 + j - 1]
  BY <1>1, <1>2, SubSeqProperties
<1>4. ASSUME NEW j \in 1 .. m - 2 PROVE r[j] = q[j + 2]
  <2>1. j \in 1 .. m - 3 + 1 /\ 3 + j - 1 = j + 2
    BY <1>2
  <2> QED BY <1>3, <2>1
<1>5. m - 3 + 1 = m - 2
  BY <1>2
<1> QED BY <1>1, <1>3, <1>4, <1>5 DEF AfterGetAndConsume

LEMMA AcksType ==
  ASSUME TypeOK
  PROVE  msgBuf \in Seq(Msg) /\ toSlave \in Seq(Msg) /\ Acks \in Seq(Msg)
<1>1. msgBuf \in Seq(Msg) /\ toSlave \in Seq(Msg)
  BY DEF TypeOK
<1> QED BY <1>1, JoinElements DEF Acks

LEMMA BlocksType ==
  ASSUME TypeOK
  PROVE  Written \in Note /\ toMaster \in Seq(Note) /\ Blocks \in Seq(Note)
<1>1. Written \in Note /\ toMaster \in Seq(Note)
  <2>1. endPos \in Int /\ endPos - blen \in Int /\ buf \in Seq(Entry)
    BY HalfFits DEF TypeOK
  <2>2. toMaster \in Seq(Note)
    BY DEF TypeOK
  <2> QED BY <2>1, <2>2 DEF Written, Note
<1>2. Append(toMaster, Written) \in Seq(Note)
  BY <1>1, AppendProperties
<1> QED BY <1>1, <1>2 DEF Blocks

LEMMA AppendJoin ==
  ASSUME NEW p \in Seq(Msg), NEW q \in Seq(Msg), NEW m \in Msg
  PROVE  p \o Append(q, m) = Append(p \o q, m)
<1>1. PICK k, l : k = Len(p) /\ l = Len(q)
  OBVIOUS
<1>2. PICK a, r : a = p \o q /\ r = Append(q, m)
  OBVIOUS
<1>3. /\ k \in Nat /\ l \in Nat /\ a \in Seq(Msg) /\ Len(a) = k + l
      /\ \A j \in 1 .. k : a[j] = p[j]
      /\ \A j \in 1 .. l : a[k + j] = q[j]
  BY <1>1, <1>2, JoinElements
<1>4. /\ r \in Seq(Msg) /\ Len(r) = l + 1 /\ r[l + 1] = m
      /\ \A j \in 1 .. l : r[j] = q[j]
  BY <1>1, <1>2, AppendProperties
<1>5. PICK x, y : x = p \o r /\ y = Append(a, m)
  OBVIOUS
<1>6. /\ x \in Seq(Msg) /\ Len(x) = k + (l + 1)
      /\ \A j \in 1 .. k : x[j] = p[j]
      /\ \A j \in 1 .. l + 1 : x[k + j] = r[j]
  <2>1. PICK t : t = l + 1
    OBVIOUS
  <2>2. p \in Seq(Msg) /\ r \in Seq(Msg) /\ k = Len(p) /\ t = Len(r) /\ x = p \o r
    BY <1>1, <1>4, <1>5, <2>1
  <2>3. /\ x \in Seq(Msg) /\ Len(x) = k + t
        /\ \A j \in 1 .. k : x[j] = p[j]
        /\ \A j \in 1 .. t : x[k + j] = r[j]
    BY <2>2, JoinElements
  <2> QED BY <2>1, <2>3
<1>7. /\ y \in Seq(Msg) /\ Len(y) = (k + l) + 1 /\ y[(k + l) + 1] = m
      /\ \A j \in 1 .. k + l : y[j] = a[j]
  BY <1>3, <1>5, AppendProperties
<1>8. ASSUME NEW j \in 1 .. k + (l + 1) PROVE x[j] = y[j]
  <2>1. CASE j <= k
    <3>1. j \in 1 .. k /\ j \in 1 .. k + l
      BY <1>3, <2>1
    <3> QED BY <1>3, <1>6, <1>7, <3>1
  <2>2. CASE j = (k + l) + 1
    <3>1. l + 1 \in 1 .. l + 1 /\ k + (l + 1) = (k + l) + 1
      BY <1>3
    <3>2. x[k + (l + 1)] = r[l + 1]
      BY <1>6, <3>1
    <3> QED BY <1>4, <1>7, <2>2, <3>1, <3>2
  <2>3. CASE ~(j <= k) /\ j # (k + l) + 1
    <3>1. PICK z \in 1 .. l : j = k + z
      <4>1. j - k \in 1 .. l /\ j = k + (j - k)
        BY <1>3, <2>3
      <4> QED BY <4>1
    <3>2. z \in 1 .. l + 1 /\ k + z \in 1 .. k + l
      BY <1>3
    <3>3. x[k + z] = r[z] /\ y[k + z] = a[k + z]
      BY <1>6, <1>7, <3>2
    <3> QED BY <1>3, <1>4, <3>1, <3>3
  <2> QED BY <2>1, <2>2, <2>3
<1>9. Len(x) = Len(y)
  BY <1>3, <1>6, <1>7
<1>10. x = y
  BY <1>6, <1>7, <1>8, <1>9, SeqEqual
<1> QED BY <1>2, <1>5, <1>10

LEMMA UnreadBlocks ==
  ASSUME Written \in Note, toMaster \in Seq(Note)
  PROVE  \A n \in Unread : \E k \in Cur(Blocks) : n = Blocks[k]
<1>1. CASE pc # "notify"
  BY <1>1 DEF Unread, Blocks
<1>2. CASE pc = "notify"
  <2>1. PICK l, b : l = Len(toMaster) /\ b = Append(toMaster, Written)
    OBVIOUS
  <2>2. /\ l \in Nat /\ DOMAIN toMaster = 1 .. l /\ b \in Seq(Note) /\ Len(b) = l + 1
        /\ \A k \in 1 .. l : b[k] = toMaster[k]
        /\ b[l + 1] = Written
    BY <2>1, AppendProperties, LenProperties
  <2>3. DOMAIN b = 1 .. l + 1
    BY <2>2, LenProperties
  <2>4. \A k \in Cur(toMaster) : k \in Cur(b) /\ b[k] = toMaster[k]
    BY <2>2, <2>3 DEF Cur
  <2>5. l + 1 \in Cur(b)
    BY <2>2, <2>3 DEF Cur, Written
  <2>6. Blocks = b /\ Unread = {toMaster[k] : k \in Cur(toMaster)} \cup {Written}
    BY <1>2, <2>1 DEF Blocks, Unread
  <2> QED BY <2>2, <2>4, <2>5, <2>6
<1> QED BY <1>1, <1>2

LEMMA ThinnedMore ==
  ASSUME NEW S, NEW q \in Seq(S), NEW r, Thinned(r, q, 1)
  PROVE  Thinned(r, q, 0)
<1>1. DOMAIN q \subseteq Nat
  BY LenProperties
<1>2. \A k \in DOMAIN q : k > 1 => k > 0
  BY <1>1
<1> QED BY <1>2, Zenon DEF Thinned

LEMMA ThinnedSame == ASSUME NEW S, NEW q \in Seq(S) PROVE Thinned(q, q, 0)
<1>1. DOMAIN q \subseteq Nat /\ \A k \in DOMAIN q : k >= 1
  BY LenProperties
<1>2. \A k \in DOMAIN q : k >= 1 /\ k + 0 \in DOMAIN q /\ q[k] = q[k + 0]
  BY <1>1
<1> QED BY <1>1, <1>2, Shifted, 0 \in Nat

LEMMA ThinnedFront ==
  ASSUME NEW S, NEW q \in Seq(S), NEW e \in S
  PROVE  Thinned(q, Append(q, e), 0)
<1>1. PICK r : r = Append(q, e)
  OBVIOUS
<1>2. /\ Len(q) \in Nat /\ DOMAIN q = 1 .. Len(q) /\ DOMAIN r = 1 .. Len(q) + 1
      /\ \A k \in 1 .. Len(q) : r[k] = q[k]
  BY <1>1, AppendProperties, LenProperties
<1>3. /\ DOMAIN q \subseteq Nat
      /\ \A k \in DOMAIN q : k >= 1 /\ k + 0 \in DOMAIN r /\ q[k] = r[k + 0]
  BY <1>2
<1> QED BY <1>1, <1>3, Shifted, 0 \in Nat

LEMMA ThinnedTail ==
  ASSUME NEW S, NEW q \in Seq(S), q # <<>>
  PROVE  Thinned(Tail(q), q, 0)
<1>1. DOMAIN Tail(q) \subseteq Nat
  BY HeadTailProperties, LenProperties
<1> QED BY <1>1, TailElements, Shifted, 1 \in Nat

LEMMA TailAppend ==
  ASSUME NEW S, NEW q \in Seq(S), q # <<>>, NEW w \in S
  PROVE  /\ Append(q, w) # <<>> /\ Append(q, w)[1] = q[1]
         /\ Tail(Append(q, w)) = Append(Tail(q), w)
<1>1. PICK n \in Nat : n = Len(q) /\ n # 0
  BY LenProperties, EmptySeq
<1>2. PICK a : /\ a = Append(q, w) /\ a \in Seq(S) /\ Len(a) = n + 1
               /\ \A k \in 1 .. n : a[k] = q[k]
               /\ a[n + 1] = w
  <2>1. PICK a : a = Append(q, w)
    OBVIOUS
  <2>2. /\ a \in Seq(S) /\ Len(a) = n + 1 /\ a[n + 1] = w
        /\ \A k \in 1 .. n : a[k] = q[k]
    BY <1>1, <2>1, AppendProperties
  <2> QED BY <2>1, <2>2
<1>3. a # <<>> /\ a[1] = q[1]
  <2>1. 1 \in 1 .. n /\ n + 1 # 0
    BY <1>1
  <2> QED BY <1>2, <2>1, EmptySeq
<1>4. PICK x : x = Tail(a) /\ x \in Seq(S) /\ Len(x) = n
               /\ \A k \in 1 .. n : x[k] = a[k + 1]
  <2>1. /\ Tail(a) \in Seq(S) /\ Len(Tail(a)) = Len(a) - 1
        /\ \A k \in 1 .. Len(Tail(a)) : Tail(a)[k] = a[k + 1]
    BY <1>2, <1>3, HeadTailProperties
  <2>2. Len(a) - 1 = n
    BY <1>2
  <2> QED BY <2>1, <2>2
<1>5. PICK t : t = Tail(q) /\ t \in Seq(S) /\ Len(t) = n - 1
               /\ \A k \in 1 .. n - 1 : t[k] = q[k + 1]
  <2>1. /\ Tail(q) \in Seq(S) /\ Len(Tail(q)) = Len(q) - 1
        /\ \A k \in 1 .. Len(Tail(q)) : Tail(q)[k] = q[k + 1]
    BY HeadTailProperties
  <2> QED BY <1>1, <2>1
<1>6. PICK y : y = Append(t, w) /\ y \in Seq(S) /\ Len(y) = n
               /\ (\A k \in 1 .. n - 1 : y[k] = t[k]) /\ y[n] = w
  <2>1. /\ Append(t, w) \in Seq(S) /\ Len(Append(t, w)) = (n - 1) + 1
        /\ \A k \in 1 .. n - 1 : Append(t, w)[k] = t[k]
        /\ Append(t, w)[(n - 1) + 1] = w
    BY <1>5, AppendProperties
  <2>2. (n - 1) + 1 = n
    OBVIOUS
  <2> QED BY <2>1, <2>2
<1>7. ASSUME NEW k \in 1 .. n PROVE x[k] = y[k]
  <2>1. CASE k = n
    BY <1>2, <1>4, <1>6, <2>1
  <2>2. CASE k # n
    <3>1. k \in 1 .. n - 1 /\ k + 1 \in 1 .. n
      BY <2>2
    <3> QED BY <1>2, <1>4, <1>5, <1>6, <3>1
  <2> QED BY <2>1, <2>2
<1>8. x = y
  BY <1>4, <1>6, <1>7, SeqEqual
<1> QED BY <1>2, <1>3, <1>4, <1>5, <1>6, <1>8

(* The master takes the oldest block.                                       *)
LEMMA BlocksTail ==
  ASSUME TypeOK, toMaster # <<>>, toMaster' = Tail(toMaster),
         UNCHANGED <<pc, endPos, buf, blen>>
  PROVE  /\ Blocks' = Tail(Blocks) /\ Blocks # <<>>
         /\ Blocks[1] = Head(toMaster) /\ Head(toMaster) \in Note
<1>1. Written' = Written /\ Written \in Note /\ toMaster \in Seq(Note)
  BY BlocksType DEF Written
<1>2. Head(toMaster) = toMaster[1] /\ Head(toMaster) \in Note
  BY <1>1, HeadTailProperties
<1>3. CASE pc # "notify"
  BY <1>1, <1>2, <1>3 DEF Blocks
<1>4. CASE pc = "notify"
  <2>1. /\ Append(toMaster, Written) # <<>>
        /\ Append(toMaster, Written)[1] = toMaster[1]
        /\ Tail(Append(toMaster, Written)) = Append(Tail(toMaster), Written)
    BY <1>1, TailAppend
  <2> QED BY <1>1, <1>2, <1>4, <2>1 DEF Blocks
<1> QED BY <1>3, <1>4

(* A read that overflows msg_buf loses what it returned.                    *)
LEMMA LostPart ==
  ASSUME NEW p \in Seq(Msg), NEW q \in Seq(Msg), NEW n \in Nat, n <= Len(q)
  PROVE  Thinned(p \o SubSeq(q, n + 1, Len(q)), p \o q, 0)
<1>1. PICK l, m : l = Len(p) /\ m = Len(q)
  OBVIOUS
<1>2. PICK r : r = SubSeq(q, n + 1, m)
  OBVIOUS
<1>3. PICK a, c : a = p \o q /\ c = p \o r
  OBVIOUS
<1>4. /\ l \in Nat /\ m \in Nat /\ DOMAIN a = 1 .. l + m
      /\ \A j \in 1 .. l : a[j] = p[j]
      /\ \A j \in 1 .. m : a[l + j] = q[j]
  BY <1>1, <1>3, JoinElements
<1>5. r \in Seq(Msg) /\ Len(r) = m - n /\ \A j \in 1 .. m - n : r[j] = q[n + j]
  BY <1>1, <1>2, PartElements
<1>6. PICK h \in Nat : h = m - n
  <2>1. n <= m
    BY <1>1
  <2> QED BY <1>4, <2>1
<1>7. /\ DOMAIN c = 1 .. l + h
      /\ \A j \in 1 .. l : c[j] = p[j]
      /\ \A j \in 1 .. h : c[l + j] = q[n + j]
  <2>1. /\ p \in Seq(Msg) /\ r \in Seq(Msg) /\ l = Len(p) /\ h = Len(r) /\ c = p \o r
        /\ \A j \in 1 .. h : r[j] = q[n + j]
    BY <1>1, <1>3, <1>5, <1>6
  <2>2. /\ DOMAIN c = 1 .. l + h
        /\ \A j \in 1 .. l : c[j] = p[j]
        /\ \A j \in 1 .. h : c[l + j] = r[j]
    BY <2>1, JoinElements
  <2> QED BY <2>1, <2>2
<1> DEFINE f == [j \in 1 .. l + h |-> IF j <= l THEN j ELSE j + n]
<1>8. f \in [1 .. l + h -> 1 .. l + m]
  <2>1. \A j \in 1 .. l + h : (IF j <= l THEN j ELSE j + n) \in 1 .. l + m
    BY <1>4, <1>6
  <2> QED BY <2>1
<1>9. ASSUME NEW j \in 1 .. l + h PROVE f[j] > 0 /\ c[j] = a[f[j]]
  <2>1. CASE j <= l
    <3>1. j \in 1 .. l /\ f[j] = j /\ j > 0
      BY <1>4, <1>6, <2>1
    <3> HIDE DEF f
    <3> QED BY <1>4, <1>7, <3>1
  <2>2. CASE ~(j <= l)
    <3>1. PICK k \in 1 .. h : j = l + k
      <4>1. j - l \in 1 .. h /\ j = l + (j - l)
        BY <1>4, <1>6, <2>2
      <4> QED BY <4>1
    <3>2. f[j] = j + n
      BY <2>2
    <3> HIDE DEF f
    <3>3. f[j] = l + (n + k) /\ n + k \in 1 .. m /\ f[j] > 0
      BY <1>4, <1>6, <3>1, <3>2
    <3>4. c[j] = q[n + k]
      BY <1>7, <3>1
    <3>5. a[l + (n + k)] = q[n + k]
      BY <1>4, <3>3
    <3> QED BY <3>3, <3>4, <3>5
  <2> QED BY <2>1, <2>2
<1>10. \A j, k \in 1 .. l + h : j < k => f[j] < f[k]
  BY <1>4, <1>6
<1>11. f \in [DOMAIN c -> DOMAIN a]
  BY <1>4, <1>7, <1>8
<1> HIDE DEF f
<1>12. Thinned(c, a, 0)
  BY <1>7, <1>9, <1>10, <1>11 DEF Thinned
<1> QED BY <1>1, <1>2, <1>3, <1>12

(* A read that does not: the oldest answer is looked at, and the one behind *)
(* it is gone if msg_buf held it whole.                                     *)
LEMMA TakenPart ==
  ASSUME NEW p \in Seq(Msg), NEW q \in Seq(Msg), NEW n \in Nat, n <= Len(q),
         NEW got, got = p \o SubSeq(q, 1, n), got # <<>>
  PROVE  /\ 1 \in DOMAIN (p \o q) /\ (p \o q)[1] = got[1]
         /\ Thinned(AfterGetAndConsume(got) \o SubSeq(q, n + 1, Len(q)), p \o q, 1)
<1>1. PICK l, m : l = Len(p) /\ m = Len(q)
  OBVIOUS
<1>2. PICK r, x : r = SubSeq(q, n + 1, m) /\ x = SubSeq(q, 1, n)
  OBVIOUS
<1>3. PICK a : a = p \o q
  OBVIOUS
<1>4. /\ l \in Nat /\ m \in Nat /\ DOMAIN a = 1 .. l + m
      /\ \A j \in 1 .. l : a[j] = p[j]
      /\ \A j \in 1 .. m : a[l + j] = q[j]
  BY <1>1, <1>3, JoinElements
<1>5. /\ r \in Seq(Msg) /\ Len(r) = m - n /\ \A j \in 1 .. m - n : r[j] = q[n + j]
      /\ x \in Seq(Msg) /\ Len(x) = n /\ \A j \in 1 .. n : x[j] = q[j]
  BY <1>1, <1>2, PartElements
<1>6. PICK g \in Nat : g = l + n
  BY <1>4
<1>7. /\ got \in Seq(Msg) /\ Len(got) = g /\ g >= 1 /\ g <= l + m
      /\ \A j \in 1 .. g : got[j] = a[j]
  <2>1. /\ got \in Seq(Msg) /\ Len(got) = l + n
        /\ \A j \in 1 .. l : got[j] = p[j]
        /\ \A j \in 1 .. n : got[l + j] = x[j]
    BY <1>1, <1>2, <1>5, JoinElements
  <2>2. g # 0 /\ g <= l + m
    BY <1>1, <1>4, <1>6, <2>1, EmptySeq
  <2>3. ASSUME NEW j \in 1 .. g PROVE got[j] = a[j]
    <3>1. CASE j <= l
      <4>1. j \in 1 .. l
        BY <1>4, <1>6, <3>1
      <4> QED BY <1>4, <2>1, <4>1
    <3>2. CASE ~(j <= l)
      <4>1. PICK k \in 1 .. n : j = l + k
        <5>1. j - l \in 1 .. n /\ j = l + (j - l)
          BY <1>4, <1>6, <3>2
        <5> QED BY <5>1
      <4>2. k \in 1 .. m
        BY <1>1, <1>4
      <4>3. got[l + k] = q[k] /\ a[l + k] = q[k]
        BY <1>4, <1>5, <2>1, <4>2
      <4> QED BY <4>1, <4>3
    <3> QED BY <3>1, <3>2
  <2> QED BY <1>6, <2>1, <2>2, <2>3
<1>8. PICK y : /\ y = AfterGetAndConsume(got) /\ y \in Seq(Msg)
               /\ Len(y) = IF 3 <= g THEN g - 2 ELSE 0
               /\ \A j \in 1 .. g - 2 : y[j] = a[j + 2]
  <2>1. PICK y : y = AfterGetAndConsume(got)
    OBVIOUS
  <2>2. /\ y \in Seq(Msg) /\ Len(y) = IF 3 <= g THEN g - 2 ELSE 0
        /\ \A j \in 1 .. g - 2 : y[j] = got[j + 2]
    BY <1>7, <2>1, DropElements
  <2>3. \A j \in 1 .. g - 2 : j + 2 \in 1 .. g
    OBVIOUS
  <2>4. \A j \in 1 .. g - 2 : y[j] = a[j + 2]
    BY <1>7, <2>2, <2>3
  <2> QED BY <2>1, <2>2, <2>4
<1>9. PICK h : h = Len(y)
  OBVIOUS
<1>10. PICK o \in Nat : o = m - n /\ m = n + o
  <2>1. n <= m
    BY <1>1
  <2> QED BY <1>4, <2>1
<1>11. PICK c : c = y \o r
  OBVIOUS
<1>12. /\ h \in Nat /\ DOMAIN c = 1 .. h + o
       /\ \A j \in 1 .. h : c[j] = y[j]
       /\ \A j \in 1 .. o : c[h + j] = q[n + j]
  <2>1. Len(r) = o /\ \A j \in 1 .. o : r[j] = q[n + j]
    BY <1>5, <1>10
  <2>2. /\ h \in Nat /\ DOMAIN c = 1 .. h + o
        /\ \A j \in 1 .. h : c[j] = y[j]
        /\ \A j \in 1 .. o : c[h + j] = r[j]
    <3>1. y \in Seq(Msg) /\ r \in Seq(Msg) /\ h = Len(y) /\ o = Len(r) /\ c = y \o r
      BY <1>5, <1>8, <1>9, <1>11, <2>1
    <3>2. h \in Nat /\ Len(c) = h + o
      BY <3>1, JoinElements
    <3>3. DOMAIN c = 1 .. h + o
      BY <3>1, JoinElements
    <3>4. \A j \in 1 .. h : c[j] = y[j]
      BY <3>1, JoinElements
    <3>5. \A j \in 1 .. o : c[h + j] = r[j]
      BY <3>1, JoinElements
    <3> QED BY <3>2, <3>3, <3>4, <3>5
  <2> QED BY <2>1, <2>2
<1>13. PICK d \in {1, 2} : g = h + d /\ (h = 0 \/ d = 2)
  <2>1. h = IF 3 <= g THEN g - 2 ELSE 0
    BY <1>8, <1>9
  <2>2. g >= 1
    BY <1>7
  <2>3. CASE g = 1
    BY <2>1, <2>3
  <2>4. CASE g >= 2
    <3>1. g = h + 2
      BY <2>1, <2>4
    <3> QED BY <3>1
  <2> QED BY <2>2, <2>3, <2>4
<1>14. ASSUME NEW j \in DOMAIN c PROVE j >= 1 /\ j + d \in DOMAIN a /\ c[j] = a[j + d]
  <2>1. j \in 1 .. h + o
    BY <1>12
  <2>2. j >= 1 /\ j + d \in 1 .. l + m
    <3>1. h \in Nat /\ o \in Nat /\ l \in Nat /\ m \in Nat /\ d \in Nat
      BY <1>4, <1>12
    <3>2. j \in Nat /\ j >= 1 /\ j <= h + o
      BY <2>1, <3>1
    <3>3. h + d = l + n /\ m = n + o
      BY <1>6, <1>10, <1>13
    <3> QED BY <3>1, <3>2, <3>3
  <2>3. CASE j <= h
    <3>1. j \in 1 .. h /\ j \in 1 .. g - 2 /\ d = 2
      BY <1>12, <1>13, <2>1, <2>3
    <3> QED BY <1>4, <1>8, <1>12, <2>2, <3>1
  <2>4. CASE ~(j <= h)
    <3>1. PICK k \in 1 .. o : j = h + k
      <4>1. j - h \in 1 .. o /\ j = h + (j - h)
        BY <1>12, <2>1, <2>4
      <4> QED BY <4>1
    <3>2. n + k \in 1 .. m /\ j + d = l + (n + k)
      BY <1>4, <1>6, <1>10, <1>12, <1>13, <3>1
    <3>3. c[j] = q[n + k]
      BY <1>12, <3>1
    <3>4. a[l + (n + k)] = q[n + k]
      BY <1>4, <3>2
    <3> QED BY <1>4, <2>2, <3>2, <3>3, <3>4
  <2> QED BY <2>3, <2>4
<1>15. Thinned(c, a, 1)
  <2>1. DOMAIN c \subseteq Nat
    BY <1>12
  <2>2. d \in Nat /\ d >= 1
    OBVIOUS
  <2> QED BY <1>14, <2>1, <2>2, Shifted
<1>16. 1 \in DOMAIN a /\ a[1] = got[1]
  <2>1. 1 \in 1 .. l + m /\ 1 \in 1 .. g
    BY <1>4, <1>7
  <2> QED BY <1>4, <1>7, <2>1
<1> QED BY <1>1, <1>2, <1>3, <1>8, <1>11, <1>15, <1>16

(* What PosInfo means for the blocks: as long as NoOverwrite is promised,   *)
(* they lie in the ring that begins where the last answer of this session   *)
(* said, or at 0 when the last one applied was not of this session.         *)
Base == IF stale = 1 /\ ~msg.cur THEN 0 ELSE startPos
Ring == stale = 0 \/ (stale = 1 /\ run) => FifoRing(Base, endPos, Acks, Blocks)

(* While messages of earlier sessions are about, the session is at its      *)
(* first block: Recv has not returned yet, or its first answer was one of   *)
(* theirs, and what is batched next goes behind that block.                 *)
Batching == {"loop", "select", "scan", "write"}
Early ==
  run /\ stale = 0 /\ ~AllCur(Acks, Blocks) =>
    /\ startPos = 0 /\ endPos <= Half
    /\ pc \in Batching \cup {"begin"} => endPos = 0
Misled == run /\ stale = 1 /\ ~msg.cur /\ pc \in Batching => endPos <= Half

Fresh ==
  /\ pc = "begin" => stale = 0
  /\ pc = "off" => ~msg.cur
  /\ stale = 0 /\ msg.cur => startPos = msg.end

RingInv == Sorted(Acks, Blocks) /\ Ring /\ Early /\ Misled /\ Fresh

LEMMA NoneCur ==
  ASSUME NEW a, NEW b, Cur(a) = {}, Cur(b) = {}
  PROVE  Sorted(a, b) /\ FifoRing(0, 0, a, b)
BY WindowAssumption, Cur(a) = {}, Cur(b) = {} DEF Sorted, FifoRing

(* msg_buf is cleared.                                                      *)
LEMMA AcksForgotten ==
  ASSUME TypeOK, msgBuf' = <<>>, toSlave' = toSlave
  PROVE  Acks' = toSlave /\ Thinned(Acks', Acks, 0)
<1>1. PICK p, q, a : p = msgBuf /\ q = toSlave /\ a = Acks
  OBVIOUS
<1>2. p \in Seq(Msg) /\ q \in Seq(Msg) /\ a = p \o q
  BY <1>1 DEF TypeOK, Acks
<1>3. Acks' = q
  BY <1>1, <1>2, ConcatEmptySeq DEF Acks
<1>4. PICK l, m : l = Len(p) /\ m = Len(q)
  OBVIOUS
<1>5. /\ l \in Nat /\ m \in Nat /\ DOMAIN a = 1 .. l + m
      /\ \A j \in 1 .. m : a[l + j] = q[j]
  BY <1>2, <1>4, JoinElements
<1>6. DOMAIN q = 1 .. m
  BY <1>2, <1>4, LenProperties
<1>7. /\ DOMAIN q \subseteq Nat
      /\ \A j \in DOMAIN q : j >= 1 /\ j + l \in DOMAIN a /\ q[j] = a[j + l]
  <2>1. DOMAIN q \subseteq Nat
    BY <1>6
  <2>2. ASSUME NEW j \in DOMAIN q PROVE j >= 1 /\ j + l \in DOMAIN a /\ q[j] = a[j + l]
    <3>1. j \in 1 .. m /\ j >= 1 /\ j + l \in 1 .. l + m /\ j + l = l + j
      BY <1>5, <1>6
    <3> QED BY <1>5, <3>1
  <2> QED BY <2>1, <2>2
<1>8. Thinned(q, a, 0)
  BY <1>5, <1>7, Shifted
<1> QED BY <1>1, <1>3, <1>8

LEMMA AnswersInAcks ==
  ASSUME TypeOK, Answers
  PROVE  \A k \in DOMAIN Acks : Acks[k].type = "READ_DONE"
<1>1. PICK p, q, a : p = msgBuf /\ q = toSlave /\ a = Acks
  OBVIOUS
<1>2. p \in Seq(Msg) /\ q \in Seq(Msg) /\ a = p \o q
  BY <1>1 DEF TypeOK, Acks
<1>3. PICK l, m : l = Len(p) /\ m = Len(q)
  OBVIOUS
<1>4. /\ l \in Nat /\ m \in Nat /\ DOMAIN a = 1 .. l + m
      /\ \A j \in 1 .. l : a[j] = p[j]
      /\ \A j \in 1 .. m : a[l + j] = q[j]
  BY <1>2, <1>3, JoinElements
<1>5. /\ \A j \in 1 .. l : p[j].type = "READ_DONE"
      /\ \A j \in 1 .. m : q[j].type = "READ_DONE"
  BY <1>1, <1>2, <1>3, LenProperties DEF Answers
<1>6. ASSUME NEW k \in DOMAIN a PROVE a[k].type = "READ_DONE"
  <2>1. CASE k \in 1 .. l
    BY <1>4, <1>5, <2>1
  <2>2. CASE k \notin 1 .. l
    <3>1. k - l \in 1 .. m /\ l + (k - l) = k
      BY <1>4, <2>2
    <3> QED BY <1>4, <1>5, <3>1
  <2> QED BY <2>1, <2>2
<1> QED BY <1>1, <1>6

LEMMA AcksSame ==
  ASSUME TypeOK, msgBuf' = msgBuf, toSlave' = toSlave
  PROVE  Acks' = Acks /\ Thinned(Acks', Acks, 0)
<1>1. Acks' = Acks
  BY DEF Acks
<1>2. Thinned(Acks, Acks, 0)
  BY AcksType, ThinnedSame
<1> QED BY <1>1, <1>2

LEMMA BlocksSame ==
  ASSUME TypeOK, toMaster' = toMaster,
         \/ pc # "notify" /\ pc' # "notify"
         \/ UNCHANGED <<pc, endPos, blen, buf>>
  PROVE  Blocks' = Blocks /\ Thinned(Blocks', Blocks, 0)
<1>1. Blocks' = Blocks
  BY DEF Blocks, Written
<1>2. Thinned(Blocks, Blocks, 0)
  BY BlocksType, ThinnedSame
<1> QED BY <1>1, <1>2

(* A step that moves neither position, nor applies an answer.               *)
LEMMA RingKept ==
  ASSUME RingInv, UNCHANGED <<startPos, endPos, stale>>, run' => run,
         Thinned(Acks', Acks, 0), Thinned(Blocks', Blocks, 0),
         msg' = msg \/ (~msg'.cur /\ ~(run' /\ stale = 1)),
         pc' = "begin" => pc = "begin",
         pc' = "off" => pc = "off" \/ ~msg'.cur,
         pc' \in Batching => pc \in Batching \cup {"begin"}
  PROVE  RingInv'
<1> USE DEF RingInv
<1>1. Sorted(Acks', Blocks') /\ (AllCur(Acks, Blocks) => AllCur(Acks', Blocks'))
  BY SortedThinned
<1>2. Ring'
  <2> SUFFICES ASSUME (stale = 0 \/ (stale = 1 /\ run))'
               PROVE  FifoRing(Base', endPos', Acks', Blocks')
    BY DEF Ring
  <2>1. stale = 0 \/ (stale = 1 /\ run)
    OBVIOUS
  <2>2. FifoRing(Base, endPos, Acks, Blocks)
    BY <2>1 DEF Ring
  <2>3. Base' = Base
    BY DEF Base
  <2>4. FifoRing(Base, endPos, Acks', Blocks')
    BY <2>2, RingThinned
  <2> QED BY <2>3, <2>4
<1>3. Early'
  BY <1>1 DEF Early
<1>4. Misled'
  <2>1. pc = "begin" => stale = 0
    BY DEF Fresh
  <2> QED BY <2>1 DEF Misled
<1>5. Fresh'
  BY DEF Fresh
<1> QED BY <1>1, <1>2, <1>3, <1>4, <1>5

(* Recv returns an answer.                                                  *)
LEMMA RingDispatch ==
  ASSUME TypeOK, Answers, RingInv, pc = "recv", NEW n \in Nat, n <= Len(toSlave),
         NEW got, got = msgBuf \o SubSeq(toSlave, 1, n), got # <<>>,
         Dispatch(got[1]), msgBuf' = AfterGetAndConsume(got),
         toSlave' = SubSeq(toSlave, n + 1, Len(toSlave)),
         UNCHANGED <<run, endPos, toMaster>>
  PROVE  RingInv'
<1>1. /\ 1 \in DOMAIN Acks /\ Acks[1] = got[1] /\ Thinned(Acks', Acks, 1)
  <2>1. msgBuf \in Seq(Msg) /\ toSlave \in Seq(Msg)
    BY DEF TypeOK
  <2>2. Acks' = AfterGetAndConsume(got) \o SubSeq(toSlave, n + 1, Len(toSlave))
    BY DEF Acks
  <2>3. PICK p \in Seq(Msg), q \in Seq(Msg) : p = msgBuf /\ q = toSlave
    BY <2>1
  <2>4. n <= Len(q) /\ got = p \o SubSeq(q, 1, n)
    BY <2>3
  <2>5. /\ 1 \in DOMAIN (p \o q) /\ (p \o q)[1] = got[1]
        /\ Thinned(AfterGetAndConsume(got) \o SubSeq(q, n + 1, Len(q)), p \o q, 1)
    BY <2>4, TakenPart, Zenon
  <2> QED BY <2>2, <2>3, <2>5 DEF Acks
<1>2. Acks \in Seq(Msg) /\ Blocks' = Blocks /\ Thinned(Blocks', Blocks, 0)
  BY AcksType, BlocksSame DEF Dispatch
<1>3. Thinned(Acks', Acks, 0)
  BY <1>1, <1>2, ThinnedMore
<1>4. PICK m \in Msg : m = Acks[1] /\ m.type = "READ_DONE"
  <2>1. Acks[1] \in Msg
    BY <1>1, <1>2, LenProperties, ElementOfSeq
  <2>2. Acks[1].type = "READ_DONE"
    <3>1. \A k \in DOMAIN Acks : Acks[k].type = "READ_DONE"
      BY AnswersInAcks
    <3> QED BY <1>1, <3>1
  <2> QED BY <2>1, <2>2
<1>5. /\ pc' = "loop" /\ msg' = m /\ startPos' = m.end
      /\ stale' = IF m.cur \/ stale = 2 THEN stale ELSE stale + 1
  BY <1>1, <1>4 DEF Dispatch
<1>6. /\ Sorted(Acks', Blocks') /\ (AllCur(Acks, Blocks) => AllCur(Acks', Blocks'))
      /\ stale \in {0, 1, 2}
  <2>1. Sorted(Acks, Blocks) /\ stale \in {0, 1, 2}
    BY DEF RingInv, TypeOK
  <2> QED BY <1>2, <1>3, <2>1, SortedThinned
<1>7. Fresh'
  BY <1>5 DEF Fresh
<1>8. CASE m.cur
  <2>1. 1 \in Cur(Acks) /\ stale' = stale /\ Base' = m.end
    BY <1>1, <1>4, <1>5, <1>8 DEF Cur, Base
  <2>2. Ring'
    <3> SUFFICES ASSUME stale = 0 \/ (stale = 1 /\ run)
                 PROVE  FifoRing(m.end, endPos, Acks', Blocks)
      BY <1>2, <2>1 DEF Ring
    <3>1. FifoRing(Base, endPos, Acks, Blocks)
      BY DEF Ring, RingInv
    <3> QED BY <1>1, <1>2, <1>4, <2>1, <3>1, RingApplied
  <2>3. AllCur(Acks, Blocks)
    <3>1. Sorted(Acks, Blocks)
      BY DEF RingInv
    <3>2. \A k \in DOMAIN Acks : k = 1 \/ 1 < k
      BY <1>2, LenProperties
    <3> QED BY <2>1, <3>1, <3>2 DEF Sorted, AllCur, Cur
  <2>4. Early'
    BY <1>6, <2>3 DEF Early
  <2>5. Misled'
    BY <1>5, <1>8 DEF Misled
  <2> QED BY <1>6, <1>7, <2>2, <2>4, <2>5 DEF RingInv
<1>9. CASE ~m.cur
  <2>1. ~AllCur(Acks, Blocks)
    BY <1>1, <1>4, <1>9 DEF AllCur, Cur
  <2>2. stale' # 0 /\ (stale' = 1 => stale = 0)
    BY <1>5, <1>6, <1>9
  <2>3. Early'
    BY <2>2 DEF Early
  <2>4. stale = 0 /\ run => startPos = 0 /\ endPos <= Half
    BY <2>1 DEF RingInv, Early
  <2>5. Misled'
    BY <2>2, <2>4 DEF Misled
  <2>6. Ring'
    <3> SUFFICES ASSUME stale' = 1, run
                 PROVE  FifoRing(Base', endPos, Acks', Blocks')
      BY <2>2 DEF Ring
    <3>1. stale = 0 /\ Base = 0 /\ Base' = 0
      BY <1>5, <1>9, <2>2, <2>4 DEF Base
    <3>2. FifoRing(Base, endPos, Acks, Blocks)
      BY <3>1 DEF Ring, RingInv
    <3>3. FifoRing(Base, endPos, Acks', Blocks')
      BY <1>2, <1>3, <3>2, RingThinned
    <3> QED BY <3>1, <3>3
  <2> QED BY <1>6, <1>7, <2>3, <2>5, <2>6 DEF RingInv
<1> QED BY <1>8, <1>9

(* A session begins: nothing of it is in flight.                            *)
LEMMA RingOpen == TypeOK /\ Lifecycle /\ Scanning /\ RingInv /\ Open => RingInv'
<1> SUFFICES ASSUME TypeOK, Lifecycle, Scanning, RingInv, Open PROVE RingInv'
  OBVIOUS
<1>1. /\ pc = "off" /\ msgBuf = <<>> /\ ~msg.cur
      /\ msg' = msg /\ msgBuf' = <<>> /\ pc' \in {"begin", "off"}
      /\ startPos' = 0 /\ endPos' = 0 /\ stale' = 0
      /\ toMaster' = RetireNotes(toMaster) /\ toSlave' = RetireMsgs(toSlave)
  BY DEF Open, Lifecycle, Scanning, RingInv, Fresh, threadVars
<1>2. Acks' = toSlave' /\ Blocks' = toMaster'
  <2>1. toSlave' \in Seq(Msg)
    BY <1>1, RetireType
  <2>2. <<>> \o toSlave' = toSlave'
    BY <2>1, ConcatEmptySeq
  <2> QED BY <1>1, <2>2 DEF Acks, Blocks
<1>3. Cur(Acks') = {} /\ Cur(Blocks') = {}
  BY <1>1, <1>2, RetiredNotCur
<1>4. Sorted(Acks', Blocks') /\ FifoRing(0, 0, Acks', Blocks')
  BY <1>3, NoneCur
<1>5. Base' = 0
  BY <1>1 DEF Base
<1>6. Ring'
  BY <1>1, <1>4, <1>5 DEF Ring
<1>7. Early'
  BY <1>1, HalfFits DEF Early
<1>8. Misled' /\ Fresh'
  BY <1>1 DEF Misled, Fresh
<1> QED BY <1>4, <1>6, <1>7, <1>8 DEF RingInv

(* The DMA places a block.                                                  *)
LEMMA RingWrite == TypeOK /\ RingInv /\ Write => RingInv'
<1> SUFFICES ASSUME TypeOK, RingInv, Write PROVE RingInv'
  OBVIOUS
<1>1. /\ pc = "write" /\ UNCHANGED <<run, startPos, msg, msgBuf, buf, blen, toMaster, toSlave, stale>>
  BY DEF Write, mainVars, stageVars, threadVars
<1>2. Acks' = Acks /\ Thinned(Acks', Acks, 0)
  BY <1>1, AcksSame
<1>3. CASE pc' = "failed" /\ endPos' = endPos
  <2>1. Thinned(Blocks', Blocks, 0)
    BY <1>1, <1>3, BlocksSame
  <2> QED BY <1>1, <1>2, <1>3, <2>1, RingKept DEF Batching
<1>4. CASE pc' = "notify"
  <2> DEFINE w == QueryWritePos(startPos, endPos, blen)
  <2>1. w # NoRoom /\ endPos' = w + blen
    BY <1>4 DEF Write
  <2>2. blen \in 0 .. Half /\ endPos \in Nat /\ startPos \in Int /\ blen \in Nat
    BY HalfFits DEF TypeOK
  <2>3. w \in {0, endPos}
    BY <2>1, <2>2, WritePosType
  <2>4. w \in Nat
    BY <2>2, <2>3
  <2>5. PICK n \in Note : n = Written' /\ n.cur /\ n.start = w /\ n.end = w + blen
    <3>1. (w + blen) - blen = w /\ w \in Int /\ w + blen \in Int
      BY <2>2, <2>4
    <3>2. Written' = [cur |-> TRUE, start |-> w, end |-> w + blen, body |-> buf]
      BY <1>1, <2>1, <3>1 DEF Written
    <3>3. buf \in Seq(Entry)
      BY DEF TypeOK
    <3> HIDE DEF w
    <3>4. PICK v \in Int : v = w + blen
      BY <3>1
    <3>5. Written' = [cur |-> TRUE, start |-> w, end |-> v, body |-> buf]
      BY <3>2, <3>4
    <3>6. Written' \in Note
      BY <3>1, <3>3, <3>5 DEF Note
    <3>7. Written'.cur /\ Written'.start = w /\ Written'.end = v
      BY <3>5
    <3> QED BY <3>4, <3>6, <3>7
  <2>6. /\ Blocks = toMaster /\ Blocks' = Append(toMaster, n)
        /\ toMaster \in Seq(Note) /\ Acks \in Seq(Msg)
    BY <1>1, <1>4, <2>5, BlocksType, AcksType DEF Blocks
  <2>7. /\ Sorted(Acks', Blocks')
        /\ AllCur(Acks, Blocks) => AllCur(Acks', Blocks')
    BY <1>2, <2>5, <2>6, SortedWritten DEF RingInv
  <2>8. Base' = Base /\ endPos' = w + blen
    BY <1>1, <2>1 DEF Base
  <2>9. Ring'
    <3> SUFFICES ASSUME stale = 0 \/ (stale = 1 /\ run)
                 PROVE  FifoRing(Base, w + blen, Acks, Append(toMaster, n))
      BY <1>1, <1>2, <2>6, <2>8 DEF Ring
    <3>1. FifoRing(Base, endPos, Acks, toMaster)
      BY <2>6 DEF Ring, RingInv
    <3>2. w = QueryWritePos(Base, endPos, blen)
      <4>1. CASE stale = 1 /\ ~msg.cur
        <5>1. endPos <= Half /\ Base = 0
          BY <1>1, <4>1 DEF RingInv, Misled, Batching, Base
        <5>2. QueryWritePos(0, endPos, blen) = endPos
          BY <2>2, <5>1, HalfFits, WindowAssumption, SMT DEF QueryWritePos
        <5>3. w = endPos
          BY <2>1, <2>2, <5>1, HalfFits, WindowAssumption, SMT DEF QueryWritePos, NoRoom
        <5> QED BY <5>1, <5>2, <5>3
      <4>2. CASE ~(stale = 1 /\ ~msg.cur)
        BY <4>2 DEF Base
      <4> QED BY <4>1, <4>2
    <3> HIDE DEF w
    <3> QED BY <2>1, <2>2, <2>5, <2>6, <3>1, <3>2, RingWritten
  <2>10. Early'
    <3> SUFFICES ASSUME run, stale = 0, ~AllCur(Acks, Blocks)
                 PROVE  startPos' = 0 /\ endPos' <= Half /\ pc' = "notify"
      BY <1>1, <1>4, <2>7 DEF Early, Batching
    <3>1. startPos = 0 /\ endPos = 0
      BY <1>1 DEF RingInv, Early, Batching
    <3>2. w = 0
      BY <2>3, <3>1
    <3> HIDE DEF w
    <3> QED BY <1>1, <1>4, <2>1, <2>2, <3>1, <3>2, HalfFits
  <2>11. Misled' /\ Fresh'
    BY <1>1, <1>4 DEF Misled, Fresh, Batching, RingInv
  <2> QED BY <2>7, <2>9, <2>10, <2>11 DEF RingInv
<1> QED BY <1>3, <1>4 DEF Write

(* Recv without a message, when the session is closing: the caller looks at *)
(* the last one again.                                                      *)
LEMMA RingRepeat ==
  ASSUME TypeOK, RingInv, pc = "recv", ~run, Dispatch(msg),
         UNCHANGED <<run, endPos, msgBuf, toMaster, toSlave>>
  PROVE  RingInv'
<1>1. Acks' = Acks /\ Blocks' = Blocks /\ pc' = "loop" /\ msg' = msg
  BY AcksSame, BlocksSame DEF Dispatch
<1>2. stale \in {0, 1, 2} /\ stale' \in {stale, stale + 1}
  BY DEF TypeOK, Dispatch
<1>3. stale' = 0 => stale = 0 /\ startPos' = startPos
  <2> SUFFICES ASSUME stale' = 0 PROVE stale = 0 /\ startPos' = startPos
    OBVIOUS
  <2>1. stale = 0
    BY <1>2
  <2>2. CASE msg.type # "READ_DONE"
    BY <2>1, <2>2 DEF Dispatch
  <2>3. CASE msg.type = "READ_DONE"
    <3>1. startPos' = msg.end /\ msg.cur
      BY <2>1, <2>3 DEF Dispatch
    <3> QED BY <2>1, <3>1 DEF RingInv, Fresh
  <2> QED BY <2>2, <2>3
<1>4. Ring'
  BY <1>1, <1>3 DEF RingInv, Ring, Base
<1>5. Early' /\ Misled' /\ Fresh'
  BY <1>1, <1>3 DEF RingInv, Early, Misled, Fresh
<1> QED BY <1>1, <1>4, <1>5 DEF RingInv

THEOREM RingStep == IInv /\ RingInv /\ [Next]_vars => RingInv'
<1> SUFFICES ASSUME IInv, RingInv, [Next]_vars PROVE RingInv'
  OBVIOUS
<1>0. TypeOK /\ Lifecycle /\ Scanning /\ Answers
  BY DEF IInv
<1>1. ASSUME NEW cmd \in Commands, Handle(cmd) PROVE RingInv'
  <2>1. /\ UNCHANGED <<startPos, endPos, stale, msg, msgBuf, toMaster, toSlave, pc, blen, buf>>
        /\ run' => run
    BY <1>1 DEF Handle, stageVars, threadVars
  <2> QED BY <1>0, <2>1, AcksSame, BlocksSame, RingKept
<1>2. CASE Join
  <2>1. /\ UNCHANGED <<run, startPos, endPos, stale, toMaster, toSlave>>
        /\ pc \in Ended /\ pc' = "off" /\ msgBuf' = <<>> /\ ~msg'.cur /\ ~run
    BY <1>0, <1>2 DEF Join, NoMsg, Lifecycle
  <2>2. Thinned(Acks', Acks, 0) /\ Thinned(Blocks', Blocks, 0)
    BY <1>0, <2>1, AcksForgotten, BlocksSame DEF Ended
  <2> QED BY <2>1, <2>2, RingKept DEF Batching
<1>3. CASE Open
  BY <1>0, <1>3, RingOpen
<1>4. CASE Ack
  <2>1. UNCHANGED <<run, startPos, endPos, stale, msg, msgBuf, toMaster, toSlave, pc, blen, buf>>
    BY <1>4 DEF Ack, stageVars, threadVars
  <2> QED BY <1>0, <2>1, AcksSame, BlocksSame, RingKept
<1>5. CASE Begin
  <2>1. /\ UNCHANGED <<run, startPos, endPos, stale, toMaster, toSlave>>
        /\ pc = "begin" /\ pc' \in {"loop", "failed"} /\ msgBuf' = <<>> /\ ~msg'.cur
    BY <1>5, TransAssumption DEF Begin, mainVars
  <2>2. Thinned(Acks', Acks, 0) /\ Thinned(Blocks', Blocks, 0)
    BY <1>0, <2>1, AcksForgotten, BlocksSame
  <2>3. stale = 0
    BY <2>1 DEF RingInv, Fresh
  <2> QED BY <2>1, <2>2, <2>3, RingKept
<1>6. CASE Loop \/ Select \/ Skip \/ FetchFails \/ Store \/ Keep
  <2>1. /\ UNCHANGED <<run, startPos, endPos, stale, msg, msgBuf, toMaster, toSlave>>
        /\ pc \in Batching /\ pc' \in Batching \cup Ended
    BY <1>6 DEF Loop, Select, Skip, NextChn, FetchFails, Store, Keep, mainVars, threadVars,
                Batching, Ended
  <2>2. Thinned(Acks', Acks, 0) /\ Thinned(Blocks', Blocks, 0)
    BY <1>0, <2>1, AcksSame, BlocksSame DEF Batching, Ended
  <2>3. pc' # "begin" /\ pc' # "off"
    BY <2>1 DEF Batching, Ended
  <2> QED BY <2>1, <2>2, <2>3, RingKept
<1>7. CASE Write
  BY <1>0, <1>7, RingWrite
<1>8. CASE Notify
  <2>1. /\ UNCHANGED <<run, startPos, endPos, stale, msg, msgBuf, toSlave>>
        /\ pc = "notify" /\ pc' \in {"recv", "failed"}
        /\ toMaster' = Append(toMaster, Written) \/ toMaster' = toMaster
    BY <1>8 DEF Notify, mainVars, threadVars
  <2>2. Thinned(Acks', Acks, 0)
    BY <1>0, <2>1, AcksSame
  <2>3. Thinned(Blocks', Blocks, 0)
    <3>1. CASE toMaster' = Append(toMaster, Written)
      <4>1. Blocks' = Blocks
        BY <2>1, <3>1 DEF Blocks
      <4> QED BY <1>0, <4>1, BlocksType, ThinnedSame
    <3>2. CASE toMaster' = toMaster
      <4>1. Blocks' = toMaster /\ Blocks = Append(toMaster, Written)
        BY <2>1, <3>2 DEF Blocks
      <4> QED BY <1>0, <4>1, BlocksType, ThinnedFront
    <3> QED BY <2>1, <3>1, <3>2
  <2> QED BY <2>1, <2>2, <2>3, RingKept DEF Batching
<1>9. CASE RecvRead
  <2>1. PICK n \in 1 .. MaxCoalesce :
          /\ n <= Len(toSlave)
          /\ toSlave' = SubSeq(toSlave, n + 1, Len(toSlave))
          /\ LET got == msgBuf \o SubSeq(toSlave, 1, n)
             IN  IF Len(got) > MsgCap
                 THEN pc' = "failed" /\ UNCHANGED <<msg, msgBuf, startPos, stale>>
                 ELSE Dispatch(got[1]) /\ msgBuf' = AfterGetAndConsume(got)
    BY <1>9 DEF RecvRead
  <2>2. /\ n \in Nat /\ n >= 1 /\ pc = "recv"
        /\ UNCHANGED <<run, endPos, toMaster, blen, buf>>
    BY <1>9, TransAssumption DEF RecvRead, mainVars, stageVars
  <2>3. PICK got : got = msgBuf \o SubSeq(toSlave, 1, n)
    OBVIOUS
  <2>4. got # <<>>
    <3>1. Len(got) = Len(msgBuf) + n /\ Len(msgBuf) \in Nat
      BY <1>0, <2>1, <2>3, GotType, LenProperties DEF TypeOK
    <3> QED BY <2>2, <3>1, EmptySeq
  <2>5. CASE Len(got) > MsgCap
    <3>1. pc' = "failed" /\ UNCHANGED <<msg, msgBuf, startPos, stale>>
      BY <2>1, <2>3, <2>5
    <3>2. Thinned(Acks', Acks, 0)
      <4>1. Acks' = msgBuf \o SubSeq(toSlave, n + 1, Len(toSlave))
        BY <2>1, <3>1 DEF Acks
      <4>2. msgBuf \in Seq(Msg) /\ toSlave \in Seq(Msg)
        BY <1>0 DEF TypeOK
      <4> QED BY <2>1, <2>2, <4>1, <4>2, LostPart DEF Acks
    <3>3. Thinned(Blocks', Blocks, 0)
      BY <1>0, <2>2, <3>1, BlocksSame
    <3> QED BY <2>2, <3>1, <3>2, <3>3, RingKept DEF Batching
  <2>6. CASE ~(Len(got) > MsgCap)
    <3>1. Dispatch(got[1]) /\ msgBuf' = AfterGetAndConsume(got)
      BY <2>1, <2>3, <2>6
    <3> QED BY <1>0, <2>1, <2>2, <2>3, <2>4, <3>1, RingDispatch
  <2> QED BY <2>5, <2>6
<1>10. CASE RecvTimeout
  <2>1. pc = "recv" /\ toSlave = <<>> /\ UNCHANGED <<run, endPos, toMaster, toSlave>>
    BY <1>10 DEF RecvTimeout, mainVars
  <2>2. CASE msgBuf # <<>>
    <3>1. Dispatch(msgBuf[1]) /\ msgBuf' = AfterGetAndConsume(msgBuf)
      BY <1>10, <2>2 DEF RecvTimeout
    <3>2. 0 \in Nat /\ Len(toSlave) = 0
      BY <2>1, EmptySeq
    <3>3. SubSeq(toSlave, 1, 0) = <<>> /\ SubSeq(toSlave, 0 + 1, Len(toSlave)) = <<>>
      BY <3>2, SubSeqEmpty
    <3>4. msgBuf = msgBuf \o SubSeq(toSlave, 1, 0)
      BY <1>0, <3>3, ConcatEmptySeq DEF TypeOK
    <3>5. toSlave' = SubSeq(toSlave, 0 + 1, Len(toSlave)) /\ 0 <= Len(toSlave)
      BY <2>1, <3>2, <3>3
    <3> QED BY <1>0, <2>1, <2>2, <3>1, <3>2, <3>4, <3>5, RingDispatch
  <2>3. CASE msgBuf = <<>>
    BY <1>0, <1>10, <2>1, <2>3, RingRepeat DEF RecvTimeout
  <2> QED BY <2>2, <2>3
<1>11. CASE RecvFails
  <2>1. /\ UNCHANGED <<run, startPos, endPos, stale, msg, msgBuf, toMaster, toSlave, blen, buf>>
        /\ pc = "recv" /\ pc' = "failed"
    BY <1>11 DEF RecvFails, mainVars, stageVars, threadVars
  <2>2. Thinned(Acks', Acks, 0) /\ Thinned(Blocks', Blocks, 0)
    BY <1>0, <2>1, AcksSame, BlocksSame
  <2> QED BY <2>1, <2>2, RingKept DEF Batching
<1>12. ASSUME NEW c \in Encoders, NEW l \in FrameLens[c], Encode(c, l) PROVE RingInv'
  <2>1. UNCHANGED <<run, startPos, endPos, stale, msg, msgBuf, toMaster, toSlave, pc, blen, buf>>
    BY <1>12 DEF Encode, mainVars, stageVars, threadVars
  <2> QED BY <1>0, <2>1, AcksSame, BlocksSame, RingKept
<1>13. CASE MasterReads
  <2>1. /\ UNCHANGED <<run, startPos, endPos, stale, msg, msgBuf, pc, blen, buf>>
        /\ toMaster # <<>> /\ toMaster' = Tail(toMaster)
        /\ toSlave' = Append(toSlave, [type |-> "READ_DONE", cur |-> Head(toMaster).cur,
                                       end |-> Head(toMaster).end])
    BY <1>13 DEF MasterReads, mainVars, stageVars, threadVars
  <2>2. /\ Blocks' = Tail(Blocks) /\ Blocks # <<>>
        /\ Blocks[1] = Head(toMaster) /\ Head(toMaster) \in Note
    BY <1>0, <2>1, BlocksTail
  <2>3. PICK m \in Msg : /\ toSlave' = Append(toSlave, m)
                         /\ m.cur = Blocks[1].cur /\ m.end = Blocks[1].end
    <3>1. Head(toMaster).cur \in BOOLEAN /\ Head(toMaster).end \in Int
      BY <2>2 DEF Note
    <3>2. [type |-> "READ_DONE", cur |-> Head(toMaster).cur, end |-> Head(toMaster).end] \in Msg
      BY <3>1 DEF Msg
    <3> QED BY <2>1, <2>2, <3>2
  <2>4. Acks' = Append(Acks, m) /\ Acks \in Seq(Msg)
    BY <1>0, <2>1, <2>3, AcksType, AppendJoin DEF Acks
  <2>5. /\ \A s, e : FifoRing(s, e, Acks, Blocks) => FifoRing(s, e, Acks', Blocks')
        /\ Sorted(Acks', Blocks') /\ (AllCur(Acks, Blocks) => AllCur(Acks', Blocks'))
    BY <1>0, <2>2, <2>3, <2>4, BlocksType, RingAnswered DEF RingInv
  <2>6. Base' = Base
    BY <2>1 DEF Base
  <2>7. Ring'
    BY <2>1, <2>5, <2>6 DEF RingInv, Ring
  <2>8. Early' /\ Misled' /\ Fresh'
    BY <2>1, <2>5 DEF RingInv, Early, Misled, Fresh
  <2> QED BY <2>5, <2>7, <2>8 DEF RingInv
<1>14. CASE MasterDiscards
  <2>1. /\ UNCHANGED <<run, startPos, endPos, stale, msg, msgBuf, toSlave, pc, blen, buf>>
        /\ toMaster # <<>> /\ toMaster' = Tail(toMaster)
    BY <1>14 DEF MasterDiscards, mainVars, stageVars, threadVars
  <2>2. Thinned(Acks', Acks, 0)
    BY <1>0, <2>1, AcksSame
  <2>3. Blocks' = Tail(Blocks) /\ Blocks # <<>> /\ Blocks \in Seq(Note)
    BY <1>0, <2>1, BlocksTail, BlocksType
  <2>4. Thinned(Blocks', Blocks, 0)
    BY <2>3, ThinnedTail
  <2> QED BY <2>1, <2>2, <2>4, RingKept
<1>15. CASE Exited \/ UNCHANGED vars
  <2>1. UNCHANGED <<run, startPos, endPos, stale, msg, msgBuf, toMaster, toSlave, pc, blen, buf>>
    BY <1>15 DEF Exited, vars, mainVars, stageVars, threadVars
  <2> QED BY <1>0, <2>1, AcksSame, BlocksSame, RingKept
<1> QED BY <1>1, <1>2, <1>3, <1>4, <1>5, <1>6, <1>7, <1>8, <1>9, <1>10, <1>11,
           <1>12, <1>13, <1>14, <1>15
        DEF Next, Main, Thread

-----------------------------------------------------------------------------
(* The theorems. *)

(* The inductive invariant: types, who has the object open, the locals of  *)
(* the thread, the answers, and the blocks in flight.                      *)
THEOREM Invariance == Spec => []IInv
<1>1. Init => IInv
  <2> SUFFICES ASSUME Init PROVE IInv
    OBVIOUS
  <2>1. TypeOK
    BY TypeInit
  <2>2. Unacked = {}
    BY CurEmpty, InFlightAtMostOne DEF Init, Unacked
  <2> QED BY <2>1, <2>2, TransAssumption
          DEF Init, IInv, Lifecycle, Scanning, Answers, Outstanding
<1>2. IInv /\ [Next]_vars => IInv'
  BY TypeStep, LifecycleStep, ScanningStep, AnswersStep, OutstandingStep DEF IInv
<1> QED BY <1>1, <1>2, PTL DEF Spec

THEOREM TypeCorrect == Spec => []TypeOK
<1>1. IInv => TypeOK BY DEF IInv
<1> QED BY <1>1, Invariance, PTL

(* PCIVTrans::Initialize / Close: the running thread always has its block, *)
(* and the pool never loses one.                                           *)
THEOREM BlockIsOwned == Spec => []BlockOwned
<1>1. IInv => BlockOwned BY DEF IInv, Lifecycle, BlockOwned
<1> QED BY <1>1, Invariance, PTL

(* The flag full and the held stream agree, and a thread that leaves its   *)
(* loop has announced what it copied and stopped the encoders.             *)
THEOREM HeldStream == Spec => []HeldIffFull
<1>1. IInv => HeldIffFull BY DEF IInv, Scanning, HeldIffFull
<1> QED BY <1>1, Invariance, PTL

(* Recv makes the transport a stop-and-wait protocol.                      *)
THEOREM OneOutstanding == Spec => []StopAndWait
<1>1. IInv => StopAndWait BY DEF IInv, Outstanding, StopAndWait
<1> QED BY <1>1, Invariance, PTL

(* "query write pos failed" cannot happen while the session runs.          *)
THEOREM RoomForEveryBatch == Spec => []RoomWhileRunning
<1>1. IInv => RoomWhileRunning
  <2> SUFFICES ASSUME IInv, pc = "write", run, stale = 0
               PROVE  QueryWritePos(startPos, endPos, blen) # NoRoom
    BY DEF RoomWhileRunning
  <2>1. startPos = endPos /\ endPos \in Nat /\ blen \in 0 .. Half
    BY DEF IInv, TypeOK, Outstanding, Alive
  <2> QED BY <2>1, RoomWhenEmpty
<1> QED BY <1>1, Invariance, PTL

(* The blocks of the session that are not acknowledged lie in the part of  *)
(* the window that QueryWritePos takes for used, in the order written.     *)
THEOREM RingInvariance == Spec => [](IInv /\ RingInv)
<1>1. Init => RingInv
  <2> SUFFICES ASSUME Init PROVE RingInv
    OBVIOUS
  <2>1. Acks = <<>> /\ Blocks = <<>>
    BY EmptySeq, ConcatEmptySeq DEF Init, Acks, Blocks
  <2>2. Sorted(Acks, Blocks) /\ FifoRing(0, 0, Acks, Blocks)
    BY <2>1, CurEmpty, NoneCur
  <2>3. Ring
    BY <2>2 DEF Init, Ring, Base
  <2>4. Early /\ Misled /\ Fresh
    BY DEF Init, Early, Misled, Fresh, NoMsg
  <2> QED BY <2>2, <2>3, <2>4 DEF RingInv
<1>2. IInv /\ RingInv /\ [Next]_vars => RingInv'
  BY RingStep
<1> QED BY <1>1, <1>2, Invariance, PTL DEF Spec

(* PCIVTrans::QueryWritePos: no block lands on one that the master has     *)
(* still to read, as long as the READ_DONEs it goes by are its own.        *)
THEOREM NothingOverwritten == Spec => []NoOverwrite
<1>1. IInv /\ RingInv => NoOverwrite
  <2> SUFFICES ASSUME IInv, RingInv, stale <= (IF run THEN 1 ELSE 0)
               PROVE  /\ \A n \in Unread : 0 <= n.start /\ n.end <= Window
                      /\ \A m, n \in Unread : m # n => Apart(m, n)
    BY DEF NoOverwrite
  <2>1. TypeOK /\ stale \in {0, 1, 2}
    BY DEF IInv, TypeOK
  <2>2. stale = 0 \/ (stale = 1 /\ run)
    BY <2>1
  <2>3. FifoRing(Base, endPos, Acks, Blocks)
    BY <2>2 DEF RingInv, Ring
  <2>4. Blocks \in Seq(Note) /\ Written \in Note /\ toMaster \in Seq(Note)
    BY <2>1, BlocksType
  <2>5. \A n \in Unread : \E k \in Cur(Blocks) : n = Blocks[k]
    BY <2>4, UnreadBlocks
  <2>6. \A k \in Cur(Blocks) : 0 <= Blocks[k].start /\ Blocks[k].end <= Window
    <3> SUFFICES ASSUME NEW k \in Cur(Blocks)
                 PROVE  0 <= Blocks[k].start /\ Blocks[k].end <= Window
      OBVIOUS
    <3>1. PICK b \in Int, c \in Int : b = Blocks[k].start /\ c = Blocks[k].end
      BY <2>4, CurNotes
    <3>2. 0 <= b /\ b <= c /\ Within(Base, endPos, b, c)
      BY <2>3, <3>1, Zenon DEF FifoRing
    <3>3. PICK s \in 0 .. Window, e \in 0 .. Window : s = Base /\ e = endPos
      BY <2>3 DEF FifoRing
    <3>4. Within(s, e, b, c)
      BY <3>2, <3>3
    <3>5. c <= Window
      BY <3>2, <3>4, WindowAssumption, SMT DEF Within
    <3> QED BY <3>1, <3>2, <3>5
  <2>7. ASSUME NEW j \in Cur(Blocks), NEW k \in Cur(Blocks), Blocks[j] # Blocks[k]
        PROVE  Apart(Blocks[j], Blocks[k])
    <3>1. j \in Nat /\ k \in Nat
      BY <2>4, CurNotes
    <3>2. j < k \/ k < j
      BY <2>7, <3>1
    <3>3. Apart(Blocks[j], Blocks[k]) \/ Apart(Blocks[k], Blocks[j])
      BY <2>3, <3>2, Zenon DEF FifoRing
    <3> QED BY <3>3 DEF Apart
  <2> QED BY <2>5, <2>6, <2>7
<1> QED BY <1>1, RingInvariance, PTL

-----------------------------------------------------------------------------
(* BlockParses: sums of aligned lengths, and entries laid end to end.       *)

LEMMA MultipleOf ==
  ASSUME NEW x \in Int
  PROVE  Aligned(x) <=> \E q \in Int : x = DmaAlign * q
<1>1. DmaAlign \in Nat \ {0}
  BY WindowAssumption
<1>2. ASSUME Aligned(x) PROVE \E q \in Int : x = DmaAlign * q
  BY <1>1, <1>2, SMT DEF Aligned
<1>3. ASSUME NEW q \in Int, x = DmaAlign * q PROVE Aligned(x)
  <2>1. PICK r \in Int : r = x % DmaAlign /\ 0 <= r /\ r < DmaAlign
    BY <1>1, SMT
  <2>2. PICK k \in Int : k = x \div DmaAlign
    BY <1>1, SMT
  <2>3. x = DmaAlign * k + r
    BY <1>1, <2>1, <2>2, SMT
  <2>4. DmaAlign * (q - k) = r
    BY <1>1, <1>3, <2>1, <2>2, <2>3, SMT
  <2>5. CASE q - k >= 1
    <3>1. DmaAlign * (q - k) >= DmaAlign
      BY <1>1, <2>2, <2>5, SMT
    <3> QED BY <1>1, <2>1, <2>4, <3>1, SMT
  <2>6. CASE q - k <= -1
    <3>1. DmaAlign * (q - k) <= -DmaAlign
      BY <1>1, <2>2, <2>6, SMT
    <3> QED BY <1>1, <2>1, <2>4, <3>1, SMT
  <2>7. CASE q - k = 0
    BY <1>1, <2>1, <2>4, <2>7, SMT DEF Aligned
  <2> QED BY <2>2, <2>5, <2>6, <2>7, SMT
<1> QED BY <1>2, <1>3

LEMMA AlignedSum ==
  ASSUME NEW x \in Int, NEW y \in Int, Aligned(x), Aligned(y)
  PROVE  Aligned(x + y) /\ Aligned(x - y)
<1>1. PICK p \in Int, q \in Int : x = DmaAlign * p /\ y = DmaAlign * q
  BY MultipleOf
<1>2. x + y = DmaAlign * (p + q) /\ x - y = DmaAlign * (p - q)
  BY <1>1, WindowAssumption, SMT
<1> QED BY <1>2, MultipleOf

(* Padding aligns, and so does the header before the frame.                 *)
LEMMA EntryAligned ==
  ASSUME NEW len \in Nat
  PROVE  Aligned(EntryLen(len))
<1>1. DmaAlign \in Nat \ {0} /\ StreamInfoLen \in Nat /\ Aligned(StreamInfoLen)
  BY WindowAssumption DEF Aligned
<1>2. Aligned(DmaLen(len))
  <2>1. CASE len % DmaAlign = 0
    BY <2>1 DEF DmaLen, Aligned
  <2>2. CASE len % DmaAlign # 0
    <3>1. DmaLen(len) = DmaAlign * (len \div DmaAlign + 1)
      BY <1>1, <2>2, SMT DEF DmaLen
    <3>2. len \div DmaAlign + 1 \in Int
      BY <1>1, SMT
    <3>3. DmaLen(len) \in Int
      BY DmaLenType
    <3> QED BY <3>1, <3>2, <3>3, MultipleOf
  <2> QED BY <2>1, <2>2
<1> QED BY <1>1, <1>2, DmaLenType, AlignedSum DEF EntryLen

LEMMA NothingSpans == Spans(<<>>, 0) /\ Aligned(0)
<1>1. DmaAlign * 0 = 0
  BY WindowAssumption, SMT
<1>2. Aligned(0)
  BY <1>1, MultipleOf
<1>3. PICK at : at = [k \in {0} |-> 0]
  OBVIOUS
<1>4. Len(<<>>) = 0 /\ 0 .. 0 = {0} /\ 1 .. 0 = {}
  OBVIOUS
<1>5. at \in [0 .. Len(<<>>) -> 0 .. 0] /\ at[0] = 0 /\ at[Len(<<>>)] = 0
  BY <1>3, <1>4
<1>6. Spans(<<>>, 0)
  BY <1>4, <1>5 DEF Spans
<1> QED BY <1>2, <1>6

(* One more entry behind the others. *)
LEMMA SpansMore ==
  ASSUME NEW body \in Seq(Entry), NEW len \in Nat, Spans(body, len), NEW e \in Entry
  PROVE  Spans(Append(body, e), len + e.size)
<1>1. PICK n \in Nat : n = Len(body)
  BY LenProperties
<1>2. PICK at \in [0 .. n -> 0 .. len] :
        /\ at[0] = 0 /\ at[n] = len
        /\ \A k \in 1 .. n : at[k] = at[k - 1] + body[k].size
  BY <1>1 DEF Spans
<1>3. e.size \in Nat
  BY DEF Entry
<1>4. PICK more : more = Append(body, e)
  OBVIOUS
<1>5. Len(more) = n + 1 /\ more[n + 1] = e /\ \A k \in 1 .. n : more[k] = body[k]
  BY <1>1, <1>4, AppendProperties
<1>6. PICK to : to = [k \in 0 .. n + 1 |-> IF k = n + 1 THEN len + e.size ELSE at[k]]
  OBVIOUS
<1>7. /\ to \in [0 .. n + 1 -> 0 .. len + e.size]
      /\ to[0] = 0 /\ to[n + 1] = len + e.size
  <2>1. \A k \in 0 .. n + 1 : k # n + 1 => k \in 0 .. n
    BY <1>1
  <2>2. \A k \in 0 .. n : at[k] \in 0 .. len + e.size
    BY <1>2, <1>3
  <2>3. len + e.size \in 0 .. len + e.size /\ 0 \in 0 .. n + 1 /\ n + 1 \in 0 .. n + 1
          /\ 0 # n + 1
    BY <1>1, <1>3
  <2> QED BY <1>2, <1>6, <2>1, <2>2, <2>3
<1>8. ASSUME NEW k \in 1 .. n + 1 PROVE to[k] = to[k - 1] + more[k].size
  <2>1. CASE k = n + 1
    <3>1. to[k - 1] = len /\ to[k] = len + e.size
      BY <1>1, <1>2, <1>6, <2>1
    <3> QED BY <1>5, <2>1, <3>1
  <2>2. CASE k # n + 1
    <3>1. k \in 1 .. n /\ k \in 0 .. n + 1 /\ k - 1 \in 0 .. n + 1 /\ k - 1 # n + 1
      BY <1>1, <2>2
    <3>2. to[k] = at[k] /\ to[k - 1] = at[k - 1]
      BY <1>6, <2>2, <3>1
    <3> QED BY <1>2, <1>5, <3>1, <3>2
  <2> QED BY <2>1, <2>2
<1> QED BY <1>4, <1>5, <1>7, <1>8, Zenon DEF Spans

(* What BlockParses says of an announced block.                             *)
Parses(n) == Spans(n.body, n.end - n.start) /\ Aligned(n.start) /\ Aligned(n.end)

(* A step that leaves the staging buffer and end_pos alone and announces    *)
(* nothing keeps every block parsable.                                      *)
LEMMA ParsesKept ==
  ASSUME BlockParses, UNCHANGED <<buf, blen, endPos>>,
         \A k \in Cur(toMaster') : \E j \in Cur(toMaster) : toMaster'[k] = toMaster[j]
  PROVE  BlockParses'
BY DEF BlockParses

LEMMA ParsesStep == IInv /\ BlockParses /\ [Next]_vars => BlockParses'
<1> SUFFICES ASSUME IInv, BlockParses, [Next]_vars PROVE BlockParses'
  OBVIOUS
<1>1. TypeOK /\ toMaster \in Seq(Note)
  BY DEF IInv, TypeOK
<1>2. CASE UNCHANGED <<buf, blen, endPos, toMaster>>
  BY <1>2, ParsesKept DEF Cur
<1>3. CASE Open
  <2>1. Cur(toMaster') = {}
    BY <1>1, <1>3, RetiredNotCur DEF Open
  <2>2. buf' = <<>> /\ blen' = 0 /\ endPos' = 0
    BY <1>3 DEF Open
  <2> QED BY <2>1, <2>2, NothingSpans DEF BlockParses
<1>4. CASE Store
  <2> DEFINE e == [vdec |-> VdecOf(i), chn |-> TurnFrame.chn, seq |-> TurnFrame.seq,
                   size |-> EntryLen(TurnFrame.len)]
  <2>1. TurnFrame \in Frame
    BY <1>1, <1>4, TurnFrameType DEF Store, IInv
  <2>2. TurnFrame.len \in Nat /\ e \in Entry
    BY <1>1, <2>1, VdecOfType, FrameLenType, DmaLenType DEF Entry, Frame, TypeOK
  <2>3. /\ buf' = Append(buf, e) /\ blen' = blen + e.size
        /\ UNCHANGED <<endPos, toMaster>>
    BY <1>4 DEF Store, mainVars
  <2>4. buf \in Seq(Entry) /\ blen \in Nat
    BY <1>1, HalfFits DEF TypeOK
  <2>5. e.size \in Nat /\ Aligned(e.size)
    BY <2>2, EntryAligned, DmaLenType
  <2> HIDE DEF e
  <2>6. Spans(buf', blen')
    BY <2>2, <2>3, <2>4, SpansMore DEF BlockParses
  <2>7. Aligned(blen')
    <3>1. Aligned(blen)
      BY DEF BlockParses
    <3>2. blen \in Int /\ e.size \in Int
      BY <2>4, <2>5
    <3>3. Aligned(blen + e.size)
      BY <2>5, <3>1, <3>2, AlignedSum, Zenon
    <3> QED BY <2>3, <3>3
  <2> QED BY <2>3, <2>6, <2>7 DEF BlockParses, Cur
<1>5. CASE Write
  <2>0. startPos \in Int /\ endPos \in Nat /\ blen \in Nat
    BY <1>1, HalfFits DEF TypeOK
  <2>1. endPos' = endPos \/ \E wp \in {0, endPos} : endPos' = wp + blen
    <3> DEFINE wp == QueryWritePos(startPos, endPos, blen)
    <3>1. wp \in {0, endPos, NoRoom}
      BY <2>0, WritePosType
    <3>2. endPos' = endPos \/ (wp # NoRoom /\ endPos' = wp + blen)
      BY <1>5 DEF Write
    <3> HIDE DEF wp
    <3> QED BY <3>1, <3>2
  <2>2. Aligned(endPos')
    <3>1. Aligned(endPos) /\ Aligned(blen) /\ Aligned(0)
      BY NothingSpans DEF BlockParses
    <3>2. 0 \in Int /\ endPos \in Int /\ blen \in Int
      BY <2>0
    <3>3. Aligned(0 + blen) /\ Aligned(endPos + blen)
      BY <3>1, <3>2, AlignedSum, Zenon
    <3> QED BY <2>1, <3>1, <3>3
  <2>3. UNCHANGED <<buf, blen, toMaster>>
    BY <1>5 DEF Write, stageVars
  <2> QED BY <2>2, <2>3 DEF BlockParses, Cur
<1>6. CASE Notify /\ toMaster' = Append(toMaster, Written)
  <2>1. buf' = <<>> /\ blen' = 0 /\ endPos' = endPos
    <3>1. Len(toMaster') = Len(toMaster) + 1 /\ Len(toMaster) \in Nat
      BY <1>1, <1>6, BlocksType, AppendProperties, LenProperties
    <3>2. toMaster' # toMaster
      BY <3>1
    <3> QED BY <1>6, <3>2 DEF Notify
  <2>2. Written \in Note /\ endPos \in Nat /\ blen \in Nat
    BY <1>1, BlocksType, HalfFits DEF TypeOK
  <2>3. Parses(Written)
    <3>1. Aligned(endPos - blen) /\ endPos - (endPos - blen) = blen
      BY <2>2, AlignedSum DEF BlockParses
    <3> QED BY <3>1 DEF Parses, Written, BlockParses
  <2>4. \A k \in Cur(toMaster) : Parses(toMaster[k])
    BY DEF BlockParses, Parses
  <2>5. ASSUME NEW k \in Cur(toMaster') PROVE Parses(toMaster'[k])
    <3>1. k \in DOMAIN toMaster' /\ toMaster'[k].cur
      BY DEF Cur
    <3>2. CASE k = Len(toMaster) + 1
      BY <1>1, <1>6, <2>2, <2>3, <3>1, <3>2, AppendElements
    <3>3. CASE k \in DOMAIN toMaster /\ toMaster'[k] = toMaster[k]
      BY <2>4, <3>1, <3>3 DEF Cur
    <3> QED BY <1>1, <1>6, <2>2, <3>1, <3>2, <3>3, AppendElements
  <2> QED BY <2>1, <2>5, NothingSpans DEF BlockParses, Parses
<1>7. CASE MasterReads \/ MasterDiscards
  <2>1. /\ toMaster # <<>> /\ toMaster' = Tail(toMaster)
        /\ UNCHANGED <<buf, blen, endPos>>
    BY <1>7 DEF MasterReads, MasterDiscards, stageVars
  <2> QED BY <1>1, <2>1, CurTail, ParsesKept
<1>8. \/ UNCHANGED <<buf, blen, endPos, toMaster>>
      \/ Open \/ Store \/ Write \/ MasterReads \/ MasterDiscards
      \/ Notify /\ toMaster' = Append(toMaster, Written)
  <2>1. CASE Main
    BY <2>1 DEF Main, Handle, Join, Ack, stageVars
  <2>2. CASE Thread
    BY <2>2 DEF Thread, Begin, Loop, Select, Skip, FetchFails, Keep, Notify, RecvRead,
                RecvTimeout, RecvFails, stageVars
  <2>3. CASE \E c \in Encoders : \E l \in FrameLens[c] : Encode(c, l)
    BY <2>3 DEF Encode, stageVars
  <2>4. CASE Exited \/ UNCHANGED vars
    BY <2>4 DEF Exited, vars, stageVars
  <2> QED BY <2>1, <2>2, <2>3, <2>4 DEF Next
<1> QED BY <1>2, <1>3, <1>4, <1>5, <1>6, <1>7, <1>8

(* TransportData: the master, who walks every block from header to header,  *)
(* comes out at its end, and every header lies where a DMA may start.       *)
THEOREM BlocksParse == Spec => []BlockParses
<1>1. Init => BlockParses
  BY NothingSpans, CurEmpty DEF Init, BlockParses
<1> QED BY <1>1, ParsesStep, Invariance, PTL DEF Spec

-----------------------------------------------------------------------------
(* The frames in a sequence of bodies.                                      *)

Earlier(r, p) == r[1] < p[1] \/ (r[1] = p[1] /\ r[2] < p[2])

(* Function g lists the n places P from the first to the last.              *)
Lists(g, P, n) ==
  /\ g \in [1 .. n -> P]
  /\ \A j, k \in 1 .. n : j < k => Earlier(g[j], g[k])
  /\ \A p \in P : \E j \in 1 .. n : p = g[j]

(* Places are ordered. *)
LEMMA PlacesOrdered ==
  ASSUME NEW p \in Nat \X Nat, NEW r \in Nat \X Nat
  PROVE  /\ NotAfter(r, p) <=> r = p \/ Earlier(r, p)
         /\ NotAfter(r, p) <=> ~Earlier(p, r)
         /\ ~(Earlier(r, p) /\ Earlier(p, r)) /\ ~Earlier(p, p)
<1>1. p[1] \in Nat /\ p[2] \in Nat /\ r[1] \in Nat /\ r[2] \in Nat
  OBVIOUS
<1>2. r = p <=> r[1] = p[1] /\ r[2] = p[2]
  OBVIOUS
<1> QED BY <1>1, <1>2 DEF NotAfter, Earlier

LEMMA EarlierTrans ==
  ASSUME NEW p \in Nat \X Nat, NEW r \in Nat \X Nat, NEW s \in Nat \X Nat,
         Earlier(p, r), NotAfter(r, s)
  PROVE  NotAfter(p, s)
<1>1. /\ p[1] \in Nat /\ p[2] \in Nat /\ r[1] \in Nat /\ r[2] \in Nat
      /\ s[1] \in Nat /\ s[2] \in Nat
  OBVIOUS
<1> QED BY <1>1 DEF NotAfter, Earlier

(* What is listed has as many elements. *)
LEMMA ListCount ==
  ASSUME NEW P \in SUBSET (Nat \X Nat), NEW n \in Nat, NEW g, Lists(g, P, n)
  PROVE  IsFiniteSet(P) /\ Cardinality(P) = n
<1>1. ASSUME NEW j \in 1 .. n, NEW k \in 1 .. n, g[j] = g[k] PROVE j = k
  <2>1. g[j] \in Nat \X Nat
    BY DEF Lists
  <2>2. ~(j < k) /\ ~(k < j)
    BY <1>1, <2>1, PlacesOrdered DEF Lists
  <2> QED BY <2>2
<1>2. g \in Bijection(1 .. n, P)
  BY <1>1 DEF Lists, Bijection, Injection, IsInjective, Surjection
<1>3. ExistsBijection(1 .. n, P)
  BY <1>2 DEF ExistsBijection
<1>4. IsFiniteSet(P)
  BY <1>3, FS_NatBijection
<1> QED BY <1>3, <1>4, FS_CountingElements

(* The j-th in the list has rank j, and no other. *)
LEMMA ListRank ==
  ASSUME NEW P \in SUBSET (Nat \X Nat), NEW n \in Nat, NEW g, Lists(g, P, n)
  PROVE  /\ \A j \in 1 .. n : g[j] \in P /\ Rank(P, g[j]) = j
         /\ \A j \in 1 .. n : \A p \in P : Rank(P, p) = j => p = g[j]
<1>1. ASSUME NEW m \in 1 .. n PROVE Rank(P, g[m]) = m
  <2> DEFINE Q == {r \in P : NotAfter(r, g[m])}
             h == [k \in 1 .. m |-> g[k]]
  <2>1. m \in Nat /\ Q \subseteq P /\ Q \subseteq Nat \X Nat
    OBVIOUS
  <2>2. \A k \in 1 .. n : g[k] \in P /\ g[k] \in Nat \X Nat
    BY DEF Lists
  <2>3. ASSUME NEW k \in 1 .. n PROVE NotAfter(g[k], g[m]) <=> k <= m
    <3>1. CASE k < m
      BY <2>2, <3>1, PlacesOrdered DEF Lists
    <3>2. CASE k = m
      BY <2>2, <3>2, PlacesOrdered
    <3>3. CASE m < k
      BY <2>2, <3>3, PlacesOrdered DEF Lists
    <3> QED BY <3>1, <3>2, <3>3
  <2>4. \A k \in 1 .. m : k \in 1 .. n /\ h[k] = g[k] /\ g[k] \in Q
    BY <2>2, <2>3
  <2>5. \A p \in Q : \E k \in 1 .. m : p = h[k]
    <3> SUFFICES ASSUME NEW p \in Q PROVE \E k \in 1 .. m : p = h[k]
      OBVIOUS
    <3>1. PICK k \in 1 .. n : p = g[k]
      BY DEF Lists
    <3>2. k \in 1 .. m
      BY <2>3, <3>1
    <3> QED BY <3>1, <3>2
  <2>6. h \in [1 .. m -> Q]
    BY <2>4
  <2> HIDE DEF Q, h
  <2>7. \A a, b \in 1 .. m : a < b => Earlier(h[a], h[b])
    BY <2>4 DEF Lists
  <2>8. Lists(h, Q, m)
    BY <2>5, <2>6, <2>7 DEF Lists
  <2>9. Cardinality(Q) = m
    BY <2>1, <2>8, ListCount
  <2> QED BY <2>9 DEF Rank, Q
<1>2. ASSUME NEW j \in 1 .. n, NEW p \in P, Rank(P, p) = j PROVE p = g[j]
  <2>1. PICK m \in 1 .. n : p = g[m]
    BY DEF Lists
  <2> QED BY <1>1, <1>2, <2>1
<1>3. \A j \in 1 .. n : g[j] \in P
  BY DEF Lists
<1> QED BY <1>1, <1>2, <1>3

(* Every finite set of places has a list. *)
LEMMA ListExists ==
  ASSUME NEW P \in SUBSET (Nat \X Nat), IsFiniteSet(P)
  PROVE  /\ Cardinality(P) \in Nat
         /\ \E g : Lists(g, P, Cardinality(P))
<1> DEFINE n == Cardinality(P)
           upto(p) == {r \in P : NotAfter(r, p)}
           f == [p \in P |-> Rank(P, p)]
           g == [j \in 1 .. n |-> CHOOSE p \in P : Rank(P, p) = j]
<1>1. n \in Nat
  BY FS_CardinalityType
<1>2. ASSUME NEW p \in P
      PROVE  IsFiniteSet(upto(p)) /\ Rank(P, p) \in 1 .. n /\ p \in upto(p)
  <2>1. upto(p) \in SUBSET P
    OBVIOUS
  <2>2. p \in upto(p)
    BY PlacesOrdered
  <2>3. IsFiniteSet(upto(p)) /\ Cardinality(upto(p)) \in Nat /\ Cardinality(upto(p)) <= n
    BY <2>1, FS_Subset, FS_CardinalityType
  <2>4. Cardinality(upto(p)) # 0
    BY <2>2, <2>3, FS_EmptySet
  <2> QED BY <1>1, <2>2, <2>3, <2>4 DEF Rank
<1>3. ASSUME NEW p \in P PROVE Rank(P, p) \in Int
  <2>1. Rank(P, p) \in 1 .. n
    BY <1>2
  <2> HIDE DEF n
  <2> QED BY <2>1
<1>4. ASSUME NEW p \in P, NEW r \in P, Earlier(r, p) PROVE Rank(P, r) < Rank(P, p)
  <2>1. upto(r) \in SUBSET upto(p)
    BY <1>4, EarlierTrans, PlacesOrdered
  <2>2. p \notin upto(r)
    BY <1>4, PlacesOrdered
  <2>3. upto(r) # upto(p)
    BY <1>2, <2>2
  <2>4. /\ Cardinality(upto(r)) <= Cardinality(upto(p))
        /\ Cardinality(upto(r)) # Cardinality(upto(p))
    BY <1>2, <2>1, <2>3, FS_Subset
  <2>5. Rank(P, r) = Cardinality(upto(r)) /\ Rank(P, p) = Cardinality(upto(p))
    BY DEF Rank
  <2>6. Rank(P, r) \in Int /\ Rank(P, p) \in Int
    BY <1>3
  <2> QED BY <2>4, <2>5, <2>6
<1>5. ASSUME NEW p \in P, NEW r \in P, Rank(P, p) = Rank(P, r) PROVE p = r
  <2>1. ~(Rank(P, p) < Rank(P, r)) /\ ~(Rank(P, r) < Rank(P, p))
    BY <1>5, <1>3
  <2>2. ~Earlier(p, r) /\ ~Earlier(r, p)
    BY <1>4, <2>1
  <2> QED BY <2>2, PlacesOrdered
<1>6. f \in Injection(P, 1 .. n)
  <2>1. f \in [P -> 1 .. n]
    BY <1>2
  <2>2. \A p, r \in P : f[p] = f[r] => p = r
    BY <1>5
  <2> QED BY <2>1, <2>2 DEF Injection, IsInjective
<1>7. IsFiniteSet(1 .. n) /\ Cardinality(1 .. n) = n
  BY <1>1, FS_Interval
<1>8. f \in Surjection(P, 1 .. n)
  BY <1>6, <1>7, FS_Injection
<1>9. ASSUME NEW j \in 1 .. n PROVE g[j] \in P /\ Rank(P, g[j]) = j
  <2>1. \E p \in P : Rank(P, p) = j
    BY <1>8 DEF Surjection
  <2> QED BY <2>1
<1> HIDE DEF g
<1>10. ASSUME NEW j \in 1 .. n, NEW k \in 1 .. n, j < k PROVE Earlier(g[j], g[k])
  <2>1. g[j] # g[k] /\ ~Earlier(g[k], g[j])
    BY <1>4, <1>9, <1>10
  <2> QED BY <1>9, <2>1, PlacesOrdered
<1>11. \A p \in P : \E j \in 1 .. n : p = g[j]
  BY <1>2, <1>5, <1>9
<1>12. g \in [1 .. n -> P]
  BY <1>9 DEF g
<1>13. Lists(g, P, n)
  BY <1>10, <1>11, <1>12 DEF Lists
<1> QED BY <1>1, <1>13

Num == 0 .. FrameMod - 1
EntrySeqs == Seq(Seq(Entry))

(* A place is one of an entry of channel c. *)
LEMMA PlacesAre ==
  ASSUME NEW q \in EntrySeqs, NEW c
  PROVE  /\ Places(q, c) \in SUBSET (Nat \X Nat)
         /\ \A p \in Nat \X Nat :
              p \in Places(q, c) <=> /\ p[1] \in DOMAIN q /\ p[2] \in DOMAIN q[p[1]]
                                     /\ q[p[1]][p[2]].chn = c
<1>1. \A k \in DOMAIN q : k \in Nat /\ q[k] \in Seq(Entry)
  BY DEF EntrySeqs
<1>2. \A k \in DOMAIN q : \A j \in DOMAIN q[k] : j \in Nat
  BY <1>1
<1>3. \A p : p \in Places(q, c) <=>
               \E k \in DOMAIN q : p \in {k} \X {j \in DOMAIN q[k] : q[k][j].chn = c}
  BY DEF Places
<1>4. Places(q, c) \subseteq Nat \X Nat
  BY <1>1, <1>2, <1>3
<1>5. ASSUME NEW p \in Nat \X Nat
      PROVE  p \in Places(q, c) <=> /\ p[1] \in DOMAIN q /\ p[2] \in DOMAIN q[p[1]]
                                    /\ q[p[1]][p[2]].chn = c
  BY <1>3, <1>5
<1> QED BY <1>4, <1>5

LEMMA PlacesFinite ==
  ASSUME NEW q \in EntrySeqs, NEW c
  PROVE  IsFiniteSet(Places(q, c))
<1> DEFINE body(k) == {k} \X {j \in DOMAIN q[k] : q[k][j].chn = c}
           T == {body(k) : k \in DOMAIN q}
<1>1. ASSUME NEW k \in DOMAIN q PROVE IsFiniteSet(body(k))
  <2>1. q[k] \in Seq(Entry)
    BY DEF EntrySeqs
  <2>2. DOMAIN q[k] = 1 .. Len(q[k]) /\ Len(q[k]) \in Int /\ 1 \in Int
    BY <2>1
  <2>3. IsFiniteSet(DOMAIN q[k])
    BY <2>2, FS_Interval
  <2>4. IsFiniteSet({j \in DOMAIN q[k] : q[k][j].chn = c}) /\ IsFiniteSet({k})
    BY <2>3, FS_Subset, FS_Singleton
  <2> QED BY <2>4, FS_Product
<1>2. IsFiniteSet(DOMAIN q)
  <2>1. DOMAIN q = 1 .. Len(q) /\ Len(q) \in Int /\ 1 \in Int
    BY DEF EntrySeqs
  <2> QED BY <2>1, FS_Interval
<1>3. IsFiniteSet(T)
  <2> DEFINE f == [k \in DOMAIN q |-> body(k)]
  <2>1. f \in Surjection(DOMAIN q, T)
    BY DEF Surjection
  <2> QED BY <1>2, <2>1, FS_Surjection
<1>4. \A S \in T : IsFiniteSet(S)
  BY <1>1
<1>5. IsFiniteSet(UNION T)
  BY <1>3, <1>4, FS_UNION
<1> QED BY <1>5 DEF Places

(* The numbers s are those of the entries of channel c in q, one by one. *)
IsNumbers(s, q, c) ==
  /\ s \in Seq(Num)
  /\ \E g : /\ Lists(g, Places(q, c), Len(s))
            /\ \A n \in 1 .. Len(s) : s[n] = q[g[n][1]][g[n][2]].seq

LEMMA EntrySeq ==
  ASSUME NEW q \in EntrySeqs, NEW c, NEW p \in Places(q, c)
  PROVE  q[p[1]][p[2]].seq \in Num
<1>1. p[1] \in DOMAIN q /\ p[2] \in DOMAIN q[p[1]]
  BY PlacesAre
<1>2. q[p[1]] \in Seq(Entry)
  BY <1>1 DEF EntrySeqs
<1>3. q[p[1]][p[2]] \in Entry
  BY <1>1, <1>2
<1> QED BY <1>3 DEF Entry, Num

LEMMA NthPlace ==
  ASSUME NEW P, NEW N, NEW g, NEW m \in 1 .. N,
         P \in SUBSET (Nat \X Nat), N \in Nat, Lists(g, P, N)
  PROVE  Nth(P, m) = g[m]
<1>1. g[m] \in P /\ Rank(P, g[m]) = m
  BY ListRank
<1>2. \A p \in P : Rank(P, p) = m => p = g[m]
  BY ListRank
<1> QED BY <1>1, <1>2 DEF Nth

(* Numbers is the only such sequence. *)
LEMMA NumbersAre ==
  ASSUME NEW q \in EntrySeqs, NEW c, NEW s, IsNumbers(s, q, c)
  PROVE  Numbers(q, c) = s
<1> DEFINE P == Places(q, c)
<1>1. PICK g : /\ Lists(g, P, Len(s))
               /\ \A n \in 1 .. Len(s) : s[n] = q[g[n][1]][g[n][2]].seq
  BY DEF IsNumbers
<1>2. s \in Seq(Num) /\ Len(s) \in Nat
  BY DEF IsNumbers
<1>3. P \in SUBSET (Nat \X Nat)
  BY PlacesAre
<1> HIDE DEF P
<1>4. Cardinality(P) = Len(s)
  BY <1>1, <1>2, <1>3, ListCount
<1>5. ASSUME NEW n \in 1 .. Len(s) PROVE Nth(P, n) = g[n]
  <2>1. Lists(g, P, Len(s)) /\ Len(s) \in Nat
    BY <1>1, <1>2
  <2> QED BY <1>3, <2>1, NthPlace
<1>6. Numbers(q, c) = [n \in 1 .. Cardinality(P) |-> q[Nth(P, n)[1]][Nth(P, n)[2]].seq]
  BY DEF Numbers, P
<1>7. Numbers(q, c) = [n \in 1 .. Len(s) |-> s[n]]
  BY <1>1, <1>4, <1>5, <1>6
<1>8. s = [n \in 1 .. Len(s) |-> s[n]]
  BY <1>2
<1> QED BY <1>7, <1>8

LEMMA NumbersIs ==
  ASSUME NEW q \in EntrySeqs, NEW c
  PROVE  IsNumbers(Numbers(q, c), q, c)
<1> DEFINE P == Places(q, c)
<1>1. P \in SUBSET (Nat \X Nat) /\ IsFiniteSet(P)
  BY PlacesAre, PlacesFinite
<1>2. Cardinality(P) \in Nat
  BY <1>1, ListExists
<1>3. PICK g : Lists(g, P, Cardinality(P))
  BY <1>1, ListExists
<1> DEFINE s == [n \in 1 .. Cardinality(P) |-> q[g[n][1]][g[n][2]].seq]
<1>4. \A n \in 1 .. Cardinality(P) : q[g[n][1]][g[n][2]].seq \in Num
  <2>1. \A n \in 1 .. Cardinality(P) : g[n] \in P
    BY <1>3 DEF Lists
  <2> QED BY <2>1, EntrySeq
<1>5. s \in Seq(Num) /\ Len(s) = Cardinality(P)
  BY <1>2, <1>4
<1>6. \A n \in 1 .. Cardinality(P) : s[n] = q[g[n][1]][g[n][2]].seq
  OBVIOUS
<1> HIDE DEF s
<1>7. IsNumbers(s, q, c)
  BY <1>3, <1>5, <1>6 DEF IsNumbers
<1>8. Numbers(q, c) = s
  BY <1>7, NumbersAre
<1> QED BY <1>7, <1>8

(* Bodies without entries have no numbers. *)
LEMMA NumbersNone ==
  ASSUME NEW q \in EntrySeqs, NEW c, \A k \in DOMAIN q : q[k] = <<>>
  PROVE  Numbers(q, c) = <<>>
<1>1. Places(q, c) = {}
  BY DEF Places
<1>2. Lists(<<>>, {}, 0)
  BY DEF Lists
<1>3. Len(<<>>) = 0 /\ <<>> \in Seq(Num)
  OBVIOUS
<1>4. IsNumbers(<<>>, q, c)
  BY <1>1, <1>2, <1>3 DEF IsNumbers
<1> QED BY <1>4, NumbersAre

LEMMA CatIs ==
  ASSUME NEW S, NEW a \in Seq(S), NEW b \in Seq(S)
  PROVE  /\ a \o b \in Seq(S) /\ Len(a \o b) = Len(a) + Len(b)
         /\ Len(a) \in Nat /\ Len(b) \in Nat
         /\ DOMAIN a = 1 .. Len(a) /\ DOMAIN b = 1 .. Len(b)
         /\ DOMAIN (a \o b) = 1 .. Len(a) + Len(b)
         /\ \A n \in 1 .. Len(a) : (a \o b)[n] = a[n]
         /\ \A n \in 1 .. Len(b) : (a \o b)[n + Len(a)] = b[n]
OBVIOUS

(* The numbers in the bodies a, and then those in the bodies b. *)
LEMMA NumbersCat ==
  ASSUME NEW a \in EntrySeqs, NEW b \in EntrySeqs, NEW c
  PROVE  Numbers(a \o b, c) = Numbers(a, c) \o Numbers(b, c)
<1> DEFINE q == a \o b
           A == Places(a, c)
           B == Places(b, c)
           Q == Places(q, c)
           la == Len(a)
           lb == Len(b)
           sa == Numbers(a, c)
           sb == Numbers(b, c)
           s == sa \o sb
           N == Len(sa)
           M == Len(sb)
<1>1. /\ q \in EntrySeqs /\ la \in Nat /\ lb \in Nat
      /\ DOMAIN a = 1 .. la /\ DOMAIN b = 1 .. lb /\ DOMAIN q = 1 .. la + lb
      /\ \A n \in 1 .. la : q[n] = a[n]
      /\ \A n \in 1 .. lb : q[n + la] = b[n]
  BY CatIs DEF EntrySeqs
<1>2. PICK ga : Lists(ga, A, N) /\ \A n \in 1 .. N : sa[n] = a[ga[n][1]][ga[n][2]].seq
  BY NumbersIs DEF IsNumbers
<1>3. PICK gb : Lists(gb, B, M) /\ \A n \in 1 .. M : sb[n] = b[gb[n][1]][gb[n][2]].seq
  BY NumbersIs DEF IsNumbers
<1>4. sa \in Seq(Num) /\ sb \in Seq(Num)
  BY NumbersIs DEF IsNumbers
<1>5. /\ s \in Seq(Num) /\ Len(s) = N + M /\ N \in Nat /\ M \in Nat
      /\ \A n \in 1 .. N : s[n] = sa[n]
      /\ \A n \in 1 .. M : s[n + N] = sb[n]
  BY <1>4, CatIs
<1>6. /\ A \in SUBSET (Nat \X Nat) /\ B \in SUBSET (Nat \X Nat) /\ Q \in SUBSET (Nat \X Nat)
      /\ \A p \in Nat \X Nat :
           /\ p \in A <=> p[1] \in DOMAIN a /\ p[2] \in DOMAIN a[p[1]] /\ a[p[1]][p[2]].chn = c
           /\ p \in B <=> p[1] \in DOMAIN b /\ p[2] \in DOMAIN b[p[1]] /\ b[p[1]][p[2]].chn = c
           /\ p \in Q <=> p[1] \in DOMAIN q /\ p[2] \in DOMAIN q[p[1]] /\ q[p[1]][p[2]].chn = c
  <2>1. \A x \in EntrySeqs :
          /\ Places(x, c) \in SUBSET (Nat \X Nat)
          /\ \A p \in Nat \X Nat :
               p \in Places(x, c) <=> /\ p[1] \in DOMAIN x /\ p[2] \in DOMAIN x[p[1]]
                                      /\ x[p[1]][p[2]].chn = c
    BY PlacesAre
  <2>2. q \in EntrySeqs
    BY <1>1
  <2> HIDE DEF q
  <2> QED BY <2>1, <2>2
<1> HIDE DEF q, A, B, Q, la, lb, sa, sb, s, N, M
<1> DEFINE up(p) == <<p[1] + la, p[2]>>
           g == [n \in 1 .. N + M |-> IF n <= N THEN ga[n] ELSE up(gb[n - N])]
<1>7. /\ \A n \in 1 .. N : n \in 1 .. N + M /\ g[n] = ga[n] /\ ga[n] \in A
      /\ \A n \in 1 .. M : n + N \in 1 .. N + M /\ g[n + N] = up(gb[n]) /\ gb[n] \in B
  <2>1. ASSUME NEW n \in 1 .. M PROVE n + N \in 1 .. N + M /\ g[n + N] = up(gb[n])
    <3>1. n + N \in 1 .. N + M /\ ~(n + N <= N) /\ (n + N) - N = n
      BY <1>5
    <3> QED BY <3>1
  <2>2. ASSUME NEW n \in 1 .. N PROVE n \in 1 .. N + M /\ g[n] = ga[n]
    <3>1. n \in 1 .. N + M /\ n <= N
      BY <1>5
    <3> QED BY <3>1
  <2> QED BY <1>2, <1>3, <2>1, <2>2 DEF Lists
<1> HIDE DEF g
<1>8. ASSUME NEW p \in A PROVE p \in Q /\ p[1] <= la /\ q[p[1]] = a[p[1]]
  BY <1>1, <1>6
<1>9. ASSUME NEW p \in B
      PROVE  up(p) \in Q /\ up(p)[1] > la /\ q[up(p)[1]] = b[p[1]] /\ up(p)[2] = p[2]
  <2>1. p \in Nat \X Nat /\ p[1] \in 1 .. lb
    BY <1>1, <1>6
  <2>2. p[1] + la \in 1 .. la + lb /\ p[1] + la > la /\ p[1] + la \in Nat /\ p[2] \in Nat
    BY <1>1, <2>1
  <2>3. q[p[1] + la] = b[p[1]]
    BY <1>1, <2>1
  <2>4. up(p) \in Nat \X Nat /\ up(p)[1] = p[1] + la /\ up(p)[2] = p[2]
    BY <2>2
  <2> QED BY <1>1, <1>6, <2>2, <2>3, <2>4
<1>10. ASSUME NEW p \in Q
       PROVE  p \in A \/ \E r \in B : p = up(r)
  <2>1. p \in Nat \X Nat /\ p[1] \in 1 .. la + lb
    BY <1>1, <1>6
  <2>2. CASE p[1] <= la
    <3>1. p[1] \in 1 .. la
      BY <1>1, <2>1, <2>2
    <3> QED BY <1>1, <1>6, <2>1, <3>1
  <2>3. CASE ~(p[1] <= la)
    <3> DEFINE r == <<p[1] - la, p[2]>>
    <3>1. p[1] - la \in 1 .. lb /\ p[1] - la \in Nat /\ (p[1] - la) + la = p[1] /\ p[2] \in Nat
      BY <1>1, <2>1, <2>3
    <3>2. q[p[1]] = b[p[1] - la]
      BY <1>1, <3>1
    <3>3. r \in Nat \X Nat /\ r[1] = p[1] - la /\ r[2] = p[2]
      BY <3>1
    <3>4. r \in B
      BY <1>1, <1>6, <2>1, <3>1, <3>2, <3>3, SMTT(30)
    <3>5. up(r) = p
      BY <2>1, <3>1, <3>3
    <3> QED BY <3>4, <3>5
  <2> QED BY <2>2, <2>3
<1>11. \A n \in 1 .. N + M : n \in 1 .. N \/ \E m \in 1 .. M : n = m + N
  <2> SUFFICES ASSUME NEW n \in 1 .. N + M, n \notin 1 .. N PROVE \E m \in 1 .. M : n = m + N
    OBVIOUS
  <2>1. n - N \in 1 .. M /\ n = (n - N) + N
    BY <1>5
  <2> QED BY <2>1
<1>12. g \in [1 .. N + M -> Q]
  <2>1. \A n \in 1 .. N + M : g[n] \in Q
    <3> SUFFICES ASSUME NEW n \in 1 .. N + M PROVE g[n] \in Q
      OBVIOUS
    <3>1. CASE n \in 1 .. N
      BY <1>7, <1>8, <3>1
    <3>2. ASSUME NEW m \in 1 .. M, n = m + N PROVE g[n] \in Q
      <4>1. g[n] = up(gb[m]) /\ gb[m] \in B
        BY <1>7, <3>2
      <4> QED BY <1>9, <4>1
    <3> QED BY <1>11, <3>1, <3>2
  <2> QED BY <2>1 DEF g
<1>13. ASSUME NEW j \in 1 .. N + M, NEW k \in 1 .. N + M, j < k
       PROVE  Earlier(g[j], g[k])
  <2>1. CASE j \in 1 .. N /\ k \in 1 .. N
    BY <1>2, <1>7, <1>13, <2>1 DEF Lists
  <2>2. CASE j \in 1 .. N /\ k \notin 1 .. N
    <3>1. PICK m \in 1 .. M : k = m + N
      BY <1>11, <2>2
    <3>2. g[j] \in A /\ g[k] = up(gb[m]) /\ gb[m] \in B
      BY <1>7, <2>2, <3>1
    <3>3. g[j][1] \in Nat /\ g[j][1] <= la
      BY <1>6, <1>8, <3>2
    <3>4. g[k][1] > la /\ g[k][1] \in Nat
      BY <1>6, <1>9, <3>2
    <3> QED BY <1>1, <3>3, <3>4 DEF Earlier
  <2>3. CASE j \notin 1 .. N
    <3>1. PICK m \in 1 .. M : j = m + N
      BY <1>11, <2>3
    <3>2. k \notin 1 .. N
      BY <1>5, <1>13, <2>3
    <3>3. PICK l \in 1 .. M : k = l + N
      BY <1>11, <3>2
    <3>4. m < l
      BY <1>5, <1>13, <3>1, <3>3
    <3>5. Earlier(gb[m], gb[l])
      BY <1>3, <3>4 DEF Lists
    <3>6. g[j] = up(gb[m]) /\ g[k] = up(gb[l]) /\ gb[m] \in B /\ gb[l] \in B
      BY <1>7, <3>1, <3>3
    <3>7. gb[m] \in Nat \X Nat /\ gb[l] \in Nat \X Nat
      BY <1>6, <3>6
    <3>8. /\ gb[m][1] \in Nat /\ gb[l][1] \in Nat
          /\ g[j][1] = gb[m][1] + la /\ g[k][1] = gb[l][1] + la
          /\ g[j][2] = gb[m][2] /\ g[k][2] = gb[l][2]
      BY <3>6, <3>7
    <3>9. gb[m][1] < gb[l][1] \/ (gb[m][1] = gb[l][1] /\ gb[m][2] < gb[l][2])
      BY <3>5 DEF Earlier
    <3>10. \A x, y, z \in Nat : x < y => x + z < y + z
      OBVIOUS
    <3>11. la \in Nat
      BY <1>1
    <3>12. gb[m][1] < gb[l][1] => gb[m][1] + la < gb[l][1] + la
      BY <3>8, <3>10, <3>11
    <3> QED BY <3>8, <3>9, <3>12 DEF Earlier
  <2> QED BY <2>1, <2>2, <2>3
<1>14. ASSUME NEW p \in Q PROVE \E j \in 1 .. N + M : p = g[j]
  <2>1. CASE p \in A
    BY <1>2, <1>7, <2>1 DEF Lists
  <2>2. ASSUME NEW r \in B, p = up(r) PROVE \E j \in 1 .. N + M : p = g[j]
    <3>1. PICK m \in 1 .. M : r = gb[m]
      BY <1>3 DEF Lists
    <3> QED BY <1>7, <2>2, <3>1
  <2> QED BY <1>10, <2>1, <2>2
<1>15. Lists(g, Q, N + M)
  BY <1>12, <1>13, <1>14 DEF Lists
<1>16. ASSUME NEW n \in 1 .. N + M PROVE s[n] = q[g[n][1]][g[n][2]].seq
  <2>1. CASE n \in 1 .. N
    BY <1>2, <1>5, <1>7, <1>8, <2>1
  <2>2. ASSUME NEW m \in 1 .. M, n = m + N PROVE s[n] = q[g[n][1]][g[n][2]].seq
    <3>1. g[n] = up(gb[m]) /\ gb[m] \in B /\ s[n] = sb[m] /\ sb[m] = b[gb[m][1]][gb[m][2]].seq
      BY <1>3, <1>5, <1>7, <2>2
    <3>2. q[up(gb[m])[1]] = b[gb[m][1]] /\ up(gb[m])[2] = gb[m][2]
      <4>1. gb[m] \in B
        BY <3>1
      <4> HIDE DEF up
      <4> QED BY <1>9, <4>1
    <3> QED BY <3>1, <3>2
  <2> QED BY <1>11, <2>1, <2>2
<1>17. IsNumbers(s, q, c)
  BY <1>5, <1>15, <1>16 DEF IsNumbers, Q
<1>18. Numbers(q, c) = s
  BY <1>1, <1>17, NumbersAre
<1> QED BY <1>18 DEF q, s, sa, sb

(* The places of one body. *)
LEMMA BodyPlaces ==
  ASSUME NEW body \in Seq(Entry), NEW c
  PROVE  /\ <<body>> \in EntrySeqs
         /\ \A p \in Places(<<body>>, c) : p \in Nat \X Nat /\ p = <<1, p[2]>>
         /\ \A j : <<1, j>> \in Places(<<body>>, c)
                     <=> j \in 1 .. Len(body) /\ body[j].chn = c
<1>1. <<body>> \in EntrySeqs /\ DOMAIN <<body>> = {1} /\ <<body>>[1] = body
  BY DEF EntrySeqs
<1>2. DOMAIN body = 1 .. Len(body) /\ Len(body) \in Nat
  OBVIOUS
<1>3. Places(<<body>>, c) \in SUBSET (Nat \X Nat)
  BY <1>1, PlacesAre
<1>4. \A p : p \in Places(<<body>>, c)
               <=> p \in {1} \X {j \in 1 .. Len(body) : body[j].chn = c}
  BY <1>1, <1>2 DEF Places
<1> QED BY <1>1, <1>2, <1>3, <1>4

(* One more entry in a body is one more number, or none. *)
LEMMA NumbersMore ==
  ASSUME NEW body \in Seq(Entry), NEW e \in Entry, NEW c
  PROVE  Numbers(<<Append(body, e)>>, c) =
           IF e.chn = c THEN Append(Numbers(<<body>>, c), e.seq) ELSE Numbers(<<body>>, c)
<1> DEFINE more == Append(body, e)
           len == Len(body)
           P == Places(<<body>>, c)
           Q == Places(<<more>>, c)
           s == Numbers(<<body>>, c)
           n == Len(s)
           new == <<1, len + 1>>
<1>1. /\ more \in Seq(Entry) /\ Len(more) = len + 1 /\ len \in Nat
      /\ \A j \in 1 .. len : more[j] = body[j]
      /\ more[len + 1] = e
  OBVIOUS
<1>2. /\ <<body>> \in EntrySeqs /\ <<more>> \in EntrySeqs
      /\ <<body>>[1] = body /\ <<more>>[1] = more
  BY <1>1, BodyPlaces
<1>3. PICK g : Lists(g, P, n) /\ \A k \in 1 .. n : s[k] = <<body>>[g[k][1]][g[k][2]].seq
  <2>1. IsNumbers(s, <<body>>, c)
    BY <1>2, NumbersIs
  <2> HIDE DEF more, s, n
  <2> QED BY <2>1 DEF IsNumbers, n
<1>4. s \in Seq(Num) /\ n \in Nat
  BY <1>2, NumbersIs DEF IsNumbers
<1>5. /\ \A p \in P : p \in Nat \X Nat /\ p = <<1, p[2]>>
      /\ \A j : <<1, j>> \in P <=> j \in 1 .. len /\ body[j].chn = c
  BY BodyPlaces
<1>6. /\ \A p \in Q : p \in Nat \X Nat /\ p = <<1, p[2]>>
      /\ \A j : <<1, j>> \in Q <=> j \in 1 .. len + 1 /\ more[j].chn = c
  <2>1. more \in Seq(Entry) /\ Len(more) = len + 1
    BY <1>1
  <2> HIDE DEF more
  <2> QED BY <2>1, BodyPlaces
<1> HIDE DEF more, P, Q, s, n, len
<1>7. ASSUME NEW p \in P PROVE p \in Q /\ Earlier(p, new) /\ more[p[2]] = body[p[2]]
  <2>1. p = <<1, p[2]>> /\ p[2] \in 1 .. len /\ body[p[2]].chn = c
    BY <1>5
  <2>2. more[p[2]] = body[p[2]] /\ p[2] \in 1 .. len + 1 /\ p[2] < len + 1
    BY <1>1, <2>1
  <2>3. p[1] = 1
    BY <2>1
  <2>4. p \in Q
    BY <1>6, <2>1, <2>2
  <2>5. Earlier(p, new)
    BY <2>2, <2>3 DEF Earlier
  <2> QED BY <2>2, <2>4, <2>5
<1>8. ASSUME NEW p \in Q PROVE p \in P \/ (p = new /\ e.chn = c)
  <2>1. p = <<1, p[2]>> /\ p[2] \in 1 .. len + 1 /\ more[p[2]].chn = c
    BY <1>6
  <2>2. CASE p[2] \in 1 .. len
    BY <1>1, <1>5, <2>1, <2>2
  <2>3. CASE p[2] = len + 1
    BY <1>1, <2>1, <2>3
  <2> QED BY <1>1, <2>1, <2>2, <2>3
<1>9. CASE e.chn # c
  <2>1. P = Q
    BY <1>7, <1>8, <1>9
  <2>2. ASSUME NEW k \in 1 .. n PROVE s[k] = <<more>>[g[k][1]][g[k][2]].seq
    <3>1. g[k] \in P
      BY <1>3 DEF Lists
    <3>2. g[k][1] = 1 /\ more[g[k][2]] = body[g[k][2]]
      BY <1>5, <1>7, <3>1
    <3> QED BY <1>2, <1>3, <3>2
  <2>3. IsNumbers(s, <<more>>, c)
    BY <1>3, <1>4, <2>1, <2>2 DEF IsNumbers, n, Q
  <2>4. Numbers(<<more>>, c) = s
    BY <1>2, <2>3, NumbersAre
  <2> QED BY <1>9, <2>4 DEF more, s
<1>10. CASE e.chn = c
  <2> DEFINE t == Append(s, e.seq)
             h == [k \in 1 .. n + 1 |-> IF k = n + 1 THEN new ELSE g[k]]
  <2>1. e.seq \in Num
    BY DEF Entry, Num
  <2>2. /\ t \in Seq(Num) /\ Len(t) = n + 1 /\ t[n + 1] = e.seq
        /\ \A k \in 1 .. n : t[k] = s[k]
    BY <1>4, <2>1 DEF n
  <2>3. new \in Q
    BY <1>1, <1>6, <1>10
  <2>4. /\ h[n + 1] = new
        /\ \A k \in 1 .. n : k \in 1 .. n + 1 /\ h[k] = g[k] /\ g[k] \in P
    BY <1>3, <1>4 DEF Lists
  <2>5. \A k \in 1 .. n + 1 : k = n + 1 \/ k \in 1 .. n
    BY <1>4
  <2>6. h \in [1 .. n + 1 -> Q]
    <3>1. \A k \in 1 .. n + 1 : h[k] \in Q
      BY <1>7, <2>3, <2>4, <2>5
    <3> QED BY <3>1
  <2> HIDE DEF h, t
  <2>7. ASSUME NEW j \in 1 .. n + 1, NEW k \in 1 .. n + 1, j < k PROVE Earlier(h[j], h[k])
    <3>1. j \in 1 .. n
      BY <1>4, <2>7
    <3>2. CASE k \in 1 .. n
      BY <1>3, <2>4, <2>7, <3>1, <3>2 DEF Lists
    <3>3. CASE k = n + 1
      BY <1>7, <2>4, <3>1, <3>3
    <3> QED BY <2>5, <3>2, <3>3
  <2>8. ASSUME NEW p \in Q PROVE \E k \in 1 .. n + 1 : p = h[k]
    <3>1. CASE p \in P
      BY <1>3, <2>4, <3>1 DEF Lists
    <3>2. CASE p = new
      BY <1>4, <2>4, <3>2
    <3> QED BY <1>8, <3>1, <3>2
  <2>9. Lists(h, Q, n + 1)
    BY <2>6, <2>7, <2>8 DEF Lists
  <2>10. ASSUME NEW k \in 1 .. n + 1 PROVE t[k] = <<more>>[h[k][1]][h[k][2]].seq
    <3>1. CASE k \in 1 .. n
      <4>1. h[k] = g[k] /\ g[k] \in P
        BY <2>4, <3>1
      <4>2. g[k][1] = 1 /\ more[g[k][2]] = body[g[k][2]]
        BY <1>5, <1>7, <4>1
      <4>3. t[k] = s[k] /\ s[k] = <<body>>[g[k][1]][g[k][2]].seq
        BY <1>3, <2>2, <3>1
      <4> QED BY <1>2, <4>1, <4>2, <4>3
    <3>2. CASE k = n + 1
      <4>1. h[k] = new /\ t[k] = e.seq
        BY <2>2, <2>4, <3>2
      <4>2. h[k][1] = 1 /\ h[k][2] = len + 1
        BY <4>1
      <4> QED BY <1>1, <1>2, <4>1, <4>2
    <3> QED BY <2>5, <3>1, <3>2
  <2>11. IsNumbers(t, <<more>>, c)
    BY <2>2, <2>9, <2>10 DEF IsNumbers, Q
  <2>12. Numbers(<<more>>, c) = t
    BY <1>2, <2>11, NumbersAre
  <2> QED BY <1>10, <2>12 DEF more, t, s
<1> QED BY <1>9, <1>10

(* The last number is that of the last frame, which the master keeps. *)
LEMMA NumbersLast ==
  ASSUME NEW body \in Seq(Entry), NEW c, NEW x
  PROVE  LET s == Numbers(<<body>>, c)
         IN  LastSeen(x, body, c) = IF Len(s) = 0 THEN x ELSE s[Len(s)]
<1> DEFINE P == Places(<<body>>, c)
           s == Numbers(<<body>>, c)
           n == Len(s)
           mine == {k \in DOMAIN body : body[k].chn = c}
<1>1. <<body>> \in EntrySeqs /\ <<body>>[1] = body /\ DOMAIN body = 1 .. Len(body)
      /\ Len(body) \in Nat
  BY BodyPlaces
<1>2. PICK g : Lists(g, P, n) /\ \A k \in 1 .. n : s[k] = <<body>>[g[k][1]][g[k][2]].seq
  <2>1. IsNumbers(s, <<body>>, c)
    BY <1>1, NumbersIs
  <2> HIDE DEF s, n
  <2> QED BY <2>1 DEF IsNumbers, n
<1>3. n \in Nat
  BY <1>1, NumbersIs DEF IsNumbers
<1>4. /\ \A p \in P : p \in Nat \X Nat /\ p = <<1, p[2]>>
      /\ \A j : <<1, j>> \in P <=> j \in 1 .. Len(body) /\ body[j].chn = c
  BY BodyPlaces
<1>5. \A j : j \in mine <=> <<1, j>> \in P
  BY <1>1, <1>4
<1> HIDE DEF P, s, n
<1>6. CASE n = 0
  <2>1. P = {}
    BY <1>2, <1>6 DEF Lists
  <2>2. mine = {}
    BY <1>5, <2>1
  <2> QED BY <1>6, <2>2 DEF LastSeen, s, n
<1>7. CASE n # 0
  <2> DEFINE last == g[n][2]
  <2>1. n \in 1 .. n
    BY <1>3, <1>7
  <2>2. g[n] \in P
    BY <1>2, <2>1 DEF Lists
  <2>3. g[n] = <<1, last>> /\ last \in mine /\ last \in Nat
    BY <1>4, <1>5, <2>2
  <2>4. s[n] = body[last].seq
    <3>1. g[n][1] = 1
      BY <2>3
    <3> QED BY <1>1, <1>2, <2>1, <3>1
  <2>5. ASSUME NEW j \in mine PROVE j <= last
    <3>1. PICK k \in 1 .. n : <<1, j>> = g[k]
      BY <1>2, <1>5 DEF Lists
    <3>2. CASE k = n
      BY <2>3, <3>1, <3>2
    <3>3. CASE k < n
      <4>1. Earlier(g[k], g[n])
        BY <1>2, <2>1, <3>3 DEF Lists
      <4>2. g[k][1] = 1 /\ g[k][2] = j /\ g[n][1] = 1
        BY <2>3, <3>1
      <4> QED BY <1>1, <2>3, <4>1, <4>2 DEF Earlier
    <3> QED BY <1>3, <3>2, <3>3
  <2> HIDE DEF last
  <2>6. \A k \in mine : (\A j \in mine : j <= k) => k = last
    <3>1. \A k \in mine : k \in Nat
      BY <1>1
    <3> QED BY <2>3, <2>5, <3>1
  <2>7. (CHOOSE k \in mine : \A j \in mine : j <= k) = last
    BY <2>3, <2>5, <2>6
  <2>8. LastSeen(x, body, c) = body[last].seq
    <3>1. mine # {}
      BY <2>3
    <3> QED BY <2>7, <3>1 DEF LastSeen
  <2> QED BY <1>7, <2>4, <2>8 DEF s, n
<1> QED BY <1>6, <1>7

-----------------------------------------------------------------------------
(* The transport implements FrameStream. *)

(* What the mapping needs besides IInv: frames wait with the encoder that    *)
(* made them, no stream is left over when a session begins, and an           *)
(* announcement of another session has no entries.                           *)
Streams ==
  /\ \A c \in Chns : \A k \in DOMAIN venc[c] : venc[c][k].chn = c
  /\ pc \in {"off", "begin"} => st = NoFrame
  /\ \A k \in DOMAIN toMaster : ~toMaster[k].cur => toMaster[k].body = <<>>

LEMMA BodiesType == TypeOK => Bodies \in EntrySeqs
<1> SUFFICES ASSUME TypeOK PROVE Bodies \in EntrySeqs
  OBVIOUS
<1>1. /\ toMaster \in Seq(Note) /\ Len(toMaster) \in Nat
      /\ DOMAIN toMaster = 1 .. Len(toMaster)
  BY LenProperties DEF TypeOK
<1>2. \A k \in 1 .. Len(toMaster) : toMaster[k] \in Note
  BY <1>1
<1>3. \A k \in 1 .. Len(toMaster) : toMaster[k].body \in Seq(Entry)
  BY <1>2 DEF Note
<1>4. Bodies = [k \in 1 .. Len(toMaster) |-> toMaster[k].body]
  BY <1>1 DEF Bodies
<1>5. Bodies \in [1 .. Len(toMaster) -> Seq(Entry)]
  BY <1>3, <1>4
<1> QED BY <1>1, <1>5 DEF EntrySeqs

Typed ==
  /\ Bodies \in EntrySeqs
  /\ \A c \in Chns :
       /\ Copied(c) \in Seq(Num) /\ LeftOver(c) \in Seq(Num) /\ Taken(c) \in Seq(Num)
       /\ Queued(c) \in Seq(Num) /\ Held(c) \in Seq(Num) /\ Sent(c) \in Seq(Num)

LEMMA StreamTypes == TypeOK => Typed
<1> SUFFICES ASSUME TypeOK, NEW c \in Chns
             PROVE  /\ Copied(c) \in Seq(Num) /\ LeftOver(c) \in Seq(Num)
                    /\ Taken(c) \in Seq(Num)
                    /\ Queued(c) \in Seq(Num) /\ Held(c) \in Seq(Num)
                    /\ Sent(c) \in Seq(Num)
  BY BodiesType DEF Typed
<1>1. Copied(c) \in Seq(Num)
  <2>1. <<buf>> \in EntrySeqs
    BY BodyPlaces DEF TypeOK
  <2>2. IsNumbers(Numbers(<<buf>>, c), <<buf>>, c)
    BY <2>1, NumbersIs
  <2> QED BY <2>2 DEF IsNumbers, Copied
<1>2. LeftOver(c) \in Seq(Num)
  <2>1. st.chn = c => st.seq \in Num
    <3>1. st \in Frame => st.seq \in Num
      BY DEF Frame, Num
    <3>2. st = NoFrame => st.chn # c
      BY ChnType DEF NoFrame
    <3> QED BY <3>1, <3>2 DEF TypeOK
  <2> QED BY <2>1 DEF LeftOver
<1>3. Taken(c) \in Seq(Num)
  BY <1>1, <1>2, ConcatProperties DEF Taken
<1>4. Queued(c) \in Seq(Num)
  <2>1. /\ venc[c] \in Seq(Frame) /\ Len(venc[c]) \in Nat
        /\ DOMAIN venc[c] = 1 .. Len(venc[c])
    BY LenProperties DEF TypeOK
  <2>2. \A k \in 1 .. Len(venc[c]) : venc[c][k] \in Frame
    BY <2>1
  <2>3. \A k \in 1 .. Len(venc[c]) : venc[c][k].seq \in Num
    BY <2>2 DEF Frame, Num
  <2>4. Queued(c) \in [1 .. Len(venc[c]) -> Num]
    BY <2>1, <2>3 DEF Queued
  <2> QED BY <2>1, <2>4
<1>5. Held(c) \in Seq(Num)
  <2>1. InThread(c) \in Seq(Num)
    BY <1>3 DEF InThread
  <2> QED BY <1>4, <2>1, ConcatProperties DEF Held
<1>6. Sent(c) \in Seq(Num)
  <2>1. IsNumbers(Numbers(Bodies, c), Bodies, c)
    BY BodiesType, NumbersIs
  <2> QED BY <2>1 DEF IsNumbers, Sent
<1> QED BY <1>1, <1>2, <1>3, <1>4, <1>5, <1>6

LEMMA StreamTypesNext == TypeOK' => Typed'
BY StreamTypes, PTL

(* A front part f of every queue of h, and what is behind it.                *)
LEMMA FrontAndRest ==
  ASSUME NEW f \in [Chns -> Seq(Num)], NEW g \in [Chns -> Seq(Num)],
         NEW h \in [Chns -> Seq(Num)], \A c \in Chns : h[c] = f[c] \o g[c]
  PROVE  LET n == [c \in Chns |-> Len(f[c])]
         IN  /\ n \in Stream!Counts(h)
             /\ Stream!First(h, n) = f /\ Stream!Rest(h, n) = g
<1> DEFINE n == [c \in Chns |-> Len(f[c])]
<1>1. ASSUME NEW c \in Chns
      PROVE  /\ n[c] \in 0 .. Len(h[c])
             /\ SubSeq(h[c], 1, n[c]) = f[c]
             /\ SubSeq(h[c], n[c] + 1, Len(h[c])) = g[c]
  <2> DEFINE a == f[c]
             b == g[c]
  <2>1. a \in Seq(Num) /\ b \in Seq(Num) /\ h[c] = a \o b /\ n[c] = Len(a)
    OBVIOUS
  <2> HIDE DEF a, b, n
  <2>2. /\ Len(a) \in Nat /\ Len(b) \in Nat /\ Len(a \o b) = Len(a) + Len(b)
        /\ \A k \in 1 .. Len(a) : (a \o b)[k] = a[k]
        /\ \A k \in 1 .. Len(b) : (a \o b)[k + Len(a)] = b[k]
    BY <2>1, CatIs
  <2>3. SubSeq(a \o b, 1, Len(a)) = a
    <3>1. SubSeq(a \o b, 1, Len(a)) = [k \in 1 .. Len(a) |-> (a \o b)[k]]
      BY <2>2
    <3> QED BY <2>1, <2>2, <3>1
  <2>4. SubSeq(a \o b, Len(a) + 1, Len(a \o b)) = b
    <3>1. SubSeq(a \o b, Len(a) + 1, Len(a) + Len(b))
            = [k \in 1 .. Len(b) |-> (a \o b)[k + Len(a)]]
      BY <2>2
    <3> QED BY <2>1, <2>2, <3>1
  <2> QED BY <2>1, <2>2, <2>3, <2>4 DEF a, b
<1> HIDE DEF n
<1>2. n \in Stream!Counts(h)
  <2>1. n \in [Chns -> UNION {0 .. Len(h[c]) : c \in Chns}]
    <3>1. \A c \in Chns : n[c] \in UNION {0 .. Len(h[d]) : d \in Chns}
      BY <1>1
    <3> QED BY <3>1 DEF n
  <2>2. \A c \in Chns : n[c] <= Len(h[c])
    BY <1>1
  <2> QED BY <2>1, <2>2 DEF Stream!Counts
<1>3. Stream!First(h, n) = f
  BY <1>1 DEF Stream!First
<1>4. Stream!Rest(h, n) = g
  BY <1>1 DEF Stream!Rest
<1> QED BY <1>2, <1>3, <1>4 DEF n

LEMMA StreamsStep == IInv /\ Streams /\ [Next]_vars => Streams'
<1> SUFFICES ASSUME IInv, Streams, [Next]_vars PROVE Streams'
  OBVIOUS
<1>0. TypeOK /\ Scanning /\ Lifecycle
  BY DEF IInv
<1>1. \A c \in Chns : \A k \in DOMAIN venc'[c] : venc'[c][k].chn = c
  <2>1. CASE UNCHANGED venc
    BY <2>1 DEF Streams
  <2>2. CASE pc = "scan" /\ (full \/ i \in ready) /\ Take
    <3>1. CASE full
      BY <2>2, <3>1 DEF Take, Streams
    <3>2. CASE ~full
      <4>1. /\ venc' = [venc EXCEPT ![i] = Tail(@)]
            /\ i \in Chns /\ venc[i] \in Seq(Frame) /\ venc[i] # <<>>
        BY <1>0, <2>2, <3>2, ChnType DEF Take, TypeOK, Scanning
      <4>2. /\ Tail(venc[i]) \in Seq(Frame)
            /\ \A k \in DOMAIN Tail(venc[i]) :
                 k + 1 \in DOMAIN venc[i] /\ Tail(venc[i])[k] = venc[i][k + 1]
        <5> DEFINE q == venc[i]
        <5>1. q \in Seq(Frame) /\ q # <<>>
          BY <4>1
        <5> HIDE DEF q
        <5> QED BY <5>1, TailElements, HeadTailProperties, LenProperties DEF q
      <4>3. \A k \in DOMAIN venc'[i] : venc'[i][k].chn = i
        BY <1>0, <4>1, <4>2 DEF Streams, TypeOK
      <4> QED BY <1>0, <4>1, <4>3 DEF Streams, TypeOK
    <3> QED BY <3>1, <3>2
  <2>3. ASSUME NEW c \in Encoders, NEW l \in FrameLens[c], Encode(c, l)
        PROVE  \A d \in Chns : \A k \in DOMAIN venc'[d] : venc'[d][k].chn = d
    <3> DEFINE f == [chn |-> c, seq |-> encSeq[c], len |-> l]
    <3>1. /\ c \in Chns /\ venc[c] \in Seq(Frame) /\ f.chn = c
          /\ venc' = [venc EXCEPT ![c] = Append(@, f)]
      BY <1>0, <2>3, TransAssumption DEF Encode, TypeOK
    <3>2. f \in Frame
      <4>1. encSeq[c] \in 0 .. FrameMod - 1
        BY <1>0, <3>1 DEF TypeOK
      <4> QED BY <3>1, <4>1 DEF Frame
    <3> HIDE DEF f
    <3>3. \A k \in DOMAIN venc'[c] : venc'[c][k].chn = c
      <4> SUFFICES ASSUME NEW k \in DOMAIN Append(venc[c], f)
                   PROVE  Append(venc[c], f)[k].chn = c
        BY <1>0, <3>1 DEF TypeOK
      <4>1. \/ k = Len(venc[c]) + 1 /\ Append(venc[c], f)[k] = f
            \/ k \in DOMAIN venc[c] /\ Append(venc[c], f)[k] = venc[c][k]
        BY <3>1, <3>2, AppendElements
      <4> QED BY <3>1, <4>1 DEF Streams
    <3> QED BY <1>0, <3>1, <3>3 DEF Streams, TypeOK
  <2>4. CASE Main
    BY <2>1, <2>4 DEF Main, Handle, Join, Open, Ack, encVars
  <2>5. CASE Thread
    BY <2>1, <2>2, <2>5 DEF Thread, Begin, Loop, Select, Skip, FetchFails, Store, Keep,
       Write, Notify, RecvRead, RecvTimeout, RecvFails, encVars
  <2>6. CASE MasterReads \/ MasterDiscards \/ Exited \/ UNCHANGED vars
    BY <2>1, <2>6 DEF MasterReads, MasterDiscards, Exited, vars, encVars
  <2> QED BY <2>3, <2>4, <2>5, <2>6 DEF Next
<1>2. pc' \in {"off", "begin"} => st' = NoFrame
  <2>1. CASE Main
    BY <1>0, <2>1 DEF Main, Handle, Join, Open, Ack, threadVars, Streams, Lifecycle
  <2>2. CASE Begin \/ Loop \/ Select \/ FetchFails \/ Write \/ Notify \/ RecvFails
    BY <2>2 DEF Begin, Loop, Select, FetchFails, Write, Notify, RecvFails
  <2>3. CASE Skip \/ Store \/ Keep
    BY <2>3 DEF Skip, Store, Keep, NextChn
  <2>4. CASE RecvRead \/ RecvTimeout
    BY <2>4 DEF RecvRead, RecvTimeout, Dispatch
  <2>5. CASE (\E c \in Encoders : \E l \in FrameLens[c] : Encode(c, l))
             \/ MasterReads \/ MasterDiscards \/ Exited \/ UNCHANGED vars
    BY <2>5 DEF Encode, MasterReads, MasterDiscards, Exited, vars, threadVars, Streams
  <2> QED BY <2>1, <2>2, <2>3, <2>4, <2>5 DEF Next, Thread
<1>3. \A k \in DOMAIN toMaster' : ~toMaster'[k].cur => toMaster'[k].body = <<>>
  <2>0. toMaster \in Seq(Note) /\ Len(toMaster) \in Nat /\ DOMAIN toMaster = 1 .. Len(toMaster)
    BY <1>0, LenProperties DEF TypeOK
  <2>1. CASE UNCHANGED toMaster
    BY <2>1 DEF Streams
  <2>2. CASE Open
    <3>1. toMaster' = RetireNotes(toMaster)
      BY <2>2 DEF Open
    <3>2. \A k \in DOMAIN toMaster : toMaster[k] \in Note
      BY <2>0
    <3>3. \A k \in DOMAIN toMaster : [toMaster[k] EXCEPT !.cur = FALSE, !.body = <<>>].body = <<>>
      BY <3>2 DEF Note
    <3> QED BY <3>1, <3>3 DEF RetireNotes
  <2>3. CASE toMaster' = Append(toMaster, Written)
    <3>1. Written \in Note /\ Written.cur
      BY <1>0, BlocksType DEF Written
    <3>2. ASSUME NEW k \in DOMAIN toMaster'
          PROVE  \/ k = Len(toMaster) + 1 /\ toMaster'[k] = Written
                 \/ k \in DOMAIN toMaster /\ toMaster'[k] = toMaster[k]
      BY <2>0, <2>3, <3>1, AppendElements
    <3> QED BY <3>1, <3>2 DEF Streams
  <2>4. CASE toMaster # <<>> /\ toMaster' = Tail(toMaster)
    BY <2>0, <2>4, TailElements, HeadTailProperties, LenProperties DEF Streams
  <2>5. CASE Main
    BY <2>1, <2>2, <2>5 DEF Main, Handle, Join, Ack
  <2>6. CASE Thread
    BY <2>1, <2>3, <2>6 DEF Thread, Begin, Loop, Select, Skip, FetchFails, Store, Keep,
       Write, Notify, RecvRead, RecvTimeout, RecvFails
  <2>7. CASE (\E c \in Encoders : \E l \in FrameLens[c] : Encode(c, l))
             \/ MasterReads \/ MasterDiscards \/ Exited \/ UNCHANGED vars
    BY <2>1, <2>4, <2>7 DEF Encode, MasterReads, MasterDiscards, Exited, vars
  <2> QED BY <2>5, <2>6, <2>7 DEF Next
<1> QED BY <1>1, <1>2, <1>3 DEF Streams

(* A step that leaves the two queues of every channel alone, and what the    *)
(* thread has of the first, stutters.                                        *)
LEMMA StreamKept ==
  ASSUME pc' \in Alive <=> pc \in Alive,
         \A c \in Chns : Held(c)' = Held(c), \A c \in Chns : Sent(c)' = Sent(c),
         \A c \in Chns : Len(InThread(c))' = Len(InThread(c)),
         UNCHANGED <<seen, encSeq>>
  PROVE  UNCHANGED Stream!vars
<1>1. [c \in Chns |-> Held(c)]' = [c \in Chns |-> Held(c)]
  BY Zenon
<1>2. [c \in Chns |-> Sent(c)]' = [c \in Chns |-> Sent(c)]
  BY Zenon
<1>3. (pc \in Alive)' = (pc \in Alive)
  BY DEF Alive
<1>4. [c \in Chns |-> Len(InThread(c))]' = [c \in Chns |-> Len(InThread(c))]
  BY Zenon
<1> QED BY <1>1, <1>2, <1>3, <1>4, Zenon DEF Stream!vars

LEMMA SentSame == UNCHANGED toMaster => \A c \in Chns : Sent(c)' = Sent(c)
BY DEF Sent, Bodies

LEMMA TakenSame ==
  UNCHANGED <<buf, st>> => \A c \in Chns : Taken(c)' = Taken(c)
BY DEF Taken, Copied, LeftOver

LEMMA QueuedSame == UNCHANGED venc => \A c \in Chns : Queued(c)' = Queued(c)
BY DEF Queued

(* How many frames of each channel the thread has; and how many it leaves.   *)
Had == [c \in Chns |-> Len(InThread(c))]
Has == [c \in Chns |-> Len(Taken(c)')]

(* While the thread lives, moving its frames about is no step of the stream. *)
LEMMA StreamMoved ==
  ASSUME TypeOK, TypeOK', pc \in Alive, pc' \in Alive,
         \A c \in Chns : Taken(c)' \o Queued(c)' = Taken(c) \o Queued(c),
         \A c \in Chns : Len(Taken(c)') = Len(Taken(c)),
         UNCHANGED <<toMaster, seen, encSeq>>
  PROVE  UNCHANGED Stream!vars
<1>1. \A c \in Chns : Held(c)' = Held(c) /\ Len(InThread(c))' = Len(InThread(c))
  BY DEF Held, InThread
<1> QED BY <1>1, SentSame, StreamKept

(* Moving one from its encoder to the batch is Take.                         *)
LEMMA StreamTakes ==
  ASSUME TypeOK, TypeOK', pc \in Alive, pc' \in Alive,
         \A c \in Chns : Taken(c)' \o Queued(c)' = Taken(c) \o Queued(c),
         Has \in Stream!Takes,
         UNCHANGED <<toMaster, seen, encSeq>>
  PROVE  Stream!Take
<1>1. \A c \in Chns : Held(c)' = Held(c) /\ Len(InThread(c))' = Len(Taken(c)')
  BY DEF Held, InThread
<1>2. [c \in Chns |-> Held(c)]' = [c \in Chns |-> Held(c)]
  BY <1>1, Zenon
<1>3. [c \in Chns |-> Sent(c)]' = [c \in Chns |-> Sent(c)]
  BY SentSame, Zenon
<1>4. [c \in Chns |-> Len(InThread(c))]' = Has
  BY <1>1, Zenon DEF Has
<1>5. pc \in Alive /\ (pc \in Alive)' = (pc \in Alive)
  BY DEF Alive
<1> QED BY <1>2, <1>3, <1>4, <1>5, Zenon DEF Stream!Take

(* Nor is anything while it does not.                                        *)
LEMMA StreamIdle ==
  ASSUME TypeOK, TypeOK', pc \notin Alive, pc' \notin Alive,
         UNCHANGED <<venc, toMaster, seen, encSeq>>
  PROVE  UNCHANGED Stream!vars
<1>1. \A c \in Chns : Held(c)' = Held(c) /\ Len(InThread(c))' = Len(InThread(c))
  BY QueuedSame DEF Held, InThread
<1> QED BY <1>1, SentSame, StreamKept

(* A thread that ends loses what it had taken, or was taking.                *)
LEMMA StreamStops ==
  ASSUME TypeOK, TypeOK', pc \in Alive, pc' \notin Alive,
         \A c \in Chns : Taken(c)' \o Queued(c)' = Taken(c) \o Queued(c),
         Has \in Stream!Takes \cup {Had},
         UNCHANGED <<toMaster, seen, encSeq>>
  PROVE  Stream!Stop
<1> DEFINE f == [c \in Chns |-> Taken(c)']
           g == [c \in Chns |-> Queued(c)']
           h == [c \in Chns |-> Held(c)]
           n == [c \in Chns |-> Len(f[c])]
<1>1. /\ f \in [Chns -> Seq(Num)] /\ g \in [Chns -> Seq(Num)] /\ h \in [Chns -> Seq(Num)]
  BY StreamTypes, StreamTypesNext DEF Typed
<1>2. \A c \in Chns : h[c] = Taken(c) \o Queued(c)
  BY DEF Held, InThread
<1>3. \A c \in Chns : h[c] = f[c] \o g[c]
  BY <1>2
<1>4. \A c \in Chns : Held(c)' = <<>> \o Queued(c)' /\ Len(InThread(c))' = 0
  BY DEF Held, InThread
<1>5. \A c \in Chns : Held(c)' = Queued(c)'
  BY <1>4, StreamTypesNext, ConcatEmptySeq DEF Typed
<1>6. [c \in Chns |-> Held(c)]' = g
  BY <1>5, Zenon
<1>7. n = Has
  BY Zenon DEF Has
<1>8. [c \in Chns |-> Len(InThread(c))]' = [c \in Chns |-> 0]
  BY <1>4, Zenon
<1> HIDE DEF f, g, h
<1>9. Stream!Rest(h, n) = g
  BY <1>1, <1>3, FrontAndRest
<1> HIDE DEF n
<1>10. [c \in Chns |-> Sent(c)]' = [c \in Chns |-> Sent(c)]
  BY SentSame, Zenon
<1>11. \E m \in Stream!Takes \cup {[c \in Chns |-> Len(InThread(c))]} :
         [c \in Chns |-> Held(c)]' = Stream!Rest([c \in Chns |-> Held(c)], m)
  BY <1>6, <1>7, <1>9 DEF h, Had
<1>12. pc \in Alive /\ (pc \in Alive)' = FALSE
  BY DEF Alive
<1> QED BY <1>8, <1>10, <1>11, <1>12, Zenon DEF Stream!Stop

(* Copying a frame to the batch, or keeping it for the next one, moves it    *)
(* from the head of its channel behind what the thread has taken of it.      *)
LEMMA TurnMoves ==
  ASSUME IInv, Streams, Store \/ Keep, NEW c \in Chns
  PROVE  /\ Taken(c)' \o Queued(c)' = Taken(c) \o Queued(c)
         /\ Len(Taken(c)') = IF ~full /\ c = i THEN Len(Taken(c)) + 1 ELSE Len(Taken(c))
<1> DEFINE f == TurnFrame
           new == IF f.chn = c THEN <<f.seq>> ELSE <<>>
<1>0. TypeOK /\ Scanning /\ TypeOK'
  BY TypeStep DEF IInv, Next, Thread
<1>1. /\ pc = "scan" /\ (full \/ i \in ready) /\ Take
      /\ f \in Frame /\ f.seq \in Num /\ new \in Seq(Num)
  <2>1. pc = "scan" /\ (full \/ i \in ready) /\ Take
    BY DEF Store, Keep
  <2>2. f \in Frame
    BY <1>0, <2>1, TurnFrameType
  <2>3. f.seq \in Num
    BY <2>2 DEF Frame, Num
  <2> QED BY <2>1, <2>2, <2>3
<1>2. /\ Copied(c) \in Seq(Num) /\ LeftOver(c) \in Seq(Num) /\ Queued(c) \in Seq(Num)
      /\ Queued(c)' \in Seq(Num)
  BY <1>0, StreamTypes, StreamTypesNext DEF Typed
<1>3. /\ LeftOver(c) \o Queued(c) = new \o Queued(c)'
      /\ Len(new) = IF ~full /\ c = i THEN Len(LeftOver(c)) + 1 ELSE Len(LeftOver(c))
  <2>1. CASE full
    <3>1. f = st /\ venc' = venc
      BY <1>1, <2>1 DEF TurnFrame, Take
    <3>2. new = LeftOver(c) /\ Queued(c)' = Queued(c)
      BY <3>1, QueuedSame DEF LeftOver
    <3> HIDE DEF new
    <3> QED BY <2>1, <3>2
  <2>2. CASE ~full
    <3>1. /\ f = Head(venc[i]) /\ venc' = [venc EXCEPT ![i] = Tail(@)]
          /\ i \in Chns /\ venc[i] \in Seq(Frame) /\ venc[i] # <<>> /\ st = NoFrame
      BY <1>0, <1>1, <2>2, ChnType DEF TurnFrame, Take, TypeOK, Scanning
    <3>2. /\ Len(venc[i]) \in Nat /\ DOMAIN venc[i] = 1 .. Len(venc[i])
          /\ f = venc[i][1] /\ 1 \in DOMAIN venc[i]
      <4> DEFINE q == venc[i]
      <4>1. q \in Seq(Frame) /\ q # <<>> /\ f = Head(q)
        BY <3>1
      <4> HIDE DEF q, f
      <4> QED BY <4>1, LenProperties DEF q
    <3>3. f.chn = i
      BY <3>1, <3>2 DEF Streams
    <3>4. LeftOver(c) = <<>>
      BY <3>1, ChnType DEF LeftOver, NoFrame
    <3>5. CASE c # i
      <4>1. Queued(c)' = Queued(c)
        BY <1>0, <3>1, <3>5 DEF Queued, TypeOK
      <4>2. new = LeftOver(c)
        BY <3>3, <3>4, <3>5
      <4> HIDE DEF new
      <4> QED BY <3>5, <4>1, <4>2
    <3>6. CASE c = i
      <4> DEFINE q == venc[i]
      <4>1. /\ Len(Tail(q)) = Len(q) - 1 /\ Tail(q) \in Seq(Frame)
            /\ \A k \in 1 .. Len(q) - 1 : Tail(q)[k] = q[k + 1]
            /\ DOMAIN Tail(q) = 1 .. Len(q) - 1 /\ Len(q) \in Nat /\ DOMAIN q = 1 .. Len(q)
        <5>1. q \in Seq(Frame) /\ q # <<>>
          BY <3>1
        <5> HIDE DEF q
        <5> QED BY <5>1, HeadTailProperties, LenProperties
      <4>2. Queued(c)' = [k \in 1 .. Len(q) - 1 |-> q[k + 1].seq]
        <5>1. Queued(c)' = [k \in DOMAIN venc'[c] |-> venc'[c][k].seq]
          BY DEF Queued
        <5>2. venc'[c] = Tail(q)
          BY <1>0, <3>1, <3>6 DEF TypeOK
        <5> HIDE DEF q
        <5> QED BY <4>1, <5>1, <5>2
      <4>3. Queued(c) = [k \in 1 .. Len(q) |-> q[k].seq]
        BY <3>6, <4>1 DEF Queued
      <4>4. q[1].seq = f.seq
        BY <3>2
      <4> DEFINE x == f.seq
                 a == Queued(c)
                 b == Queued(c)'
      <4>5. /\ a \in Seq(Num) /\ b \in Seq(Num) /\ x \in Num /\ Len(q) \in Nat
            /\ Len(a) = Len(q) /\ Len(b) = Len(q) - 1 /\ Len(q) >= 1
            /\ \A k \in 1 .. Len(b) : b[k] = a[k + 1]
            /\ a[1] = x
        <5>1. a \in Seq(Num) /\ b \in Seq(Num) /\ x \in Num
          BY <1>1, <1>2
        <5>2. Len(q) \in Nat /\ 1 \in 1 .. Len(q)
          BY <3>2, <4>1
        <5> HIDE DEF q, f, x
        <5>3. a[1] = x
          BY <4>3, <4>4, <5>2 DEF x
        <5>4. Len(a) = Len(q) /\ Len(b) = Len(q) - 1
          BY <4>2, <4>3, <5>1, <5>2
        <5>5. \A k \in 1 .. Len(b) : b[k] = a[k + 1]
          BY <4>2, <4>3, <5>2, <5>4
        <5> QED BY <5>1, <5>2, <5>3, <5>4, <5>5
      <4> HIDE DEF a, b, x, q, f
      <4>6. a = <<x>> \o b
        <5>1. <<x>> \in Seq(Num) /\ Len(<<x>>) = 1 /\ <<x>>[1] = x
          BY <4>5
        <5>2. /\ <<x>> \o b \in Seq(Num) /\ Len(<<x>> \o b) = 1 + Len(b)
              /\ \A k \in 1 .. 1 + Len(b) :
                   (<<x>> \o b)[k] = IF k <= 1 THEN <<x>>[k] ELSE b[k - 1]
          BY <4>5, <5>1, ConcatProperties
        <5>3. \A k \in 1 .. Len(a) : a[k] = (<<x>> \o b)[k]
          BY <4>5, <5>1, <5>2
        <5>4. Len(a) = Len(<<x>> \o b)
          BY <4>5, <5>2
        <5> QED BY <4>5, <5>2, <5>3, <5>4, SeqEqual
      <4>7. <<>> \o a = a
        BY <4>5, ConcatEmptySeq
      <4>8. new = <<x>>
        BY <3>3, <3>6 DEF x
      <4>9. Len(new) = Len(LeftOver(c)) + 1
        BY <3>4, <4>8
      <4> QED BY <2>2, <3>4, <3>6, <4>6, <4>7, <4>8, <4>9 DEF a, b
    <3> QED BY <3>5, <3>6
  <2> QED BY <2>1, <2>2
<1>4. Taken(c)' = Copied(c) \o new
  <2>1. Copied(c) \o <<>> = Copied(c)
    BY <1>2, ConcatEmptySeq
  <2>2. CASE Store
    <3> DEFINE e == [vdec |-> VdecOf(i), chn |-> f.chn, seq |-> f.seq, size |-> EntryLen(f.len)]
    <3>1. e \in Entry
      BY <1>0, <1>1, VdecOfType, FrameLenType, DmaLenType DEF Entry, Frame, TypeOK, Num
    <3>2. buf' = Append(buf, e) /\ st' = NoFrame /\ buf \in Seq(Entry)
      BY <1>0, <2>2 DEF Store, TypeOK
    <3>3. e.chn = f.chn /\ e.seq = f.seq
      OBVIOUS
    <3> HIDE DEF e, f
    <3>4. Copied(c)' = IF f.chn = c THEN Append(Copied(c), f.seq) ELSE Copied(c)
      BY <3>1, <3>2, <3>3, NumbersMore DEF Copied
    <3>5. Append(Copied(c), f.seq) = Copied(c) \o <<f.seq>>
      BY <1>1, <1>2, AppendIsConcat
    <3>6. LeftOver(c)' = <<>>
      BY <3>2, ChnType DEF LeftOver, NoFrame
    <3>7. Copied(c)' = Copied(c) \o new
      BY <2>1, <3>4, <3>5
    <3>8. Copied(c)' \in Seq(Num)
      BY <1>0, StreamTypesNext DEF Typed
    <3>9. Copied(c)' \o <<>> = Copied(c)'
      BY <3>8, ConcatEmptySeq
    <3> QED BY <3>6, <3>7, <3>9 DEF Taken
  <2>3. CASE Keep
    <3>1. st' = f /\ buf' = buf
      BY <2>3 DEF Keep, stageVars
    <3> QED BY <3>1 DEF Taken, Copied, LeftOver
  <2> QED BY <2>2, <2>3
<1>5. Taken(c)' \o Queued(c)' = Copied(c) \o (new \o Queued(c)')
  <2> DEFINE a == Copied(c)
             b == Queued(c)'
  <2>1. a \in Seq(Num) /\ b \in Seq(Num) /\ new \in Seq(Num)
    BY <1>1, <1>2
  <2> HIDE DEF a, b, new
  <2>2. (a \o new) \o b = a \o (new \o b)
    BY <2>1, ConcatAssociative, SMTT(30)
  <2> QED BY <1>4, <2>2 DEF a, b
<1>6. Taken(c) \o Queued(c) = Copied(c) \o (LeftOver(c) \o Queued(c))
  BY <1>2, ConcatAssociative, SMTT(30) DEF Taken
<1>7. /\ Len(Copied(c)) \in Nat /\ Len(LeftOver(c)) \in Nat
      /\ Len(Taken(c)) = Len(Copied(c)) + Len(LeftOver(c))
      /\ Len(Taken(c)') = Len(Copied(c)) + Len(new)
  <2> HIDE DEF new
  <2> QED BY <1>1, <1>2, <1>4, ConcatProperties, LenProperties DEF Taken
<1>8. Len(Taken(c)') = IF ~full /\ c = i THEN Len(Taken(c)) + 1 ELSE Len(Taken(c))
  <2> HIDE DEF new
  <2> QED BY <1>3, <1>7
<1> QED BY <1>3, <1>5, <1>6, <1>8

(* Unless it is the one left over, the frame is one more taken.              *)
LEMMA TurnTakes ==
  ASSUME IInv, Streams, Store \/ Keep, ~full
  PROVE  Has \in Stream!Takes
<1>0. TypeOK /\ Scanning /\ Typed
  BY StreamTypes DEF IInv
<1>1. /\ pc \in Alive /\ i \in Chns /\ venc[i] \in Seq(Frame) /\ venc[i] # <<>>
  BY <1>0, ChnType DEF Store, Keep, TypeOK, Scanning, Alive
<1>2. Len(Queued(i)) \in Nat /\ Len(Queued(i)) > 0
  <2> DEFINE q == venc[i]
  <2>1. q \in Seq(Frame) /\ q # <<>>
    BY <1>1
  <2>2. Queued(i) = [k \in DOMAIN q |-> q[k].seq]
    BY DEF Queued
  <2> HIDE DEF q
  <2>3. Len(q) \in Nat /\ Len(q) > 0 /\ DOMAIN q = 1 .. Len(q)
    BY <2>1, LenProperties, EmptySeq
  <2> QED BY <2>2, <2>3
<1>3. Len(InThread(i)) < Len(Held(i))
  <2> DEFINE a == Taken(i)
             b == Queued(i)
  <2>1. a \in Seq(Num) /\ b \in Seq(Num) /\ InThread(i) = a /\ Held(i) = a \o b
    BY <1>0, <1>1 DEF Typed, Held, InThread
  <2>2. Len(b) \in Nat /\ Len(b) > 0
    BY <1>2
  <2> HIDE DEF a, b
  <2>3. Len(a) \in Nat /\ Len(a \o b) = Len(a) + Len(b)
    BY <2>1, ConcatProperties, LenProperties
  <2> QED BY <2>1, <2>2, <2>3
<1>4. Has = [Had EXCEPT ![i] = @ + 1]
  <2>1. \A c \in Chns : Len(Taken(c)') = IF c = i THEN Had[c] + 1 ELSE Had[c]
    BY <1>1, TurnMoves DEF Had, InThread
  <2>2. [Had EXCEPT ![i] = @ + 1] = [c \in Chns |-> IF c = i THEN Had[c] + 1 ELSE Had[c]]
    BY <1>1 DEF Had
  <2> QED BY <2>1, <2>2 DEF Has
<1>5. [c \in Chns |-> Len(InThread(c))][i] < Len([c \in Chns |-> Held(c)][i])
  BY <1>1, <1>3
<1> QED BY <1>1, <1>4, <1>5 DEF Stream!Takes, Had

(* What the announcements hold after one more, and after one less.           *)
LEMMA BodiesMore ==
  ASSUME NEW n \in Note, toMaster \in Seq(Note), toMaster' = Append(toMaster, n)
  PROVE  Bodies' = Bodies \o <<n.body>>
<1>1. /\ Len(toMaster) \in Nat /\ DOMAIN toMaster = 1 .. Len(toMaster)
      /\ toMaster' \in Seq(Note) /\ Len(toMaster') = Len(toMaster) + 1
      /\ DOMAIN toMaster' = 1 .. Len(toMaster) + 1
      /\ \A k \in 1 .. Len(toMaster) : toMaster'[k] = toMaster[k] /\ toMaster[k] \in Note
      /\ toMaster'[Len(toMaster) + 1] = n
  BY AppendProperties, LenProperties
<1> DEFINE L == Len(toMaster)
           b == Bodies
           x == n.body
<1>2. L \in Nat /\ x \in Seq(Entry) /\ \A k \in 1 .. L : toMaster[k].body \in Seq(Entry)
  BY <1>1 DEF Note
<1>3. b = [k \in 1 .. L |-> toMaster[k].body]
  BY <1>1 DEF Bodies
<1>4. Bodies' = [k \in 1 .. L + 1 |-> toMaster'[k].body]
  <2>1. Bodies' = [k \in DOMAIN toMaster' |-> toMaster'[k].body]
    BY DEF Bodies
  <2> QED BY <1>1, <2>1
<1>5. /\ \A k \in 1 .. L : toMaster'[k].body = toMaster[k].body
      /\ toMaster'[L + 1].body = x
  BY <1>1
<1> HIDE DEF L, b, x
<1>6. b \in Seq(Seq(Entry)) /\ Len(b) = L
  BY <1>2, <1>3
<1>7. <<x>> \in Seq(Seq(Entry)) /\ Len(<<x>>) = 1 /\ <<x>>[1] = x
  BY <1>2
<1>8. /\ b \o <<x>> \in Seq(Seq(Entry)) /\ Len(b \o <<x>>) = L + 1
      /\ \A k \in 1 .. L + 1 : (b \o <<x>>)[k] = IF k <= L THEN b[k] ELSE <<x>>[k - L]
  BY <1>6, <1>7, ConcatProperties
<1>9. b \o <<x>> = [k \in 1 .. L + 1 |-> toMaster'[k].body]
  <2>1. ASSUME NEW k \in 1 .. L + 1 PROVE (b \o <<x>>)[k] = toMaster'[k].body
    <3>1. CASE k \in 1 .. L
      <4>1. k <= L /\ b[k] = toMaster[k].body
        BY <1>3, <3>1
      <4> QED BY <1>5, <1>8, <3>1, <4>1
    <3>2. CASE k = L + 1
      <4>1. k - L = 1 /\ ~(k <= L)
        BY <1>2, <3>2
      <4> QED BY <1>5, <1>7, <1>8, <3>2, <4>1
    <3>3. k \in 1 .. L \/ k = L + 1
      BY <1>2
    <3> QED BY <3>1, <3>2, <3>3
  <2>2. b \o <<x>> = [k \in 1 .. L + 1 |-> (b \o <<x>>)[k]]
    BY <1>8, LenProperties
  <2> QED BY <2>1, <2>2
<1> QED BY <1>4, <1>9 DEF b, x

LEMMA BodiesLess ==
  ASSUME toMaster \in Seq(Note), toMaster # <<>>, toMaster' = Tail(toMaster)
  PROVE  /\ Head(toMaster) \in Note /\ Head(toMaster) = toMaster[1]
         /\ 1 \in DOMAIN toMaster
         /\ Bodies = <<Head(toMaster).body>> \o Bodies'
<1>1. /\ Len(toMaster) \in Nat /\ DOMAIN toMaster = 1 .. Len(toMaster)
      /\ toMaster' \in Seq(Note) /\ Len(toMaster') = Len(toMaster) - 1
      /\ DOMAIN toMaster' = 1 .. Len(toMaster) - 1
      /\ \A k \in 1 .. Len(toMaster) : toMaster[k] \in Note
      /\ \A k \in 1 .. Len(toMaster) - 1 : toMaster'[k] = toMaster[k + 1]
      /\ Head(toMaster) = toMaster[1] /\ Len(toMaster) >= 1
  BY HeadTailProperties, LenProperties
<1> DEFINE L == Len(toMaster)
           b == [k \in 1 .. L - 1 |-> toMaster'[k].body]
           x == toMaster[1].body
<1>2. L \in Nat /\ L >= 1 /\ \A k \in 1 .. L : toMaster[k].body \in Seq(Entry)
  BY <1>1 DEF Note
<1>3. Bodies = [k \in 1 .. L |-> toMaster[k].body]
  BY <1>1 DEF Bodies
<1>4. Bodies' = b
  <2>1. Bodies' = [k \in DOMAIN toMaster' |-> toMaster'[k].body]
    BY DEF Bodies
  <2> QED BY <1>1, <2>1
<1>5. \A k \in 1 .. L - 1 : k + 1 \in 1 .. L /\ b[k] = toMaster[k + 1].body
  BY <1>1
<1>6. x \in Seq(Entry)
  BY <1>2
<1> HIDE DEF L, b
<1>7. b \in Seq(Seq(Entry)) /\ Len(b) = L - 1
  <2>1. \A k \in 1 .. L - 1 : b[k] \in Seq(Entry)
    BY <1>2, <1>5
  <2>2. L - 1 \in Nat
    BY <1>2
  <2>3. b = [k \in 1 .. L - 1 |-> b[k]]
    BY DEF b
  <2> QED BY <2>1, <2>2, <2>3
<1>8. <<x>> \in Seq(Seq(Entry)) /\ Len(<<x>>) = 1 /\ <<x>>[1] = x
  BY <1>6
<1>9. /\ <<x>> \o b \in Seq(Seq(Entry)) /\ Len(<<x>> \o b) = L
      /\ \A k \in 1 .. L : (<<x>> \o b)[k] = IF k <= 1 THEN <<x>>[k] ELSE b[k - 1]
  BY <1>2, <1>7, <1>8, ConcatProperties
<1>10. <<x>> \o b = [k \in 1 .. L |-> toMaster[k].body]
  <2>1. ASSUME NEW k \in 1 .. L PROVE (<<x>> \o b)[k] = toMaster[k].body
    <3>1. CASE k = 1
      BY <1>8, <1>9, <3>1
    <3>2. CASE k # 1
      <4>1. k - 1 \in 1 .. L - 1 /\ (k - 1) + 1 = k /\ ~(k <= 1)
        BY <1>2, <3>2
      <4>2. b[k - 1] = toMaster[k].body
        BY <1>5, <4>1
      <4> QED BY <1>9, <4>1, <4>2
    <3> QED BY <3>1, <3>2
  <2>2. <<x>> \o b = [k \in 1 .. L |-> (<<x>> \o b)[k]]
    BY <1>9, LenProperties
  <2> QED BY <2>1, <2>2
<1>11. 1 \in DOMAIN toMaster /\ Head(toMaster) \in Note
  BY <1>1
<1> QED BY <1>1, <1>3, <1>4, <1>10, <1>11

(* Encode(c, l) is Produce(c).                                               *)
LEMMA EncodeProduces ==
  ASSUME TypeOK, TypeOK', NEW c \in Encoders, NEW l \in FrameLens[c], Encode(c, l)
  PROVE  c \in Chns /\ Stream!Produce(c)
<1> DEFINE f == [chn |-> c, seq |-> encSeq[c], len |-> l]
           x == encSeq[c]
<1>1. /\ c \in Chns /\ venc[c] \in Seq(Frame) /\ x \in Num
      /\ venc' = [venc EXCEPT ![c] = Append(@, f)]
      /\ encSeq' = [encSeq EXCEPT ![c] = (@ + 1) % FrameMod]
      /\ UNCHANGED <<pc, buf, st, toMaster, seen>>
  BY TransAssumption DEF Encode, TypeOK, stageVars, threadVars, Num
<1>2. f \in Frame /\ f.seq = x
  BY <1>1 DEF Frame, Num
<1>3. \A d \in Chns : d # c => Queued(d)' = Queued(d)
  BY <1>1 DEF Queued, TypeOK
<1> HIDE DEF f
<1>4. Queued(c)' = Append(Queued(c), x)
  <2> DEFINE q == venc[c]
  <2>1. /\ q \in Seq(Frame) /\ Len(q) \in Nat /\ DOMAIN q = 1 .. Len(q)
        /\ Append(q, f) \in Seq(Frame) /\ Len(Append(q, f)) = Len(q) + 1
        /\ DOMAIN Append(q, f) = 1 .. Len(q) + 1
        /\ \A k \in 1 .. Len(q) : Append(q, f)[k] = q[k]
        /\ Append(q, f)[Len(q) + 1] = f
    <3>1. q \in Seq(Frame)
      BY <1>1
    <3> HIDE DEF q
    <3> QED BY <1>2, <3>1, AppendProperties, LenProperties
  <2>2. Queued(c) = [k \in 1 .. Len(q) |-> q[k].seq]
    BY <2>1 DEF Queued
  <2>3. Queued(c)' = [k \in 1 .. Len(q) + 1 |-> Append(q, f)[k].seq]
    <3>1. Queued(c)' = [k \in DOMAIN venc'[c] |-> venc'[c][k].seq]
      BY DEF Queued
    <3>2. venc'[c] = Append(q, f)
      BY <1>1 DEF TypeOK
    <3> HIDE DEF q
    <3> QED BY <2>1, <3>1, <3>2
  <2> DEFINE a == Queued(c)
             b == Queued(c)'
  <2>4. a \in Seq(Num) /\ b \in Seq(Num)
    BY <1>1, StreamTypes, StreamTypesNext DEF Typed
  <2> HIDE DEF q, x
  <2>5. Len(a) = Len(q) /\ Len(b) = Len(q) + 1 /\ Len(q) \in Nat
    BY <2>1, <2>2, <2>3
  <2>6. \A k \in 1 .. Len(q) : b[k] = a[k]
    BY <2>1, <2>2, <2>3
  <2>7. b[Len(q) + 1] = x
    BY <1>2, <2>1, <2>3
  <2> HIDE DEF a, b
  <2>8. /\ Append(a, x) \in Seq(Num) /\ Len(Append(a, x)) = Len(q) + 1
        /\ \A k \in 1 .. Len(q) : Append(a, x)[k] = a[k]
        /\ Append(a, x)[Len(q) + 1] = x
    BY <1>1, <2>4, <2>5, AppendProperties
  <2>9. \A k \in 1 .. Len(b) : b[k] = Append(a, x)[k]
    <3>1. \A k \in 1 .. Len(b) : k \in 1 .. Len(q) \/ k = Len(q) + 1
      BY <2>5
    <3> QED BY <2>6, <2>7, <2>8, <3>1
  <2>10. b = Append(a, x)
    BY <2>4, <2>5, <2>8, <2>9, SeqEqual
  <2> QED BY <2>10 DEF a, b
<1>5. \A d \in Chns : InThread(d)' = InThread(d)
  BY <1>1, TakenSame DEF InThread
<1>6. ASSUME NEW d \in Chns
      PROVE  Held(d)' = IF d = c THEN Append(Held(d), x) ELSE Held(d)
  <2> DEFINE a == InThread(d)
             q == Queued(d)
  <2>1. a \in Seq(Num) /\ q \in Seq(Num)
    BY StreamTypes, EmptySeq DEF Typed, InThread
  <2>2. Held(d) = a \o q /\ Held(d)' = a \o Queued(d)'
    BY <1>5 DEF Held
  <2> HIDE DEF a, q, x
  <2>3. a \o Append(q, x) = Append(a \o q, x)
    <3>1. a \o q \in Seq(Num) /\ <<x>> \in Seq(Num)
      BY <1>1, <2>1, ConcatProperties
    <3>2. Append(q, x) = q \o <<x>> /\ Append(a \o q, x) = (a \o q) \o <<x>>
      BY <1>1, <2>1, <3>1, AppendIsConcat
    <3> QED BY <2>1, <3>1, <3>2, ConcatAssociative, SMTT(30)
  <2> QED BY <1>3, <1>4, <2>2, <2>3 DEF q
<1> DEFINE h == [d \in Chns |-> Held(d)]
<1>7. h' = [h EXCEPT ![c] = Append(@, x)]
  <2>1. h' = [d \in Chns |-> Held(d)']
    OBVIOUS
  <2> HIDE DEF x
  <2>2. [h EXCEPT ![c] = Append(@, x)]
          = [d \in Chns |-> IF d = c THEN Append(Held(d), x) ELSE Held(d)]
    BY <1>1
  <2> QED BY <1>6, <2>1, <2>2
<1>8. [d \in Chns |-> Sent(d)]' = [d \in Chns |-> Sent(d)]
  BY <1>1, SentSame, Zenon
<1>9. encSeq' = [encSeq EXCEPT ![c] = Stream!Succ(@)]
  BY <1>1 DEF Stream!Succ
<1>10. (pc \in Alive)' = (pc \in Alive)
  BY <1>1 DEF Alive
<1>11. [d \in Chns |-> Len(InThread(d))]' = [d \in Chns |-> Len(InThread(d))]
  BY <1>5, Zenon
<1> QED BY <1>1, <1>7, <1>8, <1>9, <1>10, <1>11 DEF Stream!Produce

(* A batch that is sent is announced.                                        *)
LEMMA NotifyAnnounces ==
  ASSUME TypeOK, TypeOK', pc \in Alive, pc' \in Alive,
         toMaster' = Append(toMaster, Written), buf' = <<>>,
         UNCHANGED <<st, venc, seen, encSeq>>
  PROVE  Stream!Announce
<1> DEFINE f == [c \in Chns |-> Copied(c)]
           h == [c \in Chns |-> Held(c)]
           g == [c \in Chns |-> Held(c)']
           s == [c \in Chns |-> Sent(c)]
           n == [c \in Chns |-> Len(f[c])]
<1>1. Typed /\ Typed'
  BY StreamTypes, StreamTypesNext
<1>2. f \in [Chns -> Seq(Num)] /\ g \in [Chns -> Seq(Num)] /\ h \in [Chns -> Seq(Num)]
  BY <1>1 DEF Typed
<1>3. <<<<>>>> \in EntrySeqs
  BY BodyPlaces, EmptySeq
<1>4. ASSUME NEW c \in Chns
      PROVE  /\ Held(c) = Copied(c) \o Held(c)'
             /\ Len(Copied(c)) <= Len(InThread(c))
             /\ Len(InThread(c))' = Len(InThread(c)) - Len(Copied(c))
  <2> DEFINE a == Copied(c)
             b == LeftOver(c)
             q == Queued(c)
  <2>1. a \in Seq(Num) /\ b \in Seq(Num) /\ q \in Seq(Num)
    BY <1>1 DEF Typed
  <2>2. Held(c) = (a \o b) \o q /\ InThread(c) = a \o b
    BY DEF Held, InThread, Taken
  <2>3. Copied(c)' = <<>>
    <3>1. \A k \in DOMAIN <<<<>>>> : <<<<>>>>[k] = <<>>
      OBVIOUS
    <3>2. Numbers(<<<<>>>>, c) = <<>>
      BY <1>3, <3>1, NumbersNone
    <3> QED BY <3>2 DEF Copied
  <2>4. Held(c)' = (<<>> \o b) \o q /\ Len(InThread(c))' = Len(<<>> \o b)
    BY <2>3, QueuedSame DEF Held, InThread, Taken, LeftOver
  <2> HIDE DEF a, b, q
  <2>5. (a \o b) \o q = a \o (b \o q) /\ <<>> \o b = b
    <3>1. (a \o b) \o q = a \o (b \o q)
      BY <2>1, ConcatAssociative, SMTT(30)
    <3>2. <<>> \o b = b
      BY <2>1, ConcatEmptySeq
    <3> QED BY <3>1, <3>2
  <2>6. Len(a) \in Nat /\ Len(b) \in Nat /\ Len(a \o b) = Len(a) + Len(b)
    BY <2>1, ConcatProperties, LenProperties
  <2>7. Len(a) <= Len(InThread(c)) /\ Len(InThread(c))' = Len(InThread(c)) - Len(a)
    BY <2>2, <2>4, <2>5, <2>6
  <2> QED BY <2>2, <2>4, <2>5, <2>7 DEF a
<1>5. ASSUME NEW c \in Chns PROVE Sent(c)' = Sent(c) \o Copied(c)
  <2>1. Written \in Note /\ Written.body = buf /\ toMaster \in Seq(Note)
    BY BlocksType DEF Written, TypeOK
  <2>2. Bodies' = Bodies \o <<buf>>
    BY <2>1, BodiesMore
  <2>3. <<buf>> \in EntrySeqs /\ Bodies \in EntrySeqs
    BY BodiesType, BodyPlaces DEF TypeOK
  <2>4. Numbers(Bodies \o <<buf>>, c) = Numbers(Bodies, c) \o Numbers(<<buf>>, c)
    BY <2>3, NumbersCat
  <2> QED BY <2>2, <2>4 DEF Sent, Copied
<1>6. \A c \in Chns : h[c] = f[c] \o g[c]
  BY <1>4
<1>7. h' = g /\ s' = [c \in Chns |-> s[c] \o f[c]]
  BY <1>5
<1>8. (pc \in Alive)' = (pc \in Alive) /\ pc \in Alive
  BY DEF Alive
<1> DEFINE t == [c \in Chns |-> Len(InThread(c))]
<1>9. \A c \in Chns : n[c] = Len(Copied(c)) /\ t[c] = Len(InThread(c))
  OBVIOUS
<1>10. /\ \A c \in Chns : n[c] <= t[c]
       /\ t' = [c \in Chns |-> t[c] - n[c]]
  <2>1. t' = [c \in Chns |-> Len(InThread(c))']
    OBVIOUS
  <2> HIDE DEF n, t
  <2> QED BY <1>4, <1>9, <2>1
<1> HIDE DEF f, g, h, s, t
<1>11. n \in Stream!Counts(h) /\ Stream!First(h, n) = f /\ Stream!Rest(h, n) = g
  BY <1>2, <1>6, FrontAndRest
<1> HIDE DEF n
<1>12. \E m \in Stream!Counts(h) :
         /\ \A c \in Chns : m[c] <= t[c]
         /\ s' = [c \in Chns |-> s[c] \o Stream!First(h, m)[c]]
         /\ h' = Stream!Rest(h, m)
         /\ t' = [c \in Chns |-> t[c] - m[c]]
  BY <1>7, <1>11, <1>10
<1> QED BY <1>8, <1>12 DEF Stream!Announce, h, s, t

(* The master reads a batch.                                                 *)
LEMMA ReadDelivers ==
  ASSUME TypeOK, TypeOK', Streams, MasterReads
  PROVE  Stream!Deliver
<1> DEFINE b == Head(toMaster)
           f == [c \in Chns |-> Numbers(<<b.body>>, c)]
           s == [c \in Chns |-> Sent(c)]
           g == [c \in Chns |-> Sent(c)']
           n == [c \in Chns |-> Len(f[c])]
<1>1. /\ toMaster # <<>> /\ toMaster' = Tail(toMaster) /\ toMaster \in Seq(Note)
      /\ seen' = IF b.cur THEN [c \in Chns |-> LastSeen(seen[c], b.body, c)] ELSE seen
      /\ UNCHANGED <<pc, buf, st, venc, encSeq>>
  BY DEF MasterReads, TypeOK, stageVars, threadVars, encVars
<1>2. /\ b \in Note /\ b = toMaster[1] /\ 1 \in DOMAIN toMaster
      /\ Bodies = <<b.body>> \o Bodies'
  BY <1>1, BodiesLess
<1>3. b.body \in Seq(Entry) /\ (~b.cur => b.body = <<>>)
  BY <1>2 DEF Note, Streams
<1>4. Bodies' \in EntrySeqs
  BY StreamTypesNext DEF Typed
<1>5. Typed /\ Typed'
  BY StreamTypes, StreamTypesNext
<1> HIDE DEF b
<1>6. <<b.body>> \in EntrySeqs
  BY <1>3, BodyPlaces
<1>7. ASSUME NEW c \in Chns
      PROVE  Numbers(<<b.body>>, c) \in Seq(Num) /\ Sent(c) = Numbers(<<b.body>>, c) \o Sent(c)'
  <2>1. IsNumbers(Numbers(<<b.body>>, c), <<b.body>>, c)
    BY <1>6, NumbersIs
  <2> DEFINE r == Bodies'
  <2>2. r \in EntrySeqs
    BY <1>4
  <2> HIDE DEF r
  <2>3. Numbers(<<b.body>> \o r, c) = Numbers(<<b.body>>, c) \o Numbers(r, c)
    BY <1>6, <2>2, NumbersCat
  <2>4. Sent(c)' = Numbers(r, c) /\ Sent(c) = Numbers(<<b.body>> \o r, c)
    BY <1>2 DEF Sent, r
  <2> QED BY <2>1, <2>3, <2>4 DEF IsNumbers
<1>8. f \in [Chns -> Seq(Num)] /\ g \in [Chns -> Seq(Num)] /\ s \in [Chns -> Seq(Num)]
  BY <1>5, <1>7 DEF Typed
<1>9. \A c \in Chns : s[c] = f[c] \o g[c]
  BY <1>7
<1>10. s' = g
  OBVIOUS
<1>11. ASSUME NEW c \in Chns
       PROVE  seen'[c] = IF Len(f[c]) = 0 THEN seen[c] ELSE f[c][Len(f[c])]
  <2>1. LastSeen(seen[c], b.body, c) = IF Len(f[c]) = 0 THEN seen[c] ELSE f[c][Len(f[c])]
    <3> DEFINE x == seen[c]
    <3> HIDE DEF x
    <3> QED BY <1>3, NumbersLast
  <2>2. CASE b.cur
    BY <1>1, <2>1, <2>2
  <2>3. CASE ~b.cur
    <3>1. f[c] = <<>>
      <4>1. \A k \in DOMAIN <<b.body>> : <<b.body>>[k] = <<>>
        BY <1>3, <2>3
      <4> QED BY <1>6, <4>1, NumbersNone
    <3> QED BY <1>1, <2>3, <3>1
  <2> QED BY <2>2, <2>3
<1>12. seen' = [c \in Chns |-> seen'[c]]
  BY <1>1 DEF TypeOK
<1>13. \A c \in Chns : Len(f[c]) # 0 => f[c][Len(f[c])] = s[c][Len(f[c])]
  <2> SUFFICES ASSUME NEW c \in Chns, Len(f[c]) # 0 PROVE f[c][Len(f[c])] = s[c][Len(f[c])]
    OBVIOUS
  <2> DEFINE p == f[c]
             q == g[c]
  <2>1. p \in Seq(Num) /\ q \in Seq(Num) /\ s[c] = p \o q /\ Len(p) # 0
    BY <1>8, <1>9
  <2> HIDE DEF p, q, s
  <2>2. Len(p) \in 1 .. Len(p) /\ \A k \in 1 .. Len(p) : (p \o q)[k] = p[k]
    BY <2>1, CatIs
  <2> QED BY <2>1, <2>2 DEF p
<1> HIDE DEF f, g, s
<1>14. n \in Stream!Counts(s) /\ Stream!Rest(s, n) = g
  BY <1>8, <1>9, FrontAndRest
<1>15. \A c \in Chns : n[c] = Len(f[c])
  OBVIOUS
<1> HIDE DEF n
<1>16. seen' = [c \in Chns |-> IF n[c] = 0 THEN seen[c] ELSE s[c][n[c]]]
  BY <1>11, <1>12, <1>13, <1>15
<1>17. \E m \in Stream!Counts(s) :
         /\ seen' = [c \in Chns |-> IF m[c] = 0 THEN seen[c] ELSE s[c][m[c]]]
         /\ s' = Stream!Rest(s, m)
  BY <1>10, <1>14, <1>16
<1>18. /\ [c \in Chns |-> Held(c)]' = [c \in Chns |-> Held(c)]
       /\ [c \in Chns |-> Len(InThread(c))]' = [c \in Chns |-> Len(InThread(c))]
  <2>1. \A c \in Chns : Held(c)' = Held(c) /\ InThread(c)' = InThread(c)
    BY <1>1, TakenSame, QueuedSame DEF Held, InThread
  <2> QED BY <2>1, Zenon
<1>19. (pc \in Alive)' = (pc \in Alive)
  BY <1>1 DEF Alive
<1> QED BY <1>1, <1>17, <1>18, <1>19 DEF Stream!Deliver, s

(* An old announcement that is thrown away had no frames of the session.     *)
LEMMA DiscardIsNothing ==
  ASSUME TypeOK, TypeOK', Streams, MasterDiscards
  PROVE  UNCHANGED Stream!vars
<1>1. /\ toMaster # <<>> /\ toMaster' = Tail(toMaster) /\ toMaster \in Seq(Note)
      /\ ~Head(toMaster).cur
      /\ UNCHANGED <<pc, buf, st, venc, encSeq, seen>>
  BY DEF MasterDiscards, TypeOK, stageVars, threadVars, encVars
<1>2. /\ Head(toMaster) \in Note /\ Head(toMaster) = toMaster[1] /\ 1 \in DOMAIN toMaster
      /\ Bodies = <<Head(toMaster).body>> \o Bodies'
  BY <1>1, BodiesLess
<1>3. Head(toMaster).body = <<>>
  BY <1>1, <1>2 DEF Streams
<1>4. Bodies' \in EntrySeqs
  BY StreamTypesNext DEF Typed
<1>5. ASSUME NEW c \in Chns PROVE Sent(c)' = Sent(c)
  <2> DEFINE r == Bodies'
  <2>1. r \in EntrySeqs /\ <<<<>>>> \in EntrySeqs
    BY <1>4, BodyPlaces, EmptySeq
  <2> HIDE DEF r
  <2>2. Numbers(<<<<>>>> \o r, c) = Numbers(<<<<>>>>, c) \o Numbers(r, c)
    BY <2>1, NumbersCat
  <2>3. Numbers(<<<<>>>>, c) = <<>>
    <3>1. \A k \in DOMAIN <<<<>>>> : <<<<>>>>[k] = <<>>
      OBVIOUS
    <3> QED BY <2>1, <3>1, NumbersNone
  <2>4. IsNumbers(Numbers(r, c), r, c)
    BY <2>1, NumbersIs
  <2>5. <<>> \o Numbers(r, c) = Numbers(r, c)
    BY <2>4, ConcatEmptySeq DEF IsNumbers
  <2>6. Sent(c)' = Numbers(r, c) /\ Sent(c) = Numbers(<<<<>>>> \o r, c)
    BY <1>2, <1>3 DEF Sent, r
  <2> QED BY <2>2, <2>3, <2>5, <2>6
<1>6. \A c \in Chns : Held(c)' = Held(c) /\ Len(InThread(c))' = Len(InThread(c))
  BY <1>1, TakenSame, QueuedSame DEF Held, InThread
<1> QED BY <1>1, <1>5, <1>6, StreamKept

(* Initialize() starts a session, or fails and starts none.                  *)
LEMMA OpenStarts ==
  ASSUME IInv, TypeOK', Streams, Open
  PROVE  Stream!Start
<1>0. TypeOK /\ Typed /\ Typed'
  BY StreamTypes, StreamTypesNext DEF IInv
<1>1. /\ pc = "off" /\ pc' \in {"off", "begin"} /\ st = NoFrame /\ st' = NoFrame
      /\ buf' = <<>> /\ toMaster' = RetireNotes(toMaster) /\ seen' = [c \in Chns |-> -1]
      /\ UNCHANGED <<venc, encSeq>>
  BY DEF Open, IInv, Lifecycle, Streams, threadVars, encVars
<1>2. ASSUME NEW c \in Chns PROVE Sent(c)' = <<>>
  <2>1. \A k \in DOMAIN toMaster : toMaster[k] \in Note
    <3>1. toMaster \in Seq(Note)
      BY <1>0 DEF TypeOK
    <3> QED BY <3>1, ElementOfSeq, LenProperties
  <2>2. \A k \in DOMAIN toMaster : RetireNotes(toMaster)[k].body = <<>>
    BY <2>1 DEF RetireNotes, Note
  <2> DEFINE r == Bodies'
  <2>3. \A k \in DOMAIN r : r[k] = <<>>
    BY <1>1, <2>2 DEF Bodies, RetireNotes
  <2>4. r \in EntrySeqs
    BY StreamTypesNext DEF Typed
  <2>5. Sent(c)' = Numbers(r, c)
    BY DEF Sent
  <2> HIDE DEF r
  <2> QED BY <2>3, <2>4, <2>5, NumbersNone
<1>3. ASSUME NEW c \in Chns
      PROVE  Held(c)' = Held(c) /\ Len(InThread(c))' = Len(InThread(c))
  <2>1. pc \notin Alive
    BY <1>1 DEF Alive
  <2>2. Taken(c)' = <<>>
    <3>1. <<<<>>>> \in EntrySeqs
      BY BodyPlaces, EmptySeq
    <3>2. Copied(c)' = <<>>
      <4>1. \A k \in DOMAIN <<<<>>>> : <<<<>>>>[k] = <<>>
        OBVIOUS
      <4>2. Numbers(<<<<>>>>, c) = <<>>
        BY <3>1, <4>1, NumbersNone
      <4> QED BY <1>1, <4>2 DEF Copied
    <3>3. LeftOver(c)' = <<>>
      BY <1>1, ChnType DEF LeftOver, NoFrame
    <3> QED BY <3>2, <3>3, EmptySeq, ConcatEmptySeq DEF Taken
  <2>3. Queued(c)' = Queued(c)
    BY <1>1, QueuedSame
  <2>4. InThread(c)' = InThread(c)
    BY <2>1, <2>2 DEF InThread
  <2> QED BY <2>3, <2>4 DEF Held
<1>4. /\ [c \in Chns |-> Held(c)]' = [c \in Chns |-> Held(c)]
      /\ [c \in Chns |-> Len(InThread(c))]' = [c \in Chns |-> Len(InThread(c))]
      /\ [c \in Chns |-> Sent(c)]' = [c \in Chns |-> <<>>]
  BY <1>2, <1>3, Zenon
<1>5. ~(pc \in Alive) /\ (pc \in Alive)' \in BOOLEAN
  BY <1>1 DEF Alive
<1>6. seen' = [c \in Chns |-> Stream!None]
  BY <1>1 DEF Stream!None
<1> QED BY <1>1, <1>4, <1>5, <1>6, Zenon DEF Stream!Start

(* Every step of the transport is a step of the stream, or none.             *)
LEMMA StreamStep ==
  IInv /\ Streams /\ [Next]_vars => [Stream!Next]_(Stream!vars)
<1> SUFFICES ASSUME IInv, Streams, [Next]_vars PROVE [Stream!Next]_(Stream!vars)
  OBVIOUS
<1> DEFINE Others == UNCHANGED <<buf, st, venc, toMaster, seen, encSeq>>
           Sends == /\ pc = "notify" /\ pc' = "recv" /\ buf' = <<>>
                    /\ toMaster' = Append(toMaster, Written)
                    /\ UNCHANGED <<st, venc, seen, encSeq>>
<1>0. TypeOK /\ TypeOK' /\ Lifecycle
  BY TypeStep DEF IInv
<1>1. CASE Others /\ (pc \notin Alive => pc' \notin Alive)
  <2>1. \A c \in Chns : /\ Taken(c)' \o Queued(c)' = Taken(c) \o Queued(c)
                        /\ Len(Taken(c)') = Len(Taken(c))
    BY <1>1, TakenSame, QueuedSame
  <2>2. CASE pc \in Alive /\ pc' \in Alive
    BY <1>0, <1>1, <2>1, <2>2, StreamMoved
  <2>3. CASE pc \in Alive /\ pc' \notin Alive
    <3>1. Has = Had
      BY <2>1, <2>3 DEF Has, Had, InThread
    <3> QED BY <1>0, <1>1, <2>1, <2>3, <3>1, StreamStops DEF Stream!Next
  <2>4. CASE pc \notin Alive /\ pc' \notin Alive
    BY <1>0, <1>1, <2>4, StreamIdle
  <2> QED BY <1>1, <2>2, <2>3, <2>4
<1>2. CASE Join
  <2>1. pc \notin Alive /\ pc' \notin Alive /\ UNCHANGED <<venc, toMaster, seen, encSeq>>
    BY <1>2 DEF Join, Alive, Ended, encVars
  <2> QED BY <1>0, <2>1, StreamIdle
<1>3. CASE Open
  BY <1>0, <1>3, OpenStarts DEF Stream!Next
<1>4. CASE Store \/ Keep
  <2>1. \A c \in Chns :
           /\ Taken(c)' \o Queued(c)' = Taken(c) \o Queued(c)
           /\ Len(Taken(c)') = IF ~full /\ c = i THEN Len(Taken(c)) + 1 ELSE Len(Taken(c))
    BY <1>4, TurnMoves
  <2>2. pc \in Alive /\ UNCHANGED <<toMaster, seen, encSeq>>
    BY <1>4 DEF Store, Keep, Alive
  <2>3. full => Has = Had
    BY <2>1, <2>2 DEF Has, Had, InThread
  <2>4. ~full => Has \in Stream!Takes
    BY <1>4, TurnTakes
  <2>5. CASE full /\ pc' \in Alive
    BY <1>0, <2>1, <2>2, <2>5, StreamMoved
  <2>6. CASE ~full /\ pc' \in Alive
    BY <1>0, <2>1, <2>2, <2>4, <2>6, StreamTakes DEF Stream!Next
  <2>7. CASE pc' \notin Alive
    BY <1>0, <2>1, <2>2, <2>3, <2>4, <2>7, StreamStops DEF Stream!Next
  <2> QED BY <2>5, <2>6, <2>7
<1>5. CASE Sends
  BY <1>0, <1>5, NotifyAnnounces DEF Stream!Next, Alive
<1>6. ASSUME NEW c \in Encoders, NEW l \in FrameLens[c], Encode(c, l)
      PROVE  Stream!Next
  BY <1>0, <1>6, EncodeProduces DEF Stream!Next
<1>7. CASE MasterReads
  BY <1>0, <1>7, ReadDelivers DEF Stream!Next
<1>8. CASE MasterDiscards
  BY <1>0, <1>8, DiscardIsNothing
<1> DEFINE Same == Others /\ (pc \notin Alive => pc' \notin Alive)
<1>9. CASE Main
  <2>1. CASE (\E cmd \in Commands : Handle(cmd)) \/ Ack
    <3>1. Same
      BY <2>1 DEF Handle, Ack, stageVars, threadVars, encVars
    <3> QED BY <1>1, <3>1
  <2> QED BY <1>2, <1>3, <1>9, <2>1 DEF Main
<1>10. CASE Thread
  <2>1. CASE Begin
    <3>1. Same
      BY <2>1 DEF Begin, stageVars, Streams, Alive
    <3> QED BY <1>1, <3>1
  <2>2. CASE Loop \/ FetchFails \/ Write \/ RecvFails
    <3>1. Same
      BY <2>2 DEF Loop, FetchFails, Write, RecvFails, stageVars, threadVars, encVars, Alive
    <3> QED BY <1>1, <3>1
  <2>3. CASE Select \/ Skip
    <3>1. Same
      BY <2>3 DEF Select, Skip, stageVars, encVars, Alive
    <3> QED BY <1>1, <3>1
  <2>4. CASE RecvRead \/ RecvTimeout
    <3>1. Same
      BY <2>4 DEF RecvRead, RecvTimeout, stageVars, encVars, Alive
    <3> QED BY <1>1, <3>1
  <2>5. CASE Notify
    <3>1. Sends \/ Same
      BY <2>5 DEF Notify, stageVars, threadVars, encVars, Alive
    <3> QED BY <1>1, <1>5, <3>1
  <2> QED BY <1>4, <1>10, <2>1, <2>2, <2>3, <2>4, <2>5 DEF Thread
<1>11. CASE Exited \/ UNCHANGED vars
  <2>1. Same
    BY <1>11 DEF Exited, vars, stageVars, threadVars, encVars
  <2> QED BY <1>1, <2>1
<1> QED BY <1>6, <1>7, <1>8, <1>9, <1>10, <1>11 DEF Next

(* FrameStream: whatever batches they travel in, the frames of a session     *)
(* reach the master in the order they were encoded, none lost and none       *)
(* twice; a session that ends loses what its thread had taken and the frame  *)
(* it was taking, and nothing that waits in the encoders.                    *)
THEOREM ImplementsFrameStream == Spec => IsFrameStream
<1>1. Init => Streams
  BY DEF Init, Streams
<1>2. Init => Stream!Init
  <2> SUFFICES ASSUME Init PROVE Stream!Init
    OBVIOUS
  <2>1. pc \notin Alive
    BY DEF Init, Alive
  <2>2. ASSUME NEW c \in Chns PROVE Held(c) = <<>> /\ Len(InThread(c)) = 0
    <3>1. Queued(c) = <<>>
      BY DEF Init, Queued
    <3> QED BY <2>1, <3>1, EmptySeq, ConcatEmptySeq DEF Held, InThread
  <2>3. ASSUME NEW c \in Chns PROVE Sent(c) = <<>>
    <3>1. Bodies = <<>>
      BY DEF Init, Bodies
    <3>2. <<>> \in EntrySeqs /\ \A k \in DOMAIN <<>> : <<>>[k] = <<>>
      BY EmptySeq DEF EntrySeqs
    <3>3. Numbers(<<>>, c) = <<>>
      BY <3>2, NumbersNone
    <3> QED BY <3>1, <3>3 DEF Sent
  <2>4. (pc \in Alive) = FALSE
    BY <2>1
  <2> QED BY <2>2, <2>3, <2>4 DEF Init, Stream!Init, Stream!None
<1>3. IInv /\ Streams /\ [Next]_vars => Streams'
  BY StreamsStep
<1>4. IInv /\ Streams /\ [Next]_vars => [Stream!Next]_(Stream!vars)
  BY StreamStep
<1> QED BY <1>1, <1>2, <1>3, <1>4, Invariance, PTL DEF Spec, IsFrameStream, Stream!Spec

(* So FrameStream's promise holds of the transport, end to end.              *)
Promise == INSTANCE FrameStreamProofs WITH
  Channels <- Chns, Mod <- FrameMod,
  up   <- pc \in Alive,
  held <- [c \in Chns |-> Held(c)],
  taken <- [c \in Chns |-> Len(InThread(c))],
  sent <- [c \in Chns |-> Sent(c)],
  last <- seen,
  next <- encSeq

LEMMA SameStream ==
  /\ Stream!Init <=> Promise!Init
  /\ [Stream!Next]_(Stream!vars) <=> [Promise!Next]_(Promise!vars)
  /\ Stream!InOrder <=> Promise!InOrder
<1>1. Stream!Init <=> Promise!Init
  BY Zenon DEF Stream!Init, Promise!Init, Stream!None, Promise!None
<1>2. \A c : Stream!Produce(c) <=> Promise!Produce(c)
  BY Zenon DEF Stream!Produce, Promise!Produce, Stream!Succ, Promise!Succ
<1>3. Stream!Announce <=> Promise!Announce
  BY Zenon DEF Stream!Announce, Promise!Announce, Stream!Counts, Promise!Counts,
     Stream!First, Promise!First, Stream!Rest, Promise!Rest
<1>4. Stream!Deliver <=> Promise!Deliver
  BY Zenon DEF Stream!Deliver, Promise!Deliver, Stream!Counts, Promise!Counts,
     Stream!Rest, Promise!Rest
<1>5. Stream!Stop <=> Promise!Stop
  BY Zenon DEF Stream!Stop, Promise!Stop, Stream!Takes, Promise!Takes,
     Stream!Rest, Promise!Rest
<1>6. Stream!Start <=> Promise!Start
  BY Zenon DEF Stream!Start, Promise!Start, Stream!None, Promise!None
<1>7. Stream!Take <=> Promise!Take
  BY Zenon DEF Stream!Take, Promise!Take, Stream!Takes, Promise!Takes
<1>8. [Stream!Next]_(Stream!vars) <=> [Promise!Next]_(Promise!vars)
  <2>1. (\E c \in Chns : Stream!Produce(c)) <=> (\E c \in Chns : Promise!Produce(c))
    BY <1>2, Zenon
  <2>2. Stream!Next <=> Promise!Next
    BY <1>3, <1>4, <1>5, <1>6, <1>7, <2>1, Zenon DEF Stream!Next, Promise!Next
  <2>3. UNCHANGED Stream!vars <=> UNCHANGED Promise!vars
    BY DEF Stream!vars, Promise!vars
  <2> QED BY <2>2, <2>3
<1>9. Stream!InOrder <=> Promise!InOrder
  BY Zenon DEF Stream!InOrder, Promise!InOrder, Stream!Consecutive, Promise!Consecutive,
     Stream!Follows, Promise!Follows, Stream!None, Promise!None, Stream!Succ, Promise!Succ
<1> QED BY <1>1, <1>8, <1>9

(* The master reads the frames of every channel in order, without a gap or a *)
(* repetition, within a session: FrameStreamProofs!Order at the mapping.     *)
THEOREM FramesInOrder == Spec => []Stream!InOrder
<1>1. FrameMod \in Nat \ {0}
  BY TransAssumption
<1>2. Promise!Spec => []Promise!InOrder
  BY <1>1, Promise!Order
<1>3. Stream!Init <=> Promise!Init
  BY SameStream
<1>4. [Stream!Next]_(Stream!vars) <=> [Promise!Next]_(Promise!vars)
  BY SameStream
<1>5. Stream!InOrder <=> Promise!InOrder
  BY SameStream
<1> QED BY <1>2, <1>3, <1>4, <1>5, ImplementsFrameStream, PTL
        DEF IsFrameStream, Stream!Spec, Promise!Spec

-----------------------------------------------------------------------------
(* main.cpp: unless Initialize() fails halfway, an ACK is sent by a slave  *)
(* that is ready: the block of the session before is always back in time.  *)
THEOREM AckWhenReady == ~InitFaults /\ Spec => AckMeansReady
<1>1. ~InitFaults /\ IInv => (main = "ack" /\ main' = "idle" => init)
  BY DEF IInv, Lifecycle
<1>2. CASE InitFaults
  BY <1>2
<1>3. CASE ~InitFaults
  <2>1. IInv => [main = "ack" /\ main' = "idle" => init]_vars
    BY <1>1, <1>3
  <2> QED BY <2>1, Invariance, PTL DEF AckMeansReady
<1> QED BY <1>2, <1>3
=============================================================================
