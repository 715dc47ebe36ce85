--------------------------- MODULE CmdLoopProofs ---------------------------
(***************************************************************************)
(* The message loop, for every length of a message, every capacity of the  *)
(* driver, of a read and of msg_buf, and every set of message types.       *)
(***************************************************************************)
EXTENDS CmdLoop, SequenceTheorems, TLAPS

-----------------------------------------------------------------------------
(* Sequences: a cut, a join, and a join after a cut.                        *)

LEMMA PrefixOf ==
  ASSUME NEW S, NEW q \in Seq(S), NEW n \in 0 .. Len(q)
  PROVE  /\ SubSeq(q, 1, n) \in Seq(S) /\ Len(SubSeq(q, 1, n)) = n
         /\ \A j \in 1 .. n : SubSeq(q, 1, n)[j] = q[j]
<1>1. Len(q) \in Nat /\ \A j \in 1 .. Len(q) : q[j] \in S
  BY LenProperties, ElementOfSeq
<1>2. \A j \in 1 .. n : q[j] \in S
  BY <1>1
<1>3. /\ SubSeq(q, 1, n) \in Seq(S)
      /\ Len(SubSeq(q, 1, n)) = IF 1 <= n THEN n - 1 + 1 ELSE 0
      /\ \A j \in 1 .. n - 1 + 1 : SubSeq(q, 1, n)[j] = q[1 + j - 1]
  BY <1>1, <1>2, SubSeqProperties
<1> QED BY <1>1, <1>3

LEMMA SuffixOf ==
  ASSUME NEW S, NEW q \in Seq(S), NEW n \in 0 .. Len(q)
  PROVE  /\ SubSeq(q, n + 1, Len(q)) \in Seq(S)
         /\ Len(SubSeq(q, n + 1, Len(q))) = Len(q) - n
         /\ \A j \in 1 .. Len(q) - n : SubSeq(q, n + 1, Len(q))[j] = q[n + j]
<1>1. Len(q) \in Nat /\ \A j \in 1 .. Len(q) : q[j] \in S
  BY LenProperties, ElementOfSeq
<1>2. \A j \in n + 1 .. Len(q) : q[j] \in S
  BY <1>1
<1>3. /\ SubSeq(q, n + 1, Len(q)) \in Seq(S)
      /\ Len(SubSeq(q, n + 1, Len(q))) =
           IF n + 1 <= Len(q) THEN Len(q) - (n + 1) + 1 ELSE 0
      /\ \A j \in 1 .. Len(q) - (n + 1) + 1 :
           SubSeq(q, n + 1, Len(q))[j] = q[n + 1 + j - 1]
  BY <1>1, <1>2, SubSeqProperties
<1> QED BY <1>1, <1>3

LEMMA JoinOf ==
  ASSUME NEW S, NEW p \in Seq(S), NEW q \in Seq(S)
  PROVE  /\ p \o q \in Seq(S) /\ Len(p) \in Nat /\ Len(q) \in Nat
         /\ Len(p \o q) = Len(p) + Len(q)
         /\ \A j \in 1 .. Len(p) : (p \o q)[j] = p[j]
         /\ \A j \in 1 .. Len(q) : (p \o q)[Len(p) + j] = q[j]
         /\ p \o q = <<>> <=> p = <<>> /\ q = <<>>
<1>1. Len(p) \in Nat /\ Len(q) \in Nat
  BY LenProperties
<1>2. /\ p \o q \in Seq(S) /\ Len(p \o q) = Len(p) + Len(q)
      /\ \A i \in 1 .. Len(p) + Len(q) :
           (p \o q)[i] = IF i <= Len(p) THEN p[i] ELSE q[i - Len(p)]
  BY ConcatProperties
<1>3. p \o q = <<>> <=> p = <<>> /\ q = <<>>
  BY ConcatEqualIffEmpty
<1> QED BY <1>1, <1>2, <1>3

(* Two parts that hold the elements of a sequence in order make it up. *)
LEMMA PartsMake ==
  ASSUME NEW S, NEW q \in Seq(S), NEW n \in 0 .. Len(q), NEW a \in Seq(S), NEW b \in Seq(S),
         Len(a) = n, \A j \in 1 .. n : a[j] = q[j],
         Len(b) = Len(q) - n, \A j \in 1 .. Len(q) - n : b[j] = q[n + j]
  PROVE  a \o b = q
<1>1. Len(q) \in Nat
  BY LenProperties
<1>2. /\ a \o b \in Seq(S) /\ Len(a \o b) = Len(q)
      /\ \A j \in 1 .. n : (a \o b)[j] = a[j]
      /\ \A j \in 1 .. Len(q) - n : (a \o b)[n + j] = b[j]
  BY <1>1, JoinOf
<1>3. ASSUME NEW j \in 1 .. Len(q) PROVE (a \o b)[j] = q[j]
  <2>1. CASE j <= n
    BY <2>1, <1>1, <1>2
  <2>2. CASE ~(j <= n)
    <3>1. PICK m \in 1 .. Len(q) - n : n + m = j
      <4>1. j - n \in 1 .. Len(q) - n /\ n + (j - n) = j
        BY <2>2, <1>1
      <4> QED BY <4>1
    <3>2. (a \o b)[n + m] = b[m] /\ b[m] = q[n + m]
      BY <1>2
    <3> QED BY <3>1, <3>2
  <2> QED BY <2>1, <2>2
<1> QED BY <1>2, <1>3, SeqEqual

(* What is read off one sequence and put behind another stays in its place. *)
LEMMA MoveUnits ==
  ASSUME NEW S, NEW p \in Seq(S), NEW q \in Seq(S), NEW n \in 0 .. Len(q)
  PROVE  (p \o SubSeq(q, 1, n)) \o SubSeq(q, n + 1, Len(q)) = p \o q
<1>1. \E a, b \in Seq(S) : a = SubSeq(q, 1, n) /\ b = SubSeq(q, n + 1, Len(q)) /\ a \o b = q
  <2>1. PICK a : a = SubSeq(q, 1, n)
    OBVIOUS
  <2>2. PICK b : b = SubSeq(q, n + 1, Len(q))
    OBVIOUS
  <2>3. a \in Seq(S) /\ Len(a) = n /\ \A j \in 1 .. n : a[j] = q[j]
    BY <2>1, PrefixOf, Zenon
  <2>4. b \in Seq(S) /\ Len(b) = Len(q) - n /\ \A j \in 1 .. Len(q) - n : b[j] = q[n + j]
    BY <2>2, SuffixOf, Zenon
  <2>5. a \o b = q
    BY <2>3, <2>4, PartsMake
  <2> QED BY <2>1, <2>2, <2>3, <2>4, <2>5
<1>2. PICK a \in Seq(S), b \in Seq(S) :
        a = SubSeq(q, 1, n) /\ b = SubSeq(q, n + 1, Len(q)) /\ a \o b = q
  BY <1>1, Zenon
<1>3. (p \o a) \o b = p \o (a \o b)
  BY ConcatAssociative, SMTT(30)
<1> QED BY <1>2, <1>3, Zenon

(* A message is MsgLen units, all with its type and number. *)
LEMMA UnitsType ==
  ASSUME NEW type \in Types \cup {"ACK"}, NEW id \in -1 .. IdMod - 1
  PROVE  /\ Units(type, id) \in Seq(Unit) /\ Len(Units(type, id)) = MsgLen
         /\ \A k \in 1 .. MsgLen : Units(type, id)[k] = [type |-> type, id |-> id, k |-> k]
<1> USE CommAssumption, LoopAssumption
<1>1. Units(type, id) \in [1 .. MsgLen -> Unit]
  BY DEF Units, Unit
<1> QED BY <1>1 DEF Units

-----------------------------------------------------------------------------
(* Recv() leaves its loop: what it takes out of the units q it has.         *)
LEMMA LeaveRecvType ==
  ASSUME TypeOK, NEW q \in Seq(Unit), Len(q) <= BufCap, LeaveRecv(q)
  PROVE  /\ msgBuf' \in Seq(Unit) /\ Len(msgBuf') <= BufCap
         /\ msg' \in [type : Types \cup {"ACK"}, id : -1 .. IdMod - 1]
         /\ gotId' \in -1 .. IdMod - 1 /\ dropped' \in {0, 1}
         /\ answered' \in BOOLEAN /\ main' \in {main, "switch"}
<1> USE CommAssumption, LoopAssumption
<1>1. Len(q) \in Nat
  BY LenProperties
<1>2. CASE gRun /\ ~Whole(q)
  BY <1>2 DEF LeaveRecv, TypeOK, LoopTypeOK
<1>3. CASE ~(gRun /\ ~Whole(q)) /\ ~Whole(q)
  BY <1>3 DEF LeaveRecv, TypeOK, LoopTypeOK
<1>4. CASE Whole(q)
  <2>1. Rest(q) \in Seq(Unit) /\ Len(Rest(q)) = Len(q) - MsgLen
    BY <1>1, <1>4, SuffixOf DEF Whole, Rest
  <2>2. Whole(Rest(q)) => Rest(Rest(q)) \in Seq(Unit) /\ Len(Rest(Rest(q))) <= BufCap
    <3> SUFFICES ASSUME Whole(Rest(q))
                 PROVE  Rest(Rest(q)) \in Seq(Unit) /\ Len(Rest(Rest(q))) <= BufCap
      OBVIOUS
    <3>1. PICK r \in Seq(Unit) : r = Rest(q)
      BY <2>1
    <3>2. Len(r) \in Nat /\ MsgLen \in 0 .. Len(r)
      BY <3>1, LenProperties DEF Whole
    <3>3. Rest(r) \in Seq(Unit) /\ Len(Rest(r)) = Len(r) - MsgLen
      BY <3>2, SuffixOf DEF Rest
    <3> QED BY <1>1, <2>1, <3>1, <3>2, <3>3
  <2>3. q[1] \in Unit
    BY <1>1, <1>4, ElementOfSeq DEF Whole
  <2>4. /\ answered' = FALSE /\ main' = "switch"
        /\ \/ msg' = [type |-> q[1].type, id |-> q[1].id] /\ gotId' = q[1].id
           \/ msg' \in [type : Types \cup {"ACK"}, id : {-1}] /\ gotId' = -1
        /\ \/ Whole(Rest(q)) /\ msgBuf' = Rest(Rest(q)) /\ dropped' = 1
           \/ msgBuf' = Rest(q) /\ dropped' = 0
    BY <1>4 DEF LeaveRecv
  <2>5. /\ msg' \in [type : Types \cup {"ACK"}, id : -1 .. IdMod - 1]
        /\ gotId' \in -1 .. IdMod - 1
    BY <2>3, <2>4 DEF Unit
  <2>6. msgBuf' \in Seq(Unit) /\ Len(msgBuf') <= BufCap
    BY <1>1, <2>1, <2>2, <2>4
  <2> QED BY <2>4, <2>5, <2>6
<1> QED BY <1>2, <1>3, <1>4

(* What one read() brings. *)
LEMMA ReadType ==
  ASSUME TypeOK, NEW n \in 1 .. TmpLen, n <= Len(down)
  PROVE  LET q == msgBuf \o SubSeq(down, 1, n)
         IN  /\ q \in Seq(Unit) /\ Len(q) = Len(msgBuf) + n
             /\ SubSeq(down, n + 1, Len(down)) \in Seq(Unit)
             /\ Len(SubSeq(down, n + 1, Len(down))) = Len(down) - n
             /\ q \o SubSeq(down, n + 1, Len(down)) = msgBuf \o down
             /\ \A j \in 1 .. n : q[Len(msgBuf) + j] = down[j]
<1> USE CommAssumption, LoopAssumption
<1>1. /\ down \in Seq(Unit) /\ msgBuf \in Seq(Unit)
      /\ Len(down) \in Nat /\ n \in 0 .. Len(down)
  <2>1. down \in Seq(Unit) /\ msgBuf \in Seq(Unit)
    BY DEF TypeOK, CommTypeOK, LoopTypeOK
  <2>2. Len(down) \in Nat
    BY <2>1
  <2> QED BY <2>1, <2>2
<1>2. PICK a : a \in Seq(Unit) /\ a = SubSeq(down, 1, n) /\ Len(a) = n
               /\ \A j \in 1 .. n : a[j] = down[j]
  <2>1. PICK a : a = SubSeq(down, 1, n)
    OBVIOUS
  <2>2. a \in Seq(Unit) /\ Len(a) = n /\ \A j \in 1 .. n : a[j] = down[j]
    BY <1>1, <2>1, PrefixOf, Zenon
  <2> QED BY <2>1, <2>2
<1>3. /\ msgBuf \o a \in Seq(Unit) /\ Len(msgBuf \o a) = Len(msgBuf) + n
      /\ \A j \in 1 .. n : (msgBuf \o a)[Len(msgBuf) + j] = a[j]
  BY <1>1, <1>2, JoinOf
<1>4. /\ SubSeq(down, n + 1, Len(down)) \in Seq(Unit)
      /\ Len(SubSeq(down, n + 1, Len(down))) = Len(down) - n
  BY <1>1, SuffixOf, Zenon
<1>5. (msgBuf \o SubSeq(down, 1, n)) \o SubSeq(down, n + 1, Len(down)) = msgBuf \o down
  BY <1>1, MoveUnits, Zenon
<1> QED BY <1>2, <1>3, <1>4, <1>5

-----------------------------------------------------------------------------
(* Types: of the ports and of the loop.                                     *)

LEMMA TypeInit == Init => TypeOK
<1> SUFFICES ASSUME Init PROVE TypeOK
  OBVIOUS
<1>1. <<>> \in Seq(Unit) /\ Len(<<>>) = 0
  BY EmptySeq
<1>2. /\ 0 <= PipeCap /\ 0 <= BufCap /\ 0 \in 0 .. IdMod - 1 /\ 0 \in -1 .. IdMod - 1
      /\ -1 \in -1 .. IdMod - 1
  BY CommAssumption, LoopAssumption
<1>3. CommTypeOK
  <2>1. /\ comm = "enum" /\ fds = {} /\ init = FALSE /\ ready = FALSE
        /\ down = <<>> /\ up = <<>> /\ out = <<>> /\ torn = FALSE
    BY DEF Init, CommInit
  <2> QED BY <1>1, <1>2, <2>1 DEF CommTypeOK
<1>4. LoopTypeOK
  <2>1. PICK t \in Garbage : msg = [type |-> t, id |-> -1]
    BY DEF Init
  <2>2. msg \in [type : Types \cup {"ACK"}, id : -1 .. IdMod - 1]
    BY <1>2, <2>1, LoopAssumption
  <2>3. /\ main = "start" /\ trans = "closed" /\ gRun = TRUE /\ gOpt = "" /\ msgBuf = <<>>
        /\ sentId = 0 /\ gotId = 0 /\ dropped = 0 /\ lost = FALSE
        /\ answered = FALSE /\ twice = FALSE /\ termed = FALSE
    BY DEF Init
  <2> QED BY <1>1, <1>2, <2>2, <2>3 DEF LoopTypeOK
<1> QED BY <1>3, <1>4 DEF TypeOK

(* What the ports and the master do leaves the types of the loop alone.     *)
LEMMA LoopTypeKept ==
  LoopTypeOK /\ UNCHANGED <<main, loopVars, history>> => LoopTypeOK'
<1> SUFFICES ASSUME LoopTypeOK, UNCHANGED <<main, loopVars, history>> PROVE LoopTypeOK'
  OBVIOUS
<1>1. /\ main' = main /\ trans' = trans /\ gRun' = gRun /\ gOpt' = gOpt
      /\ msgBuf' = msgBuf /\ msg' = msg /\ sentId' = sentId /\ gotId' = gotId
      /\ dropped' = dropped /\ lost' = lost /\ answered' = answered /\ twice' = twice
      /\ termed' = termed
  BY DEF loopVars, history
<1>2. /\ main' \in {"start", "recv", "switch", "stop", "restart", "send", "close", "gone"}
      /\ trans' \in {"closed", "runs", "ended"}
  BY <1>1, Zenon DEF LoopTypeOK
<1>3. /\ gRun' \in BOOLEAN /\ gOpt' \in Ending \cup {""}
      /\ lost' \in BOOLEAN /\ answered' \in BOOLEAN /\ twice' \in BOOLEAN
      /\ termed' \in BOOLEAN
  BY <1>1, Zenon DEF LoopTypeOK
<1>4. /\ msgBuf' \in Seq(Unit) /\ Len(msgBuf') <= BufCap
      /\ msg' \in [type : Types \cup {"ACK"}, id : -1 .. IdMod - 1]
      /\ sentId' \in 0 .. IdMod - 1 /\ gotId' \in -1 .. IdMod - 1 /\ dropped' \in {0, 1}
  BY <1>1, Zenon DEF LoopTypeOK
<1> QED BY <1>2, <1>3, <1>4 DEF LoopTypeOK

(* Main's position is the only thing of the loop that starting it changes.  *)
LEMMA StartType == TypeOK /\ Start => TypeOK'
<1> SUFFICES ASSUME TypeOK, Start PROVE TypeOK'
  OBVIOUS
<1>1. /\ comm' \in {"enum", "open0", "open1", "open2", "wait", "check", "up",
                    "failed", "closed"}
      /\ fds' \subseteq Ports \cup {"enum", "wait"} /\ init' \in BOOLEAN
      /\ UNCHANGED portVars
      /\ main' \in {"start", "recv", "close"}
  <2> USE DEF TypeOK, CommTypeOK
  <2>1. CASE CommInitialize /\ UNCHANGED main
    <3>1. main' = "start"
      BY <2>1 DEF Start
    <3>2. CASE EnumChip
      BY <3>1, <3>2 DEF EnumChip, InitStep
    <3>3. CASE OpenPorts
      BY <3>1, <3>3 DEF OpenPorts, InitStep, Ports
    <3>4. CASE WaitConn
      BY <3>1, <3>4 DEF WaitConn, InitStep
    <3>5. CASE Connected
      BY <3>1, <3>5 DEF Connected
    <3> QED BY <2>1, <3>2, <3>3, <3>4, <3>5 DEF CommInitialize
  <2>2. CASE UNCHANGED commVars /\ main' = IF gRun THEN "recv" ELSE "close"
    BY <2>2 DEF commVars, portVars
  <2> QED BY <2>1, <2>2 DEF Start
<1>2. CommTypeOK'
  BY <1>1 DEF TypeOK, CommTypeOK, portVars
<1>3. LoopTypeOK'
  <2>1. LoopTypeOK /\ UNCHANGED <<loopVars, history>>
    BY DEF Start, TypeOK
  <2>2. main' \in {"start", "recv", "switch", "stop", "restart", "send", "close", "gone"}
    BY <1>1
  <2> QED BY <2>1, <2>2 DEF LoopTypeOK, loopVars, history
<1> QED BY <1>2, <1>3 DEF TypeOK

LEMMA RecvReadType == TypeOK /\ RecvRead => TypeOK'
<1> SUFFICES ASSUME TypeOK, RecvRead PROVE TypeOK'
  OBVIOUS
<1>1. PICK n \in 1 .. TmpLen :
        /\ n <= Len(down)
        /\ down' = SubSeq(down, n + 1, Len(down))
        /\ IF n > BufCap - Len(msgBuf)
           THEN /\ main' = "switch" /\ lost' = TRUE
                /\ UNCHANGED <<msgBuf, msg, gotId, dropped, answered>>
           ELSE LeaveRecv(msgBuf \o SubSeq(down, 1, n)) /\ UNCHANGED lost
  BY DEF RecvRead
<1>2. PICK q \in Seq(Unit) :
        q = msgBuf \o SubSeq(down, 1, n) /\ Len(q) = Len(msgBuf) + n
  BY <1>1, ReadType
<1>3. down' \in Seq(Unit) /\ Len(down') = Len(down) - n
  BY <1>1, ReadType
<1>4. Len(down) \in Nat /\ Len(msgBuf) \in Nat
  BY LenProperties DEF TypeOK, CommTypeOK, LoopTypeOK
<1>5. /\ msgBuf' \in Seq(Unit) /\ Len(msgBuf') <= BufCap
      /\ msg' \in [type : Types \cup {"ACK"}, id : -1 .. IdMod - 1]
      /\ gotId' \in -1 .. IdMod - 1 /\ dropped' \in {0, 1}
      /\ answered' \in BOOLEAN /\ main' \in {main, "switch"} /\ lost' \in BOOLEAN
  <2>1. CASE n > BufCap - Len(msgBuf)
    BY <1>1, <2>1 DEF TypeOK, LoopTypeOK
  <2>2. CASE ~(n > BufCap - Len(msgBuf))
    <3>1. Len(q) <= BufCap /\ LeaveRecv(q) /\ lost' = lost
      BY <1>1, <1>2, <1>4, <2>2, LoopAssumption
    <3> QED BY <3>1, LeaveRecvType DEF TypeOK, LoopTypeOK
  <2> QED BY <2>1, <2>2
<1>6. CommTypeOK'
  <2>1. Len(down') <= PipeCap
    BY <1>3, <1>4, CommAssumption DEF TypeOK, CommTypeOK
  <2> QED BY <1>3, <2>1 DEF RecvRead, TypeOK, CommTypeOK
<1>7. LoopTypeOK'
  <2>1. main' \in {"recv", "switch"}
    BY <1>5 DEF RecvRead
  <2>2. UNCHANGED <<trans, gRun, gOpt, sentId, twice, termed>>
    BY DEF RecvRead
  <2> QED BY <1>5, <2>1, <2>2 DEF TypeOK, LoopTypeOK
<1> QED BY <1>6, <1>7 DEF TypeOK

LEMMA RecvTimeoutType == TypeOK /\ RecvTimeout => TypeOK'
<1> SUFFICES ASSUME TypeOK, RecvTimeout PROVE TypeOK'
  OBVIOUS
<1>1. msgBuf \in Seq(Unit) /\ Len(msgBuf) <= BufCap /\ LeaveRecv(msgBuf)
  BY DEF TypeOK, LoopTypeOK, RecvTimeout
<1>2. /\ msgBuf' \in Seq(Unit) /\ Len(msgBuf') <= BufCap
      /\ msg' \in [type : Types \cup {"ACK"}, id : -1 .. IdMod - 1]
      /\ gotId' \in -1 .. IdMod - 1 /\ dropped' \in {0, 1}
      /\ answered' \in BOOLEAN /\ main' \in {main, "switch"}
  BY <1>1, LeaveRecvType
<1>3. CommTypeOK'
  BY DEF RecvTimeout, commVars, TypeOK, CommTypeOK
<1>4. main' \in {"recv", "switch"} /\ UNCHANGED <<trans, gRun, gOpt, sentId, lost, twice, termed>>
  BY <1>2 DEF RecvTimeout
<1>5. LoopTypeOK'
  BY <1>2, <1>4 DEF TypeOK, LoopTypeOK
<1> QED BY <1>3, <1>5 DEF TypeOK

LEMMA ReplyType == TypeOK /\ Reply => TypeOK'
<1> SUFFICES ASSUME TypeOK, Reply PROVE TypeOK'
  OBVIOUS
<1>1. out' \in Seq(Unit)
  <2>1. msg.id \in -1 .. IdMod - 1
    BY DEF TypeOK, LoopTypeOK
  <2>2. Units("ACK", msg.id) \in Seq(Unit)
    BY <2>1, UnitsType
  <2> QED BY <2>2, EmptySeq DEF Reply
<1>2. CommTypeOK'
  BY <1>1 DEF Reply, TypeOK, CommTypeOK
<1>3. LoopTypeOK'
  <2>1. msg' \in [type : Types \cup {"ACK"}, id : -1 .. IdMod - 1]
    BY DEF Reply, TypeOK, LoopTypeOK
  <2>2. trans' \in {"closed", "runs", "ended"}
    BY DEF Reply, Answering, TypeOK, LoopTypeOK
  <2> QED BY <2>1, <2>2 DEF Reply, TypeOK, LoopTypeOK
<1> QED BY <1>2, <1>3 DEF TypeOK

LEMMA SendType == TypeOK /\ Send => TypeOK'
<1> SUFFICES ASSUME TypeOK, Send PROVE TypeOK'
  OBVIOUS
<1>1. up' \in Seq(Unit) /\ out' \in Seq(Unit) /\ Len(up') <= PipeCap /\ torn' \in BOOLEAN
  <2>1. up \in Seq(Unit) /\ out \in Seq(Unit)
    BY DEF TypeOK, CommTypeOK
  <2>2. Len(up) \in Nat /\ Len(out) \in Nat
    BY <2>1, LenProperties
  <2>3. CASE WriteSome
    <3>1. PICK n \in 1 .. Len(out) :
            /\ n <= PipeCap - Len(up) /\ up' = up \o SubSeq(out, 1, n)
            /\ out' = SubSeq(out, n + 1, Len(out)) /\ UNCHANGED torn
      BY <2>3 DEF WriteSome
    <3>2. n \in 0 .. Len(out)
      BY <2>2
    <3>3. PICK a : a = SubSeq(out, 1, n)
      OBVIOUS
    <3>4. a \in Seq(Unit) /\ Len(a) = n
      BY <2>1, <3>2, <3>3, PrefixOf, Zenon
    <3>5. up \o a \in Seq(Unit) /\ Len(up \o a) = Len(up) + n
      BY <2>1, <3>4, JoinOf
    <3>6. out' \in Seq(Unit)
      BY <2>1, <3>1, <3>2, SuffixOf, Zenon
    <3>7. up' \in Seq(Unit) /\ Len(up') <= PipeCap
      BY <2>2, <3>1, <3>3, <3>5, CommAssumption
    <3> QED BY <3>1, <3>6, <3>7 DEF TypeOK, CommTypeOK
  <2>4. CASE WriteFails
    BY <2>1, <2>4, EmptySeq DEF WriteFails, TypeOK, CommTypeOK
  <2> QED BY <2>3, <2>4 DEF Send
<1>2. CommTypeOK'
  BY <1>1 DEF Send, TypeOK, CommTypeOK
<1>3. LoopTypeOK'
  BY DEF Send, TypeOK, LoopTypeOK, loopVars, history
<1> QED BY <1>2, <1>3 DEF TypeOK

LEMMA MasterSendsType ==
  ASSUME TypeOK, NEW type \in Types, MasterSends(type)
  PROVE  TypeOK' /\ sentId' \in 0 .. IdMod - 1
<1>1. sentId' \in 0 .. IdMod - 1
  <2>1. sentId \in 0 .. IdMod - 1
    BY DEF TypeOK, LoopTypeOK
  <2>2. sentId' = (sentId + 1) % IdMod
    BY DEF MasterSends
  <2> QED BY <2>1, <2>2, CommAssumption, SMT
<1>2. Units(type, sentId') \in Seq(Unit) /\ Len(Units(type, sentId')) = MsgLen
  <2>1. sentId' \in -1 .. IdMod - 1
    BY <1>1, CommAssumption
  <2> QED BY <2>1, UnitsType
<1>3. /\ down \o Units(type, sentId') \in Seq(Unit)
      /\ Len(down \o Units(type, sentId')) = Len(down) + MsgLen
  <2>1. PICK u \in Seq(Unit) : u = Units(type, sentId') /\ Len(u) = MsgLen
    BY <1>2
  <2>2. down \in Seq(Unit)
    BY DEF TypeOK, CommTypeOK
  <2>3. down \o u \in Seq(Unit) /\ Len(down \o u) = Len(down) + Len(u)
    BY <2>2, JoinOf
  <2> QED BY <2>1, <2>3
<1>4. CommTypeOK'
  BY <1>3 DEF MasterSends, TypeOK, CommTypeOK
<1>5. LoopTypeOK'
  <2>1. /\ main' = main /\ trans' = trans /\ gRun' = gRun /\ gOpt' = gOpt
        /\ msgBuf' = msgBuf /\ msg' = msg /\ gotId' = gotId
        /\ dropped' = dropped /\ lost' = lost /\ answered' = answered /\ twice' = twice
        /\ termed' = termed
    BY DEF MasterSends, loopVars
  <2>2. LoopTypeOK
    BY DEF TypeOK
  <2>3. /\ main' \in {"start", "recv", "switch", "stop", "restart", "send", "close", "gone"}
        /\ trans' \in {"closed", "runs", "ended"}
    BY <2>1, <2>2, Zenon DEF LoopTypeOK
  <2>4. /\ gRun' \in BOOLEAN /\ gOpt' \in Ending \cup {""}
        /\ lost' \in BOOLEAN /\ answered' \in BOOLEAN /\ twice' \in BOOLEAN
        /\ termed' \in BOOLEAN
    BY <2>1, <2>2, Zenon DEF LoopTypeOK
  <2>5. /\ msgBuf' \in Seq(Unit) /\ Len(msgBuf') <= BufCap
        /\ msg' \in [type : Types \cup {"ACK"}, id : -1 .. IdMod - 1]
        /\ gotId' \in -1 .. IdMod - 1 /\ dropped' \in {0, 1}
    BY <2>1, <2>2, Zenon DEF LoopTypeOK
  <2> QED BY <1>1, <2>3, <2>4, <2>5 DEF LoopTypeOK
<1> QED BY <1>1, <1>4, <1>5 DEF TypeOK

LEMMA MasterReadsType == TypeOK /\ MasterReads => TypeOK'
<1> SUFFICES ASSUME TypeOK, MasterReads PROVE TypeOK'
  OBVIOUS
<1>1. PICK n \in 1 .. Len(up) : up' = SubSeq(up, n + 1, Len(up))
  BY DEF MasterReads
<1>2. up \in Seq(Unit) /\ Len(up) \in Nat
  BY LenProperties DEF TypeOK, CommTypeOK
<1>3. n \in 0 .. Len(up)
  BY <1>2
<1>4. up' \in Seq(Unit) /\ Len(up') = Len(up) - n
  BY <1>1, <1>2, <1>3, SuffixOf, Zenon
<1>5. Len(up') <= PipeCap
  BY <1>2, <1>4, CommAssumption DEF TypeOK, CommTypeOK
<1>6. CommTypeOK'
  BY <1>4, <1>5 DEF MasterReads, TypeOK, CommTypeOK
<1>7. LoopTypeOK'
  BY LoopTypeKept DEF MasterReads, TypeOK
<1> QED BY <1>6, <1>7 DEF TypeOK

LEMMA TypeStep == TypeOK /\ [Next]_vars => TypeOK'
<1> SUFFICES ASSUME TypeOK, [Next]_vars PROVE TypeOK'
  OBVIOUS
<1> DEFINE Quiet == RecvFails \/ Handle \/ StopTrans \/ Restart \/ Sent \/ Signal
                    \/ TransEnds \/ Exited \/ UNCHANGED vars
<1>1. ASSUME Quiet \/ Close \/ MasterUp
      PROVE  CommTypeOK'
  <2>1. CASE Quiet
    <3>1. UNCHANGED commVars
      BY <2>1 DEF RecvFails, Handle, StopTrans, Restart, Sent, Signal, TransEnds, Exited, vars
    <3> QED BY <3>1 DEF TypeOK, CommTypeOK, commVars
  <2>2. CASE Close
    BY <2>2 DEF Close, CommClose, TypeOK, CommTypeOK, portVars
  <2>3. CASE MasterUp
    BY <2>3 DEF MasterUp, TypeOK, CommTypeOK
  <2> QED BY <1>1, <2>1, <2>2, <2>3
<1>2. ASSUME Quiet \/ Close \/ MasterUp
      PROVE  LoopTypeOK'
  <2>0. LoopTypeOK
    BY DEF TypeOK
  <2> USE DEF LoopTypeOK
  <2>1. CASE RecvFails
    BY <2>0, <2>1 DEF RecvFails, loopVars, history
  <2>2. CASE Handle
    BY <2>0, <2>2 DEF Handle, history, LoopPc, HandledPc
  <2>3. CASE Sent
    BY <2>0, <2>3 DEF Sent, loopVars, history, LoopPc
  <2>4. CASE Close
    BY <2>0, <2>4 DEF Close, loopVars, history
  <2>5. CASE Signal
    BY <2>0, <2>5 DEF Signal
  <2>6. CASE MasterUp
    BY <2>0, <2>6, LoopTypeKept, Zenon DEF MasterUp
  <2>8. CASE StopTrans
    BY <2>0, <2>8 DEF StopTrans, history, LoopPc
  <2>9. CASE Restart
    BY <2>0, <2>9 DEF Restart, loopVars, history
  <2>10. CASE TransEnds
    BY <2>0, <2>10, ZenonT(30) DEF TransEnds, history
  <2>7. CASE Exited \/ UNCHANGED vars
    <3>1. UNCHANGED <<main, loopVars, history>>
      BY <2>7 DEF Exited, vars
    <3> QED BY <2>0, <3>1, LoopTypeKept, Zenon
  <2> QED BY <1>2, <2>1, <2>2, <2>3, <2>4, <2>5, <2>6, <2>7, <2>8, <2>9, <2>10
<1> QED
  BY <1>1, <1>2, StartType, RecvReadType, RecvTimeoutType, ReplyType, SendType,
     MasterSendsType, MasterReadsType
  DEF Next, Main, TypeOK

-----------------------------------------------------------------------------
(* What Initialize() has opened, step by step, and where main is by then.   *)
PortsHeld ==
  /\ main = "start" => comm # "closed"
  /\ main \in {"recv", "switch", "stop", "restart", "send", "close"} => comm \in {"up", "failed"}
  /\ main = "gone" => comm = "closed"
  /\ init <=> comm = "up"
  /\ comm = "failed" => PortFaults
  /\ comm \in {"enum", "open0"} => fds = {}
  /\ comm = "open1" => fds = {"cmd"}
  /\ comm = "open2" => fds = {"cmd", "read"}
  /\ comm \in {"wait", "up"} => fds = Ports
  /\ comm = "check" => fds = Ports \cup {"wait"}
  /\ comm = "closed" => fds = {} \/ PortFaults

LEMMA PortsStep == TypeOK /\ PortsHeld /\ [Next]_vars => PortsHeld'
<1> SUFFICES ASSUME TypeOK, PortsHeld, [Next]_vars PROVE PortsHeld'
  OBVIOUS
<1>1. main \in {"start", "recv", "switch", "stop", "restart", "send", "close", "gone"}
  BY DEF TypeOK, LoopTypeOK
<1>2. CASE Start
  <2>1. CASE CommInitialize /\ UNCHANGED main
    <3>1. main' = "start" /\ main = "start"
      BY <1>2, <2>1 DEF Start
    <3>2. CASE EnumChip
      BY <3>1, <3>2 DEF EnumChip, InitStep, PortsHeld
    <3>3. CASE OpenPorts
      BY <3>1, <3>3 DEF OpenPorts, InitStep, PortsHeld, Ports
    <3>4. CASE WaitConn
      BY <3>1, <3>4 DEF WaitConn, InitStep, PortsHeld
    <3>5. CASE Connected
      <4>1. fds' = Ports
        BY <3>1, <3>5 DEF Connected, PortsHeld, Ports
      <4> QED BY <3>1, <3>5, <4>1 DEF Connected, PortsHeld
    <3> QED BY <2>1, <3>2, <3>3, <3>4, <3>5 DEF CommInitialize
  <2>2. CASE comm \in {"up", "failed"} /\ UNCHANGED commVars
    <3>1. main' \in {"recv", "close"}
      BY <1>2, <2>2 DEF Start, CommInitialize, EnumChip, OpenPorts, WaitConn, Connected,
                        InitStep
    <3> QED BY <2>2, <3>1 DEF commVars, PortsHeld
  <2> QED BY <1>2, <2>1, <2>2 DEF Start
<1>3. CASE RecvRead \/ RecvTimeout \/ RecvFails \/ Handle \/ StopTrans \/ Restart
             \/ Reply \/ Send \/ Sent
  <2>1. UNCHANGED <<comm, fds, init>>
    BY <1>3 DEF RecvRead, RecvTimeout, RecvFails, Handle, StopTrans, Restart, Reply, Send,
                Sent, commVars
  <2>2. main \in {"recv", "switch", "stop", "restart", "send"}
    BY <1>3 DEF RecvRead, RecvTimeout, RecvFails, Handle, StopTrans, Restart, Reply,
                Answering, Send, Sent
  <2>3. main' \in {"recv", "switch", "stop", "restart", "send", "close"}
    BY <1>3, <2>2 DEF RecvRead, RecvTimeout, RecvFails, Handle, StopTrans, Restart, Reply,
                      Send, Sent, LeaveRecv, LoopPc, HandledPc
  <2> QED BY <2>1, <2>2, <2>3 DEF PortsHeld
<1>4. CASE Close
  <2>1. CASE init
    BY <1>4, <2>1 DEF Close, CommClose, PortsHeld
  <2>2. CASE ~init
    BY <1>4, <2>2 DEF Close, CommClose, PortsHeld
  <2> QED BY <2>1, <2>2
<1>5. CASE Signal \/ TransEnds \/ MasterUp \/ MasterReads
             \/ (\E type \in Types : MasterSends(type)) \/ Exited \/ UNCHANGED vars
  <2>1. UNCHANGED <<comm, fds, init, main>>
    BY <1>5 DEF Signal, TransEnds, MasterUp, MasterReads, MasterSends, Exited, vars, commVars
  <2> QED BY <2>1 DEF PortsHeld
<1> QED BY <1>2, <1>3, <1>4, <1>5 DEF Next, Main

-----------------------------------------------------------------------------
(* A msg that has been replied to is an ACK, which nobody replies to, nor   *)
(* does anybody restart the transport for it.                               *)
AnswersOnce == ~twice /\ (answered => msg.type \notin Replied /\ main # "restart")

LEMMA AnswersStep == TypeOK /\ AnswersOnce /\ [Next]_vars => AnswersOnce'
<1> SUFFICES ASSUME TypeOK, AnswersOnce, [Next]_vars PROVE AnswersOnce'
  OBVIOUS
<1>1. CASE Reply
  <2>1. ~answered /\ twice' = (twice \/ answered)
    BY <1>1 DEF Reply, Answering, AnswersOnce, Replied
  <2>2. msg' = [msg EXCEPT !.type = "ACK"]
    BY <1>1 DEF Reply
  <2>3. msg'.type = "ACK"
    BY <2>2 DEF TypeOK, LoopTypeOK
  <2>4. main' = "send"
    BY <1>1 DEF Reply
  <2> QED BY <2>1, <2>3, <2>4 DEF AnswersOnce, Replied
<1>2. ASSUME NEW q, LeaveRecv(q), UNCHANGED twice, main = "recv" PROVE AnswersOnce'
  <2>1. /\ answered' = FALSE \/ UNCHANGED <<msg, answered>>
        /\ main' \in {"recv", "switch"}
    BY <1>2 DEF LeaveRecv
  <2> QED BY <1>2, <2>1 DEF AnswersOnce
<1>3. CASE RecvRead
  BY <1>2, <1>3 DEF RecvRead, AnswersOnce
<1>4. CASE RecvTimeout
  BY <1>2, <1>4 DEF RecvTimeout
<1>5. CASE Start \/ RecvFails \/ Handle \/ StopTrans \/ Send \/ Sent \/ Close
             \/ Signal \/ TransEnds \/ MasterUp \/ MasterReads
             \/ (\E type \in Types : MasterSends(type)) \/ Exited \/ UNCHANGED vars
  <2>1. UNCHANGED <<msg, answered, twice>>
    BY <1>5 DEF Start, RecvFails, Handle, StopTrans, Send, Sent, Close, Signal, TransEnds,
                MasterUp, MasterReads, MasterSends, Exited, vars, loopVars, history
  <2>2. main' = "restart" => main = "restart"
    BY <1>5 DEF Start, RecvFails, Handle, StopTrans, Send, Sent, Close, Signal, TransEnds,
                MasterUp, MasterReads, MasterSends, Exited, vars, LoopPc, HandledPc
  <2> QED BY <2>1, <2>2 DEF AnswersOnce
<1>6. CASE Restart
  <2>1. msg.type \in Replied /\ UNCHANGED <<answered, twice>>
    BY <1>6 DEF Restart, Replied, history
  <2> QED BY <2>1 DEF AnswersOnce
<1> QED BY <1>1, <1>3, <1>4, <1>5, <1>6 DEF Next, Main

-----------------------------------------------------------------------------
(* The reply stream: units that follow one another and end with a message.  *)
Regular(s) ==
  /\ \A k \in 1 .. Len(s) - 1 : Follows(s[k], s[k + 1])
  /\ s # <<>> => s[Len(s)].k = MsgLen

LEMMA EmptyRegular == Regular(<<>>)
BY DEF Regular

LEMMA UnitsRegular ==
  ASSUME NEW type \in Types \cup {"ACK"}, NEW id \in -1 .. IdMod - 1
  PROVE  Regular(Units(type, id)) /\ Units(type, id)[1].k = 1
<1>1. PICK u : u = Units(type, id)
  OBVIOUS
<1>2. /\ u \in Seq(Unit) /\ Len(u) = MsgLen /\ MsgLen \in Nat /\ MsgLen > 0
      /\ \A k \in 1 .. MsgLen : u[k] = [type |-> type, id |-> id, k |-> k]
  BY <1>1, UnitsType, CommAssumption
<1>3. ASSUME NEW k \in 1 .. MsgLen - 1 PROVE Follows(u[k], u[k + 1])
  <2>1. /\ u[k] = [type |-> type, id |-> id, k |-> k]
        /\ u[k + 1] = [type |-> type, id |-> id, k |-> k + 1]
    BY <1>2
  <2>2. u[k + 1] = [u[k] EXCEPT !.k = @ + 1]
    BY <2>1
  <2> QED BY <2>2 DEF Follows
<1>4. u[MsgLen].k = MsgLen /\ u[1].k = 1
  BY <1>2
<1> QED BY <1>1, <1>2, <1>3, <1>4 DEF Regular

(* What is left of a regular stream when its beginning is gone.             *)
LEMMA RegularSuffix ==
  ASSUME NEW p \in Seq(Unit), NEW q \in Seq(Unit), Regular(p \o q)
  PROVE  Regular(q)
<1>1. PICK s : s = p \o q
  OBVIOUS
<1>2. /\ Len(p) \in Nat /\ Len(q) \in Nat /\ Len(s) = Len(p) + Len(q)
      /\ \A j \in 1 .. Len(q) : s[Len(p) + j] = q[j]
      /\ s # <<>> \/ q = <<>>
  BY <1>1, JoinOf
<1>3. Regular(s)
  BY <1>1
<1>4. ASSUME NEW k \in 1 .. Len(q) - 1 PROVE Follows(q[k], q[k + 1])
  <2>1. Len(p) + k \in 1 .. Len(s) - 1
    BY <1>2
  <2>2. Follows(s[Len(p) + k], s[Len(p) + k + 1])
    BY <1>3, <2>1 DEF Regular
  <2>3. k \in 1 .. Len(q) /\ k + 1 \in 1 .. Len(q) /\ Len(p) + k + 1 = Len(p) + (k + 1)
    BY <1>2
  <2>4. s[Len(p) + k] = q[k] /\ s[Len(p) + (k + 1)] = q[k + 1]
    BY <1>2, <2>3
  <2> QED BY <2>2, <2>3, <2>4
<1>5. ASSUME q # <<>> PROVE q[Len(q)].k = MsgLen
  <2>1. Len(q) \in 1 .. Len(q)
    BY <1>2, <1>5, EmptySeq
  <2> QED BY <1>2, <1>3, <1>5, <2>1 DEF Regular
<1> QED BY <1>4, <1>5 DEF Regular

(* What is left when messages at its end are gone.                          *)
LEMMA RegularPrefix ==
  ASSUME NEW p \in Seq(Unit), NEW q \in Seq(Unit), Regular(p \o q),
         q # <<>> => q[1].k = 1
  PROVE  Regular(p)
<1>1. PICK s : s = p \o q
  OBVIOUS
<1>2. /\ Len(p) \in Nat /\ Len(q) \in Nat /\ Len(s) = Len(p) + Len(q)
      /\ \A j \in 1 .. Len(p) : s[j] = p[j]
      /\ \A j \in 1 .. Len(q) : s[Len(p) + j] = q[j]
      /\ s # <<>> \/ p = <<>>
  BY <1>1, JoinOf
<1>3. Regular(s)
  BY <1>1
<1>4. ASSUME NEW k \in 1 .. Len(p) - 1 PROVE Follows(p[k], p[k + 1])
  <2>1. k \in 1 .. Len(s) - 1 /\ k \in 1 .. Len(p) /\ k + 1 \in 1 .. Len(p)
    BY <1>2
  <2> QED BY <1>2, <1>3, <2>1 DEF Regular
<1>5. ASSUME p # <<>> PROVE p[Len(p)].k = MsgLen
  <2>1. Len(p) \in 1 .. Len(p) /\ p[Len(p)] \in Unit
    BY <1>2, <1>5, EmptySeq, ElementOfSeq
  <2>2. CASE q = <<>>
    <3>1. Len(s) = Len(p) /\ s # <<>>
      BY <1>2, <1>5, <2>2, EmptySeq
    <3> QED BY <1>2, <1>3, <2>1, <3>1 DEF Regular
  <2>3. CASE q # <<>>
    <3>1. 1 \in 1 .. Len(q)
      BY <1>2, <2>3, EmptySeq
    <3>2. s[Len(p)] = p[Len(p)] /\ s[Len(p) + 1] = q[1] /\ Len(p) \in 1 .. Len(s) - 1
      BY <1>2, <2>1, <3>1
    <3>3. Follows(p[Len(p)], q[1])
      BY <1>3, <3>2 DEF Regular
    <3>4. PICK v : v = [p[Len(p)] EXCEPT !.k = @ + 1]
      OBVIOUS
    <3>5. v.k # 1
      BY <2>1, <3>4, CommAssumption DEF Unit
    <3>6. q[1] # [p[Len(p)] EXCEPT !.k = @ + 1]
      <4>1. q[1].k = 1
        BY <2>3
      <4>2. q[1] # v
        BY <3>5, <4>1
      <4> QED BY <3>4, <4>2, Zenon
    <3> QED BY <3>3, <3>6 DEF Follows
  <2> QED BY <2>2, <2>3
<1> QED BY <1>4, <1>5 DEF Regular

(* A message behind a regular stream. *)
LEMMA RegularJoin ==
  ASSUME NEW p \in Seq(Unit), NEW q \in Seq(Unit), Regular(p), Regular(q),
         q # <<>>, q[1].k = 1
  PROVE  Regular(p \o q)
<1>1. PICK s : s = p \o q
  OBVIOUS
<1>2. /\ Len(p) \in Nat /\ Len(q) \in Nat /\ Len(s) = Len(p) + Len(q)
      /\ \A j \in 1 .. Len(p) : s[j] = p[j]
      /\ \A j \in 1 .. Len(q) : s[Len(p) + j] = q[j]
  BY <1>1, JoinOf
<1>3. Len(q) \in 1 .. Len(q) /\ 1 \in 1 .. Len(q)
  BY <1>2, EmptySeq
<1>4. ASSUME NEW k \in 1 .. Len(s) - 1 PROVE Follows(s[k], s[k + 1])
  <2>1. CASE k < Len(p)
    <3>1. k \in 1 .. Len(p) - 1 /\ k \in 1 .. Len(p) /\ k + 1 \in 1 .. Len(p)
      BY <1>2, <2>1
    <3> QED BY <1>2, <3>1 DEF Regular
  <2>2. CASE k = Len(p)
    <3>1. p # <<>> /\ s[k] = p[Len(p)] /\ s[k + 1] = q[1]
      BY <1>2, <1>3, <2>2
    <3> QED BY <3>1 DEF Regular, Follows
  <2>3. CASE k > Len(p)
    <3>1. PICK j \in 1 .. Len(q) - 1 : k = Len(p) + j
      <4>1. k - Len(p) \in 1 .. Len(q) - 1 /\ k = Len(p) + (k - Len(p))
        BY <1>2, <2>3
      <4> QED BY <4>1
    <3>2. j \in 1 .. Len(q) /\ j + 1 \in 1 .. Len(q) /\ k + 1 = Len(p) + (j + 1)
      BY <1>2, <3>1
    <3>3. s[k] = q[j] /\ s[k + 1] = q[j + 1]
      BY <1>2, <3>1, <3>2
    <3>4. Follows(q[j], q[j + 1])
      BY DEF Regular
    <3> QED BY <3>3, <3>4
  <2> QED BY <1>2, <2>1, <2>2, <2>3
<1>5. s[Len(s)].k = MsgLen
  BY <1>2, <1>3 DEF Regular
<1> QED BY <1>1, <1>4, <1>5 DEF Regular

(* What Send() has still to write is the end of a message, and with what    *)
(* the driver holds it makes a regular stream until a Send() is torn.       *)
Sending ==
  /\ out # <<>> => main = "send"
  /\ Len(out) <= MsgLen
  /\ \A j \in 1 .. Len(out) : out[j].k = MsgLen - Len(out) + j
  /\ ~torn => Regular(up \o out)

LEMMA SeqOfPorts ==
  TypeOK => /\ up \in Seq(Unit) /\ out \in Seq(Unit) /\ down \in Seq(Unit) /\ msgBuf \in Seq(Unit)
            /\ Len(up) \in Nat /\ Len(out) \in Nat /\ Len(down) \in Nat /\ Len(msgBuf) \in Nat
BY LenProperties DEF TypeOK, CommTypeOK, LoopTypeOK

LEMMA WriteSomeSending == TypeOK /\ Sending /\ Send /\ WriteSome => Sending'
<1> SUFFICES ASSUME TypeOK, Sending, Send, WriteSome PROVE Sending'
  OBVIOUS
<1>1. PICK n \in 1 .. Len(out) :
        /\ up' = up \o SubSeq(out, 1, n)
        /\ out' = SubSeq(out, n + 1, Len(out)) /\ UNCHANGED torn
  BY DEF WriteSome
<1>2. n \in 0 .. Len(out) /\ MsgLen \in Nat
  BY SeqOfPorts, CommAssumption
<1>3. /\ Len(out') = Len(out) - n
      /\ \A j \in 1 .. Len(out) - n : out'[j] = out[n + j]
  BY <1>1, <1>2, SeqOfPorts, SuffixOf, Zenon
<1>4. ASSUME NEW j \in 1 .. Len(out') PROVE out'[j].k = MsgLen - Len(out') + j
  <2>1. j \in 1 .. Len(out) - n /\ n + j \in 1 .. Len(out)
    BY <1>2, <1>3, SeqOfPorts
  <2>2. out'[j] = out[n + j] /\ out[n + j].k = MsgLen - Len(out) + (n + j)
    BY <1>3, <2>1 DEF Sending
  <2> QED BY <1>2, <1>3, <2>2, SeqOfPorts
<1>5. up' \o out' = up \o out
  BY <1>1, <1>2, SeqOfPorts, MoveUnits, Zenon
<1>6. main' = "send"
  BY DEF Send
<1>7. Len(out') <= MsgLen
  BY <1>2, <1>3, SeqOfPorts DEF Sending
<1>8. ~torn' => Regular(up' \o out')
  BY <1>1, <1>5 DEF Sending
<1> QED BY <1>4, <1>6, <1>7, <1>8 DEF Sending

LEMMA WriteFailsSending == TypeOK /\ Sending /\ Send /\ WriteFails => Sending'
<1> SUFFICES ASSUME TypeOK, Sending, Send, WriteFails PROVE Sending'
  OBVIOUS
<1>1. out' = <<>> /\ up' = up /\ torn' = (torn \/ Len(out) < MsgLen) /\ out # <<>>
  BY DEF WriteFails, Send
<1>2. ASSUME ~torn' PROVE Regular(up' \o out')
  <2>1. ~torn /\ Len(out) = MsgLen
    <3>1. ~torn /\ ~(Len(out) < MsgLen)
      BY <1>1, <1>2
    <3>2. Len(out) <= MsgLen /\ Len(out) \in Nat /\ MsgLen \in Nat
      BY SeqOfPorts, CommAssumption DEF Sending
    <3> QED BY <3>1, <3>2
  <2>2. out[1].k = 1
    <3>1. 1 \in 1 .. Len(out)
      BY <2>1, CommAssumption
    <3>2. out[1].k = MsgLen - Len(out) + 1
      BY <3>1 DEF Sending
    <3> QED BY <2>1, <3>2, CommAssumption
  <2>3. Regular(up)
    BY <2>1, <2>2, SeqOfPorts, RegularPrefix DEF Sending
  <2>4. up \o <<>> = up
    BY SeqOfPorts, ConcatEmptySeq
  <2> QED BY <1>1, <2>3, <2>4
<1>3. Len(out') = 0
  BY <1>1, EmptySeq
<1> QED BY <1>1, <1>2, <1>3, CommAssumption DEF Sending

LEMMA ReplySending == TypeOK /\ Sending /\ Reply => Sending'
<1> SUFFICES ASSUME TypeOK, Sending, Reply PROVE Sending'
  OBVIOUS
<1>1. /\ out = <<>> /\ up' = up /\ torn' = torn /\ main' = "send"
      /\ out' = IF init THEN Units("ACK", msg.id) ELSE <<>>
  BY DEF Sending, Reply, Answering
<1>2. ~torn => Regular(up)
  <2>1. up \o <<>> = up
    BY SeqOfPorts, ConcatEmptySeq
  <2> QED BY <1>1, <2>1 DEF Sending
<1>3. CASE init
  <2>1. msg.id \in -1 .. IdMod - 1
    BY DEF TypeOK, LoopTypeOK
  <2>2. /\ out' \in Seq(Unit) /\ Len(out') = MsgLen
        /\ \A k \in 1 .. MsgLen : out'[k] = [type |-> "ACK", id |-> msg.id, k |-> k]
    BY <1>1, <1>3, <2>1, UnitsType
  <2>3. Regular(out') /\ out'[1].k = 1
    BY <1>1, <1>3, <2>1, UnitsRegular
  <2>4. out' # <<>>
    BY <2>2, EmptySeq, CommAssumption
  <2>5. ~torn => Regular(up \o out')
    BY <1>2, <2>2, <2>3, <2>4, SeqOfPorts, RegularJoin
  <2>6. \A j \in 1 .. Len(out') : out'[j].k = MsgLen - Len(out') + j
    BY <2>2, CommAssumption
  <2>7. Len(out') <= MsgLen
    BY <2>2, CommAssumption
  <2> QED BY <1>1, <2>5, <2>6, <2>7 DEF Sending
<1>4. CASE ~init
  <2>1. out' = <<>> /\ Len(out') = 0
    BY <1>1, <1>4, EmptySeq
  <2>2. up' \o out' = up \o out
    BY <1>1, <2>1
  <2> QED BY <1>1, <2>1, <2>2, CommAssumption DEF Sending
<1> QED BY <1>3, <1>4

LEMMA MasterReadsSending == TypeOK /\ Sending /\ MasterReads => Sending'
<1> SUFFICES ASSUME TypeOK, Sending, MasterReads PROVE Sending'
  OBVIOUS
<1>1. PICK n \in 1 .. Len(up) : up' = SubSeq(up, n + 1, Len(up))
  BY DEF MasterReads
<1>2. n \in 0 .. Len(up)
  BY SeqOfPorts
<1>3. PICK a : a = SubSeq(up, 1, n)
  OBVIOUS
<1>4. /\ a \in Seq(Unit) /\ Len(a) = n /\ \A j \in 1 .. n : a[j] = up[j]
  BY <1>2, <1>3, SeqOfPorts, PrefixOf, Zenon
<1>5. /\ up' \in Seq(Unit) /\ Len(up') = Len(up) - n
      /\ \A j \in 1 .. Len(up) - n : up'[j] = up[n + j]
  BY <1>1, <1>2, SeqOfPorts, SuffixOf, Zenon
<1>6. a \o up' = up
  BY <1>2, <1>4, <1>5, SeqOfPorts, PartsMake
<1>7. up \o out = a \o (up' \o out) /\ up' \o out \in Seq(Unit)
  <2>1. PICK b \in Seq(Unit) : b = up'
    BY <1>5
  <2>2. (a \o b) \o out = a \o (b \o out)
    <3>1. a \in Seq(Unit) /\ out \in Seq(Unit)
      BY <1>4, SeqOfPorts
    <3>2. \A x, y, z \in Seq(Unit) : (x \o y) \o z = x \o (y \o z)
      BY ConcatAssociative, SMTT(30)
    <3> QED BY <3>1, <3>2, Zenon
  <2>4. b \o out \in Seq(Unit)
    BY SeqOfPorts, ConcatProperties
  <2>3. a \o b = up
    BY <1>6, <2>1
  <2> QED BY <2>1, <2>2, <2>3, <2>4, Zenon
<1>8. ~torn => Regular(up' \o out)
  BY <1>4, <1>7, RegularSuffix DEF Sending
<1>9. UNCHANGED <<out, torn, main>>
  BY DEF MasterReads
<1> QED BY <1>8, <1>9 DEF Sending

LEMMA SendingStep == TypeOK /\ Sending /\ [Next]_vars => Sending'
<1> SUFFICES ASSUME TypeOK, Sending, [Next]_vars PROVE Sending'
  OBVIOUS
<1>1. CASE Start \/ RecvRead \/ RecvTimeout \/ RecvFails \/ Handle \/ StopTrans
             \/ Restart \/ Sent \/ Close
  <2>1. UNCHANGED <<up, out, torn>>
    BY <1>1 DEF Start, CommInitialize, EnumChip, OpenPorts, WaitConn, Connected, InitStep,
                RecvRead, RecvTimeout, RecvFails, Handle, StopTrans, Restart, Sent, Close,
                commVars, portVars
  <2>2. main # "send" \/ out = <<>>
    BY <1>1 DEF Start, RecvRead, RecvTimeout, RecvFails, Handle, StopTrans, Restart, Sent,
                Close
  <2>3. out' = <<>>
    BY <2>1, <2>2 DEF Sending
  <2> QED BY <2>1, <2>3 DEF Sending
<1>2. CASE Signal \/ TransEnds \/ MasterUp \/ (\E type \in Types : MasterSends(type))
             \/ Exited \/ UNCHANGED vars
  <2>1. UNCHANGED <<up, out, torn, main>>
    BY <1>2 DEF Signal, TransEnds, MasterUp, MasterSends, Exited, vars, commVars
  <2> QED BY <2>1 DEF Sending
<1>3. CASE Send
  BY <1>3, WriteSomeSending, WriteFailsSending DEF Send
<1> QED BY <1>1, <1>2, <1>3, ReplySending, MasterReadsSending DEF Next, Main

-----------------------------------------------------------------------------
(* What has arrived and is not handled: whole messages, numbered from b + 1.*)
Blocks(s, b, n) ==
  /\ Len(s) = n * MsgLen
  /\ \A i \in 0 .. n - 1 : \E t \in Types : \A k \in 1 .. MsgLen :
       s[i * MsgLen + k] = [type |-> t, id |-> (b + 1 + i) % IdMod, k |-> k]

LEMMA Product ==
  ASSUME NEW i \in Nat, NEW n \in Nat, NEW m \in Nat
  PROVE  /\ i * m \in Nat /\ (i + 1) * m = i * m + m
         /\ i < n => i * m + m <= n * m
<1>1. i * m \in Nat /\ (i + 1) * m = i * m + m
  BY SMT
<1>2. ASSUME i < n PROVE i * m + m <= n * m
  <2>1. PICK d \in Nat : n = i + 1 + d
    <3>1. n - i - 1 \in Nat /\ n = i + 1 + (n - i - 1)
      BY <1>2
    <3> QED BY <3>1
  <2>2. d * m \in Nat /\ (i + 1 + d) * m = i * m + m + d * m
    BY SMT
  <2> QED BY <1>1, <2>1, <2>2
<1> QED BY <1>1, <1>2

LEMMA Division ==
  ASSUME NEW a \in Nat, NEW m \in Nat \ {0}
  PROVE  \E k \in Nat, r \in 0 .. m - 1 : r = a % m /\ a = k * m + r
<1>1. a % m \in 0 .. m - 1 /\ a \div m \in Nat
  BY SMT
<1>2. PICK k \in Nat : k = a \div m
  BY <1>1
<1>3. PICK r \in 0 .. m - 1 : r = a % m
  BY <1>1
<1>4. a = k * m + r
  BY <1>2, <1>3, SMT
<1> QED BY <1>3, <1>4, Zenon

LEMMA RemainderUnique ==
  ASSUME NEW j \in Nat, NEW k \in Nat, NEW m \in Nat \ {0},
         NEW p \in 0 .. m - 1, NEW r \in 0 .. m - 1, j * m + p = k * m + r
  PROVE  p = r
<1>1. j * m \in Nat /\ k * m \in Nat
  BY Product
<1>2. CASE j < k
  BY <1>1, <1>2, Product
<1>3. CASE k < j
  BY <1>1, <1>3, Product
<1>4. CASE j = k
  BY <1>1, <1>4
<1> QED BY <1>2, <1>3, <1>4

LEMMA ModSum ==
  ASSUME NEW a \in Nat, NEW c \in Nat, NEW m \in Nat \ {0}
  PROVE  a % m \in 0 .. m - 1 /\ ((a % m) + c) % m = (a + c) % m
<1>1. PICK j \in Nat, r \in 0 .. m - 1 : r = a % m /\ a = j * m + r
  BY Division
<1>2. r + c \in Nat /\ a + c \in Nat
  OBVIOUS
<1>3. PICK k \in Nat, p \in 0 .. m - 1 : p = (r + c) % m /\ r + c = k * m + p
  BY <1>2, Division
<1>4. PICK l \in Nat, q \in 0 .. m - 1 : q = (a + c) % m /\ a + c = l * m + q
  BY <1>2, Division
<1>5. j * m \in Nat /\ k * m \in Nat /\ l * m \in Nat /\ (j + k) * m = j * m + k * m
  BY SMT
<1>6. (j + k) * m + p = l * m + q
  <2>1. a = j * m + r /\ r + c = k * m + p /\ a + c = l * m + q
    BY <1>1, <1>3, <1>4, Zenon
  <2> QED BY <1>5, <2>1
<1>7. p = q
  BY <1>6, RemainderUnique
<1> QED BY <1>1, <1>3, <1>4, <1>7, Zenon

(* The numbers count modulo IdMod.                                          *)
LEMMA BlocksShift ==
  ASSUME NEW s, NEW b \in Nat, NEW n \in Nat, Blocks(s, b, n)
  PROVE  b % IdMod \in 0 .. IdMod - 1 /\ Blocks(s, b % IdMod, n)
<1>1. PICK a \in 0 .. IdMod - 1 : a = b % IdMod
  BY ModSum, CommAssumption
<1>2. ASSUME NEW i \in 0 .. n - 1 PROVE (a + 1 + i) % IdMod = (b + 1 + i) % IdMod
  <2>1. PICK c \in Nat : c = 1 + i
    OBVIOUS
  <2>2. ((b % IdMod) + c) % IdMod = (b + c) % IdMod
    BY ModSum, CommAssumption
  <2>3. a + 1 + i = a + c /\ b + 1 + i = b + c
    BY <2>1, CommAssumption
  <2> QED BY <1>1, <2>2, <2>3, Zenon
<1>3. Blocks(s, a, n)
  <2> SUFFICES ASSUME NEW i \in 0 .. n - 1
               PROVE \E t \in Types : \A k \in 1 .. MsgLen :
                       s[i * MsgLen + k] = [type |-> t, id |-> (a + 1 + i) % IdMod, k |-> k]
    BY DEF Blocks
  <2>1. PICK t \in Types : \A k \in 1 .. MsgLen :
          s[i * MsgLen + k] = [type |-> t, id |-> (b + 1 + i) % IdMod, k |-> k]
    BY DEF Blocks
  <2> QED BY <1>2, <2>1, Zenon
<1> QED BY <1>1, <1>3, Zenon

(* The first message is taken off. *)
LEMMA BlocksDrop ==
  ASSUME NEW q \in Seq(Unit), NEW r \in Seq(Unit), NEW b \in Nat, NEW n \in Nat,
         Whole(q), Blocks(q \o r, b, n)
  PROVE  /\ Rest(q) \in Seq(Unit) /\ Len(Rest(q)) = Len(q) - MsgLen
         /\ n - 1 \in Nat /\ Blocks(Rest(q) \o r, b + 1, n - 1)
         /\ \E t \in Types : SubSeq(q, 1, MsgLen) = Units(t, (b + 1) % IdMod)
         /\ q[1].id = (b + 1) % IdMod
<1>1. MsgLen \in Nat /\ MsgLen > 0 /\ Len(q) \in Nat /\ Len(r) \in Nat /\ MsgLen \in 0 .. Len(q)
  BY LenProperties, CommAssumption DEF Whole
<1>2. PICK s : s = q \o r
  OBVIOUS
<1>3. /\ Len(s) = Len(q) + Len(r)
      /\ \A j \in 1 .. Len(q) : s[j] = q[j]
      /\ \A j \in 1 .. Len(r) : s[Len(q) + j] = r[j]
  BY <1>2, JoinOf
<1>4. PICK p \in Seq(Unit) : p = Rest(q)
  BY <1>1, SuffixOf DEF Rest
<1>5. Len(p) = Len(q) - MsgLen /\ \A j \in 1 .. Len(q) - MsgLen : p[j] = q[MsgLen + j]
  BY <1>1, <1>4, SuffixOf, Zenon DEF Rest
<1>6. PICK u : u = p \o r
  OBVIOUS
<1>7. /\ Len(u) = Len(p) + Len(r)
      /\ \A j \in 1 .. Len(p) : u[j] = p[j]
      /\ \A j \in 1 .. Len(r) : u[Len(p) + j] = r[j]
  BY <1>6, JoinOf
<1>8. ASSUME NEW j \in 1 .. Len(u) PROVE u[j] = s[MsgLen + j]
  <2>1. CASE j <= Len(p)
    <3>1. j \in 1 .. Len(p) /\ j \in 1 .. Len(q) - MsgLen /\ MsgLen + j \in 1 .. Len(q)
      BY <1>1, <1>5, <2>1
    <3> QED BY <1>3, <1>5, <1>7, <3>1
  <2>2. CASE ~(j <= Len(p))
    <3>1. PICK i \in 1 .. Len(r) : j = Len(p) + i
      <4>1. j - Len(p) \in 1 .. Len(r) /\ j = Len(p) + (j - Len(p))
        BY <1>1, <1>5, <1>7, <2>2
      <4> QED BY <4>1
    <3>2. u[j] = r[i] /\ s[Len(q) + i] = r[i] /\ MsgLen + j = Len(q) + i
      BY <1>1, <1>3, <1>5, <1>7, <3>1
    <3> QED BY <3>2
  <2> QED BY <2>1, <2>2
<1>9. Len(s) = n * MsgLen /\ \A i \in 0 .. n - 1 : \E t \in Types : \A k \in 1 .. MsgLen :
        s[i * MsgLen + k] = [type |-> t, id |-> (b + 1 + i) % IdMod, k |-> k]
  BY <1>2 DEF Blocks
<1>10. n # 0
  BY <1>1, <1>3, <1>9
<1>11. PICK h \in Nat : h = n - 1 /\ n = h + 1
  <2>1. n - 1 \in Nat /\ n = (n - 1) + 1
    BY <1>10
  <2> QED BY <2>1
<1>12. h * MsgLen \in Nat /\ n * MsgLen = h * MsgLen + MsgLen /\ Len(u) = h * MsgLen
  <2>1. h * MsgLen \in Nat /\ (h + 1) * MsgLen = h * MsgLen + MsgLen
    BY <1>1, Product
  <2>2. PICK x \in Nat : x = h * MsgLen
    BY <2>1
  <2>3. n * MsgLen = x + MsgLen
    BY <1>11, <2>1, <2>2
  <2>4. Len(s) = x + MsgLen
    BY <1>9, <2>3, Zenon
  <2>5. Len(u) = Len(s) - MsgLen
    BY <1>1, <1>3, <1>5, <1>7
  <2>6. Len(u) = x
    BY <1>1, <2>4, <2>5
  <2> QED BY <2>1, <2>2, <2>3, <2>6, Zenon
<1>13. Blocks(u, b + 1, h)
  <2> SUFFICES ASSUME NEW i \in 0 .. h - 1
               PROVE \E t \in Types : \A k \in 1 .. MsgLen :
                       u[i * MsgLen + k] = [type |-> t, id |-> (b + 1 + 1 + i) % IdMod, k |-> k]
    BY <1>12 DEF Blocks
  <2>1. i + 1 \in 0 .. n - 1 /\ b + 1 + (i + 1) = b + 1 + 1 + i /\ i \in Nat
    BY <1>11
  <2>2. PICK t \in Types : \A k \in 1 .. MsgLen :
          s[(i + 1) * MsgLen + k] = [type |-> t, id |-> (b + 1 + (i + 1)) % IdMod, k |-> k]
    BY <1>9, <2>1, Zenon
  <2>3. PICK x \in Nat : x = i * MsgLen /\ (i + 1) * MsgLen = x + MsgLen
                          /\ x + MsgLen <= h * MsgLen
    BY <1>1, <2>1, Product
  <2>4. ASSUME NEW k \in 1 .. MsgLen PROVE u[x + k] = s[(i + 1) * MsgLen + k]
    <3>1. x + k \in 1 .. Len(u) /\ (x + MsgLen) + k = MsgLen + (x + k)
      <4>1. PICK l \in Nat : l = Len(u)
        BY <1>12, Zenon
      <4>2. x + MsgLen <= l
        BY <1>12, <2>3, <4>1, Zenon
      <4>3. x + k \in 1 .. l /\ (x + MsgLen) + k = MsgLen + (x + k)
        BY <1>1, <4>2
      <4> QED BY <4>1, <4>3, Zenon
    <3> QED BY <1>8, <2>3, <3>1
  <2>5. ASSUME NEW k \in 1 .. MsgLen
        PROVE u[i * MsgLen + k] = [type |-> t, id |-> (b + 1 + 1 + i) % IdMod, k |-> k]
    BY <2>1, <2>2, <2>3, <2>4, Zenon
  <2> QED BY <2>5
<1>14. PICK t \in Types : \A k \in 1 .. MsgLen :
         q[k] = [type |-> t, id |-> (b + 1) % IdMod, k |-> k]
  <2>1. 0 \in 0 .. n - 1 /\ b + 1 + 0 = b + 1
    BY <1>10
  <2>2. PICK t \in Types : \A k \in 1 .. MsgLen :
          s[0 * MsgLen + k] = [type |-> t, id |-> (b + 1 + 0) % IdMod, k |-> k]
    BY <1>9, <2>1, Zenon
  <2>3. ASSUME NEW k \in 1 .. MsgLen PROVE q[k] = s[0 * MsgLen + k]
    <3>1. k \in 1 .. Len(q) /\ 0 * MsgLen + k = k
      BY <1>1
    <3> QED BY <1>3, <3>1
  <2> QED BY <2>1, <2>2, <2>3
<1>15. SubSeq(q, 1, MsgLen) = Units(t, (b + 1) % IdMod)
  <2>1. SubSeq(q, 1, MsgLen) = [k \in 1 .. MsgLen |-> q[k]]
    <3>1. SubSeq(q, 1, MsgLen) \in Seq(Unit) /\ Len(SubSeq(q, 1, MsgLen)) = MsgLen
          /\ \A k \in 1 .. MsgLen : SubSeq(q, 1, MsgLen)[k] = q[k]
      BY <1>1, PrefixOf
    <3>2. PICK a : a = SubSeq(q, 1, MsgLen)
      OBVIOUS
    <3>3. a \in [1 .. MsgLen -> Unit] /\ \A k \in 1 .. MsgLen : a[k] = q[k]
      BY <3>1, <3>2, LenProperties
    <3> QED BY <3>2, <3>3
  <2> QED BY <1>14, <2>1 DEF Units
<1>16. q[1].id = (b + 1) % IdMod
  <2>1. PICK id : id = (b + 1) % IdMod
    OBVIOUS
  <2>2. 1 \in 1 .. MsgLen
    BY <1>1
  <2>3. q[1] = [type |-> t, id |-> id, k |-> 1]
    BY <1>14, <2>1, <2>2, Zenon
  <2>4. q[1].id = id
    BY <2>3
  <2> QED BY <2>1, <2>4, Zenon
<1> QED BY <1>4, <1>5, <1>6, <1>11, <1>13, <1>15, <1>16

(* The master sends another one. *)
LEMMA BlocksJoin ==
  ASSUME NEW s \in Seq(Unit), NEW b \in Nat, NEW n \in Nat, Blocks(s, b, n),
         NEW type \in Types
  PROVE  Blocks(s \o Units(type, (b + n + 1) % IdMod), b, n + 1)
<1>1. PICK id \in 0 .. IdMod - 1 : id = (b + n + 1) % IdMod
  <2>1. b + n + 1 \in Nat
    OBVIOUS
  <2> QED BY <2>1, ModSum, CommAssumption
<1>2. MsgLen \in Nat /\ MsgLen > 0 /\ id \in -1 .. IdMod - 1
  BY CommAssumption
<1>3. PICK u \in Seq(Unit) : /\ u = Units(type, id) /\ Len(u) = MsgLen
                             /\ \A k \in 1 .. MsgLen : u[k] = [type |-> type, id |-> id, k |-> k]
  BY <1>2, UnitsType
<1>4. PICK v : v = s \o u
  OBVIOUS
<1>5. /\ Len(s) \in Nat /\ Len(v) = Len(s) + MsgLen
      /\ \A j \in 1 .. Len(s) : v[j] = s[j]
      /\ \A j \in 1 .. MsgLen : v[Len(s) + j] = u[j]
  BY <1>3, <1>4, JoinOf
<1>6. Len(s) = n * MsgLen /\ (n + 1) * MsgLen = n * MsgLen + MsgLen
  BY <1>2, Product DEF Blocks
<1>7. ASSUME NEW i \in 0 .. n
      PROVE \E t \in Types : \A k \in 1 .. MsgLen :
              v[i * MsgLen + k] = [type |-> t, id |-> (b + 1 + i) % IdMod, k |-> k]
  <2>1. CASE i < n
    <3>1. i \in 0 .. n - 1 /\ i \in Nat
      BY <2>1
    <3>2. PICK t \in Types : \A k \in 1 .. MsgLen :
            s[i * MsgLen + k] = [type |-> t, id |-> (b + 1 + i) % IdMod, k |-> k]
      BY <3>1, Zenon DEF Blocks
    <3>3. PICK x \in Nat : x = i * MsgLen /\ x + MsgLen <= Len(s)
      BY <1>2, <1>6, <2>1, <3>1, Product
    <3>4. ASSUME NEW k \in 1 .. MsgLen PROVE v[x + k] = s[x + k]
      <4>1. Len(s) \in Nat /\ x + MsgLen <= Len(s) /\ MsgLen \in Nat
        BY <1>2, <1>5, <3>3, Zenon
      <4>2. x + k \in 1 .. Len(s)
        BY <4>1
      <4> QED BY <1>5, <4>2, Zenon
    <3>5. ASSUME NEW k \in 1 .. MsgLen
          PROVE v[i * MsgLen + k] = [type |-> t, id |-> (b + 1 + i) % IdMod, k |-> k]
      BY <3>2, <3>3, <3>4, Zenon
    <3> QED BY <3>5
  <2>2. CASE i = n
    <3>1. i * MsgLen = Len(s) /\ b + 1 + i = b + n + 1
      BY <1>6, <2>2
    <3>2. ASSUME NEW k \in 1 .. MsgLen
          PROVE v[i * MsgLen + k] = [type |-> type, id |-> (b + 1 + i) % IdMod, k |-> k]
      <4>1. v[Len(s) + k] = [type |-> type, id |-> id, k |-> k]
        BY <1>3, <1>5
      <4> QED BY <1>1, <3>1, <4>1, Zenon
    <3> QED BY <3>2
  <2> QED BY <2>1, <2>2
<1>8. Blocks(v, b, n + 1)
  <2>1. Len(v) = (n + 1) * MsgLen /\ (n + 1) - 1 = n
    BY <1>5, <1>6
  <2> QED BY <1>7, <2>1, Zenon DEF Blocks
<1> QED BY <1>1, <1>3, <1>4, <1>8, Zenon

-----------------------------------------------------------------------------
(* As long as no Append() failed, what has arrived is whole messages that   *)
(* go on where the last one handled, or dropped behind it, ended.           *)
InStep ==
  ~lost => /\ gotId \in Nat
           /\ \E n \in Nat : /\ Blocks(msgBuf \o down, gotId + dropped, n)
                             /\ sentId = (gotId + dropped + n) % IdMod

(* A master that waits never has more than one message under way, so that   *)
(* nothing is dropped and no Append() fails.                                *)
OneUnderWay == Polite => ~lost /\ dropped = 0 /\ Len(msgBuf) + Len(down) <= MsgLen

(* Recv() takes a message from q, with r still in the driver.               *)
LEMMA LeaveRecvInStep ==
  ASSUME TypeOK, NEW q \in Seq(Unit), NEW r \in Seq(Unit), NEW n \in Nat, gotId \in Nat,
         Blocks(q \o r, gotId + dropped, n), sentId = (gotId + dropped + n) % IdMod,
         LeaveRecv(q)
  PROVE  /\ gotId' \in Nat
         /\ \E m \in Nat : /\ Blocks(msgBuf' \o r, gotId' + dropped', m)
                           /\ sentId = (gotId' + dropped' + m) % IdMod
         /\ gotId' = gotId \/ gotId' = (gotId + 1 + dropped) % IdMod
         /\ Len(msgBuf') <= Len(q)
         /\ Len(q) <= MsgLen => dropped' \in {0, dropped}
<1>1. Len(q) \in Nat /\ MsgLen \in Nat /\ MsgLen > 0
  BY LenProperties, CommAssumption
<1>4. dropped \in Nat
  <2>1. dropped \in {0, 1}
    BY Zenon DEF TypeOK, LoopTypeOK
  <2> QED BY <2>1
<1>2. CASE ~Whole(q)
  <2>1. msgBuf' = q /\ UNCHANGED <<gotId, dropped>>
    BY <1>2 DEF LeaveRecv
  <2> QED BY <1>1, <2>1
<1>3. CASE Whole(q)
  <2>1. PICK b \in Nat : b = gotId + dropped
    BY <1>4
  <2>2. PICK g \in 0 .. IdMod - 1 : g = (b + 1) % IdMod
    <3>1. b + 1 \in Nat
      BY <2>1
    <3> QED BY <3>1, ModSum, CommAssumption
  <2>3. Blocks(q \o r, b, n)
    BY <2>1
  <2>4. PICK p \in Seq(Unit) :
          /\ p = Rest(q) /\ Len(p) = Len(q) - MsgLen /\ n - 1 \in Nat
          /\ Blocks(p \o r, b + 1, n - 1)
    BY <1>3, <2>3, BlocksDrop
  <2>5. /\ \E t \in Types : SubSeq(q, 1, MsgLen) = Units(t, (b + 1) % IdMod)
        /\ q[1].id = (b + 1) % IdMod
    BY <1>3, <2>3, BlocksDrop
  <2>6. Intact(q) /\ q[1].id = g
    BY <2>2, <2>5, Zenon DEF Intact
  <2>7. gotId' = g
    BY <1>3, <2>6 DEF LeaveRecv
  <2>8. PICK h \in Nat : h = n - 1 /\ n = h + 1
    BY <2>4
  <2>9. Blocks(p \o r, g, h)
    <3>1. b + 1 \in Nat /\ Blocks(p \o r, b + 1, h)
      BY <2>1, <2>4, <2>8
    <3>2. Blocks(p \o r, (b + 1) % IdMod, h)
      BY <3>1, BlocksShift
    <3> QED BY <2>2, <3>2
  <2>10. sentId = (g + h) % IdMod
    <3>1. b + 1 \in Nat
      BY <2>1
    <3>2. (((b + 1) % IdMod) + h) % IdMod = ((b + 1) + h) % IdMod
      BY <3>1, ModSum, CommAssumption
    <3>3. (b + 1) + h = gotId + dropped + n
      BY <1>4, <2>1, <2>8
    <3> QED BY <2>2, <3>2, <3>3, Zenon
  <2>11. gotId' \in Nat /\ gotId' = (gotId + 1 + dropped) % IdMod
    <3>1. gotId + 1 + dropped = b + 1
      BY <1>4, <2>1
    <3>2. g \in Nat
      BY CommAssumption
    <3> QED BY <2>2, <2>7, <3>1, <3>2, Zenon
  <2>12. CASE Whole(p)
    <3>1. msgBuf' = Rest(p) /\ dropped' = 1
      BY <1>3, <2>4, <2>12 DEF LeaveRecv
    <3>2. g \in Nat
      BY CommAssumption
    <3>3. /\ Len(Rest(p)) = Len(p) - MsgLen /\ h - 1 \in Nat
          /\ Blocks(Rest(p) \o r, g + 1, h - 1)
      BY <2>9, <2>12, <3>2, BlocksDrop
    <3>4. PICK m \in Nat : m = h - 1 /\ g + h = (g + 1) + m
      <4>1. h - 1 \in Nat /\ g + h = (g + 1) + (h - 1)
        BY <3>2, <3>3
      <4> QED BY <4>1
    <3>5. Blocks(msgBuf' \o r, gotId' + dropped', m)
      BY <2>7, <3>1, <3>3, <3>4
    <3>6. sentId = (gotId' + dropped' + m) % IdMod
      BY <2>7, <2>10, <3>1, <3>4, Zenon
    <3>7. Len(msgBuf') <= Len(q) /\ ~(Len(q) <= MsgLen)
      BY <1>1, <2>4, <2>12, <3>1, <3>3 DEF Whole
    <3> QED BY <2>11, <3>5, <3>6, <3>7
  <2>13. CASE ~Whole(p)
    <3>1. msgBuf' = p /\ dropped' = 0
      BY <1>3, <2>4, <2>13 DEF LeaveRecv
    <3>2. gotId' + dropped' = g
      BY <2>7, <3>1, CommAssumption
    <3>3. Blocks(msgBuf' \o r, gotId' + dropped', h)
      BY <2>9, <3>1, <3>2, Zenon
    <3>4. sentId = (gotId' + dropped' + h) % IdMod
      BY <2>10, <3>2, Zenon
    <3>5. Len(msgBuf') <= Len(q)
      BY <1>1, <2>4, <3>1
    <3> QED BY <2>11, <3>1, <3>3, <3>4, <3>5
  <2> QED BY <2>12, <2>13
<1> QED BY <1>2, <1>3

(* A step keeps it, and handles messages in order.                          *)
Ordered == ~lost' /\ gotId' # gotId => gotId' = (gotId + 1 + dropped) % IdMod

LEMMA RecvReadInStep ==
  TypeOK /\ InStep /\ OneUnderWay /\ RecvRead => InStep' /\ OneUnderWay' /\ Ordered
<1> SUFFICES ASSUME TypeOK, InStep, OneUnderWay, RecvRead
             PROVE  InStep' /\ OneUnderWay' /\ Ordered
  OBVIOUS
<1>1. PICK n \in 1 .. TmpLen :
        /\ n <= Len(down)
        /\ down' = SubSeq(down, n + 1, Len(down))
        /\ IF n > BufCap - Len(msgBuf)
           THEN /\ main' = "switch" /\ lost' = TRUE
                /\ UNCHANGED <<msgBuf, msg, gotId, dropped, answered>>
           ELSE LeaveRecv(msgBuf \o SubSeq(down, 1, n)) /\ UNCHANGED lost
  BY DEF RecvRead
<1>2. PICK q \in Seq(Unit) :
        /\ q = msgBuf \o SubSeq(down, 1, n) /\ Len(q) = Len(msgBuf) + n
        /\ q \o down' = msgBuf \o down
  BY <1>1, ReadType
<1>3. down' \in Seq(Unit) /\ Len(down') = Len(down) - n
  BY <1>1, ReadType
<1>4. /\ Len(msgBuf) \in Nat /\ Len(down) \in Nat /\ n \in Nat /\ MsgLen \in Nat
      /\ BufCap \in Nat /\ MsgLen <= BufCap
  BY SeqOfPorts, CommAssumption, LoopAssumption
<1>5. sentId' = sentId
  BY DEF RecvRead
<1>6. CASE n > BufCap - Len(msgBuf)
  <2>1. lost' = TRUE
    BY <1>1, <1>6
  <2>2. ~Polite
    BY <1>1, <1>4, <1>6 DEF OneUnderWay
  <2> QED BY <2>1, <2>2 DEF InStep, OneUnderWay, Ordered
<1>7. CASE ~(n > BufCap - Len(msgBuf))
  <2>1. LeaveRecv(q) /\ lost' = lost
    BY <1>1, <1>2, <1>7
  <2>2. CASE lost
    <3>1. ~Polite
      BY <2>2 DEF OneUnderWay
    <3> QED BY <2>1, <2>2, <3>1 DEF InStep, OneUnderWay, Ordered
  <2>3. CASE ~lost
    <3>1. gotId \in Nat
      BY <2>3 DEF InStep
    <3>2. PICK k \in Nat : /\ Blocks(q \o down', gotId + dropped, k)
                           /\ sentId = (gotId + dropped + k) % IdMod
      BY <1>2, <2>3, Zenon DEF InStep
    <3>3. /\ gotId' \in Nat
          /\ \E m \in Nat : /\ Blocks(msgBuf' \o down', gotId' + dropped', m)
                            /\ sentId = (gotId' + dropped' + m) % IdMod
          /\ gotId' = gotId \/ gotId' = (gotId + 1 + dropped) % IdMod
          /\ Len(msgBuf') <= Len(q)
          /\ Len(q) <= MsgLen => dropped' \in {0, dropped}
      BY <1>3, <2>1, <3>1, <3>2, LeaveRecvInStep
    <3>4. InStep'
      BY <1>5, <3>3, Zenon DEF InStep
    <3>5. Ordered
      BY <3>3, Zenon DEF Ordered
    <3>6. OneUnderWay'
      <4> SUFFICES ASSUME Polite
                   PROVE  ~lost' /\ dropped' = 0 /\ Len(msgBuf') + Len(down') <= MsgLen
        BY DEF OneUnderWay
      <4>1. dropped = 0 /\ Len(msgBuf) + Len(down) <= MsgLen
        BY DEF OneUnderWay
      <4>2. Len(q) <= MsgLen /\ Len(q) + Len(down') = Len(msgBuf) + Len(down)
        <5>1. Len(q) = Len(msgBuf) + n /\ Len(down') = Len(down) - n /\ n <= Len(down)
          BY <1>1, <1>2, <1>3, Zenon
        <5>2. \A a, d, i, m, r, e \in Int :
                r = a + i /\ e = d - i /\ i <= d /\ a + d <= m => r <= m /\ r + e = a + d
          OBVIOUS
        <5>3. Len(q) \in Int /\ Len(down') \in Int
          BY <1>4, <5>1
        <5> QED BY <1>4, <4>1, <5>1, <5>2, <5>3
      <4>3. dropped' = 0
        BY <3>3, <4>1, <4>2, Zenon
      <4>4. Len(msgBuf') \in Nat /\ Len(q) \in Nat /\ Len(down') \in Nat
        <5>1. msgBuf' \in Seq(Unit)
          BY RecvReadType DEF TypeOK, LoopTypeOK
        <5> QED BY <1>3, <5>1, LenProperties
      <4>5. Len(msgBuf') + Len(down') <= MsgLen
        BY <1>4, <3>3, <4>1, <4>2, <4>4
      <4> QED BY <2>1, <2>3, <4>3, <4>5
    <3> QED BY <3>4, <3>5, <3>6
  <2> QED BY <2>2, <2>3
<1> QED BY <1>6, <1>7

LEMMA RecvTimeoutInStep ==
  TypeOK /\ InStep /\ OneUnderWay /\ RecvTimeout => InStep' /\ OneUnderWay' /\ Ordered
<1> SUFFICES ASSUME TypeOK, InStep, OneUnderWay, RecvTimeout
             PROVE  InStep' /\ OneUnderWay' /\ Ordered
  OBVIOUS
<1>1. LeaveRecv(msgBuf) /\ down = <<>> /\ down' = <<>> /\ UNCHANGED <<lost, sentId>>
  BY DEF RecvTimeout, commVars
<1>2. CASE lost
  <2>1. ~Polite
    BY <1>2 DEF OneUnderWay
  <2> QED BY <1>1, <1>2, <2>1 DEF InStep, OneUnderWay, Ordered
<1>3. CASE ~lost
  <2>1. gotId \in Nat /\ msgBuf \in Seq(Unit) /\ <<>> \in Seq(Unit)
    BY <1>3, SeqOfPorts, EmptySeq DEF InStep
  <2>2. PICK k \in Nat : /\ Blocks(msgBuf \o <<>>, gotId + dropped, k)
                         /\ sentId = (gotId + dropped + k) % IdMod
    BY <1>1, <1>3, Zenon DEF InStep
  <2>3. /\ gotId' \in Nat
        /\ \E m \in Nat : /\ Blocks(msgBuf' \o <<>>, gotId' + dropped', m)
                          /\ sentId = (gotId' + dropped' + m) % IdMod
        /\ gotId' = gotId \/ gotId' = (gotId + 1 + dropped) % IdMod
        /\ Len(msgBuf') <= Len(msgBuf)
        /\ Len(msgBuf) <= MsgLen => dropped' \in {0, dropped}
    BY <1>1, <2>1, <2>2, LeaveRecvInStep
  <2>4. InStep'
    BY <1>1, <2>3, Zenon DEF InStep
  <2>5. Ordered
    BY <2>3, Zenon DEF Ordered
  <2>6. OneUnderWay'
    <3> SUFFICES ASSUME Polite
                 PROVE  ~lost' /\ dropped' = 0 /\ Len(msgBuf') + Len(down') <= MsgLen
      BY DEF OneUnderWay
    <3>1. dropped = 0 /\ Len(msgBuf) + Len(down) <= MsgLen
      BY DEF OneUnderWay
    <3>2. Len(down) = 0 /\ Len(down') = 0 /\ Len(msgBuf) \in Nat /\ MsgLen \in Nat
      BY <1>1, EmptySeq, SeqOfPorts, CommAssumption
    <3>3. Len(msgBuf) <= MsgLen
      BY <3>1, <3>2
    <3>4. dropped' = 0
      BY <2>3, <3>1, <3>3, Zenon
    <3>5. Len(msgBuf') \in Nat
      <4>1. msgBuf' \in Seq(Unit)
        BY RecvTimeoutType DEF TypeOK, LoopTypeOK
      <4> QED BY <4>1, LenProperties
    <3>6. Len(msgBuf') + Len(down') <= MsgLen
      BY <2>3, <3>2, <3>3, <3>5
    <3> QED BY <1>1, <1>3, <3>4, <3>6
  <2> QED BY <2>4, <2>5, <2>6
<1> QED BY <1>2, <1>3

LEMMA MasterSendsInStep ==
  ASSUME TypeOK, InStep, OneUnderWay, NEW type \in Types, MasterSends(type)
  PROVE  InStep' /\ OneUnderWay'
<1>1. /\ down' = down \o Units(type, sentId') /\ sentId' = (sentId + 1) % IdMod
      /\ UNCHANGED <<msgBuf, gotId, dropped, lost>>
      /\ Polite => down = <<>> /\ msgBuf = <<>>
  BY DEF MasterSends, loopVars
<1>2. PICK u \in Seq(Unit) : u = Units(type, sentId') /\ Len(u) = MsgLen
  <2>1. sentId' \in -1 .. IdMod - 1
    BY MasterSendsType, CommAssumption
  <2> QED BY <2>1, UnitsType
<1>3. InStep'
  <2> SUFFICES ASSUME ~lost PROVE InStep'
    BY <1>1 DEF InStep
  <2>1. dropped \in {0, 1}
    BY Zenon DEF TypeOK, LoopTypeOK
  <2>2. gotId \in Nat
    BY DEF InStep
  <2>3. PICK b \in Nat : b = gotId + dropped
    BY <2>1, <2>2
  <2>4. PICK n \in Nat : Blocks(msgBuf \o down, b, n) /\ sentId = (b + n) % IdMod
    BY <2>3, Zenon DEF InStep
  <2>5. sentId' = (b + n + 1) % IdMod
    <3>1. b + n \in Nat
      OBVIOUS
    <3>2. (((b + n) % IdMod) + 1) % IdMod = ((b + n) + 1) % IdMod
      BY <3>1, ModSum, CommAssumption
    <3> QED BY <1>1, <2>4, <3>2, Zenon
  <2>6. msgBuf \in Seq(Unit) /\ down \in Seq(Unit) /\ msgBuf \o down \in Seq(Unit)
    BY SeqOfPorts, ConcatProperties
  <2>7. (msgBuf \o down) \o u = msgBuf \o (down \o u)
    <3>1. \A x, y, z \in Seq(Unit) : (x \o y) \o z = x \o (y \o z)
      BY ConcatAssociative, SMTT(30)
    <3> QED BY <1>2, <2>6, <3>1, Zenon
  <2>8. Blocks((msgBuf \o down) \o Units(type, (b + n + 1) % IdMod), b, n + 1)
    BY <2>4, <2>6, BlocksJoin
  <2>9. Blocks(msgBuf \o down', b, n + 1)
    BY <1>1, <1>2, <2>5, <2>7, <2>8, Zenon
  <2>10. PICK m \in Nat : m = n + 1 /\ b + n + 1 = b + m
    <3>1. n + 1 \in Nat /\ b + n + 1 = b + (n + 1)
      OBVIOUS
    <3> QED BY <3>1
  <2> QED BY <1>1, <2>2, <2>3, <2>5, <2>9, <2>10, Zenon DEF InStep
<1>4. OneUnderWay'
  <2> SUFFICES ASSUME Polite
               PROVE  ~lost' /\ dropped' = 0 /\ Len(msgBuf') + Len(down') <= MsgLen
    BY DEF OneUnderWay
  <2>1. down = <<>> /\ msgBuf' = <<>> /\ <<>> \in Seq(Unit) /\ Len(<<>>) = 0
    BY <1>1, EmptySeq
  <2>2. Len(<<>> \o u) = 0 + MsgLen
    BY <1>2, <2>1, ConcatProperties
  <2>3. Len(msgBuf') + Len(down') <= MsgLen
    BY <1>1, <1>2, <2>1, <2>2, CommAssumption
  <2> QED BY <1>1, <2>3 DEF OneUnderWay
<1> QED BY <1>3, <1>4

LEMMA InStepStep ==
  TypeOK /\ InStep /\ OneUnderWay /\ [Next]_vars => InStep' /\ OneUnderWay' /\ Ordered
<1> SUFFICES ASSUME TypeOK, InStep, OneUnderWay, [Next]_vars
             PROVE  InStep' /\ OneUnderWay' /\ Ordered
  OBVIOUS
<1>1. CASE Start \/ RecvFails \/ Handle \/ StopTrans \/ Restart \/ Reply \/ Send \/ Sent
             \/ Close \/ Signal \/ TransEnds \/ MasterUp \/ MasterReads \/ Exited
             \/ UNCHANGED vars
  <2>1. UNCHANGED <<down, msgBuf, sentId, gotId, dropped, lost>>
    BY <1>1 DEF Start, CommInitialize, EnumChip, OpenPorts, WaitConn, Connected, InitStep,
                RecvFails, Handle, StopTrans, Restart, Reply, Send, Sent, Close, Signal,
                TransEnds, MasterUp, MasterReads, Exited, vars, commVars, portVars, loopVars,
                history
  <2> QED BY <2>1 DEF InStep, OneUnderWay, Ordered
<1>2. ASSUME NEW type \in Types, MasterSends(type) PROVE InStep' /\ OneUnderWay' /\ Ordered
  <2>1. gotId' = gotId
    BY <1>2 DEF MasterSends
  <2> QED BY <1>2, <2>1, MasterSendsInStep DEF Ordered
<1> QED BY <1>1, <1>2, RecvReadInStep, RecvTimeoutInStep DEF Next, Main

-----------------------------------------------------------------------------
(* The inductive invariant.                                                 *)
IInv == TypeOK /\ PortsHeld /\ AnswersOnce /\ Sending /\ InStep /\ OneUnderWay

LEMMA Initially == Init => IInv
<1> SUFFICES ASSUME Init PROVE IInv
  OBVIOUS
<1>1. /\ comm = "enum" /\ fds = {} /\ init = FALSE
      /\ down = <<>> /\ up = <<>> /\ out = <<>> /\ torn = FALSE
      /\ main = "start" /\ msgBuf = <<>> /\ twice = FALSE /\ answered = FALSE
      /\ sentId = 0 /\ gotId = 0 /\ dropped = 0 /\ lost = FALSE
  BY DEF Init, CommInit
<1>2. <<>> \o <<>> = <<>> /\ Len(<<>>) = 0
  BY EmptySeq
<1>3. PortsHeld
  BY <1>1 DEF PortsHeld
<1>4. AnswersOnce
  BY <1>1 DEF AnswersOnce
<1>5. Sending
  <2>1. Regular(up \o out)
    BY <1>1, <1>2, EmptyRegular
  <2>2. 0 <= MsgLen
    BY CommAssumption
  <2> QED BY <1>1, <1>2, <2>1, <2>2 DEF Sending
<1>6. InStep
  <2>1. 0 * MsgLen = 0 /\ 0 % IdMod = 0
    BY CommAssumption
  <2>2. Blocks(<<>>, 0, 0)
    BY <1>2, <2>1 DEF Blocks
  <2> QED BY <1>1, <1>2, <2>1, <2>2 DEF InStep
<1>7. OneUnderWay
  BY <1>1, <1>2, CommAssumption DEF OneUnderWay
<1> QED BY <1>3, <1>4, <1>5, <1>6, <1>7, TypeInit DEF IInv

LEMMA InvStep == IInv /\ [Next]_vars => IInv' /\ Ordered
BY TypeStep, PortsStep, AnswersStep, SendingStep, InStepStep, Zenon DEF IInv

(* The invariant holds in every reachable state.                            *)
THEOREM Invariance == Spec => []IInv
BY Initially, InvStep, PTL DEF Spec

(* Type correctness; the driver never holds more than it has room for.      *)
THEOREM TypeCorrect == Spec => []TypeOK
BY Invariance, PTL DEF IInv

(* While init_ is set the three ports are open and nothing else is, and     *)
(* Close() leaves none, unless Initialize() failed.                         *)
THEOREM DescriptorsHeld == Spec => []DescriptorsOwned
<1>1. IInv => DescriptorsOwned
  BY DEF IInv, PortsHeld, DescriptorsOwned
<1> QED BY Invariance, <1>1, PTL

(* No message is replied to twice, although the switch looks at the old one *)
(* again whenever Recv() fails.                                             *)
THEOREM SingleReplies == Spec => []RepliesOnce
<1>1. IInv => RepliesOnce
  BY DEF IInv, AnswersOnce, RepliesOnce
<1> QED BY Invariance, <1>1, PTL

(* The replies reach the master whole, however the driver cuts the writes,  *)
(* until a Send() fails halfway.                                            *)
THEOREM WholeReplies == Spec => []RepliesWhole
<1>1. IInv => RepliesWhole
  BY Zenon DEF IInv, Sending, Regular, RepliesWhole
<1> QED BY Invariance, <1>1, PTL

(* The messages are handled in the order they were sent, none passed over   *)
(* but the ones the second Consume() drops, as long as every Append() found *)
(* room.                                                                    *)
THEOREM InOrder == Spec => HeardInOrder
<1>1. IInv /\ [Next]_vars => [Ordered]_vars
  BY InvStep
<1>2. [Ordered]_vars =>
        [~lost' /\ gotId' # gotId => gotId' = (gotId + 1 + dropped) % IdMod]_vars
  BY DEF Ordered
<1> QED BY Invariance, <1>1, <1>2, PTL DEF Spec, HeardInOrder

(* A master that waits until its message was read is always heard.          *)
THEOREM PoliteIsHeard == Spec => []PoliteHeard
<1>1. IInv => PoliteHeard
  <2> SUFFICES ASSUME IInv, Polite
               PROVE  IF down = <<>> /\ msgBuf = <<>>
                      THEN gotId = sentId
                      ELSE sentId = (gotId + 1) % IdMod
    BY DEF PoliteHeard
  <2>1. TypeOK /\ InStep /\ ~lost /\ dropped = 0 /\ Len(msgBuf) + Len(down) <= MsgLen
    BY DEF IInv, OneUnderWay
  <2>2. /\ msgBuf \in Seq(Unit) /\ down \in Seq(Unit)
        /\ Len(msgBuf) \in Nat /\ Len(down) \in Nat /\ MsgLen \in Nat \ {0}
    BY <2>1, SeqOfPorts, CommAssumption
  <2>3. gotId \in Nat /\ gotId + dropped = gotId
    BY <2>1 DEF InStep
  <2>4. PICK n \in Nat : /\ Blocks(msgBuf \o down, gotId, n)
                         /\ sentId = (gotId + n) % IdMod
    BY <2>1, <2>3, Zenon DEF InStep
  <2>5. Len(msgBuf) + Len(down) = n * MsgLen
    <3>1. Len(msgBuf \o down) = Len(msgBuf) + Len(down)
      BY <2>2, ConcatProperties
    <3> QED BY <2>4, <3>1 DEF Blocks
  <2>6. gotId \in 0 .. IdMod - 1 /\ IdMod \in Nat \ {0}
    <3>1. gotId \in -1 .. IdMod - 1
      BY <2>1 DEF TypeOK, LoopTypeOK
    <3> QED BY <2>3, <3>1, CommAssumption
  <2>7. CASE down = <<>> /\ msgBuf = <<>>
    <3>1. n * MsgLen = 0
      BY <2>5, <2>7, EmptySeq
    <3>2. n = 0
      <4>1. 0 < n => 0 * MsgLen + MsgLen <= n * MsgLen
        BY <2>2, Product
      <4> QED BY <2>2, <3>1, <4>1
    <3>3. sentId = gotId % IdMod
      BY <2>3, <2>4, <3>2
    <3>4. gotId % IdMod = gotId
      BY <2>6, SMT
    <3> QED BY <2>7, <3>3, <3>4
  <2>8. CASE ~(down = <<>> /\ msgBuf = <<>>)
    <3>1. n * MsgLen # 0
      <4>1. Len(down) # 0 \/ Len(msgBuf) # 0
        BY <2>2, <2>8, EmptySeq
      <4> QED BY <2>2, <2>5, <4>1
    <3>2. n # 0
      <4>1. 0 * MsgLen = 0
        BY <2>2
      <4> QED BY <3>1, <4>1
    <3>3. ~(1 < n)
      <4>1. 1 < n => 1 * MsgLen + MsgLen <= n * MsgLen
        BY <2>2, Product
      <4>2. 1 * MsgLen = MsgLen
        BY <2>2
      <4> QED BY <2>1, <2>2, <2>5, <4>1, <4>2
    <3>4. n = 1
      BY <3>2, <3>3
    <3> QED BY <2>4, <2>8, <3>4
  <2> QED BY <2>7, <2>8
<1> QED BY Invariance, <1>1, PTL
=============================================================================
