------------------------- MODULE FrameStreamProofs -------------------------
(***************************************************************************)
(* The promise of FrameStream keeps every channel in order, for every set  *)
(* of channels, every modulus and queues of every length.                  *)
(***************************************************************************)
EXTENDS FrameStream, SequenceTheorems, TLAPS

TypeInv ==
  /\ up \in BOOLEAN
  /\ held \in [Channels -> Seq(Int)] /\ sent \in [Channels -> Seq(Int)]
  /\ last \in [Channels -> Int] /\ next \in [Channels -> Int]
  /\ taken \in [Channels -> Nat] /\ \A c \in Channels : taken[c] <= Len(held[c])

(* What InOrder says of one channel: u is whether a session runs, s what it *)
(* announced, h what waits, l the last frame read and x the next one made.  *)
Ordered(u, s, h, l, x) ==
  /\ Consecutive(s) /\ Follows(l, s)
  /\ Consecutive(Append(h, x))
  /\ u => Consecutive(s \o Append(h, x)) /\ Follows(l, s \o Append(h, x))

IInv == TypeInv /\ InOrder

(* Cutting a queue in two gives two queues that make it up. *)
LEMMA Cut ==
  ASSUME NEW h \in Seq(Int), NEW n \in 0 .. Len(h)
  PROVE  LET a == SubSeq(h, 1, n)
             b == SubSeq(h, n + 1, Len(h))
         IN  /\ a \in Seq(Int) /\ Len(a) = n /\ \A k \in 1 .. n : a[k] = h[k]
             /\ b \in Seq(Int) /\ Len(b) = Len(h) - n
             /\ \A k \in 1 .. Len(h) - n : b[k] = h[n + k]
OBVIOUS

(* The elements of a concatenation. *)
LEMMA Cat ==
  ASSUME NEW s \in Seq(Int), NEW t \in Seq(Int)
  PROVE  /\ s \o t \in Seq(Int) /\ Len(s \o t) = Len(s) + Len(t)
         /\ \A k \in 1 .. Len(s) : (s \o t)[k] = s[k]
         /\ \A k \in 1 .. Len(t) : (s \o t)[Len(s) + k] = t[k]
<1>1. /\ s \o t \in Seq(Int) /\ Len(s \o t) = Len(s) + Len(t)
      /\ \A k \in 1 .. Len(s) + Len(t) :
           (s \o t)[k] = IF k <= Len(s) THEN s[k] ELSE t[k - Len(s)]
  BY ConcatProperties
<1>2. ASSUME NEW k \in 1 .. Len(t) PROVE (s \o t)[Len(s) + k] = t[k]
  <2>1. Len(s) + k \in 1 .. Len(s) + Len(t) /\ ~(Len(s) + k <= Len(s))
          /\ (Len(s) + k) - Len(s) = k
    OBVIOUS
  <2> QED BY <1>1, <2>1
<1> QED BY <1>1, <1>2

(* Concatenation is associative. *)
LEMMA Regroup ==
  ASSUME NEW s \in Seq(Int), NEW t \in Seq(Int), NEW u \in Seq(Int)
  PROVE  (s \o t) \o u = s \o (t \o u)
<1> DEFINE p == s \o t
           q == t \o u
<1>1. /\ p \in Seq(Int) /\ Len(p) = Len(s) + Len(t)
      /\ \A k \in 1 .. Len(s) : p[k] = s[k]
      /\ \A k \in 1 .. Len(t) : p[Len(s) + k] = t[k]
  BY Cat
<1>2. /\ q \in Seq(Int) /\ Len(q) = Len(t) + Len(u)
      /\ \A k \in 1 .. Len(t) : q[k] = t[k]
      /\ \A k \in 1 .. Len(u) : q[Len(t) + k] = u[k]
  BY Cat
<1> HIDE DEF p, q
<1> DEFINE a == p \o u
           b == s \o q
<1>3. /\ a \in Seq(Int) /\ Len(a) = Len(p) + Len(u)
      /\ \A k \in 1 .. Len(p) : a[k] = p[k]
      /\ \A k \in 1 .. Len(u) : a[Len(p) + k] = u[k]
  BY <1>1, Cat
<1>4. /\ b \in Seq(Int) /\ Len(b) = Len(s) + Len(q)
      /\ \A k \in 1 .. Len(s) : b[k] = s[k]
      /\ \A k \in 1 .. Len(q) : b[Len(s) + k] = q[k]
  BY <1>2, Cat
<1> HIDE DEF a, b
<1>5. ASSUME NEW k \in 1 .. Len(a) PROVE a[k] = b[k]
  <2>1. CASE k <= Len(s)
    <3>1. k \in 1 .. Len(s) /\ k \in 1 .. Len(p)
      BY <1>1, <2>1
    <3> QED BY <1>1, <1>3, <1>4, <3>1
  <2>2. CASE Len(s) < k /\ k <= Len(p)
    <3>1. PICK m \in 1 .. Len(t) : k = Len(s) + m
      <4>1. k - Len(s) \in 1 .. Len(t) /\ k = Len(s) + (k - Len(s))
        BY <1>1, <2>2
      <4> QED BY <4>1
    <3>2. k \in 1 .. Len(p) /\ m \in 1 .. Len(q)
      BY <1>2, <2>2
    <3> QED BY <1>1, <1>2, <1>3, <1>4, <3>1, <3>2
  <2>3. CASE Len(p) < k
    <3>1. PICK m \in 1 .. Len(u) : k = Len(p) + m
      <4>1. k - Len(p) \in 1 .. Len(u) /\ k = Len(p) + (k - Len(p))
        BY <1>1, <1>3, <2>3, SMTT(30)
      <4> QED BY <4>1
    <3>2. Len(t) + m \in 1 .. Len(q) /\ k = Len(s) + (Len(t) + m)
      BY <1>1, <1>2, <3>1
    <3>3. a[k] = u[m] /\ q[Len(t) + m] = u[m] /\ b[k] = q[Len(t) + m]
      BY <1>2, <1>3, <1>4, <3>1, <3>2
    <3> QED BY <3>3
  <2> QED BY <1>1, <2>1, <2>2, <2>3
<1>6. Len(a) = Len(b)
  BY <1>1, <1>2, <1>3, <1>4
<1> QED BY <1>3, <1>4, <1>5, <1>6, SeqEqual DEF a, b, p, q

(* A stretch of a sequence that is in order is in order. *)
LEMMA Stretch ==
  ASSUME NEW h \in Seq(Int), NEW g \in Seq(Int), NEW d \in Nat, Consecutive(h),
         d + Len(g) <= Len(h), \A k \in 1 .. Len(g) : g[k] = h[d + k]
  PROVE  Consecutive(g)
<1> SUFFICES ASSUME NEW k \in 1 .. Len(g) - 1 PROVE g[k + 1] = Succ(g[k])
  BY DEF Consecutive
<1>1. d + k \in 1 .. Len(h) - 1 /\ g[k] = h[d + k] /\ g[k + 1] = h[(d + k) + 1]
  <2>1. k \in 1 .. Len(g) /\ k + 1 \in 1 .. Len(g) /\ d + (k + 1) = (d + k) + 1
    OBVIOUS
  <2> QED BY <2>1
<1> QED BY <1>1 DEF Consecutive

(* The rest of a queue, with the next frame behind it. *)
LEMMA RestOpen ==
  ASSUME NEW h \in Seq(Int), NEW x \in Int, NEW n \in 0 .. Len(h)
  PROVE  LET g == Append(h, x)
             r == Append(SubSeq(h, n + 1, Len(h)), x)
         IN  /\ g \in Seq(Int) /\ r \in Seq(Int)
             /\ Len(g) = Len(h) + 1 /\ Len(r) = Len(g) - n
             /\ \A k \in 1 .. Len(r) : r[k] = g[n + k]
             /\ Consecutive(g) => Consecutive(r)
<1> DEFINE b == SubSeq(h, n + 1, Len(h))
           g == Append(h, x)
           r == Append(b, x)
<1>1. b \in Seq(Int) /\ Len(b) = Len(h) - n /\ \A k \in 1 .. Len(h) - n : b[k] = h[n + k]
  BY Cut
<1> HIDE DEF b
<1>2. g \in Seq(Int) /\ Len(g) = Len(h) + 1 /\ g[Len(h) + 1] = x
        /\ \A k \in 1 .. Len(h) : g[k] = h[k]
  OBVIOUS
<1>3. r \in Seq(Int) /\ Len(r) = Len(b) + 1 /\ r[Len(b) + 1] = x
        /\ \A k \in 1 .. Len(b) : r[k] = b[k]
  BY <1>1
<1> HIDE DEF g, r
<1>4. ASSUME NEW k \in 1 .. Len(r) PROVE r[k] = g[n + k]
  <2>1. CASE k = Len(b) + 1
    <3>1. n + k = Len(h) + 1
      BY <1>1, <2>1
    <3> QED BY <1>2, <1>3, <2>1, <3>1
  <2>2. CASE k # Len(b) + 1
    <3>1. k \in 1 .. Len(b) /\ n + k \in 1 .. Len(h)
      BY <1>1, <1>3, <2>2
    <3>2. r[k] = b[k] /\ b[k] = h[n + k] /\ g[n + k] = h[n + k]
      BY <1>1, <1>2, <1>3, <3>1
    <3> QED BY <3>2
  <2> QED BY <2>1, <2>2
<1>5. Consecutive(g) => Consecutive(r)
  <2> SUFFICES ASSUME Consecutive(g) PROVE Consecutive(r)
    OBVIOUS
  <2>1. n + Len(r) <= Len(g) /\ n \in Nat
    BY <1>1, <1>2, <1>3
  <2>2. g \in Seq(Int) /\ r \in Seq(Int)
    BY <1>2, <1>3
  <2> QED BY <1>4, <2>1, <2>2, Stretch
<1>6. Len(r) = Len(g) - n
  BY <1>1, <1>2, <1>3
<1> QED BY <1>2, <1>3, <1>4, <1>5, <1>6 DEF g, r, b

(* Frames that move from the waiting to the announced ones leave the whole  *)
(* as it was.                                                               *)
LEMMA Moved ==
  ASSUME NEW s \in Seq(Int), NEW h \in Seq(Int), NEW x \in Int, NEW n \in 0 .. Len(h)
  PROVE  (s \o SubSeq(h, 1, n)) \o Append(SubSeq(h, n + 1, Len(h)), x) = s \o Append(h, x)
<1> DEFINE a == SubSeq(h, 1, n)
           g == Append(h, x)
           r == Append(SubSeq(h, n + 1, Len(h)), x)
<1>1. a \in Seq(Int) /\ Len(a) = n /\ \A k \in 1 .. n : a[k] = h[k]
  BY Cut
<1>2. /\ g \in Seq(Int) /\ r \in Seq(Int) /\ Len(g) = Len(h) + 1 /\ Len(r) = Len(g) - n
      /\ \A k \in 1 .. Len(r) : r[k] = g[n + k]
  BY RestOpen
<1>3. \A k \in 1 .. Len(h) : g[k] = h[k]
  OBVIOUS
<1> HIDE DEF a, g, r
<1>4. a \o r = g
  <2>1. a \o r \in Seq(Int) /\ Len(a \o r) = Len(g)
    BY <1>1, <1>2, Cat
  <2>2. ASSUME NEW k \in 1 .. Len(a \o r) PROVE (a \o r)[k] = g[k]
    <3>1. CASE k <= n
      <4>1. k \in 1 .. Len(a) /\ k \in 1 .. n /\ k \in 1 .. Len(h)
        BY <1>1, <2>1, <3>1
      <4>2. (a \o r)[k] = a[k]
        BY <1>1, <1>2, <4>1, Cat
      <4> QED BY <1>1, <1>3, <4>1, <4>2
    <3>2. CASE ~(k <= n)
      <4>1. PICK m \in 1 .. Len(r) : k = n + m
        <5>1. k - n \in 1 .. Len(r) /\ k = n + (k - n)
          BY <1>1, <1>2, <2>1, <3>2
        <5> QED BY <5>1
      <4> QED BY <1>1, <1>2, <4>1, Cat
    <3> QED BY <3>1, <3>2
  <2> QED BY <1>2, <2>1, <2>2, SeqEqual
<1>5. (s \o a) \o r = s \o (a \o r)
  BY <1>1, <1>2, Regroup
<1> QED BY <1>4, <1>5 DEF a, g, r

(* The parts of a sequence that is in order are in order. *)
LEMMA Parts ==
  ASSUME NEW s \in Seq(Int), NEW t \in Seq(Int), Consecutive(s \o t)
  PROVE  Consecutive(s) /\ Consecutive(t)
<1> DEFINE w == s \o t
<1>1. /\ w \in Seq(Int) /\ Len(w) = Len(s) + Len(t)
      /\ \A k \in 1 .. Len(s) : w[k] = s[k]
      /\ \A k \in 1 .. Len(t) : w[Len(s) + k] = t[k]
  BY Cat
<1>2. Consecutive(w)
  OBVIOUS
<1> HIDE DEF w
<1>3. Consecutive(s)
  <2>1. \A k \in 1 .. Len(s) : s[k] = w[0 + k]
    BY <1>1
  <2>2. 0 + Len(s) <= Len(w)
    BY <1>1
  <2> QED BY <1>1, <1>2, <2>1, <2>2, Stretch
<1>4. Consecutive(t)
  <2>1. Len(s) \in Nat /\ Len(s) + Len(t) <= Len(w)
    BY <1>1
  <2> QED BY <1>1, <1>2, <2>1, Stretch
<1> QED BY <1>3, <1>4

(* A batch is announced. *)
LEMMA AnnounceKeeps ==
  ASSUME NEW s \in Seq(Int), NEW h \in Seq(Int), NEW l \in Int, NEW x \in Int,
         NEW n \in 0 .. Len(h), Ordered(TRUE, s, h, l, x)
  PROVE  Ordered(TRUE, s \o SubSeq(h, 1, n), SubSeq(h, n + 1, Len(h)), l, x)
<1> DEFINE a == s \o SubSeq(h, 1, n)
           b == Append(SubSeq(h, n + 1, Len(h)), x)
<1>1. a \in Seq(Int) /\ b \in Seq(Int) /\ Len(b) > 0
  BY Cut, Cat, RestOpen
<1>2. a \o b = s \o Append(h, x)
  BY Moved
<1>3. Consecutive(a \o b) /\ Follows(l, a \o b)
  BY <1>2 DEF Ordered
<1> HIDE DEF a, b
<1>4. Consecutive(a) /\ Consecutive(b)
  BY <1>1, <1>3, Parts
<1>5. Follows(l, a)
  <2> SUFFICES ASSUME l # None, a # <<>> PROVE a[1] = Succ(l)
    BY DEF Follows
  <2>1. 1 \in 1 .. Len(a)
    BY <1>1
  <2>2. (a \o b)[1] = a[1] /\ Len(a \o b) > 0
    BY <1>1, <2>1, Cat
  <2>3. a \o b # <<>>
    BY <2>2
  <2> QED BY <1>3, <2>2, <2>3 DEF Follows
<1> QED BY <1>3, <1>4, <1>5 DEF Ordered, a, b

(* The master reads the first n frames, n > 0. *)
LEMMA DeliverKeeps ==
  ASSUME NEW u \in BOOLEAN, NEW s \in Seq(Int), NEW h \in Seq(Int), NEW l \in Int,
         NEW x \in Int, NEW n \in 1 .. Len(s), Ordered(u, s, h, l, x)
  PROVE  Ordered(u, SubSeq(s, n + 1, Len(s)), h, s[n], x)
<1> DEFINE r == SubSeq(s, n + 1, Len(s))
           g == Append(h, x)
<1>1. r \in Seq(Int) /\ Len(r) = Len(s) - n /\ \A k \in 1 .. Len(s) - n : r[k] = s[n + k]
  BY Cut
<1>2. g \in Seq(Int) /\ Len(g) = Len(h) + 1
  OBVIOUS
<1>3. Consecutive(s) /\ Consecutive(g)
  BY DEF Ordered
<1>4. u => Consecutive(s \o g)
  BY DEF Ordered
<1> HIDE DEF r, g
<1>5. Consecutive(r)
  <2>1. n + Len(r) <= Len(s) /\ n \in Nat
    BY <1>1
  <2> QED BY <1>1, <1>3, <2>1, Stretch
<1>6. ASSUME NEW w \in Seq(Int), NEW v \in Seq(Int), Consecutive(w), v # <<>>,
             Len(v) = Len(w) - n, n \in 1 .. Len(w),
             \A k \in 1 .. Len(v) : v[k] = w[n + k]
      PROVE  v[1] = Succ(w[n])
  <2>1. n \in 1 .. Len(w) - 1 /\ 1 \in 1 .. Len(v)
    BY <1>6
  <2> QED BY <1>6, <2>1 DEF Consecutive
<1>7. Follows(s[n], r)
  BY <1>1, <1>3, <1>6 DEF Follows
<1>8. CASE u
  <2> DEFINE w == s \o g
             v == r \o g
  <2>1. /\ w \in Seq(Int) /\ Len(w) = Len(s) + Len(g)
        /\ \A k \in 1 .. Len(s) : w[k] = s[k]
        /\ \A k \in 1 .. Len(g) : w[Len(s) + k] = g[k]
    BY <1>2, Cat
  <2>2. /\ v \in Seq(Int) /\ Len(v) = Len(r) + Len(g)
        /\ \A k \in 1 .. Len(r) : v[k] = r[k]
        /\ \A k \in 1 .. Len(g) : v[Len(r) + k] = g[k]
    BY <1>1, <1>2, Cat
  <2>3. Consecutive(w)
    BY <1>4, <1>8
  <2> HIDE DEF w, v
  <2>4. ASSUME NEW k \in 1 .. Len(v) PROVE v[k] = w[n + k]
    <3>1. CASE k <= Len(r)
      <4>1. k \in 1 .. Len(r) /\ n + k \in 1 .. Len(s) /\ k \in 1 .. Len(s) - n
        BY <1>1, <2>2, <3>1
      <4>2. v[k] = r[k] /\ r[k] = s[n + k] /\ w[n + k] = s[n + k]
        BY <1>1, <2>1, <2>2, <4>1
      <4> QED BY <4>2
    <3>2. CASE ~(k <= Len(r))
      <4>1. PICK m \in 1 .. Len(g) : k = Len(r) + m
        <5>1. k - Len(r) \in 1 .. Len(g) /\ k = Len(r) + (k - Len(r))
          BY <1>1, <1>2, <2>2, <3>2
        <5> QED BY <5>1
      <4>2. n + k = Len(s) + m
        BY <1>1, <4>1
      <4> QED BY <2>1, <2>2, <4>1, <4>2
    <3> QED BY <3>1, <3>2
  <2>5. n + Len(v) <= Len(w) /\ n \in Nat /\ n \in 1 .. Len(w) /\ Len(v) = Len(w) - n
    BY <1>1, <1>2, <2>1, <2>2
  <2>6. Consecutive(v)
    BY <2>1, <2>2, <2>3, <2>4, <2>5, Stretch
  <2>7. w[n] = s[n]
    BY <2>1
  <2>8. Follows(s[n], v)
    <3> SUFFICES ASSUME v # <<>> PROVE v[1] = Succ(w[n])
      BY <2>7 DEF Follows
    <3> QED BY <1>6, <2>1, <2>2, <2>3, <2>4, <2>5
  <2> QED BY <1>3, <1>5, <1>7, <2>6, <2>8 DEF Ordered, r, g, v
<1> QED BY <1>3, <1>5, <1>7, <1>8 DEF Ordered, r, g

(* One more frame, the successor of the last one. *)
LEMMA Grow ==
  ASSUME NEW t \in Seq(Int), NEW x \in Int, NEW y \in Int, Consecutive(t), Len(t) > 0,
         t[Len(t)] = x, y = Succ(x)
  PROVE  Consecutive(Append(t, y))
<1> DEFINE w == Append(t, y)
<1>1. Len(w) = Len(t) + 1 /\ w[Len(t) + 1] = y /\ \A k \in 1 .. Len(t) : w[k] = t[k]
  OBVIOUS
<1> HIDE DEF w
<1>2. ASSUME NEW k \in 1 .. Len(w) - 1 PROVE w[k + 1] = Succ(w[k])
  <2>1. k \in 1 .. Len(t) /\ w[k] = t[k]
    BY <1>1
  <2>2. CASE k = Len(t)
    BY <1>1, <2>1, <2>2
  <2>3. CASE k # Len(t)
    <3>1. k \in 1 .. Len(t) - 1 /\ k + 1 \in 1 .. Len(t)
      BY <2>1, <2>3
    <3> QED BY <1>1, <2>1, <3>1 DEF Consecutive
  <2> QED BY <2>2, <2>3
<1> QED BY <1>2 DEF Consecutive, w

(* An encoder makes the next frame. *)
LEMMA ProduceKeeps ==
  ASSUME NEW u \in BOOLEAN, NEW s \in Seq(Int), NEW h \in Seq(Int), NEW l \in Int,
         NEW x \in Int, NEW y \in Int, y = Succ(x), Ordered(u, s, h, l, x)
  PROVE  Ordered(u, s, Append(h, x), l, y)
<1> DEFINE g == Append(h, x)
<1>1. g \in Seq(Int) /\ Len(g) > 0 /\ g[Len(g)] = x
  OBVIOUS
<1>2. Consecutive(g) /\ Consecutive(s) /\ Follows(l, s)
  BY DEF Ordered
<1>3. u => Consecutive(s \o g) /\ Follows(l, s \o g)
  BY DEF Ordered
<1> HIDE DEF g
<1>4. Consecutive(Append(g, y))
  BY <1>1, <1>2, Grow
<1>5. CASE u
  <2>1. /\ s \o g \in Seq(Int) /\ Len(s \o g) = Len(s) + Len(g)
        /\ (s \o g)[Len(s) + Len(g)] = x
    <3>1. Len(g) \in 1 .. Len(g)
      BY <1>1
    <3> QED BY <1>1, <3>1, Cat
  <2>2. Append(s \o g, y) = s \o Append(g, y)
    <3>1. Append(s \o g, y) = (s \o g) \o <<y>> /\ Append(g, y) = g \o <<y>>
      BY <1>1, <2>1, AppendIsConcat
    <3>2. <<y>> \in Seq(Int)
      OBVIOUS
    <3>3. (s \o g) \o <<y>> = s \o (g \o <<y>>)
      BY <1>1, <3>2, Regroup
    <3> QED BY <3>1, <3>3
  <2>3. Consecutive(Append(s \o g, y))
    <3>1. Len(s \o g) > 0 /\ (s \o g)[Len(s \o g)] = x
      BY <1>1, <2>1
    <3>2. Consecutive(s \o g)
      BY <1>3, <1>5
    <3> QED BY <2>1, <3>1, <3>2, Grow
  <2>4. Follows(l, Append(s \o g, y))
    <3>1. 1 \in 1 .. Len(s \o g) /\ s \o g # <<>>
      BY <1>1, <2>1
    <3>2. Append(s \o g, y)[1] = (s \o g)[1]
      BY <2>1, <3>1
    <3> QED BY <1>3, <1>5, <3>1, <3>2 DEF Follows
  <2> QED BY <1>2, <1>4, <2>2, <2>3, <2>4 DEF Ordered, g
<1> QED BY <1>2, <1>4, <1>5 DEF Ordered, g

(* A count never exceeds its queue. *)
LEMMA Reach ==
  ASSUME NEW q \in [Channels -> Seq(Int)], NEW n \in Counts(q), NEW c \in Channels
  PROVE  n[c] \in 0 .. Len(q[c])
<1>1. n[c] \in UNION {0 .. Len(q[d]) : d \in Channels} /\ n[c] <= Len(q[c])
  BY DEF Counts
<1>2. PICK d \in Channels : n[c] \in 0 .. Len(q[d])
  BY <1>1
<1>3. n[c] \in Nat /\ Len(q[c]) \in Nat
  BY <1>2
<1> QED BY <1>1, <1>3

(* So is what a session has taken, the frame it is just taking included.    *)
LEMMA TakenReach ==
  ASSUME TypeInv, NEW n \in Takes \cup {taken}, NEW c \in Channels
  PROVE  n[c] \in 0 .. Len(held[c])
<1>1. taken[c] \in Nat /\ taken[c] <= Len(held[c]) /\ Len(held[c]) \in Nat
  BY DEF TypeInv
<1>2. CASE n \in Takes
  <2>1. PICK d \in Channels : taken[d] < Len(held[d]) /\ n = [taken EXCEPT ![d] = @ + 1]
    BY <1>2 DEF Takes
  <2>2. n[c] = IF c = d THEN taken[c] + 1 ELSE taken[c]
    BY <2>1 DEF TypeInv
  <2> QED BY <1>1, <2>1, <2>2
<1>3. CASE n = taken
  BY <1>1, <1>3
<1> QED BY <1>2, <1>3

(* InOrder, channel by channel. *)
LEMMA Channelwise ==
  InOrder <=> \A c \in Channels : Ordered(up, sent[c], held[c], last[c], next[c])
BY DEF InOrder, Ordered

(* Every step keeps every channel in order. *)
LEMMA StepInv == Mod \in Nat \ {0} /\ IInv /\ [Next]_vars => IInv'
<1> SUFFICES ASSUME Mod \in Nat \ {0}, IInv, [Next]_vars PROVE IInv'
  OBVIOUS
<1>1. TypeInv /\ \A c \in Channels : Ordered(up, sent[c], held[c], last[c], next[c])
  BY Channelwise DEF IInv
<1>2. \A x \in Int : Succ(x) \in Int
  BY DEF Succ
<1>3. SUFFICES /\ TypeInv'
               /\ \A c \in Channels :
                    Ordered(up', sent'[c], held'[c], last'[c], next'[c])
  BY DEF IInv, InOrder, Ordered
<1>4. ASSUME NEW d \in Channels, Produce(d)
      PROVE  /\ TypeInv'
             /\ \A c \in Channels :
                  Ordered(up', sent'[c], held'[c], last'[c], next'[c])
  <2>1. next[d] \in Int /\ Succ(next[d]) \in Int /\ Append(held[d], next[d]) \in Seq(Int)
    BY <1>1, <1>2 DEF TypeInv
  <2>2. held' \in [Channels -> Seq(Int)] /\ next' \in [Channels -> Int]
    BY <1>1, <1>4, <2>1 DEF TypeInv, Produce
  <2>5. ASSUME NEW c \in Channels PROVE taken'[c] <= Len(held'[c])
    <3>1. taken' = taken /\ taken[c] \in Nat /\ taken[c] <= Len(held[c]) /\ held[c] \in Seq(Int)
      BY <1>1, <1>4 DEF TypeInv, Produce
    <3>2. Len(Append(held[d], next[d])) = Len(held[d]) + 1 /\ Len(held[c]) \in Nat
      BY <1>1, <2>1, <3>1 DEF TypeInv
    <3>3. held'[c] = IF c = d THEN Append(held[d], next[d]) ELSE held[c]
      BY <1>1, <1>4 DEF TypeInv, Produce
    <3> QED BY <3>1, <3>2, <3>3
  <2>3. TypeInv'
    <3>1. UNCHANGED <<up, taken, sent, last>>
      BY <1>4 DEF Produce
    <3> QED BY <1>1, <2>2, <2>5, <3>1 DEF TypeInv
  <2>4. ASSUME NEW c \in Channels
        PROVE  Ordered(up', sent'[c], held'[c], last'[c], next'[c])
    <3>1. CASE c = d
      <4>1. /\ held'[c] = Append(held[d], next[d]) /\ next'[c] = Succ(next[d])
            /\ sent'[c] = sent[d] /\ last'[c] = last[d] /\ up' = up
        BY <1>1, <1>4, <3>1 DEF TypeInv, Produce
      <4>2. Ordered(up, sent[d], Append(held[d], next[d]), last[d], Succ(next[d]))
        BY <1>1, <2>1, ProduceKeeps DEF TypeInv
      <4> QED BY <4>1, <4>2
    <3>2. CASE c # d
      <4>1. held'[c] = held[c] /\ next'[c] = next[c]
        BY <1>1, <1>4, <3>2 DEF TypeInv, Produce
      <4> QED BY <1>1, <1>4, <4>1 DEF Produce
    <3> QED BY <3>1, <3>2
  <2> QED BY <2>3, <2>4
<1>5. CASE Announce
  <2>1. PICK n \in Counts(held) :
          /\ \A c \in Channels : n[c] <= taken[c]
          /\ sent' = [c \in Channels |-> sent[c] \o First(held, n)[c]]
          /\ held' = Rest(held, n)
          /\ taken' = [c \in Channels |-> taken[c] - n[c]]
    BY <1>5 DEF Announce
  <2>2. ASSUME NEW c \in Channels
        PROVE  /\ n[c] \in 0 .. Len(held[c])
               /\ sent[c] \in Seq(Int) /\ held[c] \in Seq(Int)
               /\ sent'[c] = sent[c] \o SubSeq(held[c], 1, n[c])
               /\ held'[c] = SubSeq(held[c], n[c] + 1, Len(held[c]))
    BY <1>1, <2>1, Reach DEF TypeInv, First, Rest
  <2>3. up = TRUE /\ up' = TRUE /\ last' = last /\ next' = next
    BY <1>1, <1>5 DEF TypeInv, Announce
  <2>4. ASSUME NEW c \in Channels
        PROVE  /\ sent'[c] \in Seq(Int) /\ held'[c] \in Seq(Int)
               /\ Ordered(up', sent'[c], held'[c], last'[c], next'[c])
    <3>1. sent'[c] \in Seq(Int) /\ held'[c] \in Seq(Int)
      <4>1. SubSeq(held[c], 1, n[c]) \in Seq(Int)
              /\ SubSeq(held[c], n[c] + 1, Len(held[c])) \in Seq(Int)
        BY <2>2, Cut
      <4>2. sent[c] \o SubSeq(held[c], 1, n[c]) \in Seq(Int)
        BY <2>2, <4>1, Cat
      <4>3. sent'[c] = sent[c] \o SubSeq(held[c], 1, n[c])
              /\ held'[c] = SubSeq(held[c], n[c] + 1, Len(held[c]))
        BY <2>2
      <4> QED BY <4>1, <4>2, <4>3
    <3>2. Ordered(TRUE, sent[c], held[c], last[c], next[c])
            /\ last[c] \in Int /\ next[c] \in Int
      BY <1>1, <2>3 DEF TypeInv
    <3>3. Ordered(TRUE, sent[c] \o SubSeq(held[c], 1, n[c]),
                  SubSeq(held[c], n[c] + 1, Len(held[c])), last[c], next[c])
      BY <2>2, <3>2, AnnounceKeeps
    <3> QED BY <2>2, <2>3, <3>1, <3>3
  <2>5. TypeInv'
    <3>1. sent' = [c \in Channels |-> sent'[c]] /\ held' = [c \in Channels |-> held'[c]]
      BY <2>1 DEF Rest
    <3>2. ASSUME NEW c \in Channels PROVE taken'[c] \in Nat /\ taken'[c] <= Len(held'[c])
      <4>1. /\ taken'[c] = taken[c] - n[c] /\ n[c] <= taken[c] /\ taken[c] \in Nat
            /\ taken[c] <= Len(held[c])
        BY <1>1, <2>1 DEF TypeInv
      <4>2. n[c] \in 0 .. Len(held[c]) /\ Len(held[c]) \in Nat
        BY <2>2
      <4>3. Len(SubSeq(held[c], n[c] + 1, Len(held[c]))) = Len(held[c]) - n[c]
        BY <2>2, Cut
      <4>4. held'[c] = SubSeq(held[c], n[c] + 1, Len(held[c]))
        BY <2>2
      <4> QED BY <4>1, <4>2, <4>3, <4>4
    <3>3. taken' = [c \in Channels |-> taken'[c]]
      BY <2>1
    <3>4. taken' \in [Channels -> Nat]
      BY <3>2, <3>3
    <3>5. sent' \in [Channels -> Seq(Int)] /\ held' \in [Channels -> Seq(Int)]
      BY <2>4, <3>1
    <3>6. up' \in BOOLEAN /\ last' \in [Channels -> Int] /\ next' \in [Channels -> Int]
      BY <1>1, <2>3 DEF TypeInv
    <3> QED BY <3>2, <3>4, <3>5, <3>6 DEF TypeInv
  <2> QED BY <2>4, <2>5
<1>6. CASE Deliver
  <2>1. PICK n \in Counts(sent) :
          /\ last' = [c \in Channels |-> IF n[c] = 0 THEN last[c] ELSE sent[c][n[c]]]
          /\ sent' = Rest(sent, n)
    BY <1>6 DEF Deliver
  <2>2. ASSUME NEW c \in Channels
        PROVE  /\ n[c] \in 0 .. Len(sent[c])
               /\ sent[c] \in Seq(Int) /\ held[c] \in Seq(Int)
               /\ last[c] \in Int /\ next[c] \in Int
               /\ last'[c] = IF n[c] = 0 THEN last[c] ELSE sent[c][n[c]]
               /\ sent'[c] = SubSeq(sent[c], n[c] + 1, Len(sent[c]))
    BY <1>1, <2>1, Reach DEF TypeInv, Rest
  <2>3. up \in BOOLEAN /\ up' = up /\ held' = held /\ taken' = taken /\ next' = next
    BY <1>1, <1>6 DEF TypeInv, Deliver
  <2>4. ASSUME NEW c \in Channels
        PROVE  /\ sent'[c] \in Seq(Int) /\ last'[c] \in Int
               /\ Ordered(up', sent'[c], held'[c], last'[c], next'[c])
    <3>1. CASE n[c] = 0
      <4>1. sent'[c] = sent[c] /\ last'[c] = last[c]
        <5>1. SubSeq(sent[c], 1, Len(sent[c])) = sent[c]
          BY <2>2, SubSeqFull
        <5>2. sent'[c] = SubSeq(sent[c], 1, Len(sent[c]))
          <6>1. sent'[c] = SubSeq(sent[c], n[c] + 1, Len(sent[c]))
            BY <2>2
          <6>2. n[c] + 1 = 1
            BY <3>1
          <6> QED BY <6>1, <6>2
        <5>3. last'[c] = last[c]
          BY <2>2, <3>1
        <5> QED BY <5>1, <5>2, <5>3
      <4> QED BY <1>1, <2>2, <2>3, <4>1
    <3>2. CASE n[c] # 0
      <4>1. n[c] \in 1 .. Len(sent[c])
        BY <2>2, <3>2
      <4>2. Ordered(up, SubSeq(sent[c], n[c] + 1, Len(sent[c])), held[c],
                    sent[c][n[c]], next[c])
        BY <1>1, <2>2, <2>3, <4>1, DeliverKeeps
      <4>3. sent[c][n[c]] \in Int
        BY <2>2, <4>1
      <4>4. sent'[c] \in Seq(Int)
        <5>1. SubSeq(sent[c], n[c] + 1, Len(sent[c])) \in Seq(Int)
          BY <2>2, Cut
        <5> QED BY <2>2, <5>1
      <4>5. last'[c] = sent[c][n[c]]
        BY <2>2, <3>2
      <4> QED BY <2>2, <2>3, <4>2, <4>3, <4>4, <4>5
    <3> QED BY <3>1, <3>2
  <2>5. TypeInv'
    <3>1. sent' = [c \in Channels |-> sent'[c]] /\ last' = [c \in Channels |-> last'[c]]
      BY <2>1 DEF Rest
    <3> QED BY <1>1, <2>3, <2>4, <3>1 DEF TypeInv
  <2> QED BY <2>4, <2>5
<1>7. CASE Stop
  <2>1. PICK n \in Takes \cup {taken} : held' = Rest(held, n)
    BY <1>7 DEF Stop
  <2>2. ASSUME NEW c \in Channels
        PROVE  /\ n[c] \in 0 .. Len(held[c]) /\ held[c] \in Seq(Int) /\ next[c] \in Int
               /\ held'[c] = SubSeq(held[c], n[c] + 1, Len(held[c]))
    BY <1>1, <2>1, TakenReach DEF TypeInv, Rest
  <2>3. up' = FALSE /\ sent' = sent /\ last' = last /\ next' = next
    BY <1>7 DEF Stop
  <2>4. ASSUME NEW c \in Channels
        PROVE  /\ held'[c] \in Seq(Int)
               /\ Ordered(up', sent'[c], held'[c], last'[c], next'[c])
    <3>1. held'[c] \in Seq(Int)
      BY <2>2, Cut
    <3>2. Consecutive(Append(held[c], next[c]))
            /\ Consecutive(sent[c]) /\ Follows(last[c], sent[c])
      BY <1>1 DEF Ordered
    <3>3. Consecutive(Append(held'[c], next[c]))
      BY <2>2, <3>2, RestOpen
    <3> QED BY <2>3, <3>1, <3>2, <3>3 DEF Ordered
  <2>5. TypeInv'
    <3>1. held' = [c \in Channels |-> held'[c]]
      BY <2>1 DEF Rest
    <3>2. taken' = [c \in Channels |-> 0]
      BY <1>7 DEF Stop
    <3>3. \A c \in Channels : 0 <= Len(held'[c])
      BY <2>4
    <3> QED BY <1>1, <2>3, <2>4, <3>1, <3>2, <3>3 DEF TypeInv
  <2> QED BY <2>4, <2>5
<1>8. CASE Start
  <2>1. TypeInv'
    BY <1>1, <1>8 DEF TypeInv, Start, None
  <2>2. ASSUME NEW c \in Channels
        PROVE  Ordered(up', sent'[c], held'[c], last'[c], next'[c])
    <3>1. /\ sent'[c] = <<>> /\ last'[c] = None /\ held'[c] = held[c] /\ next'[c] = next[c]
          /\ Append(held[c], next[c]) \in Seq(Int)
      BY <1>1, <1>8 DEF TypeInv, Start
    <3>2. Consecutive(Append(held[c], next[c]))
      BY <1>1 DEF Ordered
    <3>3. <<>> \o Append(held[c], next[c]) = Append(held[c], next[c])
      BY <3>1, SMTT(30)
    <3> QED BY <3>1, <3>2, <3>3, SMTT(30) DEF Ordered, Consecutive, Follows
  <2> QED BY <2>1, <2>2
<1>9. CASE Take
  <2>1. UNCHANGED <<up, held, sent, last, next>> /\ taken' \in Takes
    BY <1>9 DEF Take
  <2>2. ASSUME NEW c \in Channels PROVE taken'[c] \in 0 .. Len(held[c])
    BY <1>1, <2>1, TakenReach
  <2>3. taken' \in [Channels -> Nat]
    <3>1. PICK d \in Channels : taken' = [taken EXCEPT ![d] = @ + 1]
      BY <2>1 DEF Takes
    <3> QED BY <1>1, <3>1 DEF TypeInv
  <2>4. \A c \in Channels : taken'[c] <= Len(held'[c])
    BY <1>1, <2>1, <2>2 DEF TypeInv
  <2>5. TypeInv'
    BY <1>1, <2>1, <2>3, <2>4 DEF TypeInv
  <2> QED BY <1>1, <2>1, <2>5
<1>10. CASE UNCHANGED vars
  BY <1>1, <1>10 DEF vars, TypeInv
<1> QED BY <1>4, <1>5, <1>6, <1>7, <1>8, <1>9, <1>10 DEF Next

(* At the start there is nothing to read and frame 0 comes first. *)
LEMMA Initially == Init => IInv
<1> SUFFICES ASSUME Init PROVE IInv
  OBVIOUS
<1>1. TypeInv
  <2>1. <<>> \in Seq(Int) /\ None \in Int /\ 0 \in Int /\ 0 \in Nat /\ 0 <= Len(<<>>)
    BY DEF None
  <2> QED BY <2>1 DEF Init, TypeInv
<1>2. Append(<<>>, 0) = <<0>> /\ Len(<<0>>) = 1 /\ Len(<<>>) = 0
  OBVIOUS
<1> QED BY <1>1, <1>2 DEF Init, IInv, InOrder, Consecutive, Follows

(* Whatever is encoded, announced, read, stopped and started, the master    *)
(* reads the frames of every channel in order, without a gap or a           *)
(* repetition, within a session.  PCIVTransProofs!FramesInOrder says it of  *)
(* the batches of pciv_trans.cpp.                                           *)
THEOREM Order == Mod \in Nat \ {0} => (Spec => []InOrder)
<1> SUFFICES ASSUME Mod \in Nat \ {0} PROVE Spec => []InOrder
  OBVIOUS
<1>1. IInv /\ [Next]_vars => IInv'
  BY StepInv
<1>2. IInv => InOrder
  BY DEF IInv
<1> QED BY Initially, <1>1, <1>2, PTL DEF Spec
=============================================================================
