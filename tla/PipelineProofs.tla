--------------------------- MODULE PipelineProofs ---------------------------
(***************************************************************************)
(* What Pipeline promises, for every number of chains, failures and lives. *)
(* The inductive invariant says when in main() each object of a chain is   *)
(* made and destroyed, and that a chain of which no call has failed has    *)
(* exactly the objects it should have at that point.                       *)
(***************************************************************************)
EXTENDS Pipeline, SequenceTheorems, TLAPS

n == Len(Chains)

(* The objects that main() makes for a chain, by itself. *)
Own == ChainObjects \ {"recv"}

(* The step of Program in which main() makes object r of the i-th chain, and *)
(* the call of it; the step in which it destroys it, and the call.          *)
UpStep(r, i) ==
  CASE r \in {"vpss_grp", "vpss_chns", "vpss_run"} -> 1 + i
    [] r \in {"vo_dev", "vo_layer"} -> n + 2 * i
    [] r = "vo_chn" -> n + 2 * i + 1
    [] r \in {"venc_grp", "venc_chn", "venc_reg", "venc_cnt"} -> 1 + 3 * n + i
    [] r = "bind_vi"   -> 1 + 4 * n + i
    [] r = "bind_vo"   -> 1 + 5 * n + i
    [] r = "bind_venc" -> 1 + 6 * n + i
UpCall(r) ==
  CASE r \in {"vpss_chns", "vo_layer", "venc_chn"} -> 2
    [] r \in {"vpss_run", "venc_reg"} -> 3
    [] r = "venc_cnt" -> 4
    [] OTHER -> 1
DownStep(r, i) ==
  CASE r = "bind_venc" -> 4 + 8 * n - i
    [] r = "bind_vo"   -> 4 + 9 * n - i
    [] r = "bind_vi"   -> 4 + 10 * n - i
    [] r \in {"venc_grp", "venc_chn", "venc_reg", "venc_cnt"} -> 4 + 11 * n - i
    [] r \in {"vo_dev", "vo_layer", "vo_chn"} -> 4 + 12 * n - i
    [] r \in {"vpss_grp", "vpss_chns", "vpss_run"} -> 4 + 13 * n - i
DownCall(r) ==
  CASE r \in {"venc_chn", "venc_cnt", "vo_layer", "vpss_chns"} -> 2
    [] r \in {"venc_grp", "vo_dev", "vpss_grp"} -> 3
    [] OTHER -> 1

(* The steps between the start-up and the teardown, and those behind it.    *)
LoopStep == 2 + 7 * n
CloseStep == 3 + 7 * n
MppCloseStep == 4 + 13 * n
GoneStep == 5 + 13 * n

(* main() has made call c of step s. *)
Past(s, c) == at > s \/ (at = s /\ k > c)

Expected(r, i) == Past(UpStep(r, i), UpCall(r)) /\ ~Past(DownStep(r, i), DownCall(r))

(* What init_ of the three classes says of the i-th chain.                  *)
Classes == {"vpss", "vo", "venc"}
First(d) == CASE d = "vpss" -> "vpss_grp" [] d = "vo" -> "vo_dev" [] d = "venc" -> "venc_grp"
Open(d, i) == UpStep(First(d), i) < at /\ at <= DownStep(First(d), i)

(* Of a chain without failures the SDK has what main() has made.            *)
WholeChain(i) ==
  /\ \A r \in Own : <<r, Chains[i]>> \in have <=> Expected(r, i)
  /\ Recv(Chains[i]) \in have <=> trans = "on"
  /\ \A d \in Classes : <<d, Chains[i]>> \in inits <=> Open(d, i)
ChainsWhole ==
  /\ at = 1 => inits = {}
  /\ at > 1 => \A i \in 1 .. n : Chains[i] \notin faulted => WholeChain(i)

(* A failure of MPPSystem or of the transport is one of every chain.        *)
Shared ==
  /\ "mpp" \in faulted => ChainSet \subseteq faulted
  /\ trans = "dead" => ChainSet \subseteq faulted
  /\ trans # "off" => at \in {LoopStep, CloseStep}

Vb == <<"vb", "mpp">>
Sys == <<"sys", "mpp">>
Mem == <<"mem", "mpp">>

(* How far MPPSystem has come, when none of its calls has failed.           *)
SystemUp ==
  "mpp" \notin faulted =>
    /\ <<"mpp", "mpp">> \in inits <=> 1 < at /\ at < GoneStep
    /\ at = 1 => /\ k = 2 => have \subseteq {Vb}
                 /\ k = 3 => have = {}
                 /\ k = 4 => have = {Vb}
                 /\ k = 5 => have = {Vb, Sys}
    /\ 1 < at /\ at < MppCloseStep => {Vb, Sys, Mem} \subseteq have
    /\ at = MppCloseStep /\ k = 2 => have \subseteq {Vb}
    /\ at = GoneStep => have = {}

IInv == TypeOK /\ NeverRefused /\ Shared /\ SystemUp /\ ChainsWhole

-----------------------------------------------------------------------------
(* The program, step by step.                                               *)

StepOf(kind, obj, chain) == [kind |-> kind, obj |-> obj, chain |-> chain]
Kinds == {"mpp_init", "init", "start", "loop", "trans_close", "stop", "close",
          "mpp_close", "gone"}
Objs == {"mpp", "trans", "main", "vpss", "vo", "venc", "vo_chn", "bind_vi", "bind_vo",
         "bind_venc"}
Steps == [kind : Kinds, obj : Objs, chain : ChainSet \cup {"mpp"}]

LEMMA ChainsAre ==
  /\ n \in Nat \ {0} /\ DOMAIN Chains = 1 .. n
  /\ \A i \in 1 .. n : Chains[i] # "mpp" /\ Chains[i] \in ChainSet
  /\ \A c \in ChainSet : \E i \in 1 .. n : c = Chains[i]
  /\ \A i, j \in 1 .. n : Chains[i] = Chains[j] => i = j
BY PipelineAssumption DEF n, ChainSet

LEMMA ChainsCount == n \in Nat /\ n > 0
BY ChainsAre

(* The part g of a sequence of steps s that lies behind its first f steps. *)
Has(s, f, g) ==
  /\ f \in Nat /\ g \in Seq(Steps) /\ f + Len(g) <= Len(s)
  /\ \A m \in f + 1 .. f + Len(g) : s[m] = g[m - f]

(* A concatenation has its parts, and the parts of its parts. *)
LEMMA Cat ==
  ASSUME NEW s \in Seq(Steps), NEW g \in Seq(Steps)
  PROVE  /\ s \o g \in Seq(Steps) /\ Len(s \o g) = Len(s) + Len(g)
         /\ \A f, h : Has(s, f, h) => Has(s \o g, f, h)
         /\ Has(s \o g, 0, s) /\ Has(s \o g, Len(s), g)
         /\ Has(s, 0, s)
<1>1. /\ s \o g \in Seq(Steps) /\ Len(s \o g) = Len(s) + Len(g)
      /\ Len(s) \in Nat /\ Len(g) \in Nat
      /\ \A m \in 1 .. Len(s) + Len(g) :
           (s \o g)[m] = IF m <= Len(s) THEN s[m] ELSE g[m - Len(s)]
  OBVIOUS
<1> DEFINE u == s \o g
<1> HIDE DEF u
<1>2. /\ u \in Seq(Steps) /\ Len(u) = Len(s) + Len(g)
      /\ \A m \in 1 .. Len(s) + Len(g) :
           u[m] = IF m <= Len(s) THEN s[m] ELSE g[m - Len(s)]
  BY <1>1 DEF u
<1>3. ASSUME NEW f, NEW h, Has(s, f, h) PROVE Has(u, f, h)
  <2>1. Len(h) \in Nat
    BY <1>3 DEF Has
  <2> QED BY <1>1, <1>2, <1>3, <2>1 DEF Has
<1>4. Has(u, 0, s) /\ Has(u, Len(s), g) /\ Has(s, 0, s)
  BY <1>1, <1>2 DEF Has
<1> QED BY <1>1, <1>3, <1>4 DEF u

LEMMA HasTransitive ==
  ASSUME NEW s, NEW f, NEW g, NEW e, NEW h, Len(s) \in Nat, Has(s, f, g), Has(g, e, h)
  PROVE  Has(s, f + e, h)
<1>1. Len(h) \in Nat /\ Len(g) \in Nat /\ f \in Nat /\ e \in Nat
  BY DEF Has
<1>2. ASSUME NEW m \in f + e + 1 .. f + e + Len(h) PROVE s[m] = h[m - (f + e)]
  <2>1. /\ m \in f + 1 .. f + Len(g) /\ m - f \in e + 1 .. e + Len(h)
        /\ (m - f) - e = m - (f + e)
    BY <1>1 DEF Has
  <2>2. s[m] = g[m - f] /\ g[m - f] = h[(m - f) - e]
    BY <2>1 DEF Has
  <2> QED BY <2>1, <2>2
<1> QED BY <1>1, <1>2 DEF Has

LEMMA EachIs ==
  ASSUME NEW kind \in Kinds, NEW obj \in Objs
  PROVE  /\ Each(kind, obj) \in Seq(Steps) /\ Len(Each(kind, obj)) = n
         /\ \A i \in 1 .. n : Each(kind, obj)[i] = StepOf(kind, obj, Chains[i])
         /\ EachBack(kind, obj) \in Seq(Steps) /\ Len(EachBack(kind, obj)) = n
         /\ \A i \in 1 .. n : EachBack(kind, obj)[n + 1 - i] = StepOf(kind, obj, Chains[i])
         /\ Whole(kind, obj) \in Seq(Steps) /\ Len(Whole(kind, obj)) = 1
         /\ Whole(kind, obj)[1] = StepOf(kind, obj, "mpp")
<1> USE ChainsAre
<1>1. Each(kind, obj) \in [1 .. n -> Steps]
  BY DEF Each, Steps
<1>2. \A i \in 1 .. n : Each(kind, obj)[i] = StepOf(kind, obj, Chains[i])
  BY DEF Each, StepOf
<1>3. EachBack(kind, obj) = [i \in 1 .. n |-> Each(kind, obj)[n + 1 - i]]
  BY DEF EachBack, n
<1>4. EachBack(kind, obj) \in [1 .. n -> Steps]
  BY <1>1, <1>3
<1>5. \A i \in 1 .. n : EachBack(kind, obj)[n + 1 - i] = StepOf(kind, obj, Chains[i])
  BY <1>2, <1>3
<1>6. \A f \in [1 .. n -> Steps] : f \in Seq(Steps) /\ Len(f) = n
  OBVIOUS
<1>7. /\ Whole(kind, obj) \in Seq(Steps) /\ Len(Whole(kind, obj)) = 1
      /\ Whole(kind, obj)[1] = StepOf(kind, obj, "mpp")
  <2> DEFINE s == StepOf(kind, obj, "mpp")
  <2>1. s \in Steps
    BY DEF Steps, StepOf
  <2>2. Whole(kind, obj) = <<s>>
    BY DEF Whole, StepOf
  <2> HIDE DEF s
  <2>3. <<s>> \in Seq(Steps) /\ Len(<<s>>) = 1 /\ <<s>>[1] = s
    BY <2>1
  <2> QED BY <2>2, <2>3 DEF s
<1> QED BY <1>1, <1>2, <1>4, <1>5, <1>6, <1>7

LEMMA StartVoIs ==
  /\ StartVo \in Seq(Steps) /\ Len(StartVo) = 2 * n
  /\ \A m \in 1 .. 2 * n :
       StartVo[m] = IF m % 2 = 1 THEN StepOf("init", "vo", Chains[(m + 1) \div 2])
                                 ELSE StepOf("start", "vo_chn", Chains[m \div 2])
<1>0. "init" \in Kinds /\ "start" \in Kinds /\ "vo" \in Objs /\ "vo_chn" \in Objs
  BY DEF Kinds, Objs
<1> DEFINE A == Each("init", "vo")
           B == Each("start", "vo_chn")
<1>1. /\ A \in Seq(Steps) /\ Len(A) = n
      /\ \A i \in 1 .. n : A[i] = StepOf("init", "vo", Chains[i])
  BY <1>0, EachIs
<1>2. /\ B \in Seq(Steps) /\ Len(B) = n
      /\ \A i \in 1 .. n : B[i] = StepOf("start", "vo_chn", Chains[i])
  BY <1>0, EachIs
<1>3. StartVo = [i \in 1 .. 2 * n |-> IF i % 2 = 1 THEN A[(i + 1) \div 2] ELSE B[i \div 2]]
  BY DEF StartVo, StartChannel, n
<1> HIDE DEF A, B
<1>4. \A i \in 1 .. 2 * n :
        /\ i % 2 = 1 => (i + 1) \div 2 \in 1 .. n
        /\ i % 2 # 1 => i \div 2 \in 1 .. n
  BY ChainsAre
<1>5. StartVo \in [1 .. 2 * n -> Steps]
  BY <1>1, <1>2, <1>3, <1>4, ChainsAre
<1>6. StartVo \in Seq(Steps) /\ Len(StartVo) = 2 * n
  BY <1>5, ChainsAre
<1> QED BY <1>1, <1>2, <1>3, <1>4, <1>6

(* The parts of the start-up and of the teardown. *)
LEMMA StartupIs ==
  /\ Startup \in Seq(Steps) /\ Len(Startup) = 1 + 7 * n
  /\ Has(Startup, 0, Whole("mpp_init", "mpp"))
  /\ Has(Startup, 1, Each("init", "vpss"))
  /\ Has(Startup, 1 + n, StartVo)
  /\ Has(Startup, 1 + 3 * n, Each("init", "venc"))
  /\ Has(Startup, 1 + 4 * n, Each("start", "bind_vi"))
  /\ Has(Startup, 1 + 5 * n, Each("start", "bind_vo"))
  /\ Has(Startup, 1 + 6 * n, Each("start", "bind_venc"))
<1> DEFINE P0 == Whole("mpp_init", "mpp")
           P1 == P0 \o Each("init", "vpss")
           P2 == P1 \o StartVo
           P3 == P2 \o Each("init", "venc")
           P4 == P3 \o Each("start", "bind_vi")
           P5 == P4 \o Each("start", "bind_vo")
           P6 == P5 \o Each("start", "bind_venc")
<1>0. /\ Whole("mpp_init", "mpp") \in Seq(Steps) /\ Len(Whole("mpp_init", "mpp")) = 1
      /\ Each("init", "vpss") \in Seq(Steps) /\ Len(Each("init", "vpss")) = n
      /\ StartVo \in Seq(Steps) /\ Len(StartVo) = 2 * n
      /\ Each("init", "venc") \in Seq(Steps) /\ Len(Each("init", "venc")) = n
      /\ Each("start", "bind_vi") \in Seq(Steps) /\ Len(Each("start", "bind_vi")) = n
      /\ Each("start", "bind_vo") \in Seq(Steps) /\ Len(Each("start", "bind_vo")) = n
      /\ Each("start", "bind_venc") \in Seq(Steps) /\ Len(Each("start", "bind_venc")) = n
  BY EachIs, StartVoIs, ChainsAre DEF Kinds, Objs
<1>1. /\ P0 \in Seq(Steps) /\ Len(P0) = 1
      /\ Has(P0, 0, Whole("mpp_init", "mpp"))
  BY <1>0, Cat
<1>2. /\ P1 \in Seq(Steps) /\ Len(P1) = 1 + n
      /\ Has(P1, 0, Whole("mpp_init", "mpp"))
      /\ Has(P1, 1, Each("init", "vpss"))
  <2>1. P0 \in Seq(Steps) /\ Each("init", "vpss") \in Seq(Steps)
    BY <1>0, <1>1
  <2> HIDE DEF P0
  <2>2. /\ P1 \in Seq(Steps) /\ Len(P1) = Len(P0) + Len(Each("init", "vpss"))
        /\ \A f, h : Has(P0, f, h) => Has(P1, f, h)
        /\ Has(P1, Len(P0), Each("init", "vpss"))
    BY <2>1, Cat, Zenon
  <2> HIDE DEF P1
  <2>3. Len(P0) = 1 /\ Len(Each("init", "vpss")) = n
    BY <1>0, <1>1, Zenon
  <2>4. Len(P1) = Len(P0) + Len(Each("init", "vpss"))
    BY <2>2, Zenon
  <2>5. Len(P1) = 1 + n
    BY <2>3, <2>4, ChainsCount
  <2> QED BY <1>1, <2>2, <2>5, Zenon
<1>3. /\ P2 \in Seq(Steps) /\ Len(P2) = 1 + 3 * n
      /\ Has(P2, 0, Whole("mpp_init", "mpp"))
      /\ Has(P2, 1, Each("init", "vpss"))
      /\ Has(P2, 1 + n, StartVo)
  <2>1. P1 \in Seq(Steps) /\ StartVo \in Seq(Steps)
    BY <1>0, <1>2
  <2> HIDE DEF P1
  <2>2. /\ P2 \in Seq(Steps) /\ Len(P2) = Len(P1) + Len(StartVo)
        /\ \A f, h : Has(P1, f, h) => Has(P2, f, h)
        /\ Has(P2, Len(P1), StartVo)
    BY <2>1, Cat, Zenon
  <2> HIDE DEF P2
  <2>3. Len(P1) = 1 + n /\ Len(StartVo) = 2 * n
    BY <1>0, <1>2, Zenon
  <2>4. Len(P2) = Len(P1) + Len(StartVo)
    BY <2>2, Zenon
  <2>5. Len(P2) = 1 + 3 * n
    BY <2>3, <2>4, ChainsCount
  <2> QED BY <1>2, <2>2, <2>5, Zenon
<1>4. /\ P3 \in Seq(Steps) /\ Len(P3) = 1 + 4 * n
      /\ Has(P3, 0, Whole("mpp_init", "mpp"))
      /\ Has(P3, 1, Each("init", "vpss"))
      /\ Has(P3, 1 + n, StartVo)
      /\ Has(P3, 1 + 3 * n, Each("init", "venc"))
  <2>1. P2 \in Seq(Steps) /\ Each("init", "venc") \in Seq(Steps)
    BY <1>0, <1>3
  <2> HIDE DEF P2
  <2>2. /\ P3 \in Seq(Steps) /\ Len(P3) = Len(P2) + Len(Each("init", "venc"))
        /\ \A f, h : Has(P2, f, h) => Has(P3, f, h)
        /\ Has(P3, Len(P2), Each("init", "venc"))
    BY <2>1, Cat, Zenon
  <2> HIDE DEF P3
  <2>3. Len(P2) = 1 + 3 * n /\ Len(Each("init", "venc")) = n
    BY <1>0, <1>3, Zenon
  <2>4. Len(P3) = Len(P2) + Len(Each("init", "venc"))
    BY <2>2, Zenon
  <2>5. Len(P3) = 1 + 4 * n
    BY <2>3, <2>4, ChainsCount
  <2> QED BY <1>3, <2>2, <2>5, Zenon
<1>5. /\ P4 \in Seq(Steps) /\ Len(P4) = 1 + 5 * n
      /\ Has(P4, 0, Whole("mpp_init", "mpp"))
      /\ Has(P4, 1, Each("init", "vpss"))
      /\ Has(P4, 1 + n, StartVo)
      /\ Has(P4, 1 + 3 * n, Each("init", "venc"))
      /\ Has(P4, 1 + 4 * n, Each("start", "bind_vi"))
  <2>1. P3 \in Seq(Steps) /\ Each("start", "bind_vi") \in Seq(Steps)
    BY <1>0, <1>4
  <2> HIDE DEF P3
  <2>2. /\ P4 \in Seq(Steps) /\ Len(P4) = Len(P3) + Len(Each("start", "bind_vi"))
        /\ \A f, h : Has(P3, f, h) => Has(P4, f, h)
        /\ Has(P4, Len(P3), Each("start", "bind_vi"))
    BY <2>1, Cat, Zenon
  <2> HIDE DEF P4
  <2>3. Len(P3) = 1 + 4 * n /\ Len(Each("start", "bind_vi")) = n
    BY <1>0, <1>4, Zenon
  <2>4. Len(P4) = Len(P3) + Len(Each("start", "bind_vi"))
    BY <2>2, Zenon
  <2>5. Len(P4) = 1 + 5 * n
    BY <2>3, <2>4, ChainsCount
  <2> QED BY <1>4, <2>2, <2>5, Zenon
<1>6. /\ P5 \in Seq(Steps) /\ Len(P5) = 1 + 6 * n
      /\ Has(P5, 0, Whole("mpp_init", "mpp"))
      /\ Has(P5, 1, Each("init", "vpss"))
      /\ Has(P5, 1 + n, StartVo)
      /\ Has(P5, 1 + 3 * n, Each("init", "venc"))
      /\ Has(P5, 1 + 4 * n, Each("start", "bind_vi"))
      /\ Has(P5, 1 + 5 * n, Each("start", "bind_vo"))
  <2>1. P4 \in Seq(Steps) /\ Each("start", "bind_vo") \in Seq(Steps)
    BY <1>0, <1>5
  <2> HIDE DEF P4
  <2>2. /\ P5 \in Seq(Steps) /\ Len(P5) = Len(P4) + Len(Each("start", "bind_vo"))
        /\ \A f, h : Has(P4, f, h) => Has(P5, f, h)
        /\ Has(P5, Len(P4), Each("start", "bind_vo"))
    BY <2>1, Cat, Zenon
  <2> HIDE DEF P5
  <2>3. Len(P4) = 1 + 5 * n /\ Len(Each("start", "bind_vo")) = n
    BY <1>0, <1>5, Zenon
  <2>4. Len(P5) = Len(P4) + Len(Each("start", "bind_vo"))
    BY <2>2, Zenon
  <2>5. Len(P5) = 1 + 6 * n
    BY <2>3, <2>4, ChainsCount
  <2> QED BY <1>5, <2>2, <2>5, Zenon
<1>7. /\ P6 \in Seq(Steps) /\ Len(P6) = 1 + 7 * n
      /\ Has(P6, 0, Whole("mpp_init", "mpp"))
      /\ Has(P6, 1, Each("init", "vpss"))
      /\ Has(P6, 1 + n, StartVo)
      /\ Has(P6, 1 + 3 * n, Each("init", "venc"))
      /\ Has(P6, 1 + 4 * n, Each("start", "bind_vi"))
      /\ Has(P6, 1 + 5 * n, Each("start", "bind_vo"))
      /\ Has(P6, 1 + 6 * n, Each("start", "bind_venc"))
  <2>1. P5 \in Seq(Steps) /\ Each("start", "bind_venc") \in Seq(Steps)
    BY <1>0, <1>6
  <2> HIDE DEF P5
  <2>2. /\ P6 \in Seq(Steps) /\ Len(P6) = Len(P5) + Len(Each("start", "bind_venc"))
        /\ \A f, h : Has(P5, f, h) => Has(P6, f, h)
        /\ Has(P6, Len(P5), Each("start", "bind_venc"))
    BY <2>1, Cat, Zenon
  <2> HIDE DEF P6
  <2>3. Len(P5) = 1 + 6 * n /\ Len(Each("start", "bind_venc")) = n
    BY <1>0, <1>6, Zenon
  <2>4. Len(P6) = Len(P5) + Len(Each("start", "bind_venc"))
    BY <2>2, Zenon
  <2>5. Len(P6) = 1 + 7 * n
    BY <2>3, <2>4, ChainsCount
  <2> QED BY <1>6, <2>2, <2>5, Zenon
<1> QED BY <1>7 DEF Startup

LEMMA TeardownIs ==
  /\ Teardown \in Seq(Steps) /\ Len(Teardown) = 2 + 6 * n
  /\ Has(Teardown, 0, Whole("trans_close", "trans"))
  /\ Has(Teardown, 1, EachBack("stop", "bind_venc"))
  /\ Has(Teardown, 1 + n, EachBack("stop", "bind_vo"))
  /\ Has(Teardown, 1 + 2 * n, EachBack("stop", "bind_vi"))
  /\ Has(Teardown, 1 + 3 * n, EachBack("close", "venc"))
  /\ Has(Teardown, 1 + 4 * n, EachBack("close", "vo"))
  /\ Has(Teardown, 1 + 5 * n, EachBack("close", "vpss"))
  /\ Has(Teardown, 1 + 6 * n, Whole("mpp_close", "mpp"))
<1> DEFINE Q0 == Whole("trans_close", "trans")
           Q1 == Q0 \o EachBack("stop", "bind_venc")
           Q2 == Q1 \o EachBack("stop", "bind_vo")
           Q3 == Q2 \o EachBack("stop", "bind_vi")
           Q4 == Q3 \o EachBack("close", "venc")
           Q5 == Q4 \o EachBack("close", "vo")
           Q6 == Q5 \o EachBack("close", "vpss")
           Q7 == Q6 \o Whole("mpp_close", "mpp")
<1>0. /\ Whole("trans_close", "trans") \in Seq(Steps) /\ Len(Whole("trans_close", "trans")) = 1
      /\ EachBack("stop", "bind_venc") \in Seq(Steps) /\ Len(EachBack("stop", "bind_venc")) = n
      /\ EachBack("stop", "bind_vo") \in Seq(Steps) /\ Len(EachBack("stop", "bind_vo")) = n
      /\ EachBack("stop", "bind_vi") \in Seq(Steps) /\ Len(EachBack("stop", "bind_vi")) = n
      /\ EachBack("close", "venc") \in Seq(Steps) /\ Len(EachBack("close", "venc")) = n
      /\ EachBack("close", "vo") \in Seq(Steps) /\ Len(EachBack("close", "vo")) = n
      /\ EachBack("close", "vpss") \in Seq(Steps) /\ Len(EachBack("close", "vpss")) = n
      /\ Whole("mpp_close", "mpp") \in Seq(Steps) /\ Len(Whole("mpp_close", "mpp")) = 1
  BY EachIs, StartVoIs, ChainsAre DEF Kinds, Objs
<1>1. /\ Q0 \in Seq(Steps) /\ Len(Q0) = 1
      /\ Has(Q0, 0, Whole("trans_close", "trans"))
  BY <1>0, Cat
<1>2. /\ Q1 \in Seq(Steps) /\ Len(Q1) = 1 + n
      /\ Has(Q1, 0, Whole("trans_close", "trans"))
      /\ Has(Q1, 1, EachBack("stop", "bind_venc"))
  <2>1. Q0 \in Seq(Steps) /\ EachBack("stop", "bind_venc") \in Seq(Steps)
    BY <1>0, <1>1
  <2> HIDE DEF Q0
  <2>2. /\ Q1 \in Seq(Steps) /\ Len(Q1) = Len(Q0) + Len(EachBack("stop", "bind_venc"))
        /\ \A f, h : Has(Q0, f, h) => Has(Q1, f, h)
        /\ Has(Q1, Len(Q0), EachBack("stop", "bind_venc"))
    BY <2>1, Cat, Zenon
  <2> HIDE DEF Q1
  <2>3. Len(Q0) = 1 /\ Len(EachBack("stop", "bind_venc")) = n
    BY <1>0, <1>1, Zenon
  <2>4. Len(Q1) = Len(Q0) + Len(EachBack("stop", "bind_venc"))
    BY <2>2, Zenon
  <2>5. Len(Q1) = 1 + n
    BY <2>3, <2>4, ChainsCount
  <2> QED BY <1>1, <2>2, <2>5, Zenon
<1>3. /\ Q2 \in Seq(Steps) /\ Len(Q2) = 1 + 2 * n
      /\ Has(Q2, 0, Whole("trans_close", "trans"))
      /\ Has(Q2, 1, EachBack("stop", "bind_venc"))
      /\ Has(Q2, 1 + n, EachBack("stop", "bind_vo"))
  <2>1. Q1 \in Seq(Steps) /\ EachBack("stop", "bind_vo") \in Seq(Steps)
    BY <1>0, <1>2
  <2> HIDE DEF Q1
  <2>2. /\ Q2 \in Seq(Steps) /\ Len(Q2) = Len(Q1) + Len(EachBack("stop", "bind_vo"))
        /\ \A f, h : Has(Q1, f, h) => Has(Q2, f, h)
        /\ Has(Q2, Len(Q1), EachBack("stop", "bind_vo"))
    BY <2>1, Cat, Zenon
  <2> HIDE DEF Q2
  <2>3. Len(Q1) = 1 + n /\ Len(EachBack("stop", "bind_vo")) = n
    BY <1>0, <1>2, Zenon
  <2>4. Len(Q2) = Len(Q1) + Len(EachBack("stop", "bind_vo"))
    BY <2>2, Zenon
  <2>5. Len(Q2) = 1 + 2 * n
    BY <2>3, <2>4, ChainsCount
  <2> QED BY <1>2, <2>2, <2>5, Zenon
<1>4. /\ Q3 \in Seq(Steps) /\ Len(Q3) = 1 + 3 * n
      /\ Has(Q3, 0, Whole("trans_close", "trans"))
      /\ Has(Q3, 1, EachBack("stop", "bind_venc"))
      /\ Has(Q3, 1 + n, EachBack("stop", "bind_vo"))
      /\ Has(Q3, 1 + 2 * n, EachBack("stop", "bind_vi"))
  <2>1. Q2 \in Seq(Steps) /\ EachBack("stop", "bind_vi") \in Seq(Steps)
    BY <1>0, <1>3
  <2> HIDE DEF Q2
  <2>2. /\ Q3 \in Seq(Steps) /\ Len(Q3) = Len(Q2) + Len(EachBack("stop", "bind_vi"))
        /\ \A f, h : Has(Q2, f, h) => Has(Q3, f, h)
        /\ Has(Q3, Len(Q2), EachBack("stop", "bind_vi"))
    BY <2>1, Cat, Zenon
  <2> HIDE DEF Q3
  <2>3. Len(Q2) = 1 + 2 * n /\ Len(EachBack("stop", "bind_vi")) = n
    BY <1>0, <1>3, Zenon
  <2>4. Len(Q3) = Len(Q2) + Len(EachBack("stop", "bind_vi"))
    BY <2>2, Zenon
  <2>5. Len(Q3) = 1 + 3 * n
    BY <2>3, <2>4, ChainsCount
  <2> QED BY <1>3, <2>2, <2>5, Zenon
<1>5. /\ Q4 \in Seq(Steps) /\ Len(Q4) = 1 + 4 * n
      /\ Has(Q4, 0, Whole("trans_close", "trans"))
      /\ Has(Q4, 1, EachBack("stop", "bind_venc"))
      /\ Has(Q4, 1 + n, EachBack("stop", "bind_vo"))
      /\ Has(Q4, 1 + 2 * n, EachBack("stop", "bind_vi"))
      /\ Has(Q4, 1 + 3 * n, EachBack("close", "venc"))
  <2>1. Q3 \in Seq(Steps) /\ EachBack("close", "venc") \in Seq(Steps)
    BY <1>0, <1>4
  <2> HIDE DEF Q3
  <2>2. /\ Q4 \in Seq(Steps) /\ Len(Q4) = Len(Q3) + Len(EachBack("close", "venc"))
        /\ \A f, h : Has(Q3, f, h) => Has(Q4, f, h)
        /\ Has(Q4, Len(Q3), EachBack("close", "venc"))
    BY <2>1, Cat, Zenon
  <2> HIDE DEF Q4
  <2>3. Len(Q3) = 1 + 3 * n /\ Len(EachBack("close", "venc")) = n
    BY <1>0, <1>4, Zenon
  <2>4. Len(Q4) = Len(Q3) + Len(EachBack("close", "venc"))
    BY <2>2, Zenon
  <2>5. Len(Q4) = 1 + 4 * n
    BY <2>3, <2>4, ChainsCount
  <2> QED BY <1>4, <2>2, <2>5, Zenon
<1>6. /\ Q5 \in Seq(Steps) /\ Len(Q5) = 1 + 5 * n
      /\ Has(Q5, 0, Whole("trans_close", "trans"))
      /\ Has(Q5, 1, EachBack("stop", "bind_venc"))
      /\ Has(Q5, 1 + n, EachBack("stop", "bind_vo"))
      /\ Has(Q5, 1 + 2 * n, EachBack("stop", "bind_vi"))
      /\ Has(Q5, 1 + 3 * n, EachBack("close", "venc"))
      /\ Has(Q5, 1 + 4 * n, EachBack("close", "vo"))
  <2>1. Q4 \in Seq(Steps) /\ EachBack("close", "vo") \in Seq(Steps)
    BY <1>0, <1>5
  <2> HIDE DEF Q4
  <2>2. /\ Q5 \in Seq(Steps) /\ Len(Q5) = Len(Q4) + Len(EachBack("close", "vo"))
        /\ \A f, h : Has(Q4, f, h) => Has(Q5, f, h)
        /\ Has(Q5, Len(Q4), EachBack("close", "vo"))
    BY <2>1, Cat, Zenon
  <2> HIDE DEF Q5
  <2>3. Len(Q4) = 1 + 4 * n /\ Len(EachBack("close", "vo")) = n
    BY <1>0, <1>5, Zenon
  <2>4. Len(Q5) = Len(Q4) + Len(EachBack("close", "vo"))
    BY <2>2, Zenon
  <2>5. Len(Q5) = 1 + 5 * n
    BY <2>3, <2>4, ChainsCount
  <2> QED BY <1>5, <2>2, <2>5, Zenon
<1>7. /\ Q6 \in Seq(Steps) /\ Len(Q6) = 1 + 6 * n
      /\ Has(Q6, 0, Whole("trans_close", "trans"))
      /\ Has(Q6, 1, EachBack("stop", "bind_venc"))
      /\ Has(Q6, 1 + n, EachBack("stop", "bind_vo"))
      /\ Has(Q6, 1 + 2 * n, EachBack("stop", "bind_vi"))
      /\ Has(Q6, 1 + 3 * n, EachBack("close", "venc"))
      /\ Has(Q6, 1 + 4 * n, EachBack("close", "vo"))
      /\ Has(Q6, 1 + 5 * n, EachBack("close", "vpss"))
  <2>1. Q5 \in Seq(Steps) /\ EachBack("close", "vpss") \in Seq(Steps)
    BY <1>0, <1>6
  <2> HIDE DEF Q5
  <2>2. /\ Q6 \in Seq(Steps) /\ Len(Q6) = Len(Q5) + Len(EachBack("close", "vpss"))
        /\ \A f, h : Has(Q5, f, h) => Has(Q6, f, h)
        /\ Has(Q6, Len(Q5), EachBack("close", "vpss"))
    BY <2>1, Cat, Zenon
  <2> HIDE DEF Q6
  <2>3. Len(Q5) = 1 + 5 * n /\ Len(EachBack("close", "vpss")) = n
    BY <1>0, <1>6, Zenon
  <2>4. Len(Q6) = Len(Q5) + Len(EachBack("close", "vpss"))
    BY <2>2, Zenon
  <2>5. Len(Q6) = 1 + 6 * n
    BY <2>3, <2>4, ChainsCount
  <2> QED BY <1>6, <2>2, <2>5, Zenon
<1>8. /\ Q7 \in Seq(Steps) /\ Len(Q7) = 2 + 6 * n
      /\ Has(Q7, 0, Whole("trans_close", "trans"))
      /\ Has(Q7, 1, EachBack("stop", "bind_venc"))
      /\ Has(Q7, 1 + n, EachBack("stop", "bind_vo"))
      /\ Has(Q7, 1 + 2 * n, EachBack("stop", "bind_vi"))
      /\ Has(Q7, 1 + 3 * n, EachBack("close", "venc"))
      /\ Has(Q7, 1 + 4 * n, EachBack("close", "vo"))
      /\ Has(Q7, 1 + 5 * n, EachBack("close", "vpss"))
      /\ Has(Q7, 1 + 6 * n, Whole("mpp_close", "mpp"))
  <2>1. Q6 \in Seq(Steps) /\ Whole("mpp_close", "mpp") \in Seq(Steps)
    BY <1>0, <1>7
  <2> HIDE DEF Q6
  <2>2. /\ Q7 \in Seq(Steps) /\ Len(Q7) = Len(Q6) + Len(Whole("mpp_close", "mpp"))
        /\ \A f, h : Has(Q6, f, h) => Has(Q7, f, h)
        /\ Has(Q7, Len(Q6), Whole("mpp_close", "mpp"))
    BY <2>1, Cat, Zenon
  <2> HIDE DEF Q7
  <2>3. Len(Q6) = 1 + 6 * n /\ Len(Whole("mpp_close", "mpp")) = 1
    BY <1>0, <1>7, Zenon
  <2>4. Len(Q7) = Len(Q6) + Len(Whole("mpp_close", "mpp"))
    BY <2>2, Zenon
  <2>5. (1 + 6 * n) + 1 = 2 + 6 * n
    BY ChainsCount
  <2>6. Len(Q7) = 2 + 6 * n
    BY <2>3, <2>4, <2>5, Zenon
  <2> QED BY <1>7, <2>2, <2>3, <2>6, Zenon
<1> QED BY <1>8 DEF Teardown

(* What main() does in which step. *)
Block(f, kind, obj) ==
  \A m \in f + 1 .. f + n : Program[m] = StepOf(kind, obj, Chains[m - f])
BackBlock(f, kind, obj) ==
  \A m \in f + 1 .. f + n : Program[m] = StepOf(kind, obj, Chains[f + n + 1 - m])

LEMMA BlockIs ==
  ASSUME NEW f, NEW kind \in Kinds, NEW obj \in Objs
  PROVE  /\ Has(Program, f, Each(kind, obj)) => Block(f, kind, obj)
         /\ Has(Program, f, EachBack(kind, obj)) => BackBlock(f, kind, obj)
         /\ Has(Program, f, Whole(kind, obj)) =>
              Program[f + 1] = StepOf(kind, obj, "mpp")
<1>1. ASSUME Has(Program, f, Each(kind, obj)) PROVE Block(f, kind, obj)
  <2>1. ASSUME NEW m \in f + 1 .. f + n PROVE m - f \in 1 .. n
    BY <1>1, ChainsCount DEF Has
  <2> QED BY <1>1, <2>1, EachIs DEF Has, Block
<1>2. ASSUME Has(Program, f, EachBack(kind, obj)) PROVE BackBlock(f, kind, obj)
  <2>1. ASSUME NEW m \in f + 1 .. f + n
        PROVE  f + n + 1 - m \in 1 .. n /\ n + 1 - (f + n + 1 - m) = m - f
    BY <1>2, ChainsCount DEF Has
  <2> QED BY <1>2, <2>1, EachIs DEF Has, BackBlock
<1>3. ASSUME Has(Program, f, Whole(kind, obj)) PROVE Program[f + 1] = StepOf(kind, obj, "mpp")
  <2>1. f \in Nat /\ Len(Whole(kind, obj)) = 1 /\ (f + 1) - f = 1
    BY <1>3, EachIs DEF Has
  <2>2. Program[f + 1] = Whole(kind, obj)[(f + 1) - f]
    BY <1>3, <2>1 DEF Has
  <2> QED BY <2>1, <2>2, EachIs
<1> QED BY <1>1, <1>2, <1>3

LEMMA ProgramHas ==
  /\ Program \in Seq(Steps) /\ Len(Program) = 5 + 13 * n
  /\ Has(Program, 0, Startup) /\ Has(Program, 1 + 7 * n, Whole("loop", "main"))
  /\ Has(Program, 2 + 7 * n, Teardown) /\ Has(Program, 4 + 13 * n, Whole("gone", "main"))
<1> DEFINE L == Whole("loop", "main")
           G == Whole("gone", "main")
           P1 == Startup \o L
           P2 == P1 \o Teardown
           P3 == P2 \o G
<1>0. L \in Seq(Steps) /\ Len(L) = 1 /\ G \in Seq(Steps) /\ Len(G) = 1
  BY EachIs DEF Kinds, Objs
<1>1. Startup \in Seq(Steps) /\ Teardown \in Seq(Steps)
  BY StartupIs, TeardownIs, Zenon
<1>2. Len(Startup) = 1 + 7 * n /\ Len(Teardown) = 2 + 6 * n
  BY StartupIs, TeardownIs, Zenon
<1> HIDE DEF L, G
<1>3. /\ P1 \in Seq(Steps) /\ Len(P1) = Len(Startup) + Len(L)
      /\ Has(P1, 0, Startup) /\ Has(P1, Len(Startup), L)
  BY <1>0, <1>1, Cat, Zenon
<1> HIDE DEF P1
<1>4. /\ P2 \in Seq(Steps) /\ Len(P2) = Len(P1) + Len(Teardown)
      /\ Has(P2, 0, Startup) /\ Has(P2, Len(Startup), L) /\ Has(P2, Len(P1), Teardown)
  BY <1>1, <1>3, Cat, Zenon
<1> HIDE DEF P2
<1>5. /\ P3 \in Seq(Steps) /\ Len(P3) = Len(P2) + Len(G)
      /\ Has(P3, 0, Startup) /\ Has(P3, Len(Startup), L) /\ Has(P3, Len(P1), Teardown)
      /\ Has(P3, Len(P2), G)
  BY <1>0, <1>4, Cat, Zenon
<1>6. Program = P3
  BY DEF Program, P1, P2, L, G
<1> HIDE DEF P3
<1>7. (1 + 7 * n) + 1 = 2 + 7 * n /\ (2 + 7 * n) + (2 + 6 * n) = 4 + 13 * n
        /\ (4 + 13 * n) + 1 = 5 + 13 * n
  BY ChainsCount
<1>8. Len(P1) = 2 + 7 * n
  BY <1>0, <1>2, <1>3, <1>7, Zenon
<1>9. Len(P2) = 4 + 13 * n
  BY <1>2, <1>4, <1>7, <1>8, Zenon
<1>10. Len(P3) = 5 + 13 * n
  BY <1>0, <1>5, <1>7, <1>9, Zenon
<1> QED BY <1>2, <1>5, <1>6, <1>8, <1>9, <1>10, Zenon DEF L, G

LEMMA ProgramIs ==
  /\ Len(Program) = GoneStep
  /\ Program[1] = StepOf("mpp_init", "mpp", "mpp")
  /\ Block(1, "init", "vpss")
  /\ \A m \in n + 2 .. 3 * n + 1 :
       Program[m] = IF (m - n) % 2 = 0
                    THEN StepOf("init", "vo", Chains[(m - n) \div 2])
                    ELSE StepOf("start", "vo_chn", Chains[(m - n) \div 2])
  /\ Block(1 + 3 * n, "init", "venc")
  /\ Block(1 + 4 * n, "start", "bind_vi")
  /\ Block(1 + 5 * n, "start", "bind_vo")
  /\ Block(1 + 6 * n, "start", "bind_venc")
  /\ Program[LoopStep] = StepOf("loop", "main", "mpp")
  /\ Program[CloseStep] = StepOf("trans_close", "trans", "mpp")
  /\ BackBlock(3 + 7 * n, "stop", "bind_venc")
  /\ BackBlock(3 + 8 * n, "stop", "bind_vo")
  /\ BackBlock(3 + 9 * n, "stop", "bind_vi")
  /\ BackBlock(3 + 10 * n, "close", "venc")
  /\ BackBlock(3 + 11 * n, "close", "vo")
  /\ BackBlock(3 + 12 * n, "close", "vpss")
  /\ Program[MppCloseStep] = StepOf("mpp_close", "mpp", "mpp")
  /\ Program[GoneStep] = StepOf("gone", "main", "mpp")
<1>1. /\ "mpp_init" \in Kinds /\ "init" \in Kinds /\ "start" \in Kinds /\ "loop" \in Kinds
      /\ "trans_close" \in Kinds /\ "stop" \in Kinds /\ "close" \in Kinds
      /\ "mpp_close" \in Kinds /\ "gone" \in Kinds
  BY DEF Kinds
<1>2. /\ "mpp" \in Objs /\ "trans" \in Objs /\ "main" \in Objs /\ "vpss" \in Objs
      /\ "vo" \in Objs /\ "venc" \in Objs /\ "bind_vi" \in Objs /\ "bind_vo" \in Objs
      /\ "bind_venc" \in Objs
  BY DEF Objs
<1>3. /\ Len(Program) \in Nat
      /\ Has(Program, 0, Startup) /\ Has(Program, 1 + 7 * n, Whole("loop", "main"))
      /\ Has(Program, 2 + 7 * n, Teardown) /\ Has(Program, 4 + 13 * n, Whole("gone", "main"))
  <2>1. \A s \in Seq(Steps) : Len(s) \in Nat
    OBVIOUS
  <2> QED BY <2>1, ProgramHas, Zenon
<1>4. ASSUME NEW e, NEW h, Has(Startup, e, h) PROVE Has(Program, e, h)
  <2>1. Has(Program, 0 + e, h)
    BY <1>3, <1>4, HasTransitive, Zenon
  <2>2. 0 + e = e
    BY <1>4 DEF Has
  <2> QED BY <2>1, <2>2, Zenon
<1>5. ASSUME NEW e, NEW h, Has(Teardown, e, h) PROVE Has(Program, (2 + 7 * n) + e, h)
  BY <1>3, <1>5, HasTransitive, Zenon
<1>6. /\ 0 + 1 = 1 /\ (1 + 7 * n) + 1 = LoopStep /\ ((2 + 7 * n) + 0) + 1 = CloseStep
      /\ ((2 + 7 * n) + (1 + 6 * n)) + 1 = MppCloseStep /\ (4 + 13 * n) + 1 = GoneStep
      /\ 5 + 13 * n = GoneStep
  BY ChainsCount DEF LoopStep, CloseStep, MppCloseStep, GoneStep
<1>7. /\ Len(Program) = GoneStep
      /\ Program[LoopStep] = StepOf("loop", "main", "mpp")
      /\ Program[GoneStep] = StepOf("gone", "main", "mpp")
  BY <1>1, <1>2, <1>3, <1>6, ProgramHas, BlockIs, Zenon
<1>8. Program[1] = StepOf("mpp_init", "mpp", "mpp")
  BY <1>1, <1>2, <1>4, <1>6, StartupIs, BlockIs, Zenon
<1>9. /\ Program[CloseStep] = StepOf("trans_close", "trans", "mpp")
      /\ Program[MppCloseStep] = StepOf("mpp_close", "mpp", "mpp")
  BY <1>1, <1>2, <1>5, <1>6, TeardownIs, BlockIs, Zenon
<1>10. Block(1, "init", "vpss")
  BY <1>1, <1>2, <1>4, StartupIs, BlockIs, Zenon
<1>11. Block(1 + 3 * n, "init", "venc")
  BY <1>1, <1>2, <1>4, StartupIs, BlockIs, Zenon
<1>12. Block(1 + 4 * n, "start", "bind_vi")
  BY <1>1, <1>2, <1>4, StartupIs, BlockIs, Zenon
<1>13. Block(1 + 5 * n, "start", "bind_vo")
  BY <1>1, <1>2, <1>4, StartupIs, BlockIs, Zenon
<1>14. Block(1 + 6 * n, "start", "bind_venc")
  BY <1>1, <1>2, <1>4, StartupIs, BlockIs, Zenon
<1>15. BackBlock(3 + 7 * n, "stop", "bind_venc")
  <2>1. (2 + 7 * n) + (1) = 3 + 7 * n
    BY ChainsCount
  <2> QED BY <1>1, <1>2, <1>5, <2>1, TeardownIs, BlockIs, Zenon
<1>16. BackBlock(3 + 8 * n, "stop", "bind_vo")
  <2>1. (2 + 7 * n) + (1 + n) = 3 + 8 * n
    BY ChainsCount
  <2> QED BY <1>1, <1>2, <1>5, <2>1, TeardownIs, BlockIs, Zenon
<1>17. BackBlock(3 + 9 * n, "stop", "bind_vi")
  <2>1. (2 + 7 * n) + (1 + 2 * n) = 3 + 9 * n
    BY ChainsCount
  <2> QED BY <1>1, <1>2, <1>5, <2>1, TeardownIs, BlockIs, Zenon
<1>18. BackBlock(3 + 10 * n, "close", "venc")
  <2>1. (2 + 7 * n) + (1 + 3 * n) = 3 + 10 * n
    BY ChainsCount
  <2> QED BY <1>1, <1>2, <1>5, <2>1, TeardownIs, BlockIs, Zenon
<1>19. BackBlock(3 + 11 * n, "close", "vo")
  <2>1. (2 + 7 * n) + (1 + 4 * n) = 3 + 11 * n
    BY ChainsCount
  <2> QED BY <1>1, <1>2, <1>5, <2>1, TeardownIs, BlockIs, Zenon
<1>20. BackBlock(3 + 12 * n, "close", "vpss")
  <2>1. (2 + 7 * n) + (1 + 5 * n) = 3 + 12 * n
    BY ChainsCount
  <2> QED BY <1>1, <1>2, <1>5, <2>1, TeardownIs, BlockIs, Zenon
<1>21. ASSUME NEW m \in n + 2 .. 3 * n + 1
      PROVE  Program[m] = IF (m - n) % 2 = 0
                          THEN StepOf("init", "vo", Chains[(m - n) \div 2])
                          ELSE StepOf("start", "vo_chn", Chains[(m - n) \div 2])
  <2>1. Has(Program, 1 + n, StartVo)
    BY <1>4, StartupIs, Zenon
  <2>2. /\ m - (1 + n) \in 1 .. 2 * n /\ m \in (1 + n) + 1 .. (1 + n) + 2 * n
        /\ (m - (1 + n)) % 2 = 1 <=> (m - n) % 2 = 0
        /\ (m - n) % 2 = 0 => ((m - (1 + n)) + 1) \div 2 = (m - n) \div 2
        /\ (m - n) % 2 # 0 => (m - (1 + n)) \div 2 = (m - n) \div 2
    BY ChainsCount
  <2>3. Program[m] = StartVo[m - (1 + n)]
    BY <2>1, <2>2, StartVoIs DEF Has
  <2> QED BY <2>2, <2>3, StartVoIs
<1> QED
  BY <1>7, <1>8, <1>9, <1>10, <1>11, <1>12, <1>13, <1>14, <1>15, <1>16, <1>17, <1>18, <1>19, <1>20, <1>21

(* The same, by chain, and that there are no other steps. *)
LEMMA UpSteps ==
  ASSUME NEW i \in 1 .. n
  PROVE  /\ Program[1 + i] = StepOf("init", "vpss", Chains[i])
         /\ Program[n + 2 * i] = StepOf("init", "vo", Chains[i])
         /\ Program[n + 2 * i + 1] = StepOf("start", "vo_chn", Chains[i])
         /\ Program[1 + 3 * n + i] = StepOf("init", "venc", Chains[i])
         /\ Program[1 + 4 * n + i] = StepOf("start", "bind_vi", Chains[i])
         /\ Program[1 + 5 * n + i] = StepOf("start", "bind_vo", Chains[i])
         /\ Program[1 + 6 * n + i] = StepOf("start", "bind_venc", Chains[i])
<1>1. 1 + i \in 1 + 1 .. 1 + n /\ (1 + i) - 1 = i
  BY ChainsCount
<1>2. \A m \in Nat : m + i \in m + 1 .. m + n /\ (m + i) - m = i
  BY ChainsCount
<1>3. 1 + 3 * n \in Nat /\ 1 + 4 * n \in Nat /\ 1 + 5 * n \in Nat /\ 1 + 6 * n \in Nat
  BY ChainsCount
<1>4. ASSUME NEW m \in n + 2 .. 3 * n + 1, (m - n) \div 2 = i
      PROVE  /\ (m - n) % 2 = 0 => Program[m] = StepOf("init", "vo", Chains[i])
             /\ (m - n) % 2 # 0 => Program[m] = StepOf("start", "vo_chn", Chains[i])
  BY <1>4, ProgramIs, Zenon
<1>5. /\ n + 2 * i \in n + 2 .. 3 * n + 1
      /\ ((n + 2 * i) - n) % 2 = 0 /\ ((n + 2 * i) - n) \div 2 = i
  BY ChainsCount
<1>6. /\ n + 2 * i + 1 \in n + 2 .. 3 * n + 1
      /\ ((n + 2 * i + 1) - n) % 2 # 0 /\ ((n + 2 * i + 1) - n) \div 2 = i
  BY ChainsCount
<1>7. /\ Program[n + 2 * i] = StepOf("init", "vo", Chains[i])
      /\ Program[n + 2 * i + 1] = StepOf("start", "vo_chn", Chains[i])
  BY <1>4, <1>5, <1>6, Zenon
<1>8. Program[1 + i] = StepOf("init", "vpss", Chains[i])
  BY <1>1, ProgramIs, Zenon DEF Block
<1>9. /\ Program[1 + 3 * n + i] = StepOf("init", "venc", Chains[i])
      /\ Program[1 + 4 * n + i] = StepOf("start", "bind_vi", Chains[i])
      /\ Program[1 + 5 * n + i] = StepOf("start", "bind_vo", Chains[i])
      /\ Program[1 + 6 * n + i] = StepOf("start", "bind_venc", Chains[i])
  BY <1>2, <1>3, ProgramIs, Zenon DEF Block
<1> QED BY <1>7, <1>8, <1>9, Zenon

LEMMA DownSteps ==
  ASSUME NEW i \in 1 .. n
  PROVE  /\ Program[4 + 8 * n - i] = StepOf("stop", "bind_venc", Chains[i])
         /\ Program[4 + 9 * n - i] = StepOf("stop", "bind_vo", Chains[i])
         /\ Program[4 + 10 * n - i] = StepOf("stop", "bind_vi", Chains[i])
         /\ Program[4 + 11 * n - i] = StepOf("close", "venc", Chains[i])
         /\ Program[4 + 12 * n - i] = StepOf("close", "vo", Chains[i])
         /\ Program[4 + 13 * n - i] = StepOf("close", "vpss", Chains[i])
<1>1. ASSUME NEW f, NEW kind, NEW obj, BackBlock(f, kind, obj),
             NEW m \in f + 1 .. f + n, f + n + 1 - m = i
      PROVE  Program[m] = StepOf(kind, obj, Chains[i])
  BY <1>1 DEF BackBlock
<1>2. Program[4 + 8 * n - i] = StepOf("stop", "bind_venc", Chains[i])
  <2>1. /\ 4 + 8 * n - i \in (3 + 7 * n) + 1 .. (3 + 7 * n) + n
        /\ (3 + 7 * n) + n + 1 - (4 + 8 * n - i) = i
    BY ChainsCount
  <2>2. BackBlock(3 + 7 * n, "stop", "bind_venc")
    BY ProgramIs, Zenon
  <2> QED BY <1>1, <2>1, <2>2, Zenon
<1>3. Program[4 + 9 * n - i] = StepOf("stop", "bind_vo", Chains[i])
  <2>1. /\ 4 + 9 * n - i \in (3 + 8 * n) + 1 .. (3 + 8 * n) + n
        /\ (3 + 8 * n) + n + 1 - (4 + 9 * n - i) = i
    BY ChainsCount
  <2>2. BackBlock(3 + 8 * n, "stop", "bind_vo")
    BY ProgramIs, Zenon
  <2> QED BY <1>1, <2>1, <2>2, Zenon
<1>4. Program[4 + 10 * n - i] = StepOf("stop", "bind_vi", Chains[i])
  <2>1. /\ 4 + 10 * n - i \in (3 + 9 * n) + 1 .. (3 + 9 * n) + n
        /\ (3 + 9 * n) + n + 1 - (4 + 10 * n - i) = i
    BY ChainsCount
  <2>2. BackBlock(3 + 9 * n, "stop", "bind_vi")
    BY ProgramIs, Zenon
  <2> QED BY <1>1, <2>1, <2>2, Zenon
<1>5. Program[4 + 11 * n - i] = StepOf("close", "venc", Chains[i])
  <2>1. /\ 4 + 11 * n - i \in (3 + 10 * n) + 1 .. (3 + 10 * n) + n
        /\ (3 + 10 * n) + n + 1 - (4 + 11 * n - i) = i
    BY ChainsCount
  <2>2. BackBlock(3 + 10 * n, "close", "venc")
    BY ProgramIs, Zenon
  <2> QED BY <1>1, <2>1, <2>2, Zenon
<1>6. Program[4 + 12 * n - i] = StepOf("close", "vo", Chains[i])
  <2>1. /\ 4 + 12 * n - i \in (3 + 11 * n) + 1 .. (3 + 11 * n) + n
        /\ (3 + 11 * n) + n + 1 - (4 + 12 * n - i) = i
    BY ChainsCount
  <2>2. BackBlock(3 + 11 * n, "close", "vo")
    BY ProgramIs, Zenon
  <2> QED BY <1>1, <2>1, <2>2, Zenon
<1>7. Program[4 + 13 * n - i] = StepOf("close", "vpss", Chains[i])
  <2>1. /\ 4 + 13 * n - i \in (3 + 12 * n) + 1 .. (3 + 12 * n) + n
        /\ (3 + 12 * n) + n + 1 - (4 + 13 * n - i) = i
    BY ChainsCount
  <2>2. BackBlock(3 + 12 * n, "close", "vpss")
    BY ProgramIs, Zenon
  <2> QED BY <1>1, <2>1, <2>2, Zenon
<1> QED BY <1>2, <1>3, <1>4, <1>5, <1>6, <1>7, Zenon

LEMMA StepIs ==
  ASSUME NEW s \in 1 .. GoneStep
  PROVE  \/ s \in {1, LoopStep, CloseStep, MppCloseStep, GoneStep}
         \/ \E i \in 1 .. n : s = 1 + i
         \/ \E i \in 1 .. n : s = n + 2 * i
         \/ \E i \in 1 .. n : s = n + 2 * i + 1
         \/ \E i \in 1 .. n : s = 1 + 3 * n + i
         \/ \E i \in 1 .. n : s = 1 + 4 * n + i
         \/ \E i \in 1 .. n : s = 1 + 5 * n + i
         \/ \E i \in 1 .. n : s = 1 + 6 * n + i
         \/ \E i \in 1 .. n : s = 4 + 8 * n - i
         \/ \E i \in 1 .. n : s = 4 + 9 * n - i
         \/ \E i \in 1 .. n : s = 4 + 10 * n - i
         \/ \E i \in 1 .. n : s = 4 + 11 * n - i
         \/ \E i \in 1 .. n : s = 4 + 12 * n - i
         \/ \E i \in 1 .. n : s = 4 + 13 * n - i
<1> USE ChainsCount DEF LoopStep, CloseStep, MppCloseStep, GoneStep
<1>1. CASE s \in 2 .. 1 + n
  <2>1. s - 1 \in 1 .. n /\ s = 1 + (s - 1)
    BY <1>1
  <2> QED BY <2>1
<1>2. CASE s \in n + 2 .. 3 * n + 1
  <2>1. /\ (s - n) \div 2 \in 1 .. n
        /\ s = n + 2 * ((s - n) \div 2) \/ s = n + 2 * ((s - n) \div 2) + 1
    BY <1>2
  <2> QED BY <2>1
<1>3. CASE s \in 1 + 3 * n + 1 .. 1 + 3 * n + n
  <2>1. s - (1 + 3 * n) \in 1 .. n /\ s = 1 + 3 * n + (s - (1 + 3 * n))
    BY <1>3
  <2> QED BY <2>1
<1>4. CASE s \in 1 + 4 * n + 1 .. 1 + 4 * n + n
  <2>1. s - (1 + 4 * n) \in 1 .. n /\ s = 1 + 4 * n + (s - (1 + 4 * n))
    BY <1>4
  <2> QED BY <2>1
<1>5. CASE s \in 1 + 5 * n + 1 .. 1 + 5 * n + n
  <2>1. s - (1 + 5 * n) \in 1 .. n /\ s = 1 + 5 * n + (s - (1 + 5 * n))
    BY <1>5
  <2> QED BY <2>1
<1>6. CASE s \in 1 + 6 * n + 1 .. 1 + 6 * n + n
  <2>1. s - (1 + 6 * n) \in 1 .. n /\ s = 1 + 6 * n + (s - (1 + 6 * n))
    BY <1>6
  <2> QED BY <2>1
<1>7. CASE s \in 3 + 7 * n + 1 .. 3 + 7 * n + n
  <2>1. (4 + 8 * n) - s \in 1 .. n /\ s = 4 + 8 * n - ((4 + 8 * n) - s)
    BY <1>7
  <2> QED BY <2>1
<1>8. CASE s \in 3 + 8 * n + 1 .. 3 + 8 * n + n
  <2>1. (4 + 9 * n) - s \in 1 .. n /\ s = 4 + 9 * n - ((4 + 9 * n) - s)
    BY <1>8
  <2> QED BY <2>1
<1>9. CASE s \in 3 + 9 * n + 1 .. 3 + 9 * n + n
  <2>1. (4 + 10 * n) - s \in 1 .. n /\ s = 4 + 10 * n - ((4 + 10 * n) - s)
    BY <1>9
  <2> QED BY <2>1
<1>10. CASE s \in 3 + 10 * n + 1 .. 3 + 10 * n + n
  <2>1. (4 + 11 * n) - s \in 1 .. n /\ s = 4 + 11 * n - ((4 + 11 * n) - s)
    BY <1>10
  <2> QED BY <2>1
<1>11. CASE s \in 3 + 11 * n + 1 .. 3 + 11 * n + n
  <2>1. (4 + 12 * n) - s \in 1 .. n /\ s = 4 + 12 * n - ((4 + 12 * n) - s)
    BY <1>11
  <2> QED BY <2>1
<1>12. CASE s \in 3 + 12 * n + 1 .. 3 + 12 * n + n
  <2>1. (4 + 13 * n) - s \in 1 .. n /\ s = 4 + 13 * n - ((4 + 13 * n) - s)
    BY <1>12
  <2> QED BY <2>1
<1> QED BY <1>1, <1>2, <1>3, <1>4, <1>5, <1>6, <1>7, <1>8, <1>9, <1>10, <1>11, <1>12

-----------------------------------------------------------------------------
(* The calls, and the objects they make and destroy.                        *)

LEMMA Tuples ==
  /\ \A a, b, c : <<a>> \o <<b, c>> = <<a, b, c>>
  /\ \A a, b, c : <<a, b>> \o <<c>> = <<a, b, c>>
  /\ \A a, b, c, d : <<a, b, c>> \o <<d>> = <<a, b, c, d>>
  /\ \A a, b, c, d, e : <<a, b, c, d>> \o <<e>> = <<a, b, c, d, e>>
<1>1. ASSUME NEW a, NEW b, NEW c PROVE <<a>> \o <<b, c>> = <<a, b, c>>
  <2> DEFINE O == {a, b, c}
             s == <<a>>
             g == <<b, c>>
             h == <<a, b, c>>
             u == s \o g
  <2>1. s \in Seq(O) /\ g \in Seq(O) /\ h \in Seq(O) /\ Len(h) = 3
    OBVIOUS
  <2>2. u \in Seq(O) /\ Len(u) = Len(h)
    BY <2>1
  <2>3. \A m \in 1 .. Len(u) : u[m] = h[m]
    BY <2>1
  <2> HIDE DEF s, g, h, O, u
  <2>4. u = h
    BY <2>1, <2>2, <2>3, SeqEqual
  <2> QED BY <2>4 DEF u, s, g, h
<1>2. ASSUME NEW a, NEW b, NEW c PROVE <<a, b>> \o <<c>> = <<a, b, c>>
  <2> DEFINE O == {a, b, c}
             s == <<a, b>>
             g == <<c>>
             h == <<a, b, c>>
             u == s \o g
  <2>1. s \in Seq(O) /\ g \in Seq(O) /\ h \in Seq(O) /\ Len(h) = 3
    OBVIOUS
  <2>2. u \in Seq(O) /\ Len(u) = Len(h)
    BY <2>1
  <2>3. \A m \in 1 .. Len(u) : u[m] = h[m]
    BY <2>1
  <2> HIDE DEF s, g, h, O, u
  <2>4. u = h
    BY <2>1, <2>2, <2>3, SeqEqual
  <2> QED BY <2>4 DEF u, s, g, h
<1>3. ASSUME NEW a, NEW b, NEW c, NEW d PROVE <<a, b, c>> \o <<d>> = <<a, b, c, d>>
  <2> DEFINE O == {a, b, c, d}
             s == <<a, b, c>>
             g == <<d>>
             h == <<a, b, c, d>>
             u == s \o g
  <2>1. s \in Seq(O) /\ g \in Seq(O) /\ h \in Seq(O) /\ Len(h) = 4
    OBVIOUS
  <2>2. u \in Seq(O) /\ Len(u) = Len(h)
    BY <2>1
  <2>3. \A m \in 1 .. Len(u) : u[m] = h[m]
    BY <2>1
  <2> HIDE DEF s, g, h, O, u
  <2>4. u = h
    BY <2>1, <2>2, <2>3, SeqEqual
  <2> QED BY <2>4 DEF u, s, g, h
<1>4. ASSUME NEW a, NEW b, NEW c, NEW d, NEW e PROVE <<a, b, c, d>> \o <<e>> = <<a, b, c, d, e>>
  <2> DEFINE O == {a, b, c, d, e}
             s == <<a, b, c, d>>
             g == <<e>>
             h == <<a, b, c, d, e>>
             u == s \o g
  <2>1. s \in Seq(O) /\ g \in Seq(O) /\ h \in Seq(O) /\ Len(h) = 5
    OBVIOUS
  <2>2. u \in Seq(O) /\ Len(u) = Len(h)
    BY <2>1
  <2>3. \A m \in 1 .. Len(u) : u[m] = h[m]
    BY <2>1
  <2> HIDE DEF s, g, h, O, u
  <2>4. u = h
    BY <2>1, <2>2, <2>3, SeqEqual
  <2> QED BY <2>4 DEF u, s, g, h
<1> QED BY <1>1, <1>2, <1>3, <1>4

LEMMA CallsAre ==
  ASSUME NEW c
  PROVE  /\ Calls(StepOf("init", "vpss", c)) = <<"vpss_grp", "vpss_chns", "vpss_run">>
         /\ Calls(StepOf("init", "vo", c)) = <<"vo_dev", "vo_layer">>
         /\ Calls(StepOf("init", "venc", c)) = <<"venc_grp", "venc_chn", "venc_reg", "venc_cnt">>
         /\ \A obj : Calls(StepOf("start", obj, c)) = <<obj>>
         /\ \A obj : Calls(StepOf("stop", obj, c)) = <<obj>>
         /\ Calls(StepOf("close", "venc", c)) = <<"venc_reg", "venc_chn", "venc_grp">>
         /\ Calls(StepOf("close", "vo", c)) = <<"vo_chn", "vo_layer", "vo_dev">>
         /\ Calls(StepOf("close", "vpss", c)) = <<"vpss_run", "vpss_chns", "vpss_grp">>
<1>1. VoClose = <<"vo_chn", "vo_layer", "vo_dev">>
  BY Tuples DEF VoClose, StopAllChn, StartChannel
<1> QED
  BY <1>1 DEF Calls, StepOf, Create, Destroy, VpssInitialize, StartDevLayer, VencInitialize,
     VencClose, VpssClose

LEMMA SystemCallsAre ==
  /\ Calls(StepOf("mpp_init", "mpp", "mpp")) = <<"exit_sys", "exit_vb", "vb", "sys", "mem">>
  /\ Calls(StepOf("mpp_close", "mpp", "mpp")) = <<"exit_sys", "exit_vb">>
  /\ Calls(StepOf("loop", "main", "mpp")) = <<"main">>
  /\ Calls(StepOf("trans_close", "trans", "mpp")) = <<"trans">>
  /\ Calls(StepOf("gone", "main", "mpp")) = <<"main">>
<1>1. MppInitialize = <<"exit_sys", "exit_vb", "vb", "sys", "mem">>
  <2>1. <<"exit_sys", "exit_vb">> \o <<"vb">> = <<"exit_sys", "exit_vb", "vb">>
    BY Tuples, Zenon
  <2>2. \A a, b, c, d : <<a, b, c>> \o <<d>> = <<a, b, c, d>>
    BY Tuples, Zenon
  <2>3. <<"exit_sys", "exit_vb", "vb">> \o <<"sys">> = <<"exit_sys", "exit_vb", "vb", "sys">>
    BY <2>2, Zenon
  <2>4. \A a, b, c, d, e : <<a, b, c, d>> \o <<e>> = <<a, b, c, d, e>>
    BY Tuples, Zenon
  <2>5. <<"exit_sys", "exit_vb", "vb", "sys">> \o <<"mem">>
          = <<"exit_sys", "exit_vb", "vb", "sys", "mem">>
    BY <2>4, Zenon
  <2> QED BY <2>1, <2>3, <2>5, Zenon DEF MppInitialize, ConfigVB, ConfigSys, ConfigMem
<1> QED BY <1>1 DEF Calls, StepOf, MppClose

LEMMA OwnIs ==
  /\ Own = {"vpss_grp", "vpss_chns", "vpss_run", "vo_dev", "vo_layer", "vo_chn",
            "venc_grp", "venc_chn", "venc_reg", "venc_cnt", "bind_vi", "bind_vo", "bind_venc"}
  /\ ChainObjects = Own \cup {"recv"} /\ "recv" \notin Own
BY DEF Own, ChainObjects, Needs

Makes(s) == Program[s].kind \in {"init", "start"}
Takes(s) == Program[s].kind \in {"close", "stop"}

(* Each object is made at its step of the start-up, *)
LEMMA UpIs ==
  ASSUME NEW r \in Own, NEW i \in 1 .. n
  PROVE  /\ UpStep(r, i) \in 2 .. LoopStep - 1
         /\ Makes(UpStep(r, i)) /\ Program[UpStep(r, i)].chain = Chains[i]
         /\ UpCall(r) \in 1 .. Len(Calls(Program[UpStep(r, i)]))
         /\ Calls(Program[UpStep(r, i)])[UpCall(r)] = r
<1>1. UpStep(r, i) \in 2 .. LoopStep - 1
  BY OwnIs, ChainsCount DEF UpStep, LoopStep
<1>2. CASE r \in {"vpss_grp", "vpss_chns", "vpss_run"}
  <2>1. UpStep(r, i) = 1 + i
    BY <1>2 DEF UpStep
  <2>2. Program[UpStep(r, i)] = StepOf("init", "vpss", Chains[i])
    BY <2>1, UpSteps, Zenon
  <2>3. Calls(Program[UpStep(r, i)]) = <<"vpss_grp", "vpss_chns", "vpss_run">>
    BY <2>2, CallsAre, Zenon
  <2>4. Makes(UpStep(r, i)) /\ Program[UpStep(r, i)].chain = Chains[i]
    BY <2>2 DEF Makes, StepOf
  <2> QED BY <1>1, <1>2, <2>3, <2>4 DEF UpCall
<1>3. CASE r \in {"vo_dev", "vo_layer"}
  <2>1. UpStep(r, i) = n + 2 * i
    BY <1>3 DEF UpStep
  <2>2. Program[UpStep(r, i)] = StepOf("init", "vo", Chains[i])
    BY <2>1, UpSteps, Zenon
  <2>3. Calls(Program[UpStep(r, i)]) = <<"vo_dev", "vo_layer">>
    BY <2>2, CallsAre, Zenon
  <2>4. Makes(UpStep(r, i)) /\ Program[UpStep(r, i)].chain = Chains[i]
    BY <2>2 DEF Makes, StepOf
  <2> QED BY <1>1, <1>3, <2>3, <2>4 DEF UpCall
<1>4. CASE r \in {"vo_chn"}
  <2>1. UpStep(r, i) = n + 2 * i + 1
    BY <1>4 DEF UpStep
  <2>2. Program[UpStep(r, i)] = StepOf("start", "vo_chn", Chains[i])
    BY <2>1, UpSteps, Zenon
  <2>3. Calls(Program[UpStep(r, i)]) = <<"vo_chn">>
    BY <2>2, CallsAre, Zenon
  <2>4. Makes(UpStep(r, i)) /\ Program[UpStep(r, i)].chain = Chains[i]
    BY <2>2 DEF Makes, StepOf
  <2> QED BY <1>1, <1>4, <2>3, <2>4 DEF UpCall
<1>5. CASE r \in {"venc_grp", "venc_chn", "venc_reg", "venc_cnt"}
  <2>1. UpStep(r, i) = 1 + 3 * n + i
    BY <1>5 DEF UpStep
  <2>2. Program[UpStep(r, i)] = StepOf("init", "venc", Chains[i])
    BY <2>1, UpSteps, Zenon
  <2>3. Calls(Program[UpStep(r, i)]) = <<"venc_grp", "venc_chn", "venc_reg", "venc_cnt">>
    BY <2>2, CallsAre, Zenon
  <2>4. Makes(UpStep(r, i)) /\ Program[UpStep(r, i)].chain = Chains[i]
    BY <2>2 DEF Makes, StepOf
  <2> QED BY <1>1, <1>5, <2>3, <2>4 DEF UpCall
<1>6. CASE r \in {"bind_vi"}
  <2>1. UpStep(r, i) = 1 + 4 * n + i
    BY <1>6 DEF UpStep
  <2>2. Program[UpStep(r, i)] = StepOf("start", "bind_vi", Chains[i])
    BY <2>1, UpSteps, Zenon
  <2>3. Calls(Program[UpStep(r, i)]) = <<"bind_vi">>
    BY <2>2, CallsAre, Zenon
  <2>4. Makes(UpStep(r, i)) /\ Program[UpStep(r, i)].chain = Chains[i]
    BY <2>2 DEF Makes, StepOf
  <2> QED BY <1>1, <1>6, <2>3, <2>4 DEF UpCall
<1>7. CASE r \in {"bind_vo"}
  <2>1. UpStep(r, i) = 1 + 5 * n + i
    BY <1>7 DEF UpStep
  <2>2. Program[UpStep(r, i)] = StepOf("start", "bind_vo", Chains[i])
    BY <2>1, UpSteps, Zenon
  <2>3. Calls(Program[UpStep(r, i)]) = <<"bind_vo">>
    BY <2>2, CallsAre, Zenon
  <2>4. Makes(UpStep(r, i)) /\ Program[UpStep(r, i)].chain = Chains[i]
    BY <2>2 DEF Makes, StepOf
  <2> QED BY <1>1, <1>7, <2>3, <2>4 DEF UpCall
<1>8. CASE r \in {"bind_venc"}
  <2>1. UpStep(r, i) = 1 + 6 * n + i
    BY <1>8 DEF UpStep
  <2>2. Program[UpStep(r, i)] = StepOf("start", "bind_venc", Chains[i])
    BY <2>1, UpSteps, Zenon
  <2>3. Calls(Program[UpStep(r, i)]) = <<"bind_venc">>
    BY <2>2, CallsAre, Zenon
  <2>4. Makes(UpStep(r, i)) /\ Program[UpStep(r, i)].chain = Chains[i]
    BY <2>2 DEF Makes, StepOf
  <2> QED BY <1>1, <1>8, <2>3, <2>4 DEF UpCall
<1> QED BY <1>2, <1>3, <1>4, <1>5, <1>6, <1>7, <1>8, OwnIs

(* and destroyed at its step of the teardown; the counter with its channel. *)
LEMMA DownIs ==
  ASSUME NEW r \in Own, NEW i \in 1 .. n
  PROVE  /\ DownStep(r, i) \in CloseStep + 1 .. MppCloseStep - 1
         /\ Takes(DownStep(r, i)) /\ Program[DownStep(r, i)].chain = Chains[i]
         /\ DownCall(r) \in 1 .. Len(Calls(Program[DownStep(r, i)]))
         /\ Calls(Program[DownStep(r, i)])[DownCall(r)]
              = IF r = "venc_cnt" THEN "venc_chn" ELSE r
<1>1. DownStep(r, i) \in CloseStep + 1 .. MppCloseStep - 1
  BY OwnIs, ChainsCount DEF DownStep, CloseStep, MppCloseStep
<1>2. CASE r \in {"bind_venc"}
  <2>1. DownStep(r, i) = 4 + 8 * n - i
    BY <1>2 DEF DownStep
  <2>2. Program[DownStep(r, i)] = StepOf("stop", "bind_venc", Chains[i])
    BY <2>1, DownSteps, Zenon
  <2>3. Calls(Program[DownStep(r, i)]) = <<"bind_venc">>
    BY <2>2, CallsAre, Zenon
  <2>4. Takes(DownStep(r, i)) /\ Program[DownStep(r, i)].chain = Chains[i]
    BY <2>2 DEF Takes, StepOf
  <2> QED BY <1>1, <1>2, <2>3, <2>4 DEF DownCall
<1>3. CASE r \in {"bind_vo"}
  <2>1. DownStep(r, i) = 4 + 9 * n - i
    BY <1>3 DEF DownStep
  <2>2. Program[DownStep(r, i)] = StepOf("stop", "bind_vo", Chains[i])
    BY <2>1, DownSteps, Zenon
  <2>3. Calls(Program[DownStep(r, i)]) = <<"bind_vo">>
    BY <2>2, CallsAre, Zenon
  <2>4. Takes(DownStep(r, i)) /\ Program[DownStep(r, i)].chain = Chains[i]
    BY <2>2 DEF Takes, StepOf
  <2> QED BY <1>1, <1>3, <2>3, <2>4 DEF DownCall
<1>4. CASE r \in {"bind_vi"}
  <2>1. DownStep(r, i) = 4 + 10 * n - i
    BY <1>4 DEF DownStep
  <2>2. Program[DownStep(r, i)] = StepOf("stop", "bind_vi", Chains[i])
    BY <2>1, DownSteps, Zenon
  <2>3. Calls(Program[DownStep(r, i)]) = <<"bind_vi">>
    BY <2>2, CallsAre, Zenon
  <2>4. Takes(DownStep(r, i)) /\ Program[DownStep(r, i)].chain = Chains[i]
    BY <2>2 DEF Takes, StepOf
  <2> QED BY <1>1, <1>4, <2>3, <2>4 DEF DownCall
<1>5. CASE r \in {"venc_grp", "venc_chn", "venc_reg", "venc_cnt"}
  <2>1. DownStep(r, i) = 4 + 11 * n - i
    BY <1>5 DEF DownStep
  <2>2. Program[DownStep(r, i)] = StepOf("close", "venc", Chains[i])
    BY <2>1, DownSteps, Zenon
  <2>3. Calls(Program[DownStep(r, i)]) = <<"venc_reg", "venc_chn", "venc_grp">>
    BY <2>2, CallsAre, Zenon
  <2>4. Takes(DownStep(r, i)) /\ Program[DownStep(r, i)].chain = Chains[i]
    BY <2>2 DEF Takes, StepOf
  <2> QED BY <1>1, <1>5, <2>3, <2>4 DEF DownCall
<1>6. CASE r \in {"vo_dev", "vo_layer", "vo_chn"}
  <2>1. DownStep(r, i) = 4 + 12 * n - i
    BY <1>6 DEF DownStep
  <2>2. Program[DownStep(r, i)] = StepOf("close", "vo", Chains[i])
    BY <2>1, DownSteps, Zenon
  <2>3. Calls(Program[DownStep(r, i)]) = <<"vo_chn", "vo_layer", "vo_dev">>
    BY <2>2, CallsAre, Zenon
  <2>4. Takes(DownStep(r, i)) /\ Program[DownStep(r, i)].chain = Chains[i]
    BY <2>2 DEF Takes, StepOf
  <2> QED BY <1>1, <1>6, <2>3, <2>4 DEF DownCall
<1>7. CASE r \in {"vpss_grp", "vpss_chns", "vpss_run"}
  <2>1. DownStep(r, i) = 4 + 13 * n - i
    BY <1>7 DEF DownStep
  <2>2. Program[DownStep(r, i)] = StepOf("close", "vpss", Chains[i])
    BY <2>1, DownSteps, Zenon
  <2>3. Calls(Program[DownStep(r, i)]) = <<"vpss_run", "vpss_chns", "vpss_grp">>
    BY <2>2, CallsAre, Zenon
  <2>4. Takes(DownStep(r, i)) /\ Program[DownStep(r, i)].chain = Chains[i]
    BY <2>2 DEF Takes, StepOf
  <2> QED BY <1>1, <1>7, <2>3, <2>4 DEF DownCall
<1> QED BY <1>2, <1>3, <1>4, <1>5, <1>6, <1>7, OwnIs

(* Which steps are of which kind. *)
LEMMA KindIs ==
  ASSUME NEW s \in 1 .. GoneStep
  PROVE  /\ s = 1 => Program[s].kind = "mpp_init"
         /\ s \in 2 .. LoopStep - 1 => Makes(s)
         /\ s = LoopStep => Program[s].kind = "loop"
         /\ s = CloseStep => Program[s].kind = "trans_close"
         /\ s \in CloseStep + 1 .. MppCloseStep - 1 => Takes(s)
         /\ s = MppCloseStep => Program[s].kind = "mpp_close"
         /\ s = GoneStep => Program[s].kind = "gone"
<1> USE ChainsCount DEF LoopStep, CloseStep, MppCloseStep, GoneStep
<1>1. CASE s \in {1, LoopStep, CloseStep, MppCloseStep, GoneStep}
  <2>1. /\ Program[1].kind = "mpp_init" /\ Program[2 + 7 * n].kind = "loop"
        /\ Program[3 + 7 * n].kind = "trans_close" /\ Program[4 + 13 * n].kind = "mpp_close"
        /\ Program[5 + 13 * n].kind = "gone"
    BY ProgramIs DEF StepOf
  <2> QED BY <1>1, <2>1
<1>2. ASSUME NEW i \in 1 .. n, s = 1 + i PROVE s \in 2 .. LoopStep - 1 /\ Makes(s)
  <2>1. Program[s] = StepOf("init", "vpss", Chains[i])
    BY <1>2, UpSteps, Zenon
  <2>2. Makes(s)
    BY <2>1 DEF Makes, StepOf
  <2> QED BY <1>2, <2>2
<1>3. ASSUME NEW i \in 1 .. n, s = n + 2 * i PROVE s \in 2 .. LoopStep - 1 /\ Makes(s)
  <2>1. Program[s] = StepOf("init", "vo", Chains[i])
    BY <1>3, UpSteps, Zenon
  <2>2. Makes(s)
    BY <2>1 DEF Makes, StepOf
  <2> QED BY <1>3, <2>2
<1>4. ASSUME NEW i \in 1 .. n, s = n + 2 * i + 1 PROVE s \in 2 .. LoopStep - 1 /\ Makes(s)
  <2>1. Program[s] = StepOf("start", "vo_chn", Chains[i])
    BY <1>4, UpSteps, Zenon
  <2>2. Makes(s)
    BY <2>1 DEF Makes, StepOf
  <2> QED BY <1>4, <2>2
<1>5. ASSUME NEW i \in 1 .. n, s = 1 + 3 * n + i PROVE s \in 2 .. LoopStep - 1 /\ Makes(s)
  <2>1. Program[s] = StepOf("init", "venc", Chains[i])
    BY <1>5, UpSteps, Zenon
  <2>2. Makes(s)
    BY <2>1 DEF Makes, StepOf
  <2> QED BY <1>5, <2>2
<1>6. ASSUME NEW i \in 1 .. n, s = 1 + 4 * n + i PROVE s \in 2 .. LoopStep - 1 /\ Makes(s)
  <2>1. Program[s] = StepOf("start", "bind_vi", Chains[i])
    BY <1>6, UpSteps, Zenon
  <2>2. Makes(s)
    BY <2>1 DEF Makes, StepOf
  <2> QED BY <1>6, <2>2
<1>7. ASSUME NEW i \in 1 .. n, s = 1 + 5 * n + i PROVE s \in 2 .. LoopStep - 1 /\ Makes(s)
  <2>1. Program[s] = StepOf("start", "bind_vo", Chains[i])
    BY <1>7, UpSteps, Zenon
  <2>2. Makes(s)
    BY <2>1 DEF Makes, StepOf
  <2> QED BY <1>7, <2>2
<1>8. ASSUME NEW i \in 1 .. n, s = 1 + 6 * n + i PROVE s \in 2 .. LoopStep - 1 /\ Makes(s)
  <2>1. Program[s] = StepOf("start", "bind_venc", Chains[i])
    BY <1>8, UpSteps, Zenon
  <2>2. Makes(s)
    BY <2>1 DEF Makes, StepOf
  <2> QED BY <1>8, <2>2
<1>9. ASSUME NEW i \in 1 .. n, s = 4 + 8 * n - i PROVE s \in CloseStep + 1 .. MppCloseStep - 1 /\ Takes(s)
  <2>1. Program[s] = StepOf("stop", "bind_venc", Chains[i])
    BY <1>9, DownSteps, Zenon
  <2>2. Takes(s)
    BY <2>1 DEF Takes, StepOf
  <2> QED BY <1>9, <2>2
<1>10. ASSUME NEW i \in 1 .. n, s = 4 + 9 * n - i PROVE s \in CloseStep + 1 .. MppCloseStep - 1 /\ Takes(s)
  <2>1. Program[s] = StepOf("stop", "bind_vo", Chains[i])
    BY <1>10, DownSteps, Zenon
  <2>2. Takes(s)
    BY <2>1 DEF Takes, StepOf
  <2> QED BY <1>10, <2>2
<1>11. ASSUME NEW i \in 1 .. n, s = 4 + 10 * n - i PROVE s \in CloseStep + 1 .. MppCloseStep - 1 /\ Takes(s)
  <2>1. Program[s] = StepOf("stop", "bind_vi", Chains[i])
    BY <1>11, DownSteps, Zenon
  <2>2. Takes(s)
    BY <2>1 DEF Takes, StepOf
  <2> QED BY <1>11, <2>2
<1>12. ASSUME NEW i \in 1 .. n, s = 4 + 11 * n - i PROVE s \in CloseStep + 1 .. MppCloseStep - 1 /\ Takes(s)
  <2>1. Program[s] = StepOf("close", "venc", Chains[i])
    BY <1>12, DownSteps, Zenon
  <2>2. Takes(s)
    BY <2>1 DEF Takes, StepOf
  <2> QED BY <1>12, <2>2
<1>13. ASSUME NEW i \in 1 .. n, s = 4 + 12 * n - i PROVE s \in CloseStep + 1 .. MppCloseStep - 1 /\ Takes(s)
  <2>1. Program[s] = StepOf("close", "vo", Chains[i])
    BY <1>13, DownSteps, Zenon
  <2>2. Takes(s)
    BY <2>1 DEF Takes, StepOf
  <2> QED BY <1>13, <2>2
<1>14. ASSUME NEW i \in 1 .. n, s = 4 + 13 * n - i PROVE s \in CloseStep + 1 .. MppCloseStep - 1 /\ Takes(s)
  <2>1. Program[s] = StepOf("close", "vpss", Chains[i])
    BY <1>14, DownSteps, Zenon
  <2>2. Takes(s)
    BY <2>1 DEF Takes, StepOf
  <2> QED BY <1>14, <2>2
<1>15. \/ s \in {1, LoopStep, CloseStep, MppCloseStep, GoneStep}
       \/ (s \in 2 .. LoopStep - 1 /\ Makes(s))
       \/ (s \in CloseStep + 1 .. MppCloseStep - 1 /\ Takes(s))
  <2> HIDE DEF LoopStep, CloseStep, MppCloseStep, GoneStep
  <2> QED BY <1>2, <1>3, <1>4, <1>5, <1>6, <1>7, <1>8, <1>9, <1>10, <1>11, <1>12, <1>13, <1>14, StepIs, Zenon
<1> QED BY <1>1, <1>15

(* What the steps of the start-up make, *)
LEMMA MakeIs ==
  ASSUME NEW s \in 2 .. LoopStep - 1
  PROVE  \E i \in 1 .. n :
           /\ Program[s].chain = Chains[i] /\ Len(Calls(Program[s])) \in Nat \ {0}
           /\ \A c \in 1 .. Len(Calls(Program[s])) :
                /\ Calls(Program[s])[c] \in Own
                /\ UpStep(Calls(Program[s])[c], i) = s /\ UpCall(Calls(Program[s])[c]) = c
           /\ Program[s].kind = "init" => Program[s].obj \in Classes
           /\ Program[s].kind = "start" /\ Program[s].obj = StartChannel =>
                UpStep("vo_dev", i) < s
           /\ \A d \in Classes :
                UpStep(First(d), i) = s <=> Program[s].kind = "init" /\ Program[s].obj = d
<1> DEFINE Made(i) ==
      /\ Program[s].chain = Chains[i] /\ Len(Calls(Program[s])) \in Nat \ {0}
      /\ \A c \in 1 .. Len(Calls(Program[s])) :
           /\ Calls(Program[s])[c] \in Own
           /\ UpStep(Calls(Program[s])[c], i) = s /\ UpCall(Calls(Program[s])[c]) = c
      /\ Program[s].kind = "init" => Program[s].obj \in Classes
      /\ Program[s].kind = "start" /\ Program[s].obj = StartChannel =>
           UpStep("vo_dev", i) < s
      /\ \A d \in Classes :
           UpStep(First(d), i) = s <=> Program[s].kind = "init" /\ Program[s].obj = d
<1>1. ASSUME NEW i \in 1 .. n, s = 1 + i PROVE Made(i)
  <2>1. Program[s] = StepOf("init", "vpss", Chains[i])
    BY <1>1, UpSteps, Zenon
  <2>2. Calls(Program[s]) = <<"vpss_grp", "vpss_chns", "vpss_run">>
    BY <2>1, CallsAre, Zenon
  <2>3. Program[s].kind = "init" /\ Program[s].obj = "vpss" /\ Program[s].chain = Chains[i]
    BY <2>1 DEF StepOf
  <2>4. Len(Calls(Program[s])) \in Nat \ {0}
    BY <2>2
  <2>5. ASSUME NEW c \in 1 .. Len(Calls(Program[s]))
        PROVE  /\ Calls(Program[s])[c] \in Own
               /\ UpStep(Calls(Program[s])[c], i) = s /\ UpCall(Calls(Program[s])[c]) = c
    BY <1>1, <2>2, OwnIs DEF UpStep, UpCall
  <2>6. \A d \in Classes :
          UpStep(First(d), i) = s <=> Program[s].kind = "init" /\ Program[s].obj = d
    BY <1>1, <2>3, ChainsCount DEF UpStep, First, Classes
  <2>7. /\ Program[s].kind = "init" => Program[s].obj \in Classes
        /\ Program[s].kind = "start" /\ Program[s].obj = StartChannel => UpStep("vo_dev", i) < s
    BY <1>1, <2>3, ChainsCount DEF Classes, StartChannel, UpStep
  <2> QED BY <2>3, <2>4, <2>5, <2>6, <2>7
<1>2. ASSUME NEW i \in 1 .. n, s = n + 2 * i PROVE Made(i)
  <2>1. Program[s] = StepOf("init", "vo", Chains[i])
    BY <1>2, UpSteps, Zenon
  <2>2. Calls(Program[s]) = <<"vo_dev", "vo_layer">>
    BY <2>1, CallsAre, Zenon
  <2>3. Program[s].kind = "init" /\ Program[s].obj = "vo" /\ Program[s].chain = Chains[i]
    BY <2>1 DEF StepOf
  <2>4. Len(Calls(Program[s])) \in Nat \ {0}
    BY <2>2
  <2>5. ASSUME NEW c \in 1 .. Len(Calls(Program[s]))
        PROVE  /\ Calls(Program[s])[c] \in Own
               /\ UpStep(Calls(Program[s])[c], i) = s /\ UpCall(Calls(Program[s])[c]) = c
    BY <1>2, <2>2, OwnIs DEF UpStep, UpCall
  <2>6. \A d \in Classes :
          UpStep(First(d), i) = s <=> Program[s].kind = "init" /\ Program[s].obj = d
    BY <1>2, <2>3, ChainsCount DEF UpStep, First, Classes
  <2>7. /\ Program[s].kind = "init" => Program[s].obj \in Classes
        /\ Program[s].kind = "start" /\ Program[s].obj = StartChannel => UpStep("vo_dev", i) < s
    BY <1>2, <2>3, ChainsCount DEF Classes, StartChannel, UpStep
  <2> QED BY <2>3, <2>4, <2>5, <2>6, <2>7
<1>3. ASSUME NEW i \in 1 .. n, s = n + 2 * i + 1 PROVE Made(i)
  <2>1. Program[s] = StepOf("start", "vo_chn", Chains[i])
    BY <1>3, UpSteps, Zenon
  <2>2. Calls(Program[s]) = <<"vo_chn">>
    BY <2>1, CallsAre, Zenon
  <2>3. Program[s].kind = "start" /\ Program[s].obj = "vo_chn" /\ Program[s].chain = Chains[i]
    BY <2>1 DEF StepOf
  <2>4. Len(Calls(Program[s])) \in Nat \ {0}
    BY <2>2
  <2>5. ASSUME NEW c \in 1 .. Len(Calls(Program[s]))
        PROVE  /\ Calls(Program[s])[c] \in Own
               /\ UpStep(Calls(Program[s])[c], i) = s /\ UpCall(Calls(Program[s])[c]) = c
    BY <1>3, <2>2, OwnIs DEF UpStep, UpCall
  <2>6. \A d \in Classes :
          UpStep(First(d), i) = s <=> Program[s].kind = "init" /\ Program[s].obj = d
    BY <1>3, <2>3, ChainsCount DEF UpStep, First, Classes
  <2>7. /\ Program[s].kind = "init" => Program[s].obj \in Classes
        /\ Program[s].kind = "start" /\ Program[s].obj = StartChannel => UpStep("vo_dev", i) < s
    BY <1>3, <2>3, ChainsCount DEF Classes, StartChannel, UpStep
  <2> QED BY <2>3, <2>4, <2>5, <2>6, <2>7
<1>4. ASSUME NEW i \in 1 .. n, s = 1 + 3 * n + i PROVE Made(i)
  <2>1. Program[s] = StepOf("init", "venc", Chains[i])
    BY <1>4, UpSteps, Zenon
  <2>2. Calls(Program[s]) = <<"venc_grp", "venc_chn", "venc_reg", "venc_cnt">>
    BY <2>1, CallsAre, Zenon
  <2>3. Program[s].kind = "init" /\ Program[s].obj = "venc" /\ Program[s].chain = Chains[i]
    BY <2>1 DEF StepOf
  <2>4. Len(Calls(Program[s])) \in Nat \ {0}
    BY <2>2
  <2>5. ASSUME NEW c \in 1 .. Len(Calls(Program[s]))
        PROVE  /\ Calls(Program[s])[c] \in Own
               /\ UpStep(Calls(Program[s])[c], i) = s /\ UpCall(Calls(Program[s])[c]) = c
    BY <1>4, <2>2, OwnIs DEF UpStep, UpCall
  <2>6. \A d \in Classes :
          UpStep(First(d), i) = s <=> Program[s].kind = "init" /\ Program[s].obj = d
    BY <1>4, <2>3, ChainsCount DEF UpStep, First, Classes
  <2>7. /\ Program[s].kind = "init" => Program[s].obj \in Classes
        /\ Program[s].kind = "start" /\ Program[s].obj = StartChannel => UpStep("vo_dev", i) < s
    BY <1>4, <2>3, ChainsCount DEF Classes, StartChannel, UpStep
  <2> QED BY <2>3, <2>4, <2>5, <2>6, <2>7
<1>5. ASSUME NEW i \in 1 .. n, s = 1 + 4 * n + i PROVE Made(i)
  <2>1. Program[s] = StepOf("start", "bind_vi", Chains[i])
    BY <1>5, UpSteps, Zenon
  <2>2. Calls(Program[s]) = <<"bind_vi">>
    BY <2>1, CallsAre, Zenon
  <2>3. Program[s].kind = "start" /\ Program[s].obj = "bind_vi" /\ Program[s].chain = Chains[i]
    BY <2>1 DEF StepOf
  <2>4. Len(Calls(Program[s])) \in Nat \ {0}
    BY <2>2
  <2>5. ASSUME NEW c \in 1 .. Len(Calls(Program[s]))
        PROVE  /\ Calls(Program[s])[c] \in Own
               /\ UpStep(Calls(Program[s])[c], i) = s /\ UpCall(Calls(Program[s])[c]) = c
    BY <1>5, <2>2, OwnIs DEF UpStep, UpCall
  <2>6. \A d \in Classes :
          UpStep(First(d), i) = s <=> Program[s].kind = "init" /\ Program[s].obj = d
    BY <1>5, <2>3, ChainsCount DEF UpStep, First, Classes
  <2>7. /\ Program[s].kind = "init" => Program[s].obj \in Classes
        /\ Program[s].kind = "start" /\ Program[s].obj = StartChannel => UpStep("vo_dev", i) < s
    BY <1>5, <2>3, ChainsCount DEF Classes, StartChannel, UpStep
  <2> QED BY <2>3, <2>4, <2>5, <2>6, <2>7
<1>6. ASSUME NEW i \in 1 .. n, s = 1 + 5 * n + i PROVE Made(i)
  <2>1. Program[s] = StepOf("start", "bind_vo", Chains[i])
    BY <1>6, UpSteps, Zenon
  <2>2. Calls(Program[s]) = <<"bind_vo">>
    BY <2>1, CallsAre, Zenon
  <2>3. Program[s].kind = "start" /\ Program[s].obj = "bind_vo" /\ Program[s].chain = Chains[i]
    BY <2>1 DEF StepOf
  <2>4. Len(Calls(Program[s])) \in Nat \ {0}
    BY <2>2
  <2>5. ASSUME NEW c \in 1 .. Len(Calls(Program[s]))
        PROVE  /\ Calls(Program[s])[c] \in Own
               /\ UpStep(Calls(Program[s])[c], i) = s /\ UpCall(Calls(Program[s])[c]) = c
    BY <1>6, <2>2, OwnIs DEF UpStep, UpCall
  <2>6. \A d \in Classes :
          UpStep(First(d), i) = s <=> Program[s].kind = "init" /\ Program[s].obj = d
    BY <1>6, <2>3, ChainsCount DEF UpStep, First, Classes
  <2>7. /\ Program[s].kind = "init" => Program[s].obj \in Classes
        /\ Program[s].kind = "start" /\ Program[s].obj = StartChannel => UpStep("vo_dev", i) < s
    BY <1>6, <2>3, ChainsCount DEF Classes, StartChannel, UpStep
  <2> QED BY <2>3, <2>4, <2>5, <2>6, <2>7
<1>7. ASSUME NEW i \in 1 .. n, s = 1 + 6 * n + i PROVE Made(i)
  <2>1. Program[s] = StepOf("start", "bind_venc", Chains[i])
    BY <1>7, UpSteps, Zenon
  <2>2. Calls(Program[s]) = <<"bind_venc">>
    BY <2>1, CallsAre, Zenon
  <2>3. Program[s].kind = "start" /\ Program[s].obj = "bind_venc" /\ Program[s].chain = Chains[i]
    BY <2>1 DEF StepOf
  <2>4. Len(Calls(Program[s])) \in Nat \ {0}
    BY <2>2
  <2>5. ASSUME NEW c \in 1 .. Len(Calls(Program[s]))
        PROVE  /\ Calls(Program[s])[c] \in Own
               /\ UpStep(Calls(Program[s])[c], i) = s /\ UpCall(Calls(Program[s])[c]) = c
    BY <1>7, <2>2, OwnIs DEF UpStep, UpCall
  <2>6. \A d \in Classes :
          UpStep(First(d), i) = s <=> Program[s].kind = "init" /\ Program[s].obj = d
    BY <1>7, <2>3, ChainsCount DEF UpStep, First, Classes
  <2>7. /\ Program[s].kind = "init" => Program[s].obj \in Classes
        /\ Program[s].kind = "start" /\ Program[s].obj = StartChannel => UpStep("vo_dev", i) < s
    BY <1>7, <2>3, ChainsCount DEF Classes, StartChannel, UpStep
  <2> QED BY <2>3, <2>4, <2>5, <2>6, <2>7
<1> HIDE DEF Made
<1>8. \E i \in 1 .. n : Made(i)
  <2>1. s \in 1 .. GoneStep /\ s \notin {1, LoopStep, CloseStep, MppCloseStep, GoneStep}
    BY ChainsCount DEF LoopStep, CloseStep, MppCloseStep, GoneStep
  <2>2. ASSUME NEW i \in 1 .. n
        PROVE  /\ s # 4 + 8 * n - i /\ s # 4 + 9 * n - i /\ s # 4 + 10 * n - i
               /\ s # 4 + 11 * n - i /\ s # 4 + 12 * n - i /\ s # 4 + 13 * n - i
    BY ChainsCount DEF LoopStep
  <2> QED BY <2>1, <2>2, <1>1, <1>2, <1>3, <1>4, <1>5, <1>6, <1>7, StepIs, Zenon
<1> QED BY <1>8 DEF Made

(* and what those of the teardown destroy. *)
LEMMA TakeIs ==
  ASSUME NEW s \in CloseStep + 1 .. MppCloseStep - 1
  PROVE  \E i \in 1 .. n :
           /\ Program[s].chain = Chains[i] /\ Len(Calls(Program[s])) \in Nat \ {0}
           /\ \A c \in 1 .. Len(Calls(Program[s])) :
                /\ Calls(Program[s])[c] \in Own
                /\ DownStep(Calls(Program[s])[c], i) = s /\ DownCall(Calls(Program[s])[c]) = c
           /\ Program[s].kind = "close" => Program[s].obj \in Classes
           /\ \A d \in Classes :
                DownStep(First(d), i) = s <=> Program[s].kind = "close" /\ Program[s].obj = d
<1> DEFINE Taken(i) ==
      /\ Program[s].chain = Chains[i] /\ Len(Calls(Program[s])) \in Nat \ {0}
      /\ \A c \in 1 .. Len(Calls(Program[s])) :
           /\ Calls(Program[s])[c] \in Own
           /\ DownStep(Calls(Program[s])[c], i) = s /\ DownCall(Calls(Program[s])[c]) = c
      /\ Program[s].kind = "close" => Program[s].obj \in Classes
      /\ \A d \in Classes :
           DownStep(First(d), i) = s <=> Program[s].kind = "close" /\ Program[s].obj = d
<1>1. ASSUME NEW i \in 1 .. n, s = 4 + 8 * n - i PROVE Taken(i)
  <2>1. Program[s] = StepOf("stop", "bind_venc", Chains[i])
    BY <1>1, DownSteps, Zenon
  <2>2. Calls(Program[s]) = <<"bind_venc">>
    BY <2>1, CallsAre, Zenon
  <2>3. Program[s].kind = "stop" /\ Program[s].obj = "bind_venc" /\ Program[s].chain = Chains[i]
    BY <2>1 DEF StepOf
  <2>4. Len(Calls(Program[s])) \in Nat \ {0}
    BY <2>2
  <2>5. ASSUME NEW c \in 1 .. Len(Calls(Program[s]))
        PROVE  /\ Calls(Program[s])[c] \in Own
               /\ DownStep(Calls(Program[s])[c], i) = s /\ DownCall(Calls(Program[s])[c]) = c
    BY <1>1, <2>2, OwnIs DEF DownStep, DownCall
  <2>6. \A d \in Classes :
          DownStep(First(d), i) = s <=> Program[s].kind = "close" /\ Program[s].obj = d
    BY <1>1, <2>3, ChainsCount DEF DownStep, First, Classes
  <2>7. Program[s].kind = "close" => Program[s].obj \in Classes
    BY <2>3 DEF Classes
  <2> QED BY <2>3, <2>4, <2>5, <2>6, <2>7
<1>2. ASSUME NEW i \in 1 .. n, s = 4 + 9 * n - i PROVE Taken(i)
  <2>1. Program[s] = StepOf("stop", "bind_vo", Chains[i])
    BY <1>2, DownSteps, Zenon
  <2>2. Calls(Program[s]) = <<"bind_vo">>
    BY <2>1, CallsAre, Zenon
  <2>3. Program[s].kind = "stop" /\ Program[s].obj = "bind_vo" /\ Program[s].chain = Chains[i]
    BY <2>1 DEF StepOf
  <2>4. Len(Calls(Program[s])) \in Nat \ {0}
    BY <2>2
  <2>5. ASSUME NEW c \in 1 .. Len(Calls(Program[s]))
        PROVE  /\ Calls(Program[s])[c] \in Own
               /\ DownStep(Calls(Program[s])[c], i) = s /\ DownCall(Calls(Program[s])[c]) = c
    BY <1>2, <2>2, OwnIs DEF DownStep, DownCall
  <2>6. \A d \in Classes :
          DownStep(First(d), i) = s <=> Program[s].kind = "close" /\ Program[s].obj = d
    BY <1>2, <2>3, ChainsCount DEF DownStep, First, Classes
  <2>7. Program[s].kind = "close" => Program[s].obj \in Classes
    BY <2>3 DEF Classes
  <2> QED BY <2>3, <2>4, <2>5, <2>6, <2>7
<1>3. ASSUME NEW i \in 1 .. n, s = 4 + 10 * n - i PROVE Taken(i)
  <2>1. Program[s] = StepOf("stop", "bind_vi", Chains[i])
    BY <1>3, DownSteps, Zenon
  <2>2. Calls(Program[s]) = <<"bind_vi">>
    BY <2>1, CallsAre, Zenon
  <2>3. Program[s].kind = "stop" /\ Program[s].obj = "bind_vi" /\ Program[s].chain = Chains[i]
    BY <2>1 DEF StepOf
  <2>4. Len(Calls(Program[s])) \in Nat \ {0}
    BY <2>2
  <2>5. ASSUME NEW c \in 1 .. Len(Calls(Program[s]))
        PROVE  /\ Calls(Program[s])[c] \in Own
               /\ DownStep(Calls(Program[s])[c], i) = s /\ DownCall(Calls(Program[s])[c]) = c
    BY <1>3, <2>2, OwnIs DEF DownStep, DownCall
  <2>6. \A d \in Classes :
          DownStep(First(d), i) = s <=> Program[s].kind = "close" /\ Program[s].obj = d
    BY <1>3, <2>3, ChainsCount DEF DownStep, First, Classes
  <2>7. Program[s].kind = "close" => Program[s].obj \in Classes
    BY <2>3 DEF Classes
  <2> QED BY <2>3, <2>4, <2>5, <2>6, <2>7
<1>4. ASSUME NEW i \in 1 .. n, s = 4 + 11 * n - i PROVE Taken(i)
  <2>1. Program[s] = StepOf("close", "venc", Chains[i])
    BY <1>4, DownSteps, Zenon
  <2>2. Calls(Program[s]) = <<"venc_reg", "venc_chn", "venc_grp">>
    BY <2>1, CallsAre, Zenon
  <2>3. Program[s].kind = "close" /\ Program[s].obj = "venc" /\ Program[s].chain = Chains[i]
    BY <2>1 DEF StepOf
  <2>4. Len(Calls(Program[s])) \in Nat \ {0}
    BY <2>2
  <2>5. ASSUME NEW c \in 1 .. Len(Calls(Program[s]))
        PROVE  /\ Calls(Program[s])[c] \in Own
               /\ DownStep(Calls(Program[s])[c], i) = s /\ DownCall(Calls(Program[s])[c]) = c
    BY <1>4, <2>2, OwnIs DEF DownStep, DownCall
  <2>6. \A d \in Classes :
          DownStep(First(d), i) = s <=> Program[s].kind = "close" /\ Program[s].obj = d
    BY <1>4, <2>3, ChainsCount DEF DownStep, First, Classes
  <2>7. Program[s].kind = "close" => Program[s].obj \in Classes
    BY <2>3 DEF Classes
  <2> QED BY <2>3, <2>4, <2>5, <2>6, <2>7
<1>5. ASSUME NEW i \in 1 .. n, s = 4 + 12 * n - i PROVE Taken(i)
  <2>1. Program[s] = StepOf("close", "vo", Chains[i])
    BY <1>5, DownSteps, Zenon
  <2>2. Calls(Program[s]) = <<"vo_chn", "vo_layer", "vo_dev">>
    BY <2>1, CallsAre, Zenon
  <2>3. Program[s].kind = "close" /\ Program[s].obj = "vo" /\ Program[s].chain = Chains[i]
    BY <2>1 DEF StepOf
  <2>4. Len(Calls(Program[s])) \in Nat \ {0}
    BY <2>2
  <2>5. ASSUME NEW c \in 1 .. Len(Calls(Program[s]))
        PROVE  /\ Calls(Program[s])[c] \in Own
               /\ DownStep(Calls(Program[s])[c], i) = s /\ DownCall(Calls(Program[s])[c]) = c
    BY <1>5, <2>2, OwnIs DEF DownStep, DownCall
  <2>6. \A d \in Classes :
          DownStep(First(d), i) = s <=> Program[s].kind = "close" /\ Program[s].obj = d
    BY <1>5, <2>3, ChainsCount DEF DownStep, First, Classes
  <2>7. Program[s].kind = "close" => Program[s].obj \in Classes
    BY <2>3 DEF Classes
  <2> QED BY <2>3, <2>4, <2>5, <2>6, <2>7
<1>6. ASSUME NEW i \in 1 .. n, s = 4 + 13 * n - i PROVE Taken(i)
  <2>1. Program[s] = StepOf("close", "vpss", Chains[i])
    BY <1>6, DownSteps, Zenon
  <2>2. Calls(Program[s]) = <<"vpss_run", "vpss_chns", "vpss_grp">>
    BY <2>1, CallsAre, Zenon
  <2>3. Program[s].kind = "close" /\ Program[s].obj = "vpss" /\ Program[s].chain = Chains[i]
    BY <2>1 DEF StepOf
  <2>4. Len(Calls(Program[s])) \in Nat \ {0}
    BY <2>2
  <2>5. ASSUME NEW c \in 1 .. Len(Calls(Program[s]))
        PROVE  /\ Calls(Program[s])[c] \in Own
               /\ DownStep(Calls(Program[s])[c], i) = s /\ DownCall(Calls(Program[s])[c]) = c
    BY <1>6, <2>2, OwnIs DEF DownStep, DownCall
  <2>6. \A d \in Classes :
          DownStep(First(d), i) = s <=> Program[s].kind = "close" /\ Program[s].obj = d
    BY <1>6, <2>3, ChainsCount DEF DownStep, First, Classes
  <2>7. Program[s].kind = "close" => Program[s].obj \in Classes
    BY <2>3 DEF Classes
  <2> QED BY <2>3, <2>4, <2>5, <2>6, <2>7
<1> HIDE DEF Taken
<1>7. \E i \in 1 .. n : Taken(i)
  <2>1. s \in 1 .. GoneStep /\ s \notin {1, LoopStep, CloseStep, MppCloseStep, GoneStep}
    BY ChainsCount DEF LoopStep, CloseStep, MppCloseStep, GoneStep
  <2>2. ASSUME NEW i \in 1 .. n
        PROVE  /\ s # 1 + i /\ s # n + 2 * i /\ s # n + 2 * i + 1 /\ s # 1 + 3 * n + i
               /\ s # 1 + 4 * n + i /\ s # 1 + 5 * n + i /\ s # 1 + 6 * n + i
    BY ChainsCount DEF CloseStep
  <2> QED BY <2>1, <2>2, <1>1, <1>2, <1>3, <1>4, <1>5, <1>6, StepIs, Zenon
<1> QED BY <1>7 DEF Taken

(* An object is made after what it needs, and destroyed before it. *)
LEMMA Order ==
  ASSUME NEW r \in Own, NEW q \in Needs[r], NEW i \in 1 .. n
  PROVE  /\ q \in Own
         /\ (UpStep(q, i) < UpStep(r, i)
             \/ (UpStep(q, i) = UpStep(r, i) /\ UpCall(q) < UpCall(r)))
         /\ (DownStep(r, i) < DownStep(q, i)
             \/ (DownStep(r, i) = DownStep(q, i) /\ DownCall(r) < DownCall(q)))
BY OwnIs, ChainsCount DEF Needs, UpStep, UpCall, DownStep, DownCall

-----------------------------------------------------------------------------
(* The steps.                                                               *)

(* Where main() is, by the kind of its step. *)
LEMMA KindAt ==
  ASSUME at \in 1 .. Len(Program)
  PROVE  /\ at \in 1 .. GoneStep
         /\ Step.kind = "mpp_init" <=> at = 1
         /\ Step.kind \in {"init", "start"} <=> at \in 2 .. LoopStep - 1
         /\ Step.kind = "loop" <=> at = LoopStep
         /\ Step.kind = "trans_close" <=> at = CloseStep
         /\ Step.kind \in {"close", "stop"} <=> at \in CloseStep + 1 .. MppCloseStep - 1
         /\ Step.kind = "mpp_close" <=> at = MppCloseStep
         /\ Step.kind = "gone" <=> at = GoneStep
<1>1. at \in 1 .. GoneStep
  BY ProgramIs
<1>2. \/ at = 1 \/ at \in 2 .. LoopStep - 1 \/ at = LoopStep \/ at = CloseStep
      \/ at \in CloseStep + 1 .. MppCloseStep - 1 \/ at = MppCloseStep \/ at = GoneStep
  BY <1>1, ChainsCount DEF LoopStep, CloseStep, MppCloseStep, GoneStep
<1>3. /\ at = 1 => Step.kind = "mpp_init"
      /\ at \in 2 .. LoopStep - 1 => Step.kind \in {"init", "start"}
      /\ at = LoopStep => Step.kind = "loop"
      /\ at = CloseStep => Step.kind = "trans_close"
      /\ at \in CloseStep + 1 .. MppCloseStep - 1 => Step.kind \in {"close", "stop"}
      /\ at = MppCloseStep => Step.kind = "mpp_close"
      /\ at = GoneStep => Step.kind = "gone"
  BY <1>1, KindIs, Zenon DEF Step, Makes, Takes
<1> QED BY <1>1, <1>2, <1>3

LEMMA CallsCount ==
  ASSUME NEW s \in 1 .. GoneStep
  PROVE  Len(Calls(Program[s])) \in Nat \ {0}
<1>1. CASE s \in {1, LoopStep, CloseStep, MppCloseStep, GoneStep}
  BY <1>1, ProgramIs, SystemCallsAre
<1>2. CASE s \in 2 .. LoopStep - 1
  BY <1>2, MakeIs
<1>3. CASE s \in CloseStep + 1 .. MppCloseStep - 1
  BY <1>3, TakeIs
<1> QED
  BY <1>1, <1>2, <1>3, ChainsCount DEF LoopStep, CloseStep, MppCloseStep, GoneStep

(* The next call is there. *)
LEMMA NextIs ==
  ASSUME at \in 1 .. Len(Program), k \in 1 .. Len(Calls(Step)), at # GoneStep
  PROVE  /\ NextStep => /\ at' \in 1 .. Len(Program) /\ (k \in 1 .. Len(Calls(Step)))'
                        /\ at' = at + 1 /\ k' = 1
         /\ NextCall => /\ at' \in 1 .. Len(Program) /\ (k \in 1 .. Len(Calls(Step)))'
                        /\ at' \in {at, at + 1}
<1>1. at \in 1 .. GoneStep /\ at + 1 \in 1 .. GoneStep
  BY ProgramIs, ChainsCount DEF GoneStep
<1>2. ASSUME NextStep
      PROVE  at' \in 1 .. Len(Program) /\ (k \in 1 .. Len(Calls(Step)))' /\ at' = at + 1
             /\ k' = 1
  <2>1. at' = at + 1 /\ k' = 1
    BY <1>2 DEF NextStep
  <2>2. Len(Calls(Program[at'])) \in Nat \ {0}
    BY <1>1, <2>1, CallsCount
  <2> QED BY <1>1, <2>1, <2>2, ProgramIs DEF Step
<1>3. ASSUME NextCall, ~LastCall
      PROVE  at' \in 1 .. Len(Program) /\ (k \in 1 .. Len(Calls(Step)))' /\ at' = at
  <2>1. at' = at /\ k' = k + 1
    BY <1>3 DEF NextCall
  <2>2. Len(Calls(Program[at])) \in Nat
    BY <1>1, CallsCount
  <2> QED BY <1>3, <2>1, <2>2 DEF Step, LastCall
<1> QED BY <1>2, <1>3 DEF NextCall

(* What main() has done after a call, and when it leaves a step early. *)
LEMMA PastCall ==
  ASSUME at \in Nat, k \in 1 .. Len(Calls(Step)), NextCall,
         NEW s \in Int, NEW c \in Nat \ {0}, s = at => c \in 1 .. Len(Calls(Step))
  PROVE  Past(s, c)' <=> (Past(s, c) \/ (s = at /\ c = k))
<1>1. CASE LastCall
  BY <1>1 DEF NextCall, NextStep, LastCall, Past
<1>2. CASE ~LastCall
  BY <1>2 DEF NextCall, LastCall, Past
<1> QED BY <1>1, <1>2

LEMMA PastStep ==
  ASSUME at \in Nat, k \in Nat, NextStep, NEW s \in Int, NEW c \in Nat \ {0}, s # at
  PROVE  Past(s, c)' <=> Past(s, c)
BY DEF NextStep, Past

LEMMA RequiresIs ==
  ASSUME NEW r \in ChainObjects, NEW c
  PROVE  Requires(<<r, c>>) = {<<q, c>> : q \in Needs[r]} \cup {Sys}
BY OwnIs DEF Requires, Sys

LEMMA RequiresSystem ==
  ASSUME NEW m \in MppObjects
  PROVE  Requires(<<m, "mpp">>) \subseteq {Vb, Sys}
BY DEF Requires, MppObjects, Vb, Sys

(* While nothing failed in the i-th chain, the SDK has to accept a call that *)
(* makes one of its objects.                                                 *)
LEMMA CanMake ==
  ASSUME IInv, at \in 2 .. LoopStep - 1, NEW r \in Own, NEW i \in 1 .. n,
         UpStep(r, i) = at, UpCall(r) = k, Chains[i] \notin faulted
  PROVE  CanCreate(<<r, Chains[i]>>)
<1>1. "mpp" \notin faulted
  BY ChainsAre DEF IInv, Shared
<1>2. Sys \in have
  BY <1>1, ChainsCount DEF IInv, SystemUp, LoopStep, MppCloseStep
<1>3. \A q \in Own : <<q, Chains[i]>> \in have <=> Expected(q, i)
  BY ChainsCount DEF IInv, ChainsWhole, WholeChain, LoopStep
<1>4. <<r, Chains[i]>> \notin have
  <2>1. ~Past(UpStep(r, i), UpCall(r))
    BY ChainsCount DEF IInv, TypeOK, Past, LoopStep
  <2> QED BY <1>3, <2>1 DEF Expected
<1>5. ASSUME NEW q \in Needs[r] PROVE <<q, Chains[i]>> \in have
  <2>1. q \in Own
    BY Order
  <2>2. Past(UpStep(q, i), UpCall(q))
    BY Order DEF Past
  <2>3. ~Past(DownStep(q, i), DownCall(q))
    <3>1. DownStep(q, i) \in CloseStep + 1 .. MppCloseStep - 1
      BY <2>1, DownIs
    <3> QED BY <3>1, ChainsCount DEF Past, CloseStep, LoopStep, MppCloseStep
  <2> QED BY <1>3, <2>1, <2>2, <2>3 DEF Expected
<1>6. r \in ChainObjects
  BY OwnIs
<1> QED BY <1>2, <1>4, <1>5, <1>6, RequiresIs DEF CanCreate

(* After a call of the start-up every chain without failures is one object  *)
(* further, or where it was.                                                *)
LEMMA CreateChains ==
  ASSUME IInv, CreateCall, at \in 2 .. LoopStep - 1
  PROVE  ChainsWhole' /\ (refused \subseteq faulted)'
<1> DEFINE r == Calls(Step)[k]
<1>1. at \in 1 .. Len(Program) /\ k \in 1 .. Len(Calls(Step)) /\ at \in Nat /\ k \in Nat
        /\ at # GoneStep
  <2>1. at \in 1 .. Len(Program) /\ k \in 1 .. Len(Calls(Step))
    BY DEF IInv, TypeOK
  <2>2. at \in Nat /\ at # GoneStep
    BY ChainsCount DEF LoopStep, GoneStep
  <2>3. k \in Nat
    BY <2>1
  <2> QED BY <2>1, <2>2, <2>3
<1>2. PICK i \in 1 .. n :
        /\ Step.chain = Chains[i]
        /\ r \in Own /\ UpStep(r, i) = at /\ UpCall(r) = k
        /\ Step.kind = "init" => Step.obj \in Classes
        /\ \A d \in Classes : UpStep(First(d), i) = at <=> Step.kind = "init" /\ Step.obj = d
  BY <1>1, MakeIs DEF Step
<1>3. Object = <<r, Chains[i]>>
  BY <1>2 DEF Object
<1>4. Chains[i] \notin faulted => CanCreate(Object)
  BY <1>2, <1>3, CanMake
<1>5. \A q \in Own, j \in 1 .. n :
        /\ UpStep(q, j) = at => j = i /\ (UpCall(q) = k => q = r)
        /\ UpStep(q, j) \in Int /\ UpCall(q) \in Nat \ {0}
        /\ UpStep(q, j) = at => UpCall(q) \in 1 .. Len(Calls(Step))
  <2> SUFFICES ASSUME NEW q \in Own, NEW j \in 1 .. n
               PROVE  /\ UpStep(q, j) = at => j = i /\ (UpCall(q) = k => q = r)
                      /\ UpStep(q, j) \in Int /\ UpCall(q) \in Nat \ {0}
                      /\ UpStep(q, j) = at => UpCall(q) \in 1 .. Len(Calls(Step))
    OBVIOUS
  <2>1. /\ UpStep(q, j) \in 2 .. LoopStep - 1 /\ Program[UpStep(q, j)].chain = Chains[j]
        /\ UpCall(q) \in 1 .. Len(Calls(Program[UpStep(q, j)]))
        /\ Calls(Program[UpStep(q, j)])[UpCall(q)] = q
    BY UpIs
  <2>2. UpStep(q, j) \in Int /\ UpCall(q) \in Nat \ {0}
    BY <2>1
  <2>3. UpStep(q, j) = at => j = i
    BY <1>2, <2>1, ChainsAre DEF Step
  <2>4. UpStep(q, j) = at /\ UpCall(q) = k => q = r
    BY <2>1 DEF Step
  <2>5. UpStep(q, j) = at => UpCall(q) \in 1 .. Len(Calls(Step))
    BY <2>1 DEF Step
  <2> QED BY <2>2, <2>3, <2>4, <2>5
<1>6. at' \in {at, at + 1} /\ at' > 1 /\ at' <= LoopStep
  <2>1. NextStep \/ NextCall
    BY DEF CreateCall
  <2> QED BY <1>1, <2>1, NextIs, ChainsCount DEF LoopStep
<1>7. \A q \in Own, j \in 1 .. n :
        ~Past(DownStep(q, j), DownCall(q)) /\ ~Past(DownStep(q, j), DownCall(q))'
  <2> SUFFICES ASSUME NEW q \in Own, NEW j \in 1 .. n
               PROVE  ~Past(DownStep(q, j), DownCall(q)) /\ ~Past(DownStep(q, j), DownCall(q))'
    OBVIOUS
  <2>1. DownStep(q, j) \in CloseStep + 1 .. MppCloseStep - 1
    BY DownIs
  <2> QED BY <1>6, <2>1, ChainsCount DEF Past, CloseStep, LoopStep, MppCloseStep
<1>8. CASE CanCreate(Object) /\ Succeeds /\ have' = have \cup {Object} /\ NextCall
             /\ inits' = IF Step.kind = "init" /\ LastCall THEN inits \cup {Owner} ELSE inits
  <2>1. \A q \in Own, j \in 1 .. n :
          Past(UpStep(q, j), UpCall(q))' <=>
            (Past(UpStep(q, j), UpCall(q)) \/ (UpStep(q, j) = at /\ UpCall(q) = k))
    BY <1>1, <1>5, <1>8, PastCall
  <2> SUFFICES ASSUME NEW j \in 1 .. n, Chains[j] \notin faulted
               PROVE  /\ \A q \in Own : <<q, Chains[j]>> \in have' <=> Expected(q, j)'
                      /\ Recv(Chains[j]) \in have' <=> trans' = "on"
                      /\ \A d \in Classes : <<d, Chains[j]>> \in inits' <=> Open(d, j)'
    BY <1>6, <1>8 DEF ChainsWhole, WholeChain, Succeeds, IInv, NeverRefused
  <2>2. /\ \A q \in Own : <<q, Chains[j]>> \in have <=> Expected(q, j)
        /\ Recv(Chains[j]) \in have <=> trans = "on"
        /\ \A d \in Classes : <<d, Chains[j]>> \in inits <=> Open(d, j)
    BY ChainsCount DEF IInv, ChainsWhole, WholeChain, LoopStep
  <2>3. ASSUME NEW q \in Own PROVE <<q, Chains[j]>> \in have' <=> Expected(q, j)'
    <3>1. <<q, Chains[j]>> \in have' <=>
            (<<q, Chains[j]>> \in have \/ (q = r /\ Chains[j] = Chains[i]))
      BY <1>3, <1>8
    <3>2. (q = r /\ Chains[j] = Chains[i]) <=> (UpStep(q, j) = at /\ UpCall(q) = k)
      BY <1>2, <1>5, ChainsAre
    <3>3. Expected(q, j)' <=> Past(UpStep(q, j), UpCall(q))'
      BY <1>7 DEF Expected
    <3>4. Expected(q, j) <=> Past(UpStep(q, j), UpCall(q))
      BY <1>7 DEF Expected
    <3> QED BY <2>1, <2>2, <3>1, <3>2, <3>3, <3>4
  <2>4. Recv(Chains[j]) \in have' <=> trans' = "on"
    <3>1. Recv(Chains[j]) # Object
      BY <1>2, <1>3, OwnIs DEF Recv
    <3>2. trans' = trans
      BY DEF CreateCall
    <3> QED BY <1>8, <2>2, <3>1, <3>2
  <2>5. ASSUME NEW d \in Classes PROVE <<d, Chains[j]>> \in inits' <=> Open(d, j)'
    <3>1. First(d) \in Own
      BY OwnIs DEF First, Classes
    <3>2. UpStep(First(d), j) \in Int /\ (UpStep(First(d), j) = at => j = i)
      BY <1>5, <3>1
    <3>3. at <= DownStep(First(d), j) /\ at' <= DownStep(First(d), j)
      <4>1. DownStep(First(d), j) \in CloseStep + 1 .. MppCloseStep - 1
        BY <3>1, DownIs
      <4> QED BY <1>6, <4>1, ChainsCount DEF CloseStep, LoopStep, MppCloseStep
    <3>4. Open(d, j)' <=> UpStep(First(d), j) < at'
      BY <3>3 DEF Open
    <3>5. Open(d, j) <=> UpStep(First(d), j) < at
      BY <3>3 DEF Open
    <3>6. CASE Step.kind = "init" /\ LastCall
      <4>1. at' = at + 1
        BY <1>8, <3>6 DEF NextCall, NextStep
      <4>2. <<d, Chains[j]>> \in inits' <=>
              (<<d, Chains[j]>> \in inits \/ (d = Step.obj /\ Chains[j] = Chains[i]))
        BY <1>2, <1>8, <3>6 DEF Owner
      <4>3. (d = Step.obj /\ Chains[j] = Chains[i]) <=> UpStep(First(d), j) = at
        BY <1>2, <3>2, <3>6, ChainsAre
      <4> QED BY <1>1, <2>2, <3>2, <3>4, <3>5, <4>1, <4>2, <4>3
    <3>7. CASE Step.kind = "init" /\ ~LastCall
      <4>1. at' = at /\ inits' = inits
        BY <1>8, <3>7 DEF NextCall
      <4> QED BY <2>2, <3>4, <3>5, <4>1
    <3>8. CASE Step.kind # "init"
      <4>1. inits' = inits /\ UpStep(First(d), j) # at
        BY <1>2, <1>8, <3>2, <3>8
      <4> QED BY <1>1, <1>6, <2>2, <3>2, <3>4, <3>5, <4>1
    <3> QED BY <3>6, <3>7, <3>8
  <2> QED BY <2>3, <2>4, <2>5
<1>9. CASE Fails(CanCreate(Object)) /\ NextStep /\ UNCHANGED <<inits, have>>
  <2>1. faulted \subseteq faulted' /\ Chains[i] \in faulted' /\ refused' \subseteq faulted'
    BY <1>2, <1>4, <1>9, ChainsAre DEF Fails, IInv, NeverRefused
  <2> SUFFICES ASSUME NEW j \in 1 .. n, Chains[j] \notin faulted'
               PROVE  /\ \A q \in Own : <<q, Chains[j]>> \in have' <=> Expected(q, j)'
                      /\ Recv(Chains[j]) \in have' <=> trans' = "on"
                      /\ \A d \in Classes : <<d, Chains[j]>> \in inits' <=> Open(d, j)'
    BY <1>6, <2>1 DEF ChainsWhole, WholeChain
  <2>2. j # i /\ Chains[j] \notin faulted
    BY <2>1
  <2>3. /\ \A q \in Own : <<q, Chains[j]>> \in have <=> Expected(q, j)
        /\ Recv(Chains[j]) \in have <=> trans = "on"
        /\ \A d \in Classes : <<d, Chains[j]>> \in inits <=> Open(d, j)
    BY <2>2, ChainsCount DEF IInv, ChainsWhole, WholeChain, LoopStep
  <2>4. \A q \in Own : Past(UpStep(q, j), UpCall(q))' <=> Past(UpStep(q, j), UpCall(q))
    BY <1>1, <1>5, <1>9, <2>2, PastStep
  <2>5. have' = have /\ inits' = inits /\ trans' = trans
    BY <1>9 DEF CreateCall
  <2>6. \A q \in Own : <<q, Chains[j]>> \in have' <=> Expected(q, j)'
    BY <1>7, <2>3, <2>4, <2>5 DEF Expected
  <2>7. ASSUME NEW d \in Classes PROVE <<d, Chains[j]>> \in inits' <=> Open(d, j)'
    <3>1. First(d) \in Own
      BY OwnIs DEF First, Classes
    <3>2. UpStep(First(d), j) \in Int /\ UpStep(First(d), j) # at
      BY <1>5, <2>2, <3>1
    <3>3. DownStep(First(d), j) \in CloseStep + 1 .. MppCloseStep - 1
      BY <3>1, DownIs
    <3>4. at <= DownStep(First(d), j) /\ at' <= DownStep(First(d), j)
      BY <1>6, <3>3, ChainsCount DEF CloseStep, LoopStep, MppCloseStep
    <3>5. UpStep(First(d), j) < at' <=> UpStep(First(d), j) < at
      BY <1>1, <1>6, <3>2
    <3> QED BY <2>3, <2>5, <3>4, <3>5 DEF Open
  <2> QED BY <2>3, <2>5, <2>6, <2>7
<1> QED BY <1>8, <1>9 DEF CreateCall

LEMMA CreateInv == IInv /\ CreateCall => IInv'
<1> SUFFICES ASSUME IInv, CreateCall PROVE IInv'
  OBVIOUS
<1>1. at \in 2 .. LoopStep - 1 /\ at \in 1 .. Len(Program) /\ k \in 1 .. Len(Calls(Step))
        /\ at # GoneStep
  <2>1. at \in 1 .. Len(Program) /\ k \in 1 .. Len(Calls(Step))
    BY DEF IInv, TypeOK
  <2>2. at \in 2 .. LoopStep - 1
    BY <2>1, KindAt DEF CreateCall
  <2> QED BY <2>1, <2>2, ChainsCount DEF LoopStep, GoneStep
<1>2. ChainsWhole' /\ NeverRefused'
  BY <1>1, CreateChains DEF NeverRefused
<1>3. PICK i \in 1 .. n :
        /\ Step.chain = Chains[i] /\ Calls(Step)[k] \in Own
        /\ Step.kind = "init" => Step.obj \in Classes
  BY <1>1, MakeIs DEF Step
<1>4. Chains[i] \in ChainSet /\ Chains[i] # "mpp" /\ Object \in ChainObjects \X ChainSet
        /\ (Step.kind = "init" => Owner \in Classes \X ChainSet)
  BY <1>3, ChainsAre, OwnIs DEF Object, Owner
<1>5. /\ at' \in 1 .. Len(Program) /\ (k \in 1 .. Len(Calls(Step)))' /\ at' \in {at, at + 1}
  BY <1>1, NextIs DEF CreateCall
<1>6. /\ have \subseteq have' /\ have' \subseteq have \cup {Object}
      /\ inits \subseteq inits' /\ inits' \subseteq inits \cup (Classes \X ChainSet)
      /\ trans' = trans /\ lives' = lives
  BY <1>4 DEF CreateCall
<1>7. /\ faulted \subseteq faulted' /\ faulted' \subseteq faulted \cup {Chains[i]}
      /\ refused' \subseteq refused \cup {Chains[i]} /\ faults' \in 0 .. MaxFaults
  BY <1>3, <1>4, PipelineAssumption DEF CreateCall, Fails, Succeeds, IInv, TypeOK
<1>8. TypeOK'
  <2>1. have' \subseteq (ChainObjects \X ChainSet) \cup (MppObjects \X {"mpp"})
    BY <1>4, <1>6 DEF IInv, TypeOK
  <2>2. inits' \subseteq ({"vpss", "vo", "venc"} \X ChainSet) \cup {<<"mpp", "mpp">>}
    BY <1>6 DEF IInv, TypeOK, Classes
  <2>3. faulted' \subseteq ChainSet \cup {"mpp"} /\ refused' \subseteq ChainSet \cup {"mpp"}
    BY <1>4, <1>7 DEF IInv, TypeOK
  <2>4. trans' \in {"off", "on", "dead"} /\ lives' \in 1 .. MaxLives
    BY <1>6 DEF IInv, TypeOK
  <2> QED BY <1>5, <1>7, <2>1, <2>2, <2>3, <2>4 DEF TypeOK
<1>9. Shared'
  <2>1. trans = "off"
    BY <1>1, ChainsCount DEF IInv, Shared, LoopStep, CloseStep
  <2> QED BY <1>4, <1>6, <1>7, <2>1 DEF IInv, Shared
<1>10. SystemUp'
  <2> SUFFICES ASSUME "mpp" \notin faulted' PROVE SystemUp'
    BY DEF SystemUp
  <2>1. "mpp" \notin faulted /\ 1 < at /\ at < MppCloseStep /\ at < GoneStep
    BY <1>1, <1>7, ChainsCount DEF LoopStep, MppCloseStep, GoneStep
  <2>2. <<"mpp", "mpp">> \in inits' /\ {Vb, Sys, Mem} \subseteq have'
    BY <1>6, <2>1 DEF IInv, SystemUp
  <2>3. 1 < at' /\ at' < MppCloseStep /\ at' < GoneStep
    BY <1>1, <1>5, ChainsCount DEF LoopStep, MppCloseStep, GoneStep
  <2> QED BY <2>2, <2>3, ChainsCount DEF SystemUp, MppCloseStep, GoneStep
<1> QED BY <1>2, <1>8, <1>9, <1>10 DEF IInv

(* Skip passes over a step whose object is not there to be made or taken.   *)
LEMMA SkipInv == IInv /\ Skip => IInv'
<1> SUFFICES ASSUME IInv, Skip PROVE IInv'
  OBVIOUS
<1>1. at \in 1 .. Len(Program) /\ k \in 1 .. Len(Calls(Step)) /\ at \in 1 .. GoneStep
        /\ (at \in 2 .. LoopStep - 1 \/ at \in CloseStep + 1 .. MppCloseStep - 1)
  <2>1. at \in 1 .. Len(Program) /\ k \in 1 .. Len(Calls(Step))
    BY DEF IInv, TypeOK
  <2> QED BY <2>1, KindAt DEF Skip
<1>2. 1 < at /\ at < MppCloseStep /\ at < GoneStep /\ at # LoopStep /\ at # CloseStep
        /\ at \in Nat /\ k \in Nat
  BY <1>1, ChainsCount DEF LoopStep, CloseStep, MppCloseStep, GoneStep
<1>3. /\ at' \in 1 .. Len(Program) /\ (k \in 1 .. Len(Calls(Step)))' /\ at' = at + 1
  BY <1>1, <1>2, NextIs DEF Skip
<1>4. TypeOK'
  BY <1>3 DEF Skip, IInv, TypeOK
<1>5. NeverRefused' /\ Shared'
  BY <1>2 DEF Skip, IInv, NeverRefused, Shared
<1>6. SystemUp'
  <2> SUFFICES ASSUME "mpp" \notin faulted' PROVE SystemUp'
    BY DEF SystemUp
  <2>1. <<"mpp", "mpp">> \in inits' /\ {Vb, Sys, Mem} \subseteq have'
    BY <1>2 DEF IInv, SystemUp, Skip
  <2>2. at' # 1 /\ 1 < at' /\ at' <= MppCloseStep /\ at' < GoneStep /\ k' = 1
    BY <1>2, <1>3, ChainsCount DEF MppCloseStep, GoneStep, Skip, NextStep
  <2> QED BY <2>1, <2>2, ChainsCount DEF SystemUp, MppCloseStep, GoneStep
<1>7. ASSUME NEW j \in 1 .. n, Chains[j] \notin faulted
      PROVE  /\ \A q \in Own : UpStep(q, j) # at /\ DownStep(q, j) # at
             /\ \A q \in Own : UpStep(q, j) \in Int /\ UpCall(q) \in Nat \ {0}
             /\ \A q \in Own : DownStep(q, j) \in Int /\ DownCall(q) \in Nat \ {0}
  <2>1. \A d \in Classes : <<d, Chains[j]>> \in inits <=> Open(d, j)
    BY <1>2, <1>7 DEF IInv, ChainsWhole, WholeChain
  <2>2. ASSUME NEW q \in Own
        PROVE  /\ UpStep(q, j) \in 2 .. LoopStep - 1 /\ UpCall(q) \in Nat \ {0}
               /\ DownStep(q, j) \in CloseStep + 1 .. MppCloseStep - 1
               /\ DownCall(q) \in Nat \ {0}
    <3>1. /\ UpStep(q, j) \in 2 .. LoopStep - 1
          /\ DownStep(q, j) \in CloseStep + 1 .. MppCloseStep - 1
      BY UpIs, DownIs
    <3>2. UpCall(q) \in Nat \ {0} /\ DownCall(q) \in Nat \ {0}
      BY UpIs, DownIs
    <3> QED BY <3>1, <3>2
  <2>3. CASE at \in 2 .. LoopStep - 1
    <3>1. \A q \in Own : DownStep(q, j) # at
      BY <2>2, <2>3, ChainsCount DEF LoopStep, CloseStep, MppCloseStep
    <3>2. PICK i \in 1 .. n :
            /\ Step.chain = Chains[i]
            /\ Step.kind = "init" => Step.obj \in Classes
            /\ Step.kind = "start" /\ Step.obj = StartChannel => UpStep("vo_dev", i) < at
            /\ \A d \in Classes :
                 UpStep(First(d), i) = at <=> Step.kind = "init" /\ Step.obj = d
      BY <2>3, MakeIs DEF Step
    <3>3. i # j
      <4> SUFFICES ASSUME i = j PROVE FALSE
        OBVIOUS
      <4>1. \A d \in Classes :
              /\ UpStep(First(d), j) \in Int
              /\ at <= DownStep(First(d), j)
        <5> SUFFICES ASSUME NEW d \in Classes
                     PROVE  UpStep(First(d), j) \in Int /\ at <= DownStep(First(d), j)
          OBVIOUS
        <5>1. First(d) \in Own
          BY OwnIs DEF First, Classes
        <5>2. UpStep(First(d), j) \in 2 .. LoopStep - 1
                /\ DownStep(First(d), j) \in CloseStep + 1 .. MppCloseStep - 1
          BY <2>2, <5>1
        <5> QED BY <2>3, <5>2, ChainsCount DEF LoopStep, CloseStep, MppCloseStep
      <4>2. CASE Step.kind = "init"
        <5>1. Step.obj \in Classes /\ UpStep(First(Step.obj), j) = at
          BY <3>2, <4>2
        <5>2. <<Step.obj, Chains[j]>> \in inits
          BY <3>2, <4>2 DEF Skip, Guarded, Owner
        <5> QED BY <1>2, <2>1, <5>1, <5>2 DEF Open
      <4>3. CASE Step.kind = "start"
        <5>1. Step.obj = StartChannel /\ <<"vo", Chains[j]>> \notin inits
          BY <3>2, <4>3 DEF Skip, Guarded
        <5>2. UpStep("vo_dev", j) < at /\ at <= DownStep("vo_dev", j)
          BY <3>2, <4>1, <4>3, <5>1 DEF First, Classes
        <5> QED BY <2>1, <5>1, <5>2 DEF Open, First, Classes
      <4>4. Step.kind \in {"init", "start"}
        BY <1>1, <2>3, KindAt
      <4> QED BY <4>2, <4>3, <4>4
    <3>4. \A q \in Own : UpStep(q, j) # at
      BY <3>2, <3>3, UpIs, ChainsAre DEF Step
    <3> QED BY <2>2, <3>1, <3>4
  <2>4. CASE at \in CloseStep + 1 .. MppCloseStep - 1
    <3>1. \A q \in Own : UpStep(q, j) # at
      BY <2>2, <2>4, ChainsCount DEF LoopStep, CloseStep, MppCloseStep
    <3>2. PICK i \in 1 .. n :
            /\ Step.chain = Chains[i]
            /\ Step.kind = "close" => Step.obj \in Classes
            /\ \A d \in Classes :
                 DownStep(First(d), i) = at <=> Step.kind = "close" /\ Step.obj = d
      BY <2>4, TakeIs DEF Step
    <3>3. i # j
      <4> SUFFICES ASSUME i = j PROVE FALSE
        OBVIOUS
      <4>1. Step.kind = "close" /\ Owner \notin inits
        <5>1. Step.kind \in {"close", "stop"}
          BY <1>1, <2>4, KindAt
        <5> QED BY <5>1 DEF Skip, Guarded
      <4>2. Step.obj \in Classes /\ DownStep(First(Step.obj), j) = at
        BY <3>2, <4>1
      <4>3. First(Step.obj) \in Own
        BY <4>2, OwnIs DEF First, Classes
      <4>4. UpStep(First(Step.obj), j) < at
        <5>1. UpStep(First(Step.obj), j) \in 2 .. LoopStep - 1
          BY <2>2, <4>3
        <5> QED BY <2>4, <5>1, ChainsCount DEF LoopStep, CloseStep, MppCloseStep
      <4>5. Open(Step.obj, j)
        BY <1>2, <4>2, <4>4 DEF Open
      <4> QED BY <2>1, <3>2, <4>1, <4>2, <4>5 DEF Owner
    <3>4. \A q \in Own : DownStep(q, j) # at
      BY <3>2, <3>3, DownIs, ChainsAre DEF Step
    <3> QED BY <2>2, <3>1, <3>4
  <2> QED BY <1>1, <2>3, <2>4
<1>8. ChainsWhole'
  <2> SUFFICES ASSUME NEW j \in 1 .. n, Chains[j] \notin faulted
               PROVE  /\ \A q \in Own : <<q, Chains[j]>> \in have' <=> Expected(q, j)'
                      /\ Recv(Chains[j]) \in have' <=> trans' = "on"
                      /\ \A d \in Classes : <<d, Chains[j]>> \in inits' <=> Open(d, j)'
    BY <1>2, <1>3 DEF ChainsWhole, WholeChain, Skip
  <2>1. /\ \A q \in Own : <<q, Chains[j]>> \in have <=> Expected(q, j)
        /\ Recv(Chains[j]) \in have <=> trans = "on"
        /\ \A d \in Classes : <<d, Chains[j]>> \in inits <=> Open(d, j)
    BY <1>2 DEF IInv, ChainsWhole, WholeChain
  <2>2. have' = have /\ inits' = inits /\ trans' = trans
    BY DEF Skip
  <2>3. \A q \in Own :
          /\ Past(UpStep(q, j), UpCall(q))' <=> Past(UpStep(q, j), UpCall(q))
          /\ Past(DownStep(q, j), DownCall(q))' <=> Past(DownStep(q, j), DownCall(q))
    BY <1>2, <1>7, PastStep DEF Skip
  <2>4. \A q \in Own : <<q, Chains[j]>> \in have' <=> Expected(q, j)'
    BY <2>1, <2>2, <2>3 DEF Expected
  <2>5. ASSUME NEW d \in Classes PROVE <<d, Chains[j]>> \in inits' <=> Open(d, j)'
    <3>1. First(d) \in Own
      BY OwnIs DEF First, Classes
    <3>2. /\ UpStep(First(d), j) \in Int /\ UpStep(First(d), j) # at
          /\ DownStep(First(d), j) \in Int /\ DownStep(First(d), j) # at
      BY <1>7, <3>1
    <3> QED BY <1>2, <1>3, <2>1, <2>2, <3>2 DEF Open
  <2> QED BY <2>1, <2>2, <2>4, <2>5
<1> QED BY <1>4, <1>5, <1>6, <1>8 DEF IInv

(* While nothing failed in the i-th chain, what the teardown destroys is     *)
(* there, and nothing needs it any more.                                     *)
LEMMA CanTake ==
  ASSUME IInv, at \in CloseStep + 1 .. MppCloseStep - 1, NEW r \in Own, NEW i \in 1 .. n,
         DownStep(r, i) = at, DownCall(r) = k, Chains[i] \notin faulted
  PROVE  CanDestroy(<<r, Chains[i]>>)
<1>1. k \in Int /\ trans = "off" /\ at > 1
  BY ChainsCount DEF IInv, TypeOK, Shared, LoopStep, CloseStep, MppCloseStep
<1>2. /\ \A q \in Own : <<q, Chains[i]>> \in have <=> Expected(q, i)
      /\ Recv(Chains[i]) \in have <=> trans = "on"
  BY <1>1 DEF IInv, ChainsWhole, WholeChain
<1>3. <<r, Chains[i]>> \in have
  <2>1. UpStep(r, i) \in 2 .. LoopStep - 1
    BY UpIs
  <2>2. Past(UpStep(r, i), UpCall(r)) /\ ~Past(DownStep(r, i), DownCall(r))
    BY <1>1, <2>1, ChainsCount DEF Past, LoopStep, CloseStep, MppCloseStep
  <2> QED BY <1>2, <2>2 DEF Expected
<1>4. ASSUME NEW q \in ChainObjects, NEW c \in ChainSet, <<q, c>> \in have,
             <<r, Chains[i]>> \in Requires(<<q, c>>)
      PROVE  FALSE
  <2>1. c = Chains[i] /\ r \in Needs[q]
    BY <1>4, RequiresIs, ChainsAre DEF Sys
  <2>2. q # "recv"
    BY <1>1, <1>2, <1>4, <2>1 DEF Recv
  <2>3. q \in Own
    BY <2>2, OwnIs
  <2>4. ~Past(DownStep(q, i), DownCall(q))
    BY <1>2, <1>4, <2>1, <2>3 DEF Expected
  <2>5. DownStep(q, i) < at \/ (DownStep(q, i) = at /\ DownCall(q) < k)
    BY <2>1, <2>3, Order
  <2> QED BY <2>4, <2>5 DEF Past
<1>5. ASSUME NEW q \in have PROVE <<r, Chains[i]>> \notin Requires(q)
  <2>1. q \in (ChainObjects \X ChainSet) \cup (MppObjects \X {"mpp"})
    BY DEF IInv, TypeOK
  <2>2. CASE q \in ChainObjects \X ChainSet
    BY <1>4, <2>2
  <2>3. CASE q \in MppObjects \X {"mpp"}
    <3>1. PICK m \in MppObjects : q = <<m, "mpp">>
      BY <2>3
    <3>2. <<r, Chains[i]>> \notin {Vb, Sys}
      BY ChainsAre DEF Vb, Sys
    <3> QED BY <3>1, <3>2, RequiresSystem
  <2> QED BY <2>1, <2>2, <2>3
<1> QED BY <1>3, <1>5 DEF CanDestroy

LEMMA DestroyInv == IInv /\ DestroyCall => IInv'
<1> SUFFICES ASSUME IInv, DestroyCall PROVE IInv'
  OBVIOUS
<1> DEFINE r == Calls(Step)[k]
<1>1. at \in CloseStep + 1 .. MppCloseStep - 1 /\ at \in 1 .. Len(Program)
        /\ k \in 1 .. Len(Calls(Step)) /\ at \in 1 .. GoneStep
  <2>1. at \in 1 .. Len(Program) /\ k \in 1 .. Len(Calls(Step))
    BY DEF IInv, TypeOK
  <2> QED BY <2>1, KindAt DEF DestroyCall
<1>2. at \in Nat /\ k \in Nat /\ 1 < at /\ CloseStep < at /\ LoopStep < at /\ at < MppCloseStep
        /\ at < GoneStep
  BY <1>1, ChainsCount DEF LoopStep, CloseStep, MppCloseStep, GoneStep
<1>3. PICK i \in 1 .. n :
        /\ Step.chain = Chains[i]
        /\ r \in Own /\ DownStep(r, i) = at /\ DownCall(r) = k
        /\ Step.kind = "close" => Step.obj \in Classes
        /\ \A d \in Classes : DownStep(First(d), i) = at <=> Step.kind = "close" /\ Step.obj = d
  BY <1>1, TakeIs DEF Step
<1>4. Object = <<r, Chains[i]>> /\ Owner = <<Step.obj, Chains[i]>> /\ Chains[i] \in ChainSet
        /\ Chains[i] # "mpp"
  BY <1>3, ChainsAre DEF Object, Owner
<1>5. /\ at' \in 1 .. Len(Program) /\ (k \in 1 .. Len(Calls(Step)))' /\ at' \in {at, at + 1}
      /\ NextCall /\ trans' = trans /\ lives' = lives
  BY <1>1, <1>2, NextIs DEF DestroyCall
<1>6. /\ have' \subseteq have
      /\ \A q, c : <<q, c>> \in have /\ c # Chains[i] => <<q, c>> \in have'
      /\ inits' = IF Step.kind = "close" /\ LastCall THEN inits \ {Owner} ELSE inits
  BY <1>3, <1>4 DEF DestroyCall
<1>7. Chains[i] \notin faulted => CanDestroy(Object)
  BY <1>1, <1>3, <1>4, CanTake
<1>8. /\ faulted \subseteq faulted' /\ faulted' \subseteq faulted \cup {Chains[i]}
      /\ refused' \subseteq refused \cup {Chains[i]} /\ faults' \in 0 .. MaxFaults
      /\ refused' \subseteq faulted'
      /\ Chains[i] \notin faulted' =>
           have' = have \ ({Object} \cup IF Object[1] = "venc_chn"
                                         THEN {<<"venc_cnt", Step.chain>>} ELSE {})
  BY <1>3, <1>4, <1>7, PipelineAssumption
     DEF DestroyCall, Fails, Succeeds, IInv, TypeOK, NeverRefused
<1>9. TypeOK'
  <2>1. have' \subseteq (ChainObjects \X ChainSet) \cup (MppObjects \X {"mpp"})
    BY <1>6 DEF IInv, TypeOK
  <2>2. inits' \subseteq ({"vpss", "vo", "venc"} \X ChainSet) \cup {<<"mpp", "mpp">>}
    BY <1>6 DEF IInv, TypeOK
  <2>3. faulted' \subseteq ChainSet \cup {"mpp"} /\ refused' \subseteq ChainSet \cup {"mpp"}
    BY <1>4, <1>8 DEF IInv, TypeOK
  <2>4. trans' \in {"off", "on", "dead"} /\ lives' \in 1 .. MaxLives
    BY <1>5 DEF IInv, TypeOK
  <2> QED BY <1>5, <1>8, <2>1, <2>2, <2>3, <2>4 DEF TypeOK
<1>10. trans = "off"
  BY <1>2 DEF IInv, Shared
<1>11. Shared'
  BY <1>4, <1>5, <1>8, <1>10 DEF IInv, Shared
<1>12. SystemUp'
  <2> SUFFICES ASSUME "mpp" \notin faulted' PROVE SystemUp'
    BY DEF SystemUp
  <2>1. <<"mpp", "mpp">> \in inits /\ {Vb, Sys, Mem} \subseteq have
    BY <1>2, <1>8 DEF IInv, SystemUp
  <2>2. <<"mpp", "mpp">> \in inits' /\ {Vb, Sys, Mem} \subseteq have'
    BY <1>4, <1>6, <2>1 DEF Vb, Sys, Mem
  <2>3. at' # 1 /\ 1 < at' /\ at' < GoneStep /\ (at' = MppCloseStep => k' = 1)
    <3>1. at' # at => k' = 1
      BY <1>5 DEF NextCall, NextStep
    <3> QED BY <1>1, <1>2, <1>5, <3>1, ChainsCount DEF MppCloseStep, GoneStep, CloseStep
  <2> QED BY <2>2, <2>3, ChainsCount DEF SystemUp, MppCloseStep, GoneStep
<1>13. \A q \in Own, j \in 1 .. n :
         /\ DownStep(q, j) = at => j = i
         /\ DownStep(q, i) = at /\ DownCall(q) = k <=>
              (q = r \/ (q = "venc_cnt" /\ r = "venc_chn"))
         /\ DownStep(q, j) \in Int /\ DownCall(q) \in Nat \ {0}
         /\ DownStep(q, j) = at => DownCall(q) \in 1 .. Len(Calls(Step))
  <2> SUFFICES ASSUME NEW q \in Own, NEW j \in 1 .. n
               PROVE  /\ DownStep(q, j) = at => j = i
                      /\ DownStep(q, i) = at /\ DownCall(q) = k <=>
                           (q = r \/ (q = "venc_cnt" /\ r = "venc_chn"))
                      /\ DownStep(q, j) \in Int /\ DownCall(q) \in Nat \ {0}
                      /\ DownStep(q, j) = at => DownCall(q) \in 1 .. Len(Calls(Step))
    OBVIOUS
  <2>1. /\ DownStep(q, j) \in CloseStep + 1 .. MppCloseStep - 1
        /\ Program[DownStep(q, j)].chain = Chains[j]
        /\ DownCall(q) \in 1 .. Len(Calls(Program[DownStep(q, j)]))
    BY DownIs
  <2>2. Calls(Program[DownStep(q, i)])[DownCall(q)] = IF q = "venc_cnt" THEN "venc_chn" ELSE q
    BY DownIs
  <2>3. Calls(Program[DownStep(r, i)])[DownCall(r)] = IF r = "venc_cnt" THEN "venc_chn" ELSE r
    BY <1>3, DownIs
  <2>4. DownStep(q, j) = at => j = i
    BY <1>3, <2>1, ChainsAre DEF Step
  <2>5. r # "venc_cnt"
    BY <1>3, <2>3 DEF Step
  <2>6. DownStep(q, i) = at /\ DownCall(q) = k => (q = r \/ (q = "venc_cnt" /\ r = "venc_chn"))
    BY <2>2, <2>5 DEF Step
  <2>7. /\ DownStep("venc_cnt", i) = DownStep("venc_chn", i)
        /\ DownCall("venc_cnt") = DownCall("venc_chn")
    BY DEF DownStep, DownCall
  <2>8. (q = r \/ (q = "venc_cnt" /\ r = "venc_chn")) => (DownStep(q, i) = at /\ DownCall(q) = k)
    BY <1>3, <2>7
  <2>9. DownStep(q, j) = at => DownCall(q) \in 1 .. Len(Calls(Step))
    BY <2>1 DEF Step
  <2> QED BY <2>1, <2>4, <2>6, <2>8, <2>9
<1>14. ASSUME NEW j \in 1 .. n, Chains[j] \notin faulted'
       PROVE  /\ \A q \in Own : <<q, Chains[j]>> \in have' <=> Expected(q, j)'
              /\ Recv(Chains[j]) \in have' <=> trans' = "on"
              /\ \A d \in Classes : <<d, Chains[j]>> \in inits' <=> Open(d, j)'
  <2>1. /\ \A q \in Own : <<q, Chains[j]>> \in have <=> Expected(q, j)
        /\ Recv(Chains[j]) \in have <=> trans = "on"
        /\ \A d \in Classes : <<d, Chains[j]>> \in inits <=> Open(d, j)
    BY <1>2, <1>8, <1>14 DEF IInv, ChainsWhole, WholeChain
  <2>2. ASSUME NEW q \in Own
        PROVE  /\ UpStep(q, j) < at /\ UpStep(q, j) < at'
               /\ Past(UpStep(q, j), UpCall(q)) /\ Past(UpStep(q, j), UpCall(q))'
    <3>1. UpStep(q, j) \in 2 .. LoopStep - 1
      BY UpIs
    <3> QED BY <1>2, <1>5, <3>1, ChainsCount DEF Past, LoopStep
  <2>3. ASSUME NEW q \in Own
        PROVE  Past(DownStep(q, j), DownCall(q))' <=>
                 (Past(DownStep(q, j), DownCall(q))
                    \/ (DownStep(q, j) = at /\ DownCall(q) = k))
    BY <1>1, <1>2, <1>5, <1>13, PastCall
  <2>4. ASSUME NEW q \in Own
        PROVE  <<q, Chains[j]>> \in have' <=>
                 (<<q, Chains[j]>> \in have /\ ~(DownStep(q, j) = at /\ DownCall(q) = k))
    <3>1. CASE j = i
      <4>1. have' = have \ ({<<r, Chains[i]>>} \cup IF r = "venc_chn"
                                                  THEN {<<"venc_cnt", Chains[i]>>} ELSE {})
        BY <1>3, <1>4, <1>8, <1>14, <3>1
      <4>2. <<q, Chains[i]>> \in have' <=>
              (<<q, Chains[i]>> \in have /\ ~(q = r \/ (q = "venc_cnt" /\ r = "venc_chn")))
        BY <4>1
      <4> QED BY <1>13, <3>1, <4>2
    <3>2. CASE j # i
      <4>1. Chains[j] # Chains[i] /\ DownStep(q, j) # at
        BY <1>13, <3>2, ChainsAre
      <4> QED BY <1>6, <4>1
    <3> QED BY <3>1, <3>2
  <2>5. \A q \in Own : <<q, Chains[j]>> \in have' <=> Expected(q, j)'
    BY <2>1, <2>2, <2>3, <2>4 DEF Expected
  <2>6. Recv(Chains[j]) \in have' <=> trans' = "on"
    BY <1>5, <1>6, <1>10, <2>1
  <2>7. ASSUME NEW d \in Classes PROVE <<d, Chains[j]>> \in inits' <=> Open(d, j)'
    <3>1. First(d) \in Own
      BY OwnIs DEF First, Classes
    <3>2. /\ UpStep(First(d), j) < at /\ UpStep(First(d), j) < at'
          /\ DownStep(First(d), j) \in Int /\ (DownStep(First(d), j) = at => j = i)
      BY <1>13, <2>2, <3>1
    <3>3. Open(d, j) <=> at <= DownStep(First(d), j)
      BY <3>2 DEF Open
    <3>4. Open(d, j)' <=> at' <= DownStep(First(d), j)
      BY <3>2 DEF Open
    <3>5. CASE Step.kind = "close" /\ LastCall
      <4>1. at' = at + 1
        BY <1>5, <3>5 DEF NextCall, NextStep
      <4>2. <<d, Chains[j]>> \in inits' <=>
              (<<d, Chains[j]>> \in inits /\ ~(d = Step.obj /\ Chains[j] = Chains[i]))
        BY <1>4, <1>6, <3>5
      <4>3. (d = Step.obj /\ Chains[j] = Chains[i]) <=> DownStep(First(d), j) = at
        BY <1>3, <3>2, <3>5, ChainsAre
      <4> QED BY <1>2, <2>1, <3>2, <3>3, <3>4, <4>1, <4>2, <4>3
    <3>6. CASE Step.kind = "close" /\ ~LastCall
      <4>1. at' = at /\ inits' = inits
        BY <1>5, <1>6, <3>6 DEF NextCall
      <4> QED BY <2>1, <3>3, <3>4, <4>1
    <3>7. CASE Step.kind # "close"
      <4>1. inits' = inits /\ DownStep(First(d), j) # at
        BY <1>3, <1>6, <3>2, <3>7
      <4> QED BY <1>2, <1>5, <2>1, <3>2, <3>3, <3>4, <4>1
    <3> QED BY <3>5, <3>6, <3>7
  <2> QED BY <2>5, <2>6, <2>7
<1>15. ChainsWhole'
  BY <1>2, <1>5, <1>14 DEF ChainsWhole, WholeChain
<1> QED BY <1>8, <1>9, <1>11, <1>12, <1>15 DEF IInv, NeverRefused

(* Between the start-up and the teardown, and behind it, main() makes and    *)
(* destroys nothing of the chains.                                           *)
LEMMA Still ==
  ASSUME at \in {LoopStep, CloseStep, MppCloseStep}, at' = at \/ (at' = at + 1 /\ k' = 1),
         NEW j \in 1 .. n
  PROVE  /\ \A q \in Own : Expected(q, j)' <=> Expected(q, j)
         /\ \A d \in Classes : Open(d, j)' <=> Open(d, j)
         /\ at = LoopStep => \A q \in Own : Expected(q, j)
         /\ at = MppCloseStep => \A q \in Own : ~Expected(q, j)
<1>1. \A q \in Own : UpStep(q, j) \in 2 .. LoopStep - 1
                     /\ DownStep(q, j) \in CloseStep + 1 .. MppCloseStep - 1
  BY UpIs, DownIs
<1>2. ASSUME NEW q \in Own
      PROVE  /\ UpStep(q, j) < at /\ UpStep(q, j) < at'
             /\ (at < DownStep(q, j) /\ at' <= DownStep(q, j) /\ at # MppCloseStep)
                \/ (DownStep(q, j) < at /\ DownStep(q, j) < at' /\ at = MppCloseStep)
  BY <1>1, ChainsCount DEF LoopStep, CloseStep, MppCloseStep
<1>3. ASSUME NEW q \in Own
      PROVE  /\ Expected(q, j)' <=> Expected(q, j)
             /\ at = LoopStep => Expected(q, j)
             /\ at = MppCloseStep => ~Expected(q, j)
  <2>1. DownCall(q) \in Nat \ {0}
    BY DownIs
  <2>2. Past(UpStep(q, j), UpCall(q)) /\ Past(UpStep(q, j), UpCall(q))'
    BY <1>2 DEF Past
  <2>3. CASE at = MppCloseStep
    <3>1. Past(DownStep(q, j), DownCall(q)) /\ Past(DownStep(q, j), DownCall(q))'
      BY <1>2, <2>3 DEF Past
    <3>2. at # LoopStep
      BY <2>3, ChainsCount DEF LoopStep, MppCloseStep
    <3> QED BY <2>2, <2>3, <3>1, <3>2 DEF Expected
  <2>4. CASE at # MppCloseStep
    <3>1. at \in Int /\ DownStep(q, j) \in Int /\ at < DownStep(q, j) /\ at' <= DownStep(q, j)
      BY <1>1, <1>2, <2>4, ChainsCount DEF LoopStep, CloseStep, MppCloseStep
    <3>2. ~Past(DownStep(q, j), DownCall(q)) /\ ~Past(DownStep(q, j), DownCall(q))'
      BY <2>1, <3>1 DEF Past
    <3> QED BY <2>2, <2>4, <3>2 DEF Expected
  <2> QED BY <2>3, <2>4
<1>4. ASSUME NEW d \in Classes PROVE Open(d, j)' <=> Open(d, j)
  <2>1. First(d) \in Own
    BY OwnIs DEF First, Classes
  <2>2. /\ UpStep(First(d), j) < at /\ UpStep(First(d), j) < at'
        /\ at <= DownStep(First(d), j) <=> at' <= DownStep(First(d), j)
    <3>1. /\ UpStep(First(d), j) \in 2 .. LoopStep - 1
          /\ DownStep(First(d), j) \in CloseStep + 1 .. MppCloseStep - 1
      BY <1>1, <2>1
    <3> QED BY <3>1, ChainsCount DEF LoopStep, CloseStep, MppCloseStep
  <2> QED BY <2>2 DEF Open
<1> QED BY <1>3, <1>4

LEMMA MppInitInv == IInv /\ MppInitCall => IInv'
<1> SUFFICES ASSUME IInv, MppInitCall PROVE IInv'
  OBVIOUS
<1>1. at = 1 /\ k \in 1 .. 5 /\ Step = StepOf("mpp_init", "mpp", "mpp")
        /\ Calls(Step) = <<"exit_sys", "exit_vb", "vb", "sys", "mem">>
  <2>1. at \in 1 .. Len(Program) /\ k \in 1 .. Len(Calls(Step))
    BY DEF IInv, TypeOK
  <2>2. at = 1
    BY <2>1, KindAt DEF MppInitCall
  <2>3. Step = StepOf("mpp_init", "mpp", "mpp")
    BY <2>2, ProgramIs DEF Step
  <2> QED BY <2>1, <2>2, <2>3, SystemCallsAre
<1>2. Step.chain = "mpp" /\ Owner = <<"mpp", "mpp">> /\ (LastCall <=> k = 5)
  BY <1>1 DEF StepOf, Owner, LastCall
<1>3. /\ k = 1 => Object = <<"exit_sys", "mpp">>
      /\ k = 2 => Object = <<"exit_vb", "mpp">>
      /\ k = 3 => Object = Vb
      /\ k = 4 => Object = Sys
      /\ k = 5 => Object = Mem
  BY <1>1, <1>2 DEF Object, Vb, Sys, Mem
<1>4. /\ at' \in 1 .. Len(Program) /\ (k \in 1 .. Len(Calls(Step)))' /\ at' \in {1, 2}
      /\ (at' = 2 => k' = 1)
  <2>1. at \in 1 .. Len(Program) /\ k \in 1 .. Len(Calls(Step)) /\ at # GoneStep
    BY <1>1, ChainsCount DEF IInv, TypeOK, GoneStep
  <2>2. NextStep \/ NextCall
    BY DEF MppInitCall
  <2>3. at' = 2 => k' = 1
    BY <1>1, <2>2 DEF NextCall, NextStep
  <2> QED BY <1>1, <2>1, <2>2, <2>3, NextIs
<1>5. trans = "off" /\ inits = {} /\ trans' = trans /\ lives' = lives
  BY <1>1, ChainsCount DEF IInv, Shared, ChainsWhole, MppInitCall, LoopStep, CloseStep
<1>6. ("mpp" \notin faulted) =>
        /\ k = 2 => have \subseteq {Vb}
        /\ k = 3 => have = {}
        /\ k = 4 => have = {Vb}
        /\ k = 5 => have = {Vb, Sys}
  BY <1>1 DEF IInv, SystemUp
<1>7. Requires(Vb) = {} /\ Requires(Sys) = {Vb} /\ Requires(Mem) = {Sys}
  BY DEF Requires, Vb, Sys, Mem
<1>8. "mpp" \notin faulted => MppLegal
  BY <1>1, <1>3, <1>6, <1>7 DEF MppLegal, CanCreate, Vb, Sys, Mem
<1>9. CASE MppLegal /\ Succeeds /\ have' = MppEffect /\ NextCall
             /\ inits' = IF LastCall THEN inits \cup {Owner} ELSE inits
  <2>1. /\ k = 1 => have' = have \cap {Vb}
        /\ k = 2 => have' = have \ {Vb}
        /\ k = 3 => have' = have \cup {Vb}
        /\ k = 4 => have' = have \cup {Sys}
        /\ k = 5 => have' = have \cup {Mem}
    BY <1>3, <1>9 DEF MppEffect, Vb, Sys, Mem
  <2>2. Vb \in MppObjects \X {"mpp"} /\ Sys \in MppObjects \X {"mpp"}
          /\ Mem \in MppObjects \X {"mpp"}
    BY DEF Vb, Sys, Mem, MppObjects
  <2>3. have' \subseteq (ChainObjects \X ChainSet) \cup (MppObjects \X {"mpp"})
    BY <1>1, <2>1, <2>2 DEF IInv, TypeOK
  <2>4. TypeOK'
    BY <1>2, <1>4, <1>5, <1>9, <2>3 DEF IInv, TypeOK, Succeeds
  <2>5. NeverRefused' /\ Shared'
    BY <1>5, <1>9 DEF IInv, NeverRefused, Shared, Succeeds
  <2>6. /\ k = 5 => at' = 2 /\ inits' = {<<"mpp", "mpp">>}
        /\ k # 5 => at' = 1 /\ k' = k + 1 /\ inits' = {}
    BY <1>1, <1>2, <1>5, <1>9 DEF NextCall, NextStep
  <2>7. SystemUp'
    <3> SUFFICES ASSUME "mpp" \notin faulted PROVE SystemUp'
      BY <1>9 DEF SystemUp, Succeeds
    <3>1. /\ k = 1 => have' \subseteq {Vb}
          /\ k = 2 => have' = {}
          /\ k = 3 => have' = {Vb}
          /\ k = 4 => have' = {Vb, Sys}
          /\ k = 5 => {Vb, Sys, Mem} \subseteq have'
      BY <1>6, <2>1
    <3> QED BY <1>1, <2>6, <3>1, ChainsCount DEF SystemUp, MppCloseStep, GoneStep
  <2>8. ChainsWhole'
    <3> SUFFICES ASSUME NEW j \in 1 .. n, k = 5, Chains[j] \notin faulted
                 PROVE  WholeChain(j)'
      BY <1>9, <2>6 DEF ChainsWhole, Succeeds
    <3>1. "mpp" \notin faulted
      BY ChainsAre DEF IInv, Shared
    <3>2. have' = {Vb, Sys, Mem} /\ at' = 2 /\ k' = 1 /\ inits' = {<<"mpp", "mpp">>}
      BY <1>4, <1>6, <2>1, <2>6, <3>1
    <3>3. ASSUME NEW q \in Own PROVE <<q, Chains[j]>> \notin have' /\ ~Expected(q, j)'
      <4>1. UpStep(q, j) \in 2 .. LoopStep - 1 /\ UpCall(q) \in Nat \ {0}
        BY UpIs
      <4>2. ~Past(UpStep(q, j), UpCall(q))'
        BY <3>2, <4>1, ChainsCount DEF Past, LoopStep
      <4> QED BY <3>2, <4>2, ChainsAre DEF Expected, Vb, Sys, Mem
    <3>4. ASSUME NEW d \in Classes PROVE <<d, Chains[j]>> \notin inits' /\ ~Open(d, j)'
      <4>1. First(d) \in Own
        BY OwnIs DEF First, Classes
      <4>2. UpStep(First(d), j) \in 2 .. LoopStep - 1
        BY <4>1, UpIs
      <4> QED BY <3>2, <4>2, ChainsAre, ChainsCount DEF Open, LoopStep
    <3>5. Recv(Chains[j]) \notin have' /\ trans' # "on"
      BY <1>5, <3>2, ChainsAre DEF Recv, Vb, Sys, Mem
    <3> QED BY <3>3, <3>4, <3>5 DEF WholeChain
  <2> QED BY <2>4, <2>5, <2>7, <2>8 DEF IInv
<1>10. CASE Fails(MppLegal) /\ NextStep /\ UNCHANGED <<inits, have>>
  <2>1. /\ "mpp" \in faulted' /\ ChainSet \subseteq faulted'
        /\ faulted' \subseteq ChainSet \cup {"mpp"} /\ faulted \subseteq faulted'
        /\ refused' \subseteq refused \cup {"mpp"} /\ faults' \in 0 .. MaxFaults
    BY <1>2, <1>8, <1>10, PipelineAssumption DEF Fails, IInv, Shared, TypeOK
  <2>2. at' = 2
    BY <1>1, <1>10 DEF NextStep
  <2>3. TypeOK'
    BY <1>4, <1>5, <1>10, <2>1 DEF IInv, TypeOK
  <2>4. NeverRefused' /\ Shared'
    BY <1>5, <2>1 DEF IInv, NeverRefused, Shared
  <2>5. SystemUp' /\ ChainsWhole'
    BY <2>1, <2>2, ChainsAre DEF SystemUp, ChainsWhole
  <2> QED BY <2>3, <2>4, <2>5 DEF IInv
<1> QED BY <1>9, <1>10 DEF MppInitCall

LEMMA MppCloseInv == IInv /\ MppCloseCall => IInv'
<1> SUFFICES ASSUME IInv, MppCloseCall PROVE IInv'
  OBVIOUS
<1>1. at = MppCloseStep /\ k \in 1 .. 2 /\ Step = StepOf("mpp_close", "mpp", "mpp")
        /\ Calls(Step) = <<"exit_sys", "exit_vb">>
  <2>1. at \in 1 .. Len(Program) /\ k \in 1 .. Len(Calls(Step))
    BY DEF IInv, TypeOK
  <2>2. at = MppCloseStep
    BY <2>1, KindAt DEF MppCloseCall
  <2>3. Step = StepOf("mpp_close", "mpp", "mpp")
    BY <2>2, ProgramIs DEF Step
  <2> QED BY <2>1, <2>2, <2>3, SystemCallsAre
<1>2. Step.chain = "mpp" /\ Owner = <<"mpp", "mpp">> /\ (LastCall <=> k = 2)
  BY <1>1 DEF StepOf, Owner, LastCall
<1>3. /\ k = 1 => Object = <<"exit_sys", "mpp">>
      /\ k = 2 => Object = <<"exit_vb", "mpp">>
  BY <1>1, <1>2 DEF Object
<1>4. /\ at' \in 1 .. Len(Program) /\ (k \in 1 .. Len(Calls(Step)))'
      /\ at' = at \/ (at' = at + 1 /\ k' = 1)
  <2>1. at \in 1 .. Len(Program) /\ k \in 1 .. Len(Calls(Step)) /\ at # GoneStep
    BY <1>1, ChainsCount DEF IInv, TypeOK, GoneStep, MppCloseStep
  <2>2. NextStep \/ NextCall
    BY DEF MppCloseCall
  <2> QED BY <2>1, <2>2, NextIs DEF NextCall, NextStep
<1>5. 1 < at /\ at' > 1 /\ at' # 1 /\ at \in Nat /\ at' \in Nat /\ MppCloseStep + 1 = GoneStep
  BY <1>1, <1>4, ChainsCount DEF MppCloseStep, GoneStep
<1>6. trans = "off" /\ trans' = "off" /\ lives' = lives
  BY <1>1, ChainsCount DEF IInv, Shared, MppCloseCall, LoopStep, CloseStep, MppCloseStep
<1>7. "mpp" \notin faulted =>
        /\ <<"mpp", "mpp">> \in inits /\ MppLegal
        /\ k = 2 => have \subseteq {Vb}
  BY <1>1, <1>3, <1>5, ChainsCount
     DEF IInv, SystemUp, MppLegal, MppCloseStep, GoneStep, Vb
<1>8. have' \subseteq have /\ inits' \subseteq inits /\ inits \subseteq inits' \cup {<<"mpp", "mpp">>}
  BY <1>1, <1>2, <1>3 DEF MppCloseCall, MppEffect
<1>9. /\ faulted \subseteq faulted' /\ faulted' \subseteq ChainSet \cup {"mpp"}
      /\ refused' \subseteq refused \cup {"mpp"} /\ refused' \subseteq faulted'
      /\ faults' \in 0 .. MaxFaults
      /\ "mpp" \in faulted' => ChainSet \subseteq faulted'
  BY <1>2, <1>7, PipelineAssumption
     DEF MppCloseCall, Fails, Succeeds, IInv, TypeOK, Shared, NeverRefused
<1>10. TypeOK'
  <2>1. /\ have' \subseteq (ChainObjects \X ChainSet) \cup (MppObjects \X {"mpp"})
        /\ inits' \subseteq ({"vpss", "vo", "venc"} \X ChainSet) \cup {<<"mpp", "mpp">>}
        /\ refused' \subseteq ChainSet \cup {"mpp"}
    BY <1>8, <1>9 DEF IInv, TypeOK
  <2> QED BY <1>4, <1>6, <1>9, <2>1 DEF IInv, TypeOK
<1>11. Shared' /\ NeverRefused'
  BY <1>6, <1>9 DEF Shared, NeverRefused
<1>12. SystemUp'
  <2> SUFFICES ASSUME "mpp" \notin faulted' PROVE SystemUp'
    BY DEF SystemUp
  <2>1. "mpp" \notin faulted /\ <<"mpp", "mpp">> \in inits
    BY <1>7, <1>9
  <2>2. Succeeds /\ have' = MppEffect /\ NextCall
          /\ inits' = IF LastCall THEN inits \ {Owner} ELSE inits
    BY <1>2, <1>7, <2>1 DEF MppCloseCall, Fails
  <2>3. CASE k = 1
    <3>1. at' = at /\ k' = 2 /\ <<"mpp", "mpp">> \in inits'
      BY <1>2, <2>1, <2>2, <2>3 DEF NextCall
    <3>2. have' \subseteq {Vb}
      BY <1>3, <2>2, <2>3 DEF MppEffect, Vb
    <3> QED BY <1>1, <1>5, <3>1, <3>2, ChainsCount DEF SystemUp, MppCloseStep, GoneStep
  <2>4. CASE k = 2
    <3>1. at' = GoneStep /\ k' = 1 /\ <<"mpp", "mpp">> \notin inits'
      BY <1>1, <1>2, <1>5, <2>2, <2>4 DEF NextCall, NextStep
    <3>2. have' = {}
      BY <1>3, <1>7, <2>1, <2>2, <2>4 DEF MppEffect, Vb
    <3> QED BY <3>1, <3>2, ChainsCount DEF SystemUp, MppCloseStep, GoneStep
  <2> QED BY <1>1, <2>3, <2>4
<1>13. ChainsWhole'
  <2> SUFFICES ASSUME NEW j \in 1 .. n, Chains[j] \notin faulted'
               PROVE  WholeChain(j)'
    BY <1>5 DEF ChainsWhole
  <2>1. WholeChain(j)
    BY <1>5, <1>9 DEF IInv, ChainsWhole
  <2>2. \A q \in Own : <<q, Chains[j]>> \in have' <=> Expected(q, j)'
    BY <1>1, <1>4, <1>8, <2>1, Still DEF WholeChain
  <2>3. Recv(Chains[j]) \in have' <=> trans' = "on"
    BY <1>6, <1>8, <2>1 DEF WholeChain
  <2>4. \A d \in Classes : <<d, Chains[j]>> \in inits' <=> Open(d, j)'
    BY <1>1, <1>4, <1>8, <2>1, Still, ChainsAre DEF WholeChain
  <2> QED BY <2>2, <2>3, <2>4 DEF WholeChain
<1> QED BY <1>10, <1>11, <1>12, <1>13 DEF IInv

-----------------------------------------------------------------------------
(* The transport.                                                           *)

LEMMA StartTransInv == IInv /\ StartTrans => IInv'
<1> SUFFICES ASSUME IInv, StartTrans PROVE IInv'
  OBVIOUS
<1>1. at = LoopStep /\ trans = "off"
  BY KindAt DEF IInv, TypeOK, StartTrans
<1>2. 1 < at /\ at # MppCloseStep /\ at < MppCloseStep /\ at < GoneStep /\ at' = at /\ k' = k
        /\ inits' = inits /\ refused' = refused /\ lives' = lives
  BY <1>1, ChainsCount DEF StartTrans, LoopStep, MppCloseStep, GoneStep
<1>3. PICK m \in 0 .. n :
        /\ have' = have \cup {Recv(Chains[i]) : i \in
                      {j \in 1 .. m : <<"venc_reg", Chains[j]>> \in have}}
        /\ IF m = n
           THEN trans' = "on" /\ UNCHANGED <<faulted, faults>>
           ELSE /\ faults < MaxFaults /\ faults' = faults + 1
                /\ trans' = "dead" /\ faulted' = faulted \cup ChainSet
  BY DEF StartTrans, n
<1>4. have' \subseteq have \cup {Recv(c) : c \in ChainSet} /\ have \subseteq have'
  <2>1. \A i \in 1 .. m : Chains[i] \in ChainSet
    BY ChainsAre
  <2>2. {Recv(Chains[i]) : i \in {j \in 1 .. m : <<"venc_reg", Chains[j]>> \in have}}
          \subseteq {Recv(c) : c \in ChainSet}
    BY <2>1
  <2> QED BY <1>3, <2>2
<1>5. /\ faulted \subseteq faulted' /\ faulted' \subseteq faulted \cup ChainSet
      /\ faults' \in 0 .. MaxFaults /\ trans' \in {"on", "dead"}
      /\ trans' = "dead" => ChainSet \subseteq faulted'
  BY <1>3, PipelineAssumption DEF IInv, TypeOK
<1>6. TypeOK'
  <2>1. {Recv(c) : c \in ChainSet} \subseteq ChainObjects \X ChainSet
    BY OwnIs DEF Recv
  <2>2. have' \subseteq (ChainObjects \X ChainSet) \cup (MppObjects \X {"mpp"})
    BY <1>4, <2>1 DEF IInv, TypeOK
  <2>3. at' \in 1 .. Len(Program) /\ (k \in 1 .. Len(Calls(Step)))'
    BY <1>2 DEF IInv, TypeOK, Step
  <2> QED BY <1>2, <1>5, <2>2, <2>3 DEF IInv, TypeOK
<1>7. NeverRefused' /\ Shared'
  BY <1>1, <1>2, <1>5, ChainsAre DEF IInv, NeverRefused, Shared
<1>8. SystemUp'
  <2>1. "mpp" \notin faulted' => "mpp" \notin faulted
    BY <1>5
  <2> QED BY <1>2, <1>4, <2>1 DEF IInv, SystemUp
<1>9. ChainsWhole'
  <2> SUFFICES ASSUME NEW j \in 1 .. n, Chains[j] \notin faulted'
               PROVE  WholeChain(j)'
    BY <1>2 DEF ChainsWhole
  <2>1. WholeChain(j) /\ m = n /\ trans' = "on"
    BY <1>2, <1>3, ChainsAre DEF IInv, ChainsWhole
  <2>2. "venc_reg" \in Own /\ \A q \in Own : q # "recv"
    BY OwnIs
  <2>3. <<"venc_reg", Chains[j]>> \in have
    BY <1>1, <1>2, <2>1, <2>2, Still DEF WholeChain
  <2>4. Recv(Chains[j]) \in have'
    BY <1>3, <2>1, <2>3
  <2>5. \A q \in Own : <<q, Chains[j]>> \in have' <=> <<q, Chains[j]>> \in have
    BY <1>4, <2>2 DEF Recv
  <2> QED BY <1>1, <1>2, <2>1, <2>4, <2>5, Still DEF WholeChain
<1> QED BY <1>6, <1>7, <1>8, <1>9 DEF IInv

LEMMA TransDiesInv == IInv /\ TransDies => IInv'
<1> SUFFICES ASSUME IInv, TransDies PROVE IInv'
  OBVIOUS
<1>1. /\ faulted' = faulted \cup ChainSet /\ trans' = "dead" /\ trans = "on"
      /\ UNCHANGED <<at, k, inits, have, refused, lives>> /\ faults' \in 0 .. MaxFaults
  BY PipelineAssumption DEF TransDies, IInv, TypeOK
<1>2. TypeOK'
  BY <1>1 DEF IInv, TypeOK, Step
<1>3. NeverRefused' /\ Shared' /\ SystemUp'
  BY <1>1, ChainsAre DEF IInv, NeverRefused, Shared, SystemUp
<1>4. ChainsWhole'
  BY <1>1, ChainsAre DEF IInv, ChainsWhole
<1> QED BY <1>2, <1>3, <1>4 DEF IInv

(* Stopping the transport, and main() going on from the loop.               *)
LEMMA QuietInv ==
  ASSUME IInv, at \in {LoopStep, CloseStep}, at' = at \/ (at' = at + 1 /\ k' = 1),
         at' \in 1 .. Len(Program), (k \in 1 .. Len(Calls(Step)))',
         (CloseTrans \/ (UNCHANGED <<trans, have>> /\ at = LoopStep)),
         at = CloseStep => CloseTrans,
         UNCHANGED <<inits, faulted, refused, faults, lives>>
  PROVE  IInv'
<1>1. 1 < at /\ at' > 1 /\ at < MppCloseStep /\ at < GoneStep /\ at' < GoneStep
        /\ (at' = MppCloseStep => k' = 1) /\ at \in Nat /\ CloseStep = LoopStep + 1
  BY ChainsCount DEF LoopStep, CloseStep, MppCloseStep, GoneStep
<1>2. have' \subseteq have /\ have \subseteq have' \cup {Recv(c) : c \in ChainSet}
        /\ trans' \in {trans, "off"} /\ (trans' # "off" => have' = have /\ at = LoopStep)
  BY DEF CloseTrans
<1>3. TypeOK'
  BY <1>2 DEF IInv, TypeOK
<1>4. NeverRefused' /\ Shared'
  BY <1>1, <1>2 DEF IInv, NeverRefused, Shared
<1>5. SystemUp'
  <2> SUFFICES ASSUME "mpp" \notin faulted PROVE SystemUp'
    BY DEF SystemUp
  <2>1. <<"mpp", "mpp">> \in inits' /\ {Vb, Sys, Mem} \subseteq have
    BY <1>1 DEF IInv, SystemUp
  <2>2. {Vb, Sys, Mem} \subseteq have'
    BY <1>2, <2>1 DEF Vb, Sys, Mem, Recv
  <2> QED BY <1>1, <2>1, <2>2 DEF SystemUp
<1>6. ChainsWhole'
  <2> SUFFICES ASSUME NEW j \in 1 .. n, Chains[j] \notin faulted
               PROVE  WholeChain(j)'
    BY <1>1 DEF ChainsWhole
  <2>1. WholeChain(j)
    BY <1>1 DEF IInv, ChainsWhole
  <2>2. \A q \in Own : <<q, Chains[j]>> \in have' <=> <<q, Chains[j]>> \in have
    BY <1>2, OwnIs DEF Recv
  <2>3. Recv(Chains[j]) \in have' <=> trans' = "on"
    <3>1. CASE UNCHANGED <<trans, have>>
      BY <2>1, <3>1 DEF WholeChain
    <3>2. CASE CloseTrans
      BY <2>1, <3>2, ChainsAre DEF WholeChain, CloseTrans
    <3> QED BY <3>1, <3>2
  <2>4. /\ \A q \in Own : Expected(q, j)' <=> Expected(q, j)
        /\ \A d \in Classes : Open(d, j)' <=> Open(d, j)
    BY Still
  <2> QED BY <2>1, <2>2, <2>3, <2>4 DEF WholeChain
<1> QED BY <1>3, <1>4, <1>5, <1>6 DEF IInv

LEMMA LoopInv == IInv /\ (StopTrans \/ Leave \/ LastCloseTrans) => IInv'
<1> SUFFICES ASSUME IInv, StopTrans \/ Leave \/ LastCloseTrans PROVE IInv'
  OBVIOUS
<1>1. at \in 1 .. Len(Program) /\ k \in 1 .. Len(Calls(Step))
  BY DEF IInv, TypeOK
<1>2. at \in {LoopStep, CloseStep} => at # GoneStep /\ LoopStep # CloseStep
  BY ChainsCount DEF LoopStep, CloseStep, GoneStep
<1>3. CASE StopTrans
  <2>1. at = LoopStep /\ UNCHANGED <<at, k>> /\ CloseTrans
    BY <1>1, <1>3, KindAt DEF StopTrans
  <2>2. at' \in 1 .. Len(Program) /\ (k \in 1 .. Len(Calls(Step)))'
    BY <1>1, <2>1 DEF Step
  <2> QED BY <1>2, <1>3, <2>1, <2>2, QuietInv DEF StopTrans
<1>4. CASE Leave
  <2>1. at = LoopStep /\ NextStep
    BY <1>1, <1>4, KindAt DEF Leave
  <2>2. at' \in 1 .. Len(Program) /\ (k \in 1 .. Len(Calls(Step)))' /\ at' = at + 1 /\ k' = 1
    BY <1>1, <1>2, <2>1, NextIs
  <2> QED BY <1>2, <1>4, <2>1, <2>2, QuietInv DEF Leave
<1>5. CASE LastCloseTrans
  <2>1. at = CloseStep /\ NextStep /\ CloseTrans
    BY <1>1, <1>5, KindAt DEF LastCloseTrans
  <2>2. at' \in 1 .. Len(Program) /\ (k \in 1 .. Len(Calls(Step)))' /\ at' = at + 1 /\ k' = 1
    BY <1>1, <1>2, <2>1, NextIs
  <2> QED BY <1>5, <2>1, <2>2, QuietInv DEF LastCloseTrans
<1> QED BY <1>3, <1>4, <1>5

-----------------------------------------------------------------------------
(* The theorems.                                                            *)

LEMMA InitInv == Init => IInv
<1> SUFFICES ASSUME Init PROVE IInv
  OBVIOUS
<1>1. 1 \in 1 .. GoneStep /\ 1 # MppCloseStep /\ 1 # GoneStep /\ 1 < GoneStep
  BY ChainsCount DEF MppCloseStep, GoneStep
<1>2. at \in 1 .. Len(Program) /\ k \in 1 .. Len(Calls(Step))
  BY <1>1, ProgramIs, CallsCount DEF Init, Step
<1>3. TypeOK
  BY <1>2, PipelineAssumption DEF Init, TypeOK
<1> QED
  BY <1>1, <1>3 DEF Init, IInv, NeverRefused, Shared, SystemUp, ChainsWhole

LEMMA RestartInv == IInv /\ Restart => IInv'
<1> SUFFICES ASSUME IInv, Restart PROVE IInv'
  OBVIOUS
<1>1. 1 \in 1 .. GoneStep /\ 1 # MppCloseStep /\ 1 # GoneStep /\ 1 < GoneStep
  BY ChainsCount DEF MppCloseStep, GoneStep
<1>2. at' \in 1 .. Len(Program) /\ (k \in 1 .. Len(Calls(Step)))'
  BY <1>1, ProgramIs, CallsCount DEF Restart, Step
<1>3. TypeOK'
  BY <1>2, PipelineAssumption DEF Restart, IInv, TypeOK
<1> QED
  BY <1>1, <1>3 DEF Restart, IInv, NeverRefused, Shared, SystemUp, ChainsWhole

(* Whatever fails and whenever the process dies, a chain without failures    *)
(* has at every step of main() exactly the objects made and not yet          *)
(* destroyed, and MPPSystem what its Initialize() or Close() has come to.    *)
THEOREM Invariance == Spec => []IInv
<1>1. IInv /\ [Next]_vars => IInv'
  <2> SUFFICES ASSUME IInv, [Next]_vars PROVE IInv'
    OBVIOUS
  <2>1. ASSUME UNCHANGED vars PROVE IInv'
    BY <2>1 DEF vars, IInv, TypeOK, NeverRefused, Shared, SystemUp, ChainsWhole, WholeChain,
       Expected, Past, Open, Step
  <2>2. CASE Next
    BY <2>1, <2>2, SkipInv, CreateInv, DestroyInv, MppInitInv, MppCloseInv, StartTransInv,
       TransDiesInv, LoopInv, RestartInv DEF Next, Exited
  <2> QED BY <2>1, <2>2
<1> QED BY <1>1, InitInv, PTL DEF Spec

(* Every SDK object and every init_ is one of a chain or of MPPSystem, and    *)
(* main() never runs off its program.                                        *)
THEOREM TypeCorrect == Spec => []TypeOK
<1>1. IInv => TypeOK
  BY DEF IInv
<1> QED BY <1>1, Invariance, PTL

(* main()'s order is right: the SDK refuses a call only in a chain of which   *)
(* a call has failed, whatever an earlier process left behind.               *)
THEOREM OrderIsRight == Spec => []NeverRefused
<1>1. IInv => NeverRefused
  BY DEF IInv
<1> QED BY <1>1, Invariance, PTL

(* In the message loop every chain of which no call failed is complete.      *)
THEOREM FailuresStayInTheirChain == Spec => []CompleteInLoop
<1>1. IInv => CompleteInLoop
  <2> SUFFICES ASSUME IInv, Step.kind = "loop", NEW c \in ChainSet \ faulted,
                      NEW r \in ChainObjects \ {"recv"}
               PROVE  <<r, c>> \in have
    BY DEF CompleteInLoop
  <2>1. at = LoopStep
    BY KindAt DEF IInv, TypeOK
  <2>2. PICK j \in 1 .. n : c = Chains[j]
    BY ChainsAre
  <2>3. WholeChain(j)
    BY <2>1, <2>2, ChainsCount DEF IInv, ChainsWhole, LoopStep
  <2>4. r \in Own
    BY DEF Own
  <2>5. Expected(r, j)
    <3>1. UpStep(r, j) \in 2 .. LoopStep - 1 /\ DownStep(r, j) \in CloseStep + 1 .. MppCloseStep - 1
      BY <2>4, UpIs, DownIs
    <3> QED BY <2>1, <3>1, ChainsCount DEF Expected, Past, LoopStep, CloseStep
  <2> QED BY <2>2, <2>3, <2>4, <2>5 DEF WholeChain
<1> QED BY <1>1, Invariance, PTL

(* When the system is about to go, nothing is left of a chain without        *)
(* failures: its own Close() and UnBind() have taken it down.                 *)
THEOREM TeardownIsComplete == Spec => []CleanBeforeExit
<1>1. IInv => CleanBeforeExit
  <2> SUFFICES ASSUME IInv, Step.kind = "mpp_close", NEW c \in ChainSet \ faulted,
                      NEW r \in have, r[2] = c
               PROVE  FALSE
    BY DEF CleanBeforeExit
  <2>1. at = MppCloseStep
    BY KindAt DEF IInv, TypeOK
  <2>2. PICK j \in 1 .. n : c = Chains[j]
    BY ChainsAre
  <2>3. WholeChain(j) /\ trans = "off"
    BY <2>1, <2>2, ChainsCount
       DEF IInv, ChainsWhole, Shared, MppCloseStep, LoopStep, CloseStep
  <2>4. r \in ChainObjects \X ChainSet
    BY <2>2, ChainsAre DEF IInv, TypeOK
  <2>5. PICK q \in ChainObjects : r = <<q, c>>
    BY <2>4
  <2>6. CASE q = "recv"
    BY <2>2, <2>3, <2>5, <2>6 DEF WholeChain, Recv
  <2>7. CASE q \in Own
    <3>1. UpStep(q, j) \in 2 .. LoopStep - 1 /\ DownStep(q, j) \in CloseStep + 1 .. MppCloseStep - 1
      BY <2>7, UpIs, DownIs
    <3>2. ~Expected(q, j)
      BY <2>1, <3>1, ChainsCount DEF Expected, Past, MppCloseStep
    <3> QED BY <2>2, <2>3, <2>5, <2>7, <3>2 DEF WholeChain
  <2> QED BY <2>5, <2>6, <2>7, OwnIs
<1> QED BY <1>1, Invariance, PTL

(* When the process has ended the SDK has nothing left, unless a call of      *)
(* MPPSystem itself failed.                                                   *)
THEOREM NothingStays == Spec => []NothingLeft
<1>1. IInv => NothingLeft
  BY KindAt DEF IInv, TypeOK, SystemUp, NothingLeft
<1> QED BY <1>1, Invariance, PTL
=============================================================================
