------------------------- MODULE CFGRecoveryProofs -------------------------
(***************************************************************************)
(* Proofs about CFGRecovery for every set of VPCs and registers, every     *)
(* oracle, every max_blocks and every order of the substitution map: the   *)
(* exploration first, then what is recorded along the edges, that full SSA *)
(* is closed and right. The last part is about NativeCfg, which runs it    *)
(* with segments as the oracle until the leaders settle: every image,      *)
(* window and number of passes.                                            *)
(***************************************************************************)
EXTENDS NativeCfg, TLAPS, SequenceTheorems, FiniteSetTheorems,
        WellFoundedInduction

-----------------------------------------------------------------------------
(* The helpers *)

(* get_block keeps every block it finds, adds v at the end if it is new,   *)
(* and never gives a VPC a second block.                                   *)
LEMMA GetBlockProperties ==
    ASSUME NEW L \in Seq(Vpc), IsInjective(L), NEW v \in Vpc
    PROVE  /\ GetBlock(L, v) \in Seq(Vpc)
           /\ IsInjective(GetBlock(L, v))
           /\ Range(GetBlock(L, v)) = Range(L) \cup {v}
           /\ Len(GetBlock(L, v)) \in {Len(L), Len(L) + 1}
           /\ \A i \in 1 .. Len(L) : GetBlock(L, v)[i] = L[i]
<1>1. CASE v \in Range(L)
  BY <1>1 DEF GetBlock
<1>2. CASE v \notin Range(L)
  <2> DEFINE M == Append(L, v)
  <2>1. /\ M \in Seq(Vpc) /\ Len(M) = Len(L) + 1
        /\ \A i \in 1 .. Len(L) : M[i] = L[i]
        /\ M[Len(L) + 1] = v
        /\ DOMAIN M = 1 .. Len(L) + 1
        /\ DOMAIN L = 1 .. Len(L) /\ Len(L) \in Nat
    BY AppendProperties, LenProperties
  <2> HIDE DEF M
  <2>2. \A i \in 1 .. Len(L) : L[i] # v
    BY <1>2, <2>1 DEF Range
  <2>3. IsInjective(M)
    BY <2>1, <2>2 DEF IsInjective
  <2>4. Range(M) = Range(L) \cup {v}
    <3>1. ASSUME NEW x \in Range(M) PROVE x \in Range(L) \cup {v}
      <4>1. PICK i \in 1 .. Len(L) + 1 : x = M[i]
        BY <2>1 DEF Range
      <4>2. i \in 1 .. Len(L) \/ i = Len(L) + 1
        BY <2>1
      <4> QED BY <4>1, <4>2, <2>1 DEF Range
    <3>2. ASSUME NEW x \in Range(L) PROVE x \in Range(M)
      <4>1. PICK i \in 1 .. Len(L) : x = L[i]
        BY <2>1 DEF Range
      <4>2. i \in DOMAIN M /\ M[i] = x
        BY <4>1, <2>1
      <4> QED BY <4>2 DEF Range
    <3>3. v \in Range(M)
      <4>1. Len(L) + 1 \in DOMAIN M
        BY <2>1
      <4> QED BY <4>1, <2>1 DEF Range
    <3> QED BY <3>1, <3>2, <3>3
  <2>5. GetBlock(L, v) = M
    BY <1>2 DEF GetBlock, M
  <2> QED BY <2>1, <2>3, <2>4, <2>5
<1> QED BY <1>1, <1>2

(* vpc_to_block finds the block of every VPC in the table.                 *)
LEMMA IdOfProperties ==
    ASSUME NEW L \in Seq(Vpc), NEW v \in Range(L)
    PROVE  IdOf(L, v) \in 1 .. Len(L) /\ L[IdOf(L, v)] = v
<1>1. \E i \in DOMAIN L : L[i] = v
  BY DEF Range
<1>2. DOMAIN L = 1 .. Len(L)
  BY LenProperties
<1> QED BY <1>1, <1>2 DEF IdOf

(* The table holds as many VPCs as blocks, so max_blocks counts VPCs.      *)
LEMMA TableSize ==
    ASSUME NEW L \in Seq(Vpc), IsInjective(L)
    PROVE  Cardinality(Range(L)) = Len(L) /\ Len(L) \in Nat
<1>1. DOMAIN L = 1 .. Len(L) /\ Len(L) \in Nat
  BY LenProperties
<1> DEFINE n == Len(L)
           T == Range(L)
<1>2. L \in Bijection(1 .. n, T)
  <2>1. L \in [1 .. n -> T]
    <3>1. L \in [1 .. n -> Vpc]
      BY LenProperties
    <3>2. \A i \in 1 .. n : L[i] \in T
      BY <1>1 DEF Range
    <3> QED BY <3>1, <3>2
  <2>2. \A x \in T : \E i \in 1 .. n : L[i] = x
    BY <1>1 DEF Range
  <2> QED BY <2>1, <2>2, <1>1 DEF Bijection, Injection, Surjection, IsInjective
<1>3. IsFiniteSet(1 .. n) /\ Cardinality(1 .. n) = n
  <2>1. 1 \in Int /\ n \in Int /\ (1 > n => n = 0)
    BY <1>1
  <2> QED BY <2>1, <1>1, FS_Interval
<1>4. ExistsBijection(1 .. n, T)
  BY <1>2 DEF ExistsBijection
<1> QED BY <1>1, <1>3, <1>4, FS_Bijection

(* The worklist W is the part of the block table L behind position k.      *)
Aligned(L, W, k) ==
    /\ Len(L) = k + Len(W)
    /\ \A i \in 1 .. Len(W) : W[i] = L[k + i]

(* get_block and enqueue, called together, keep the worklist aligned.      *)
LEMMA EnqueueAligned ==
    ASSUME NEW L \in Seq(Vpc), IsInjective(L), NEW W \in Seq(Vpc), NEW k \in Nat,
           Aligned(L, W, k), NEW v \in Vpc
    PROVE  /\ Enqueue(W, Range(L), v) \in Seq(Vpc)
           /\ Aligned(GetBlock(L, v), Enqueue(W, Range(L), v), k)
<1>1. CASE v \in Range(L)
  BY <1>1 DEF GetBlock, Enqueue
<1>2. CASE v \notin Range(L)
  <2> DEFINE M == Append(L, v)
             X == Append(W, v)
  <2>1. /\ X \in Seq(Vpc)
        /\ Len(M) = Len(L) + 1 /\ Len(X) = Len(W) + 1
        /\ \A i \in 1 .. Len(L) : M[i] = L[i]
        /\ \A i \in 1 .. Len(W) : X[i] = W[i]
        /\ M[Len(L) + 1] = v /\ X[Len(W) + 1] = v
        /\ Len(L) \in Nat /\ Len(W) \in Nat
    BY AppendProperties, LenProperties
  <2> HIDE DEF M, X
  <2>2. Aligned(M, X, k)
    <3>1. Len(M) = k + Len(X)
      BY <2>1 DEF Aligned
    <3>2. ASSUME NEW i \in 1 .. Len(X) PROVE X[i] = M[k + i]
      <4>1. CASE i \in 1 .. Len(W)
        <5>1. k + i \in 1 .. Len(L)
          BY <4>1, <2>1 DEF Aligned
        <5> QED BY <4>1, <5>1, <2>1 DEF Aligned
      <4>2. CASE i = Len(W) + 1
        <5>1. k + i = Len(L) + 1
          BY <4>2, <2>1 DEF Aligned
        <5> QED BY <4>2, <5>1, <2>1
      <4> QED BY <4>1, <4>2, <2>1
    <3> QED BY <3>1, <3>2 DEF Aligned
  <2> QED BY <1>2, <2>1, <2>2 DEF GetBlock, Enqueue, M, X
<1> QED BY <1>1, <1>2

(* In a block table without duplicates, v is among the first b VPCs exactly *)
(* if its block is among the first b blocks.                                *)
LEMMA RankOfTarget ==
    ASSUME NEW L \in Seq(Vpc), IsInjective(L), NEW b \in 0 .. Len(L),
           NEW v \in Range(L)
    PROVE  v \in {L[i] : i \in 1 .. b} <=> IdOf(L, v) <= b
<1> DEFINE s == IdOf(L, v)
<1>1. s \in 1 .. Len(L) /\ L[s] = v
  BY IdOfProperties
<1>2. DOMAIN L = 1 .. Len(L) /\ Len(L) \in Nat
  BY LenProperties
<1> HIDE DEF s
<1>3. ASSUME v \in {L[i] : i \in 1 .. b} PROVE s <= b
  <2>1. PICK i \in 1 .. b : v = L[i]
    BY <1>3
  <2>2. i = s
    BY <2>1, <1>1, <1>2 DEF IsInjective
  <2> QED BY <2>1, <2>2
<1>4. ASSUME s <= b PROVE v \in {L[i] : i \in 1 .. b}
  BY <1>4, <1>1, <1>2
<1> QED BY <1>3, <1>4 DEF s

-----------------------------------------------------------------------------
(* The inductive invariant of the exploration *)

OrderInv ==
    /\ label \in Seq(Vpc)
    /\ worklist \in Seq(Vpc)
    /\ edges \in Seq(Edge)
    /\ label # <<>>
    /\ DiscoveryOrder
    /\ BackEdgeOrder

LEMMA OrderInvInit == ConstantsAssumption /\ Init => OrderInv
<1> SUFFICES ASSUME ConstantsAssumption, Init PROVE OrderInv
  OBVIOUS
<1>1. EntryVpc \in Vpc
  BY DEF ConstantsAssumption
<1>2. label = <<EntryVpc>> /\ worklist = <<EntryVpc>> /\ edges = <<>>
      /\ processed = {} /\ enqueued = {EntryVpc}
  BY DEF Init
<1>3. /\ label \in Seq(Vpc) /\ worklist \in Seq(Vpc) /\ edges \in Seq(Edge)
      /\ label # <<>> /\ Len(label) = 1 /\ Len(worklist) = 1
      /\ DOMAIN label = 1 .. 1 /\ DOMAIN edges = {}
  BY <1>1, <1>2
<1>4. Range(label) = {EntryVpc}
  BY <1>2, <1>3 DEF Range
<1>5. DiscoveryOrder
  BY <1>2, <1>3, <1>4 DEF DiscoveryOrder, Evaluated, Blocks
<1>6. BackEdgeOrder
  BY <1>3 DEF BackEdgeOrder
<1> QED BY <1>3, <1>5, <1>6 DEF OrderInv

(* What dequeuing does: the head of the worklist is the first block not    *)
(* evaluated yet, and the rest of the worklist follows it.                 *)
LEMMA DequeueProperties ==
    ASSUME OrderInv, MayEvaluate, Dequeue
    PROVE  /\ Current = Evaluated + 1
           /\ Current \in 1 .. Len(label)
           /\ Evaluated \in Nat
           /\ Tail(worklist) \in Seq(Vpc)
           /\ Aligned(label, Tail(worklist), Current)
           /\ processed' = {label[i] : i \in 1 .. Current}
           /\ IsInjective(label)
           /\ enqueued = Range(label)
<1> DEFINE h == Head(worklist)
<1>1. /\ label \in Seq(Vpc) /\ worklist \in Seq(Vpc) /\ worklist # <<>>
      /\ Len(label) \in Nat /\ Len(worklist) \in Nat
      /\ DOMAIN label = 1 .. Len(label) /\ DOMAIN worklist = 1 .. Len(worklist)
  BY LenProperties DEF OrderInv, MayEvaluate
<1>2. /\ h = worklist[1]
      /\ Len(worklist) >= 1
      /\ Tail(worklist) \in Seq(Vpc)
      /\ Len(Tail(worklist)) = Len(worklist) - 1
      /\ \A i \in 1 .. Len(Tail(worklist)) : Tail(worklist)[i] = worklist[i + 1]
  BY <1>1, HeadTailProperties, EmptySeq
<1>3. /\ Len(worklist) <= Len(label)
      /\ \A i \in 1 .. Len(worklist) : worklist[i] = label[Evaluated + i]
      /\ processed = {label[i] : i \in 1 .. Evaluated}
      /\ enqueued = Range(label)
      /\ IsInjective(label)
  BY <1>1 DEF OrderInv, DiscoveryOrder, IsInjective, Blocks
<1>4. Evaluated \in Nat /\ Evaluated + 1 \in 1 .. Len(label)
      /\ Len(label) = Evaluated + Len(worklist)
  BY <1>1, <1>2, <1>3 DEF Evaluated
<1>5. h = label[Evaluated + 1]
  BY <1>2, <1>3, <1>1
<1>6. h \in Range(label)
  BY <1>1, <1>4, <1>5 DEF Range
<1>7. Current \in 1 .. Len(label) /\ label[Current] = h
  BY <1>1, <1>6, IdOfProperties DEF Current
<1>8. Current = Evaluated + 1
  BY <1>1, <1>3, <1>4, <1>5, <1>7 DEF IsInjective
<1>9. Aligned(label, Tail(worklist), Current)
  <2>1. Len(label) = Current + Len(Tail(worklist))
    BY <1>1, <1>2, <1>4, <1>8
  <2>2. ASSUME NEW i \in 1 .. Len(Tail(worklist))
        PROVE  Tail(worklist)[i] = label[Current + i]
    <3>1. i + 1 \in 1 .. Len(worklist)
      BY <1>1, <1>2
    <3>2. Tail(worklist)[i] = label[Evaluated + (i + 1)]
      BY <3>1, <1>2, <1>3
    <3>3. Evaluated + (i + 1) = Current + i
      BY <1>8, <1>4
    <3> QED BY <3>2, <3>3
  <2> QED BY <2>1, <2>2 DEF Aligned
<1>10. processed' = {label[i] : i \in 1 .. Current}
  <2>1. processed' = {label[i] : i \in 1 .. Evaluated} \cup {label[Evaluated + 1]}
    BY <1>3, <1>5 DEF Dequeue
  <2>2. 1 .. Current = (1 .. Evaluated) \cup {Evaluated + 1}
    BY <1>4, <1>8
  <2> QED BY <2>1, <2>2
<1> QED BY <1>2, <1>3, <1>4, <1>7, <1>8, <1>9, <1>10

\* An edge of a graph whose first b of n blocks are evaluated.
GoodEdge(e, b, n) ==
    /\ e \in Edge
    /\ e.from \in 1 .. b
    /\ e.to \in 1 .. n
    /\ e.back <=> e.to <= e.from

(* What an iteration leaves makes up the invariant again.                  *)
LEMMA OrderInvRestored ==
    ASSUME NEW L \in Seq(Vpc), NEW W \in Seq(Vpc), NEW b \in 1 .. Len(L),
           IsInjective(L), Aligned(L, W, b), label' = L, worklist' = W,
           processed' = {L[i] : i \in 1 .. b}, enqueued' = Range(L),
           edges' \in Seq(Edge),
           \A i \in 1 .. Len(edges') : GoodEdge(edges'[i], b, Len(L))
    PROVE  OrderInv'
<1>1. /\ Len(L) \in Nat /\ Len(W) \in Nat
      /\ DOMAIN L = 1 .. Len(L) /\ DOMAIN W = 1 .. Len(W)
      /\ DOMAIN edges' = 1 .. Len(edges')
  BY LenProperties
<1>2. L # <<>>
  BY <1>1, EmptySeq
<1>3. Evaluated' = b
  BY <1>1 DEF Evaluated, Aligned
<1>4. DiscoveryOrder'
  BY <1>1, <1>3 DEF DiscoveryOrder, Aligned, Blocks, IsInjective
<1>5. BackEdgeOrder'
  BY <1>1, <1>3 DEF BackEdgeOrder, Blocks, GoodEdge
<1> QED BY <1>2, <1>4, <1>5 DEF OrderInv

(* The edges recorded so far stay good when the graph grows.               *)
LEMMA OldEdgesStayGood ==
    ASSUME OrderInv, NEW b \in Nat, Evaluated <= b, Evaluated \in Nat,
           NEW n \in Nat, Len(label) <= n
    PROVE  \A i \in 1 .. Len(edges) : GoodEdge(edges[i], b, n)
<1>1. /\ Len(label) \in Nat /\ DOMAIN label = 1 .. Len(label)
      /\ DOMAIN edges = 1 .. Len(edges) /\ edges \in [1 .. Len(edges) -> Edge]
  BY LenProperties DEF OrderInv
<1>2. SUFFICES ASSUME NEW i \in 1 .. Len(edges)
               PROVE  GoodEdge(edges[i], b, n)
  OBVIOUS
<1>3. /\ edges[i] \in Edge
      /\ edges[i].from \in 1 .. Evaluated
      /\ edges[i].to \in 1 .. Len(label)
      /\ edges[i].back <=> edges[i].to <= edges[i].from
  BY <1>1 DEF OrderInv, BackEdgeOrder, Blocks
<1> QED BY <1>1, <1>3 DEF GoodEdge

(* An edge added from the block just evaluated is good.                    *)
LEMMA NewEdgeIsGood ==
    ASSUME NEW L \in Seq(Vpc), IsInjective(L), NEW b \in 1 .. Len(L),
           processed' = {L[i] : i \in 1 .. b}, NEW v \in Range(L)
    PROVE  GoodEdge([from |-> b, to |-> IdOf(L, v), back |-> IsBack(v)],
                    b, Len(L))
<1>1. Len(L) \in Nat
  BY LenProperties
<1>2. IdOf(L, v) \in 1 .. Len(L)
  BY IdOfProperties
<1>3. IsBack(v) <=> IdOf(L, v) <= b
  BY <1>1, RankOfTarget DEF IsBack
<1>4. IsBack(v) \in BOOLEAN
  BY DEF IsBack
<1> QED BY <1>1, <1>2, <1>3, <1>4 DEF GoodEdge, Edge

LEMMA OrderInvStop ==
    ASSUME OrderInv, MayEvaluate, NEW kind, EvalStop(kind)
    PROVE  OrderInv'
<1>1. Dequeue /\ label' = label /\ worklist' = Tail(worklist)
      /\ edges' = edges /\ enqueued' = enqueued
  BY DEF EvalStop, Store
<1>2. /\ Current = Evaluated + 1 /\ Current \in 1 .. Len(label)
      /\ Evaluated \in Nat
      /\ Tail(worklist) \in Seq(Vpc)
      /\ Aligned(label, Tail(worklist), Current)
      /\ processed' = {label[i] : i \in 1 .. Current}
      /\ IsInjective(label) /\ enqueued = Range(label)
  BY <1>1, DequeueProperties
<1>3. label \in Seq(Vpc) /\ edges \in Seq(Edge) /\ Len(label) \in Nat
  BY LenProperties DEF OrderInv
<1>4. \A i \in 1 .. Len(edges) : GoodEdge(edges[i], Current, Len(label))
  BY <1>2, <1>3, OldEdgesStayGood
<1> QED BY <1>1, <1>2, <1>3, <1>4, OrderInvRestored

LEMMA OrderInvGoto ==
    ASSUME OrderInv, MayEvaluate, NEW v \in Vpc, NEW out, EvalGoto(v, out)
    PROVE  OrderInv'
<1> DEFINE b == Current
           L == GetBlock(label, v)
           W == Enqueue(Tail(worklist), Range(label), v)
           e == [from |-> b, to |-> IdOf(L, v), back |-> IsBack(v)]
<1>1. Dequeue
  BY DEF EvalGoto
<1>2. /\ b = Evaluated + 1 /\ b \in 1 .. Len(label) /\ Evaluated \in Nat
      /\ Tail(worklist) \in Seq(Vpc)
      /\ Aligned(label, Tail(worklist), b)
      /\ processed' = {label[i] : i \in 1 .. b}
      /\ IsInjective(label) /\ enqueued = Range(label)
  BY <1>1, DequeueProperties
<1>3. label \in Seq(Vpc) /\ edges \in Seq(Edge) /\ Len(label) \in Nat
  BY LenProperties DEF OrderInv
<1>4. /\ L \in Seq(Vpc) /\ IsInjective(L) /\ Range(L) = Range(label) \cup {v}
      /\ Len(L) \in Nat /\ Len(label) <= Len(L)
      /\ \A i \in 1 .. Len(label) : L[i] = label[i]
  <2>1. /\ L \in Seq(Vpc) /\ IsInjective(L) /\ Range(L) = Range(label) \cup {v}
        /\ Len(L) \in {Len(label), Len(label) + 1}
        /\ \A i \in 1 .. Len(label) : L[i] = label[i]
    BY <1>2, <1>3, GetBlockProperties
  <2> QED BY <2>1, <1>3
<1>5. W \in Seq(Vpc) /\ Aligned(L, W, b)
  <2>1. b \in Nat
    BY <1>2, <1>3
  <2> QED BY <2>1, <1>2, <1>3, EnqueueAligned
<1>6. /\ label' = L /\ worklist' = W /\ enqueued' = Range(L)
      /\ edges' = Append(edges, e)
  BY <1>2, <1>4 DEF EvalGoto, Store
<1> HIDE DEF b, L, W
<1>7. b \in 1 .. Len(L)
  BY <1>2, <1>3, <1>4
<1>8. processed' = {L[i] : i \in 1 .. b}
  <2>1. \A i \in 1 .. b : L[i] = label[i]
    BY <1>2, <1>3, <1>4
  <2> QED BY <2>1, <1>2
<1>9. v \in Range(L)
  BY <1>4
<1>10. GoodEdge(e, b, Len(L))
  BY <1>4, <1>7, <1>8, <1>9, NewEdgeIsGood
<1>11. \A i \in 1 .. Len(edges) : GoodEdge(edges[i], b, Len(L))
  BY <1>2, <1>3, <1>4, OldEdgesStayGood
<1> HIDE DEF e
<1>12. /\ edges' \in Seq(Edge)
       /\ \A i \in 1 .. Len(edges') : GoodEdge(edges'[i], b, Len(L))
  <2>1. e \in Edge
    BY <1>10 DEF GoodEdge
  <2>2. /\ Append(edges, e) \in Seq(Edge)
        /\ Len(Append(edges, e)) = Len(edges) + 1
        /\ \A i \in 1 .. Len(edges) : Append(edges, e)[i] = edges[i]
        /\ Append(edges, e)[Len(edges) + 1] = e
        /\ Len(edges) \in Nat
    BY <2>1, <1>3, AppendProperties, LenProperties
  <2>3. ASSUME NEW i \in 1 .. Len(edges) + 1
        PROVE  GoodEdge(Append(edges, e)[i], b, Len(L))
    <3>1. i \in 1 .. Len(edges) \/ i = Len(edges) + 1
      BY <2>2
    <3> QED BY <3>1, <2>2, <1>10, <1>11
  <2> QED BY <2>2, <2>3, <1>6
<1> QED BY <1>4, <1>5, <1>6, <1>7, <1>8, <1>12, OrderInvRestored

LEMMA OrderInvBranch ==
    ASSUME OrderInv, MayEvaluate, NEW t \in Vpc, NEW f \in Vpc,
           NEW outT, NEW outF, EvalBranch(t, f, outT, outF)
    PROVE  OrderInv'
<1> DEFINE b == Current
           M == GetBlock(label, t)
           L == GetBlock(M, f)
           X == Enqueue(Tail(worklist), Range(label), t)
           W == Enqueue(X, Range(M), f)
           d == [from |-> b, to |-> IdOf(L, t), back |-> IsBack(t)]
           e == [from |-> b, to |-> IdOf(L, f), back |-> IsBack(f)]
<1>1. Dequeue
  BY DEF EvalBranch
<1>2. /\ b = Evaluated + 1 /\ b \in 1 .. Len(label) /\ Evaluated \in Nat
      /\ Tail(worklist) \in Seq(Vpc)
      /\ Aligned(label, Tail(worklist), b)
      /\ processed' = {label[i] : i \in 1 .. b}
      /\ IsInjective(label) /\ enqueued = Range(label)
  BY <1>1, DequeueProperties
<1>3. label \in Seq(Vpc) /\ edges \in Seq(Edge) /\ Len(label) \in Nat /\ b \in Nat
  BY <1>2, LenProperties DEF OrderInv
<1>4. /\ M \in Seq(Vpc) /\ IsInjective(M) /\ Range(M) = Range(label) \cup {t}
      /\ Len(M) \in Nat /\ Len(label) <= Len(M)
      /\ \A i \in 1 .. Len(label) : M[i] = label[i]
  <2>1. /\ M \in Seq(Vpc) /\ IsInjective(M) /\ Range(M) = Range(label) \cup {t}
        /\ Len(M) \in {Len(label), Len(label) + 1}
        /\ \A i \in 1 .. Len(label) : M[i] = label[i]
    BY <1>2, <1>3, GetBlockProperties
  <2> QED BY <2>1, <1>3
<1>5. X \in Seq(Vpc) /\ Aligned(M, X, b)
  BY <1>2, <1>3, EnqueueAligned
<1> HIDE DEF b, M, X
<1>6. /\ L \in Seq(Vpc) /\ IsInjective(L) /\ Range(L) = Range(M) \cup {f}
      /\ Len(L) \in Nat /\ Len(M) <= Len(L)
      /\ \A i \in 1 .. Len(M) : L[i] = M[i]
  <2>1. /\ L \in Seq(Vpc) /\ IsInjective(L) /\ Range(L) = Range(M) \cup {f}
        /\ Len(L) \in {Len(M), Len(M) + 1}
        /\ \A i \in 1 .. Len(M) : L[i] = M[i]
    BY <1>4, GetBlockProperties
  <2> QED BY <2>1, <1>4
<1>7. W \in Seq(Vpc) /\ Aligned(L, W, b)
  BY <1>3, <1>4, <1>5, EnqueueAligned
<1>8. /\ label' = L /\ worklist' = W /\ enqueued' = Range(L)
      /\ edges' = edges \o <<d, e>>
  BY <1>2, <1>4, <1>6 DEF EvalBranch, Store, b, M, X
<1> HIDE DEF L, W
<1>9. b \in 1 .. Len(L) /\ Len(label) <= Len(L)
  BY <1>2, <1>3, <1>4, <1>6
<1>10. processed' = {L[i] : i \in 1 .. b}
  <2>1. \A i \in 1 .. b : L[i] = label[i]
    BY <1>2, <1>3, <1>4, <1>6
  <2> QED BY <2>1, <1>2
<1>11. t \in Range(L) /\ f \in Range(L)
  BY <1>4, <1>6
<1>12. GoodEdge(d, b, Len(L)) /\ GoodEdge(e, b, Len(L))
  BY <1>6, <1>9, <1>10, <1>11, NewEdgeIsGood
<1>13. \A i \in 1 .. Len(edges) : GoodEdge(edges[i], b, Len(L))
  BY <1>2, <1>3, <1>6, <1>9, OldEdgesStayGood
<1> HIDE DEF d, e
<1>14. /\ edges' \in Seq(Edge)
       /\ \A i \in 1 .. Len(edges') : GoodEdge(edges'[i], b, Len(L))
  <2>1. d \in Edge /\ e \in Edge
    BY <1>12 DEF GoodEdge
  <2>2. <<d, e>> \in Seq(Edge) /\ Len(<<d, e>>) = 2
        /\ <<d, e>>[1] = d /\ <<d, e>>[2] = e
    BY <2>1
  <2>3. /\ edges' \in Seq(Edge)
        /\ Len(edges') = Len(edges) + 2
        /\ \A i \in 1 .. Len(edges) + 2 : edges'[i] =
              IF i <= Len(edges) THEN edges[i] ELSE <<d, e>>[i - Len(edges)]
        /\ Len(edges) \in Nat
    <3> DEFINE p == <<d, e>>
    <3> HIDE DEF p
    <3>1. p \in Seq(Edge) /\ Len(p) = 2 /\ edges' = edges \o p
      BY <2>2, <1>8 DEF p
    <3>2. /\ edges \o p \in Seq(Edge)
          /\ Len(edges \o p) = Len(edges) + Len(p)
          /\ \A i \in 1 .. Len(edges) + Len(p) : (edges \o p)[i] =
                IF i <= Len(edges) THEN edges[i] ELSE p[i - Len(edges)]
          /\ Len(edges) \in Nat
      BY <3>1, <1>3, ConcatProperties, LenProperties
    <3> QED BY <3>1, <3>2 DEF p
  <2>4. ASSUME NEW i \in 1 .. Len(edges) + 2
        PROVE  GoodEdge(edges'[i], b, Len(L))
    <3>1. CASE i <= Len(edges)
      BY <3>1, <2>3, <1>13
    <3>2. CASE i = Len(edges) + 1
      <4>1. edges'[i] = <<d, e>>[1]
        BY <3>2, <2>3
      <4> QED BY <4>1, <2>2, <1>12
    <3>3. CASE i = Len(edges) + 2
      <4>1. edges'[i] = <<d, e>>[2]
        BY <3>3, <2>3
      <4> QED BY <4>1, <2>2, <1>12
    <3> QED BY <3>1, <3>2, <3>3, <2>3
  <2> QED BY <2>3, <2>4
<1> QED BY <1>6, <1>7, <1>8, <1>9, <1>10, <1>14, OrderInvRestored

(* The steps after the exploration leave the graph alone.                  *)
LEMMA OrderInvLater ==
    ASSUME OrderInv, UNCHANGED <<label, edges, queue>>
    PROVE  OrderInv'
BY DEF OrderInv, DiscoveryOrder, BackEdgeOrder, Blocks, Evaluated, queue

LEMMA OrderInvNext == OrderInv /\ [Next]_vars => OrderInv'
<1> SUFFICES ASSUME OrderInv, [Next]_vars PROVE OrderInv'
  OBVIOUS
<1>1. CASE Explore
  <2>1. MayEvaluate
    BY <1>1 DEF Explore
  <2>2. CASE \E kind \in {"RET", "UNREACHABLE"} : EvalStop(kind)
    BY <2>1, <2>2, OrderInvStop
  <2>3. CASE \E v \in Vpc, out \in OutState(Drive(Current)) : EvalGoto(v, out)
    BY <2>1, <2>3, OrderInvGoto
  <2>4. CASE \E t, f \in Vpc, outT, outF \in OutState(Drive(Current)) :
                EvalBranch(t, f, outT, outF)
    BY <2>1, <2>4, OrderInvBranch
  <2> QED BY <1>1, <2>2, <2>3, <2>4 DEF Explore
<1>2. CASE BuildPhis
  BY <1>2, OrderInvLater DEF BuildPhis, blocks
<1>3. CASE BuildSubst
  BY <1>3, OrderInvLater DEF BuildSubst, blocks
<1>4. CASE \E k \in pending : PickKey(k)
  BY <1>4, OrderInvLater DEF PickKey, blocks
<1>5. CASE Follow
  BY <1>5, OrderInvLater DEF Follow, blocks
<1>6. CASE SettleKey
  BY <1>6, OrderInvLater DEF SettleKey, blocks
<1>7. CASE Rewrite
  BY <1>7, OrderInvLater DEF Rewrite
<1>8. CASE UNCHANGED vars
  BY <1>8, OrderInvLater DEF vars, blocks
<1> QED BY <1>1, <1>2, <1>3, <1>4, <1>5, <1>6, <1>7, <1>8 DEF Next

-----------------------------------------------------------------------------
(* Theorems *)

LEMMA OrderInvAlways == Spec => []OrderInv
<1>1. Init => OrderInv
  BY OrderInvInit, ConstantsAssumption
<1>2. OrderInv /\ [Next]_vars => OrderInv'
  BY OrderInvNext
<1> QED BY <1>1, <1>2, PTL DEF Spec

(* Blocks are evaluated in the order in which they were found, whatever    *)
(* the oracle answers and however many VPCs there are.                     *)
THEOREM EvaluationFollowsDiscovery == Spec => []DiscoveryOrder
<1>1. OrderInv => DiscoveryOrder
  BY DEF OrderInv
<1> QED BY <1>1, OrderInvAlways, PTL

(* The edges add_edge is told are back edges are those that do not lead to *)
(* a block with a higher id.                                               *)
THEOREM BackEdgesDescend == Spec => []BackEdgeOrder
<1>1. OrderInv => BackEdgeOrder
  BY DEF OrderInv
<1> QED BY <1>1, OrderInvAlways, PTL

(* No VPC waits in the worklist twice or after its evaluation, so the      *)
(* loop's `continue` is dead code.                                         *)
THEOREM EachVpcEvaluatedOnce == Spec => []NoRework
<1>1. OrderInv => NoRework
  <2> SUFFICES ASSUME OrderInv, NEW i \in DOMAIN worklist
               PROVE  /\ worklist[i] \in Range(label) \ processed
                      /\ \A j \in DOMAIN worklist :
                            worklist[i] = worklist[j] => i = j
    BY DEF NoRework
  <2>1. /\ Len(label) \in Nat /\ Len(worklist) \in Nat
        /\ DOMAIN label = 1 .. Len(label)
        /\ DOMAIN worklist = 1 .. Len(worklist)
    BY LenProperties DEF OrderInv
  <2>2. /\ Evaluated \in Nat /\ Len(label) = Evaluated + Len(worklist)
        /\ \A j \in 1 .. Len(worklist) : worklist[j] = label[Evaluated + j]
        /\ processed = {label[j] : j \in 1 .. Evaluated}
        /\ \A p, q \in 1 .. Len(label) : label[p] = label[q] => p = q
    <3>1. Evaluated \in Nat /\ Len(label) = Evaluated + Len(worklist)
      BY <2>1 DEF OrderInv, DiscoveryOrder, Evaluated
    <3>2. /\ \A j \in 1 .. Len(worklist) : worklist[j] = label[Evaluated + j]
          /\ processed = {label[j] : j \in 1 .. Evaluated}
          /\ \A p, q \in 1 .. Len(label) : label[p] = label[q] => p = q
      BY <2>1 DEF OrderInv, DiscoveryOrder, Blocks
    <3> QED BY <3>1, <3>2
  <2>3. \A j \in 1 .. Len(worklist) : Evaluated + j \in 1 .. Len(label)
    BY <2>1, <2>2
  <2>4. worklist[i] \in Range(label)
    BY <2>1, <2>2, <2>3 DEF Range
  <2>5. ASSUME worklist[i] \in processed PROVE FALSE
    <3>1. PICK j \in 1 .. Evaluated : worklist[i] = label[j]
      BY <2>2, <2>5
    <3>2. j \in 1 .. Len(label) /\ label[Evaluated + i] = label[j]
      BY <3>1, <2>1, <2>2
    <3>3. j = Evaluated + i
      BY <3>2, <2>1, <2>2, <2>3
    <3> QED BY <3>3, <2>1, <2>2
  <2>6. ASSUME NEW j \in DOMAIN worklist, worklist[i] = worklist[j]
        PROVE  i = j
    <3>1. Evaluated + i = Evaluated + j
      BY <2>1, <2>2, <2>3, <2>6
    <3> QED BY <3>1, <2>1, <2>2
  <2> QED BY <2>4, <2>5, <2>6
<1> QED BY <1>1, OrderInvAlways, PTL

(* A nonempty set of block ids has a greatest element.                     *)
LEMMA GreatestBlock ==
    ASSUME NEW n \in Nat, NEW S \in SUBSET (1 .. n), S # {}
    PROVE  \E b \in S : \A x \in S : x <= b
<1> DEFINE R == OpToRel(<, Nat)
           T == {n - x : x \in S}
<1>1. T \subseteq Nat /\ T # {}
  <2>1. \A x \in S : n - x \in Nat
    OBVIOUS
  <2>2. PICK x \in S : TRUE
    OBVIOUS
  <2>3. n - x \in T
    OBVIOUS
  <2> QED BY <2>1, <2>3
<1>2. \E m \in T : \A y \in T : <<y, m>> \notin R
  <2>1. IsWellFoundedOn(R, Nat)
    BY NatLessThanWellFounded
  <2> HIDE DEF R, T
  <2> QED BY <1>1, <2>1, WFMin
<1>3. PICK b \in S : \A y \in T : <<y, n - b>> \notin R
  BY <1>2
<1>4. ASSUME NEW x \in S PROVE x <= b
  <2>1. n - x \in T /\ n - x \in Nat /\ n - b \in Nat
    OBVIOUS
  <2>2. ~(n - x < n - b)
    BY <1>3, <2>1 DEF OpToRel
  <2> QED BY <2>2
<1> QED BY <1>4

(* However the bytecode loops, its loops are cut: every cycle of the       *)
(* recovered graph contains a flagged edge.                                *)
THEOREM EveryCycleFlagged == Spec => []CyclesFlagged
<1>1. OrderInv => CyclesFlagged
  <2> SUFFICES ASSUME OrderInv, NEW S \in SUBSET Blocks, S # {}
               PROVE  \E b \in S : \A i \in DOMAIN edges :
                        edges[i].from = b /\ edges[i].to \in S => edges[i].back
    BY DEF CyclesFlagged
  <2>1. Len(label) \in Nat /\ Blocks = 1 .. Len(label)
    BY LenProperties DEF OrderInv, Blocks
  <2>2. PICK b \in S : \A x \in S : x <= b
    BY <2>1, GreatestBlock
  <2>3. \A i \in DOMAIN edges : edges[i].back <=> edges[i].to <= edges[i].from
    BY DEF OrderInv, BackEdgeOrder
  <2> QED BY <2>2, <2>3
<1> QED BY <1>1, OrderInvAlways, PTL

(* A call of recover never holds more than max_blocks + 2 blocks.          *)
THEOREM GraphStaysBounded == Spec => []BlockBound
<1>1. Init => BlockBound
  <2> SUFFICES ASSUME Init PROVE BlockBound
    OBVIOUS
  <2>1. Len(label) = 1 /\ MaxBlocks \in Int
    BY ConstantsAssumption DEF Init, ConstantsAssumption
  <2> QED BY <2>1 DEF BlockBound
<1>2. OrderInv /\ BlockBound /\ [Next]_vars => BlockBound'
  <2> SUFFICES ASSUME OrderInv, BlockBound, [Next]_vars PROVE BlockBound'
    OBVIOUS
  <2>1. /\ label \in Seq(Vpc) /\ IsInjective(label) /\ Len(label) \in Nat
        /\ Len(label) >= 1 /\ MaxBlocks \in Int
    <3>1. label \in Seq(Vpc) /\ label # <<>> /\ DOMAIN label = 1 .. Len(label)
      BY LenProperties DEF OrderInv
    <3> QED BY <3>1, EmptySeq, ConstantsAssumption
          DEF OrderInv, DiscoveryOrder, IsInjective, Blocks, ConstantsAssumption
  <2>2. CASE label' = label
    BY <2>2 DEF BlockBound
  <2>3. CASE Explore
    <3>1. Len(label) <= MaxBlocks
      BY <2>3 DEF Explore, MayEvaluate
    <3>2. Len(label') <= Len(label) + 2
      <4>1. CASE \E kind \in {"RET", "UNREACHABLE"} : EvalStop(kind)
        BY <4>1, <2>1 DEF EvalStop, Store
      <4>2. CASE \E v \in Vpc, out \in OutState(Drive(Current)) :
                    EvalGoto(v, out)
        <5>1. PICK v \in Vpc : label' = GetBlock(label, v)
          BY <4>2 DEF EvalGoto, Store
        <5>2. Len(GetBlock(label, v)) \in {Len(label), Len(label) + 1}
          BY <2>1, GetBlockProperties
        <5> QED BY <5>1, <5>2, <2>1
      <4>3. CASE \E t, f \in Vpc, outT, outF \in OutState(Drive(Current)) :
                    EvalBranch(t, f, outT, outF)
        <5>1. PICK t \in Vpc, f \in Vpc :
                label' = GetBlock(GetBlock(label, t), f)
          BY <4>3 DEF EvalBranch, Store
        <5> DEFINE M == GetBlock(label, t)
        <5>2. M \in Seq(Vpc) /\ IsInjective(M)
              /\ Len(M) \in {Len(label), Len(label) + 1}
          BY <2>1, GetBlockProperties
        <5> HIDE DEF M
        <5>3. Len(GetBlock(M, f)) \in {Len(M), Len(M) + 1}
          BY <5>2, GetBlockProperties
        <5> QED BY <5>1, <5>2, <5>3, <2>1 DEF M
      <4> QED BY <2>3, <4>1, <4>2, <4>3 DEF Explore
    <3>3. Len(label') \in Nat
      <4>1. label' \in Seq(Vpc)
        BY OrderInvNext DEF OrderInv
      <4> QED BY <4>1, LenProperties
    <3> QED BY <3>1, <3>2, <3>3, <2>1 DEF BlockBound
  <2> QED
    BY <2>2, <2>3 DEF Next, BuildPhis, BuildSubst, PickKey, Follow, SettleKey,
                      Rewrite, vars, blocks
<1> QED BY <1>1, <1>2, OrderInvAlways, PTL DEF Spec

-----------------------------------------------------------------------------
(* Type correctness *)

(* A padded table has one entry per block.                                 *)
LEMMA PadProperties ==
    ASSUME NEW S, NEW s \in Seq(S), NEW n \in Nat, NEW x \in S
    PROVE  /\ Pad(s, n, x) \in Seq(S)
           /\ DOMAIN Pad(s, n, x) = 1 .. n
           /\ Len(Pad(s, n, x)) = n
           /\ \A i \in 1 .. n :
                Pad(s, n, x)[i] = IF i \in DOMAIN s THEN s[i] ELSE x
<1> DEFINE p == [i \in 1 .. n |-> IF i \in DOMAIN s THEN s[i] ELSE x]
<1>1. p \in [1 .. n -> S]
  <2>1. \A i \in DOMAIN s : s[i] \in S
    BY LenProperties
  <2> QED BY <2>1
<1>2. p \in Seq(S)
  BY <1>1, SeqDef
<1>3. DOMAIN p = 1 .. n
  OBVIOUS
<1>4. Len(p) = n
  BY <1>2, <1>3, LenProperties
<1> QED BY <1>2, <1>3, <1>4 DEF Pad

(* Storing an entry of a table keeps it a table.                           *)
LEMMA StoreProperties ==
    ASSUME NEW S, NEW s \in Seq(S), NEW n \in Nat, NEW x \in S,
           NEW b \in 1 .. n, NEW y \in S
    PROVE  /\ [Pad(s, n, x) EXCEPT ![b] = y] \in Seq(S)
           /\ DOMAIN [Pad(s, n, x) EXCEPT ![b] = y] = 1 .. n
<1> DEFINE p == Pad(s, n, x)
<1>1. p \in Seq(S) /\ DOMAIN p = 1 .. n /\ Len(p) = n
  <2>1. Pad(s, n, x) \in Seq(S)
    BY PadProperties
  <2>2. DOMAIN Pad(s, n, x) = 1 .. n
    BY PadProperties
  <2>3. Len(Pad(s, n, x)) = n
    BY PadProperties
  <2> QED BY <2>1, <2>2, <2>3
<1> HIDE DEF p
<1>2. [p EXCEPT ![b] = y] \in Seq(S)
  BY <1>1, ExceptSeq
<1>3. DOMAIN [p EXCEPT ![b] = y] = 1 .. n
  BY <1>1
<1> QED BY <1>2, <1>3 DEF p

(* Linking an edge keeps the table of predecessor edges one.               *)
LEMMA LinkProperties ==
    ASSUME NEW inc \in Seq(Seq(Incoming)), NEW s \in DOMAIN inc,
           NEW b \in Nat, NEW state \in State
    PROVE  /\ Link(inc, s, b, state) \in Seq(Seq(Incoming))
           /\ DOMAIN Link(inc, s, b, state) = DOMAIN inc
<1> DEFINE r == [pred |-> b, state |-> state]
<1>1. s \in 1 .. Len(inc) /\ inc[s] \in Seq(Incoming)
  BY LenProperties
<1>2. r \in Incoming
  BY DEF Incoming
<1> HIDE DEF r
<1>3. Append(inc[s], r) \in Seq(Incoming)
  BY <1>1, <1>2, AppendProperties
<1>4. [inc EXCEPT ![s] = Append(inc[s], r)] \in Seq(Seq(Incoming))
  BY <1>1, <1>3, ExceptSeq
<1>5. Link(inc, s, b, state) = [inc EXCEPT ![s] = Append(inc[s], r)]
  BY DEF Link, r
<1>6. DOMAIN [inc EXCEPT ![s] = Append(inc[s], r)] = DOMAIN inc
  OBVIOUS
<1> QED BY <1>4, <1>5, <1>6

(* The type invariant with what keeps the rewrite's lookups defined: the   *)
(* keys still to be resolved are keys of the map.                          *)
TypeInv ==
    /\ TypeOK
    /\ OrderInv
    /\ pending \subseteq DOMAIN subst

(* The state a block is evaluated in is a register state.                  *)
LEMMA DriveType ==
    ASSUME TypeInv, NEW b \in Blocks
    PROVE  Drive(b) \in State
<1>1. b \in Nat /\ incoming[b] \in Seq(Incoming)
  <2>1. DOMAIN incoming = Blocks /\ incoming \in Seq(Seq(Incoming))
    BY DEF TypeInv, TypeOK
  <2>2. Blocks = 1 .. Len(label)
    BY LenProperties DEF TypeInv, OrderInv, Blocks
  <2> QED BY <2>1, <2>2, LenProperties
<1>2. [r \in Reg |-> IF r \in TrackedRegs THEN Sym(r, b) ELSE Absent] \in State
  BY <1>1 DEF State, Sym, Value
<1>3. incoming[b] # <<>> => incoming[b][1].state \in State
  <2> SUFFICES ASSUME incoming[b] # <<>> PROVE incoming[b][1].state \in State
    OBVIOUS
  <2>1. 1 \in 1 .. Len(incoming[b])
    BY <1>1, EmptySeq
  <2>2. incoming[b][1] \in Incoming
    BY <1>1, <2>1, ElementOfSeq
  <2> QED BY <2>2 DEF Incoming
<1>4. InitialState \in State
  BY ConstantsAssumption DEF ConstantsAssumption
<1>5. Empty \in State
  BY DEF Empty, State
<1> QED BY <1>2, <1>3, <1>4, <1>5 DEF Drive

(* What an oracle hands over is a register state.                          *)
LEMMA OutStateType ==
    ASSUME NEW d \in State, NEW s \in OutState(d)
    PROVE  s \in State
<1>1. \A c \in Const : Known(c) \in Value
  BY DEF Value
<1>2. Range(d) \subseteq Value \cup {Absent}
  BY DEF Range, State
<1>3. s \in [Reg -> {Known(c) : c \in Const} \cup Range(d) \cup {Absent}]
  BY DEF OutState
<1>4. {Known(c) : c \in Const} \cup Range(d) \cup {Absent}
        \subseteq Value \cup {Absent}
  BY <1>1, <1>2
<1> QED BY <1>3, <1>4 DEF State

(* Storing a block keeps the tables of terminators and read values typed.  *)
LEMMA StoreType ==
    ASSUME TypeInv, NEW L \in Seq(Vpc), NEW b \in Blocks, NEW t \in Terminator,
           Len(label) <= Len(L), Store(L, b, t)
    PROVE  /\ term' \in Seq(Terminator) /\ DOMAIN term' = 1 .. Len(L)
           /\ reads' \in Seq(State) /\ DOMAIN reads' = 1 .. Len(L)
           /\ DOMAIN phis' = 1 .. Len(L)
           /\ Blocks' = 1 .. Len(L)
<1>1. Len(L) \in Nat /\ DOMAIN L = 1 .. Len(L) /\ b \in 1 .. Len(L)
  <2>1. Blocks = 1 .. Len(label) /\ Len(label) \in Nat /\ Len(L) \in Nat
    BY LenProperties DEF TypeInv, OrderInv, Blocks
  <2> QED BY <2>1, LenProperties
<1>2. term \in Seq(Terminator) /\ reads \in Seq(State)
  BY DEF TypeInv, TypeOK
<1>3. Ends("UNREACHABLE") \in Terminator
  BY DEF Ends, Terminator
<1>4. Empty \in State
  BY DEF Empty, State
<1>5. Drive(b) \in State
  BY DriveType
<1>6. /\ term' = [Pad(term, Len(L), Ends("UNREACHABLE")) EXCEPT ![b] = t]
      /\ reads' = [Pad(reads, Len(L), Empty) EXCEPT ![b] = Drive(b)]
      /\ phis' = Pad(phis, Len(L), NoEntries)
      /\ label' = L
  BY DEF Store
<1>7. term' \in Seq(Terminator) /\ DOMAIN term' = 1 .. Len(L)
  BY <1>1, <1>2, <1>3, <1>6, StoreProperties
<1>8. reads' \in Seq(State) /\ DOMAIN reads' = 1 .. Len(L)
  BY <1>1, <1>2, <1>4, <1>5, <1>6, StoreProperties
<1>9. DOMAIN phis' = 1 .. Len(L)
  BY <1>6 DEF Pad
<1> QED BY <1>1, <1>6, <1>7, <1>8, <1>9 DEF Blocks

(* An iteration of the exploration keeps the type invariant when it keeps  *)
(* the order invariant and types the edge tables it extends.               *)
LEMMA TypeInvExplored ==
    ASSUME TypeInv, OrderInv', NEW L \in Seq(Vpc), NEW b \in Blocks,
           NEW t \in Terminator, Len(label) <= Len(L), Store(L, b, t),
           incoming' \in Seq(Seq(Incoming)), DOMAIN incoming' = 1 .. Len(L),
           enqueued' \in SUBSET Vpc, processed' \in SUBSET Vpc
    PROVE  TypeInv'
<1>1. /\ term' \in Seq(Terminator) /\ DOMAIN term' = 1 .. Len(L)
      /\ reads' \in Seq(State) /\ DOMAIN reads' = 1 .. Len(L)
      /\ DOMAIN phis' = 1 .. Len(L) /\ Blocks' = 1 .. Len(L)
  BY StoreType
<1>2. label' \in Seq(Vpc) /\ worklist' \in Seq(Vpc) /\ edges' \in Seq(Edge)
  BY DEF OrderInv
<1>3. UNCHANGED <<subst, pending, key, cur, seen, pc>>
  BY DEF Store, rewrite
<1>4. {DOMAIN term', DOMAIN reads', DOMAIN phis', DOMAIN incoming'} = {Blocks'}
  BY <1>1
<1>5. /\ pending \in SUBSET Key /\ DOMAIN subst \in SUBSET Key
      /\ subst \in [DOMAIN subst -> Value]
      /\ (pc = "chase" => key \in DOMAIN subst /\ cur \in Value)
      /\ seen \in SUBSET Key
      /\ pc \in {"explore", "subst", "resolve", "chase", "done"}
      /\ pending \subseteq DOMAIN subst
  BY DEF TypeInv, TypeOK
<1>6. TypeOK'
  BY <1>1, <1>2, <1>3, <1>4, <1>5 DEF TypeOK
<1> QED BY <1>3, <1>5, <1>6 DEF TypeInv

LEMMA TypeInvExplore ==
    ASSUME TypeInv, Explore
    PROVE  TypeInv'
<1>1. OrderInv /\ MayEvaluate
  BY DEF TypeInv, Explore
<1>2. OrderInv'
  BY <1>1, OrderInvNext DEF Next
<1>3. /\ label \in Seq(Vpc) /\ Len(label) \in Nat /\ IsInjective(label)
      /\ Blocks = 1 .. Len(label)
      /\ incoming \in Seq(Seq(Incoming)) /\ DOMAIN incoming = 1 .. Len(label)
      /\ enqueued \in SUBSET Vpc /\ processed \in SUBSET Vpc
      /\ worklist \in Seq(Vpc) /\ worklist # <<>>
  <2>1. /\ label \in Seq(Vpc) /\ worklist \in Seq(Vpc) /\ worklist # <<>>
        /\ IsInjective(label)
    BY <1>1 DEF OrderInv, DiscoveryOrder, IsInjective, Blocks, MayEvaluate
  <2>2. Len(label) \in Nat /\ Blocks = 1 .. Len(label)
    BY <2>1, LenProperties DEF Blocks
  <2>3. /\ incoming \in Seq(Seq(Incoming)) /\ DOMAIN incoming = Blocks
        /\ enqueued \in SUBSET Vpc /\ processed \in SUBSET Vpc
    BY DEF TypeInv, TypeOK
  <2> QED BY <2>1, <2>2, <2>3
<1>4. <<>> \in Seq(Incoming)
  BY EmptySeq
<1>5. ASSUME Dequeue
      PROVE  Current \in Blocks /\ Current \in Nat /\ processed' \in SUBSET Vpc
             /\ Drive(Current) \in State
  <2>1. Current \in Blocks /\ Current \in Nat
    BY <1>1, <1>3, <1>5, DequeueProperties
  <2>2. processed' = processed \cup {Head(worklist)}
    BY <1>5 DEF Dequeue
  <2>3. Head(worklist) \in Vpc
    BY <1>3, HeadTailProperties
  <2> QED BY <2>1, <2>2, <2>3, <1>3, DriveType
<1>6. CASE \E kind \in {"RET", "UNREACHABLE"} : EvalStop(kind)
  <2>1. PICK kind \in {"RET", "UNREACHABLE"} : EvalStop(kind)
    BY <1>6
  <2>2. Ends(kind) \in Terminator
    BY DEF Ends, Terminator
  <2>3. /\ Dequeue /\ Store(label, Current, Ends(kind))
        /\ incoming' = incoming /\ enqueued' = enqueued
    BY <2>1 DEF EvalStop
  <2>4. /\ Current \in Blocks /\ processed' \in SUBSET Vpc
        /\ incoming' \in Seq(Seq(Incoming)) /\ DOMAIN incoming' = 1 .. Len(label)
        /\ enqueued' \in SUBSET Vpc /\ Len(label) <= Len(label)
    BY <1>3, <1>5, <2>3
  <2> QED BY <1>2, <1>3, <2>2, <2>3, <2>4, TypeInvExplored, ZenonT(60)
<1>7. CASE \E v \in Vpc, out \in OutState(Drive(Current)) : EvalGoto(v, out)
  <2>1. PICK v \in Vpc, out \in OutState(Drive(Current)) : EvalGoto(v, out)
    BY <1>7
  <2> DEFINE b == Current
             L == GetBlock(label, v)
             s == IdOf(L, v)
             P == Pad(incoming, Len(L), <<>>)
  <2>2. /\ Dequeue /\ Store(L, b, Jmp(s))
        /\ incoming' = Link(P, s, b, out)
        /\ enqueued' = enqueued \cup {v}
    BY <2>1 DEF EvalGoto
  <2>3. b \in Blocks /\ b \in Nat /\ processed' \in SUBSET Vpc /\ out \in State
    BY <1>5, <2>1, <2>2, OutStateType
  <2>4. L \in Seq(Vpc) /\ v \in Range(L)
        /\ Len(L) \in {Len(label), Len(label) + 1}
    BY <1>3, GetBlockProperties
  <2> HIDE DEF b, L
  <2>5. s \in 1 .. Len(L) /\ Len(L) \in Nat /\ Len(label) <= Len(L)
    BY <1>3, <2>4, IdOfProperties
  <2> HIDE DEF s
  <2>6. P \in Seq(Seq(Incoming))
    BY <1>3, <1>4, <2>5, PadProperties
  <2>7. DOMAIN P = 1 .. Len(L)
    BY DEF Pad
  <2> HIDE DEF P
  <2>8. /\ incoming' \in Seq(Seq(Incoming))
        /\ DOMAIN incoming' = 1 .. Len(L)
    <3>1. s \in DOMAIN P
      BY <2>5, <2>7
    <3>2. Link(P, s, b, out) \in Seq(Seq(Incoming))
      BY <3>1, <2>3, <2>6, LinkProperties
    <3>3. DOMAIN Link(P, s, b, out) = DOMAIN P
      BY <3>1, <2>3, <2>6, LinkProperties
    <3> QED BY <3>2, <3>3, <2>2, <2>7
  <2>9. Jmp(s) \in Terminator
    BY <2>5 DEF Jmp, Terminator
  <2> QED
    BY <1>2, <1>3, <2>2, <2>3, <2>4, <2>5, <2>8, <2>9, TypeInvExplored
<1>8. CASE \E t, f \in Vpc, outT, outF \in OutState(Drive(Current)) :
                EvalBranch(t, f, outT, outF)
  <2>1. PICK t \in Vpc, f \in Vpc, outT \in OutState(Drive(Current)),
             outF \in OutState(Drive(Current)) : EvalBranch(t, f, outT, outF)
    BY <1>8
  <2> DEFINE b == Current
             M == GetBlock(label, t)
             L == GetBlock(M, f)
             x == IdOf(L, t)
             y == IdOf(L, f)
             P == Pad(incoming, Len(L), <<>>)
             Q == Link(P, x, b, outT)
  <2>2. /\ Dequeue /\ Store(L, b, CJmp(x, y))
        /\ incoming' = Link(Q, y, b, outF)
        /\ enqueued' = enqueued \cup {t, f}
    BY <2>1 DEF EvalBranch
  <2>3. b \in Blocks /\ b \in Nat /\ processed' \in SUBSET Vpc
        /\ outT \in State /\ outF \in State
    BY <1>5, <2>1, <2>2, OutStateType
  <2>4. M \in Seq(Vpc) /\ IsInjective(M) /\ Range(M) = Range(label) \cup {t}
        /\ Len(M) \in {Len(label), Len(label) + 1}
    BY <1>3, GetBlockProperties
  <2> HIDE DEF b, M
  <2>5. L \in Seq(Vpc) /\ Range(L) = Range(M) \cup {f}
        /\ Len(L) \in {Len(M), Len(M) + 1}
    BY <2>4, GetBlockProperties
  <2> HIDE DEF L
  <2>6. /\ x \in 1 .. Len(L) /\ y \in 1 .. Len(L)
        /\ Len(L) \in Nat /\ Len(label) <= Len(L)
    BY <1>3, <2>4, <2>5, IdOfProperties
  <2> HIDE DEF x, y
  <2>7. P \in Seq(Seq(Incoming))
    BY <1>3, <1>4, <2>6, PadProperties
  <2>8. DOMAIN P = 1 .. Len(L)
    BY DEF Pad
  <2> HIDE DEF P
  <2>9. Q \in Seq(Seq(Incoming)) /\ DOMAIN Q = 1 .. Len(L)
    <3>1. x \in DOMAIN P
      BY <2>6, <2>8
    <3>2. Q \in Seq(Seq(Incoming))
      BY <3>1, <2>3, <2>7, LinkProperties
    <3>3. DOMAIN Q = DOMAIN P
      BY <3>1, <2>3, <2>7, LinkProperties
    <3> QED BY <3>2, <3>3, <2>8
  <2> HIDE DEF Q
  <2>10. /\ incoming' \in Seq(Seq(Incoming))
         /\ DOMAIN incoming' = 1 .. Len(L)
    <3>1. y \in DOMAIN Q
      BY <2>6, <2>9
    <3>2. Link(Q, y, b, outF) \in Seq(Seq(Incoming))
      BY <3>1, <2>3, <2>9, LinkProperties
    <3>3. DOMAIN Link(Q, y, b, outF) = DOMAIN Q
      BY <3>1, <2>3, <2>9, LinkProperties, ZenonT(60)
    <3> QED BY <3>2, <3>3, <2>2, <2>9
  <2>11. CJmp(x, y) \in Terminator
    BY <2>6 DEF CJmp, Terminator
  <2> QED
    BY <1>2, <1>3, <2>2, <2>3, <2>5, <2>6, <2>10, <2>11, TypeInvExplored
<1> QED BY <1>6, <1>7, <1>8 DEF Explore

(* What a symbol is first mapped to is a value.                            *)
LEMMA DefinitionType ==
    ASSUME TypeInv, NEW b \in Blocks, NEW r \in TrackedRegs
    PROVE  Definition(b, r) \in Value
<1>1. r \in Reg /\ InitialState \in State
  BY ConstantsAssumption DEF ConstantsAssumption
<1>2. b \in Nat /\ incoming[b] \in Seq(Incoming)
  <2>1. DOMAIN incoming = Blocks /\ incoming \in Seq(Seq(Incoming))
    BY DEF TypeInv, TypeOK
  <2>2. Blocks = 1 .. Len(label)
    BY LenProperties DEF TypeInv, OrderInv, Blocks
  <2> QED BY <2>1, <2>2, LenProperties
<1>3. PhiRef(b, r) \in Value /\ Input(r) \in Value
  BY <1>1, <1>2 DEF PhiRef, Input, Value
<1>4. ASSUME NEW s \in State, Holds(s, r) PROVE s[r] \in Value
  BY <1>1, <1>4 DEF State, Holds
<1>5. ASSUME incoming[b] # <<>> PROVE incoming[b][1].state \in State
  <2>1. 1 \in 1 .. Len(incoming[b])
    BY <1>2, <1>5, EmptySeq
  <2>2. incoming[b][1] \in Incoming
    BY <1>2, <2>1, ElementOfSeq
  <2> QED BY <2>2 DEF Incoming
<1> QED BY <1>1, <1>3, <1>4, <1>5 DEF Definition

LEMMA TypeInvInit == Init => TypeInv
<1> SUFFICES ASSUME Init PROVE TypeInv
  OBVIOUS
<1>1. OrderInv
  BY OrderInvInit, ConstantsAssumption
<1>2. /\ label = <<EntryVpc>> /\ term = <<Ends("UNREACHABLE")>>
      /\ reads = <<Empty>> /\ phis = <<NoEntries>> /\ edges = <<>>
      /\ incoming = << <<>> >> /\ enqueued = {EntryVpc} /\ processed = {}
      /\ subst = NoEntries /\ pending = {} /\ seen = {} /\ pc = "explore"
  BY DEF Init
<1>3. EntryVpc \in Vpc /\ Ends("UNREACHABLE") \in Terminator /\ Empty \in State
  BY ConstantsAssumption
    DEF ConstantsAssumption, Ends, Terminator, Empty, State
<1>4. term \in Seq(Terminator) /\ reads \in Seq(State)
      /\ incoming \in Seq(Seq(Incoming))
  BY <1>2, <1>3
<1>5. {DOMAIN term, DOMAIN reads, DOMAIN phis, DOMAIN incoming} = {Blocks}
  BY <1>2 DEF Blocks
<1>6. DOMAIN subst = {} /\ subst \in [DOMAIN subst -> Value]
  BY <1>2 DEF NoEntries
<1>7. label \in Seq(Vpc) /\ worklist \in Seq(Vpc) /\ edges \in Seq(Edge)
  BY <1>1 DEF OrderInv
<1>8. TypeOK
  BY <1>2, <1>3, <1>4, <1>5, <1>6, <1>7 DEF TypeOK
<1> QED BY <1>1, <1>2, <1>8 DEF TypeInv

LEMMA TypeInvNext == TypeInv /\ [Next]_vars => TypeInv'
<1> SUFFICES ASSUME TypeInv, [Next]_vars PROVE TypeInv'
  OBVIOUS
<1>1. OrderInv'
  BY OrderInvNext DEF TypeInv
<1>2. TypeOK /\ pending \subseteq DOMAIN subst
  BY DEF TypeInv
<1>3. CASE Explore
  BY <1>3, TypeInvExplore
<1>4. CASE BuildPhis
  <2>1. DOMAIN phis' = DOMAIN label
    BY <1>4 DEF BuildPhis
  <2>2. pc' \in {"subst", "done"}
    BY <1>4 DEF BuildPhis
  <2>3. UNCHANGED <<blocks, edges, incoming, queue, rewrite>>
    BY <1>4 DEF BuildPhis
  <2>4. TypeOK'
    BY <1>2, <2>1, <2>2, <2>3 DEF TypeOK, Blocks, blocks, queue, rewrite
  <2> QED BY <1>1, <1>2, <2>3, <2>4 DEF TypeInv, rewrite
<1>5. CASE BuildSubst
  <2>1. /\ subst' = [k \in TrackedRegs \X DOMAIN label |-> Definition(k[2], k[1])]
        /\ pending' = DOMAIN subst' /\ pc' = "resolve"
        /\ UNCHANGED <<blocks, phis, edges, incoming, queue, key, cur, seen>>
    BY <1>5 DEF BuildSubst
  <2>2. \A k \in TrackedRegs \X DOMAIN label : Definition(k[2], k[1]) \in Value
    BY DefinitionType DEF Blocks
  <2>3. TrackedRegs \X DOMAIN label \subseteq Key
    <3>1. DOMAIN label \subseteq Nat
      BY LenProperties DEF TypeInv, OrderInv
    <3> QED BY <3>1, ConstantsAssumption DEF ConstantsAssumption, Key
  <2>4. /\ DOMAIN subst' = TrackedRegs \X DOMAIN label
        /\ subst' \in [DOMAIN subst' -> Value]
    BY <2>1, <2>2
  <2>5. TypeOK'
    BY <1>2, <2>1, <2>3, <2>4 DEF TypeOK, Blocks, blocks, queue
  <2> QED BY <1>1, <2>1, <2>5 DEF TypeInv
<1>6. CASE \E k \in pending : PickKey(k)
  <2>1. PICK k \in pending : PickKey(k)
    BY <1>6
  <2>2. /\ pending' = pending \ {k} /\ key' = k /\ cur' = subst[k]
        /\ seen' = {} /\ pc' = "chase"
        /\ UNCHANGED <<blocks, phis, edges, incoming, queue, subst>>
    BY <2>1 DEF PickKey
  <2>3. k \in DOMAIN subst /\ subst[k] \in Value
    BY <1>2 DEF TypeOK
  <2>4. TypeOK'
    BY <1>2, <2>2, <2>3 DEF TypeOK, Blocks, blocks, queue
  <2> QED BY <1>1, <1>2, <2>2, <2>4 DEF TypeInv
<1>7. CASE Follow
  <2>1. /\ pc = "chase" /\ IsKey(cur)
        /\ seen' = seen \cup {KeyOf(cur)} /\ cur' = subst[KeyOf(cur)]
        /\ UNCHANGED <<blocks, phis, edges, incoming, queue, subst, pending,
                       key, pc>>
    BY <1>7 DEF Follow, MayFollow
  <2>2. KeyOf(cur) \in DOMAIN subst
    BY <2>1 DEF IsKey, KeyOf
  <2>3. subst[KeyOf(cur)] \in Value /\ KeyOf(cur) \in Key
    BY <1>2, <2>2 DEF TypeOK
  <2>4. TypeOK'
    BY <1>2, <2>1, <2>3 DEF TypeOK, Blocks, blocks, queue
  <2> QED BY <1>1, <1>2, <2>1, <2>4 DEF TypeInv
<1>8. CASE SettleKey
  <2>1. /\ pc = "chase" /\ subst' = [subst EXCEPT ![key] = cur]
        /\ pc' = "resolve"
        /\ UNCHANGED <<blocks, phis, edges, incoming, queue, pending, key,
                       cur, seen>>
    BY <1>8 DEF SettleKey
  <2>2. cur \in Value /\ DOMAIN subst' = DOMAIN subst
    BY <1>2, <2>1 DEF TypeOK
  <2>3. subst' \in [DOMAIN subst' -> Value]
    BY <1>2, <2>1, <2>2 DEF TypeOK
  <2>4. TypeOK'
    BY <1>2, <2>1, <2>2, <2>3 DEF TypeOK, Blocks, blocks, queue
  <2> QED BY <1>1, <1>2, <2>1, <2>2, <2>4 DEF TypeInv
<1>9. CASE Rewrite
  <2>1. /\ reads' = [b \in DOMAIN reads |->
                        [r \in Reg |-> Rewritten(reads[b][r])]]
        /\ DOMAIN phis' = DOMAIN phis
        /\ pc' = "done"
        /\ UNCHANGED <<label, term, edges, incoming, queue, rewrite>>
    BY <1>9 DEF Rewrite
  <2>2. reads \in Seq(State)
    BY <1>2 DEF TypeOK
  <2>3. \A b \in DOMAIN reads :
            [r \in Reg |-> Rewritten(reads[b][r])] \in State
    <3> SUFFICES ASSUME NEW b \in DOMAIN reads, NEW r \in Reg
                 PROVE  Rewritten(reads[b][r]) \in Value \cup {Absent}
      BY DEF State
    <3>1. reads[b][r] \in Value \cup {Absent}
      BY <2>2, LenProperties DEF State
    <3>2. IsKey(reads[b][r]) => KeyOf(reads[b][r]) \in DOMAIN subst
      BY DEF IsKey, KeyOf
    <3> QED BY <1>2, <3>1, <3>2 DEF Rewritten, TypeOK
  <2>4. reads' \in Seq(State) /\ DOMAIN reads' = DOMAIN reads
    <3>1. DOMAIN reads = 1 .. Len(reads) /\ Len(reads) \in Nat
      BY <2>2, LenProperties
    <3>2. reads' \in [1 .. Len(reads) -> State]
      BY <2>1, <2>3, <3>1
    <3> QED BY <2>1, <3>1, <3>2, SeqDef
  <2>5. TypeOK'
    BY <1>2, <2>1, <2>4 DEF TypeOK, Blocks, queue, rewrite
  <2> QED BY <1>1, <1>2, <2>1, <2>5 DEF TypeInv, rewrite
<1>10. CASE UNCHANGED vars
  <2>1. TypeOK'
    BY <1>2, <1>10 DEF TypeOK, Blocks, vars, blocks, queue, rewrite
  <2> QED BY <1>1, <1>2, <1>10, <2>1 DEF TypeInv, vars, rewrite
<1> QED
  BY <1>3, <1>4, <1>5, <1>6, <1>7, <1>8, <1>9, <1>10 DEF Next

(* Every variable of recover keeps its type, through the exploration, the  *)
(* phi construction and the in-place rewrite.                              *)
THEOREM TypeCorrect == Spec => []TypeOK
<1>1. Init => TypeInv
  BY TypeInvInit
<1>2. TypeInv /\ [Next]_vars => TypeInv'
  BY TypeInvNext
<1>3. TypeInv => TypeOK
  BY DEF TypeInv
<1> QED BY <1>1, <1>2, <1>3, PTL DEF Spec

-----------------------------------------------------------------------------
(* An iteration of the exploration *)

\* The block table grows to L, in which the VPCs V are new, and block b is
\* the one evaluated.
Advance(L, b, V) ==
    /\ L \in Seq(Vpc) /\ IsInjective(L)
    /\ Len(L) \in Nat /\ Len(label) \in Nat /\ Len(label) <= Len(L)
    /\ \A i \in 1 .. Len(label) : L[i] = label[i]
    /\ \A i \in Len(label) + 1 .. Len(L) : L[i] \in V
    /\ V \subseteq Range(L)
    /\ Evaluated \in Nat /\ b = Evaluated + 1 /\ b \in 1 .. Len(label)
    /\ label' = L
    /\ Evaluated' = b
    /\ processed' = {L[i] : i \in 1 .. b}

(* What get_block and enqueue leave behind once block b is dequeued.       *)
LEMMA AdvanceIntro ==
    ASSUME NEW L \in Seq(Vpc), IsInjective(L), NEW W \in Seq(Vpc),
           NEW b \in Nat, NEW V, Aligned(L, W, b),
           Len(label) \in Nat, Len(label) <= Len(L),
           \A i \in 1 .. Len(label) : L[i] = label[i],
           Range(L) = Range(label) \cup V, DOMAIN label = 1 .. Len(label),
           Evaluated \in Nat, b = Evaluated + 1, b \in 1 .. Len(label),
           label' = L, worklist' = W, processed' = {label[i] : i \in 1 .. b}
    PROVE  Advance(L, b, V)
<1>1. Len(L) \in Nat /\ DOMAIN L = 1 .. Len(L) /\ Len(W) \in Nat
  BY LenProperties
<1>2. Evaluated' = b
  BY <1>1 DEF Evaluated, Aligned
<1>3. processed' = {L[i] : i \in 1 .. b}
  <2>1. \A i \in 1 .. b : L[i] = label[i]
    OBVIOUS
  <2> QED BY <2>1
<1>4. ASSUME NEW i \in Len(label) + 1 .. Len(L) PROVE L[i] \in V
  <2>1. i \in 1 .. Len(L) /\ L[i] \in Range(L)
    BY <1>1 DEF Range
  <2>2. ASSUME L[i] \in Range(label) PROVE FALSE
    <3>1. PICK k \in 1 .. Len(label) : L[i] = label[k]
      BY <2>2 DEF Range
    <3>2. k \in 1 .. Len(L) /\ L[k] = L[i]
      BY <1>1, <3>1
    <3>3. k = i
      BY <3>2, <2>1, <1>1 DEF IsInjective
    <3> QED BY <3>3
  <2> QED BY <2>1, <2>2
<1> QED BY <1>1, <1>2, <1>3, <1>4 DEF Advance

(* What is known of the tables before an iteration.                        *)
LEMMA Tables ==
    ASSUME TypeInv
    PROVE  /\ label \in Seq(Vpc) /\ Len(label) \in Nat
           /\ DOMAIN label = 1 .. Len(label) /\ Blocks = 1 .. Len(label)
           /\ IsInjective(label)
           /\ term \in Seq(Terminator) /\ DOMAIN term = 1 .. Len(label)
           /\ reads \in Seq(State) /\ DOMAIN reads = 1 .. Len(label)
           /\ DOMAIN phis = 1 .. Len(label)
           /\ incoming \in Seq(Seq(Incoming)) /\ DOMAIN incoming = 1 .. Len(label)
           /\ edges \in Seq(Edge) /\ Len(edges) \in Nat
           /\ DOMAIN edges = 1 .. Len(edges)
           /\ Evaluated \in 0 .. Len(label)
<1>1. OrderInv /\ TypeOK
  BY DEF TypeInv
<1>2. label \in Seq(Vpc) /\ edges \in Seq(Edge) /\ worklist \in Seq(Vpc)
  BY <1>1 DEF OrderInv
<1>3. /\ Len(label) \in Nat /\ DOMAIN label = 1 .. Len(label)
      /\ Len(edges) \in Nat /\ DOMAIN edges = 1 .. Len(edges)
      /\ Len(worklist) \in Nat
  BY <1>2, LenProperties
<1>4. IsInjective(label) /\ Len(worklist) <= Len(label)
  BY <1>1 DEF OrderInv, DiscoveryOrder, IsInjective, Blocks
<1>5. Evaluated \in 0 .. Len(label)
  BY <1>3, <1>4 DEF Evaluated
<1>6. {DOMAIN term, DOMAIN reads, DOMAIN phis, DOMAIN incoming} = {Blocks}
      /\ term \in Seq(Terminator) /\ reads \in Seq(State)
      /\ incoming \in Seq(Seq(Incoming))
  BY <1>1 DEF TypeOK
<1>7. Blocks = 1 .. Len(label)
  BY <1>3 DEF Blocks
<1> QED BY <1>2, <1>3, <1>4, <1>5, <1>6, <1>7

(* What storing block b's terminator t leaves in the tables.               *)
LEMMA StoredTables ==
    ASSUME TypeInv, NEW L, NEW b, NEW V, Advance(L, b, V), NEW t, Store(L, b, t)
    PROVE  /\ DOMAIN term' = 1 .. Len(L)
           /\ \A i \in 1 .. Len(L) :
                term'[i] = IF i = b THEN t
                           ELSE IF i <= Len(label) THEN term[i]
                           ELSE Ends("UNREACHABLE")
           /\ DOMAIN reads' = 1 .. Len(L)
           /\ \A i \in 1 .. Len(L) :
                reads'[i] = IF i = b THEN Drive(b)
                            ELSE IF i <= Len(label) THEN reads[i] ELSE Empty
           /\ UNCHANGED <<rewrite, pc>>
<1>1. /\ term' = [Pad(term, Len(L), Ends("UNREACHABLE")) EXCEPT ![b] = t]
      /\ reads' = [Pad(reads, Len(L), Empty) EXCEPT ![b] = Drive(b)]
      /\ UNCHANGED <<rewrite, pc>>
  BY DEF Store
<1>2. /\ DOMAIN term = 1 .. Len(label) /\ DOMAIN reads = 1 .. Len(label)
      /\ Len(label) \in Nat
  BY Tables
<1>3. Len(L) \in Nat /\ b \in 1 .. Len(L)
  BY DEF Advance
<1>4. /\ DOMAIN Pad(term, Len(L), Ends("UNREACHABLE")) = 1 .. Len(L)
      /\ \A i \in 1 .. Len(L) : Pad(term, Len(L), Ends("UNREACHABLE"))[i] =
            IF i <= Len(label) THEN term[i] ELSE Ends("UNREACHABLE")
  BY <1>2, <1>3 DEF Pad
<1>5. /\ DOMAIN Pad(reads, Len(L), Empty) = 1 .. Len(L)
      /\ \A i \in 1 .. Len(L) : Pad(reads, Len(L), Empty)[i] =
            IF i <= Len(label) THEN reads[i] ELSE Empty
  BY <1>2, <1>3 DEF Pad
<1>6. DOMAIN term' = 1 .. Len(L) /\ DOMAIN reads' = 1 .. Len(L)
  BY <1>1, <1>4, <1>5
<1>7. \A i \in 1 .. Len(L) :
        term'[i] = IF i = b THEN t
                   ELSE IF i <= Len(label) THEN term[i] ELSE Ends("UNREACHABLE")
  BY <1>1, <1>3, <1>4
<1>8. \A i \in 1 .. Len(L) :
        reads'[i] = IF i = b THEN Drive(b)
                    ELSE IF i <= Len(label) THEN reads[i] ELSE Empty
  BY <1>1, <1>3, <1>5
<1> QED BY <1>1, <1>6, <1>7, <1>8

LEMMA StopAdvances ==
    ASSUME TypeInv, MayEvaluate, NEW kind, EvalStop(kind)
    PROVE  /\ Advance(label, Current, {})
           /\ Store(label, Current, Ends(kind))
           /\ edges' = edges /\ incoming' = incoming
<1>1. OrderInv
  BY DEF TypeInv
<1>2. /\ Dequeue /\ Store(label, Current, Ends(kind))
      /\ worklist' = Tail(worklist)
      /\ UNCHANGED <<edges, incoming, enqueued>>
  BY DEF EvalStop
<1>3. /\ Current = Evaluated + 1 /\ Current \in 1 .. Len(label)
      /\ Evaluated \in Nat
      /\ Tail(worklist) \in Seq(Vpc)
      /\ Aligned(label, Tail(worklist), Current)
      /\ processed' = {label[i] : i \in 1 .. Current}
  BY <1>1, <1>2, DequeueProperties
<1>4. /\ label \in Seq(Vpc) /\ IsInjective(label) /\ Len(label) \in Nat
      /\ DOMAIN label = 1 .. Len(label)
  BY Tables
<1>5. label' = label
  BY <1>2 DEF Store
<1>6. Current \in Nat /\ Len(label) <= Len(label)
      /\ Range(label) = Range(label) \cup {}
  BY <1>3, <1>4
<1>7. Advance(label, Current, {})
  BY <1>2, <1>3, <1>4, <1>5, <1>6, AdvanceIntro
<1> QED BY <1>2, <1>7

LEMMA GotoAdvances ==
    ASSUME TypeInv, MayEvaluate, NEW v \in Vpc, NEW out, EvalGoto(v, out)
    PROVE  LET L == GetBlock(label, v)
               s == IdOf(L, v)
           IN /\ Advance(L, Current, {v})
              /\ s \in 1 .. Len(L) /\ L[s] = v
              /\ Store(L, Current, Jmp(s))
              /\ edges' = Append(edges,
                            [from |-> Current, to |-> s, back |-> IsBack(v)])
              /\ incoming' = Link(Pad(incoming, Len(L), <<>>), s, Current, out)
<1> DEFINE L == GetBlock(label, v)
           W == Enqueue(Tail(worklist), Range(label), v)
           s == IdOf(L, v)
           e == [from |-> Current, to |-> s, back |-> IsBack(v)]
<1>1. OrderInv
  BY DEF TypeInv
<1>2. /\ Dequeue /\ Store(L, Current, Jmp(s))
      /\ edges' = Append(edges, e)
      /\ incoming' = Link(Pad(incoming, Len(L), <<>>), s, Current, out)
      /\ worklist' = Enqueue(Tail(worklist), enqueued, v)
  BY DEF EvalGoto
<1>3. /\ Current = Evaluated + 1 /\ Current \in 1 .. Len(label)
      /\ Evaluated \in Nat
      /\ Tail(worklist) \in Seq(Vpc)
      /\ Aligned(label, Tail(worklist), Current)
      /\ processed' = {label[i] : i \in 1 .. Current}
      /\ enqueued = Range(label)
  BY <1>1, <1>2, DequeueProperties
<1>4. /\ label \in Seq(Vpc) /\ IsInjective(label) /\ Len(label) \in Nat
      /\ DOMAIN label = 1 .. Len(label)
  BY Tables
<1>5. /\ L \in Seq(Vpc) /\ IsInjective(L)
      /\ Range(L) = Range(label) \cup {v}
      /\ Len(L) \in {Len(label), Len(label) + 1}
      /\ \A i \in 1 .. Len(label) : L[i] = label[i]
  BY <1>4, GetBlockProperties
<1>6. W \in Seq(Vpc) /\ Aligned(L, W, Current)
  <2>1. Current \in Nat
    BY <1>3, <1>4
  <2> QED BY <2>1, <1>3, <1>4, EnqueueAligned
<1>7. label' = L /\ worklist' = W
  BY <1>2, <1>3 DEF Store
<1> HIDE DEF L, W
<1>8. Len(label) <= Len(L) /\ Current \in Nat
  BY <1>3, <1>4, <1>5
<1>9. Advance(L, Current, {v})
  BY <1>3, <1>4, <1>5, <1>6, <1>7, <1>8, AdvanceIntro
<1>10. s \in 1 .. Len(L) /\ L[s] = v
  <2>1. v \in Range(L)
    BY <1>5
  <2> QED BY <2>1, <1>5, IdOfProperties
<1> HIDE DEF s
<1> QED BY <1>2, <1>9, <1>10 DEF L, s

LEMMA BranchAdvances ==
    ASSUME TypeInv, MayEvaluate, NEW t \in Vpc, NEW f \in Vpc,
           NEW outT, NEW outF, EvalBranch(t, f, outT, outF)
    PROVE  LET L == GetBlock(GetBlock(label, t), f)
           IN /\ Advance(L, Current, {t, f})
              /\ IdOf(L, t) \in 1 .. Len(L) /\ L[IdOf(L, t)] = t
              /\ IdOf(L, f) \in 1 .. Len(L) /\ L[IdOf(L, f)] = f
<1> DEFINE M == GetBlock(label, t)
           L == GetBlock(M, f)
           X == Enqueue(Tail(worklist), Range(label), t)
           W == Enqueue(X, Range(M), f)
           x == IdOf(L, t)
           y == IdOf(L, f)
           d == [from |-> Current, to |-> x, back |-> IsBack(t)]
           e == [from |-> Current, to |-> y, back |-> IsBack(f)]
<1>1. OrderInv
  BY DEF TypeInv
<1>2. /\ Dequeue /\ Store(L, Current, CJmp(x, y))
      /\ edges' = edges \o <<d, e>>
      /\ incoming' = Link(Link(Pad(incoming, Len(L), <<>>), x, Current, outT),
                          y, Current, outF)
      /\ worklist' = Enqueue(Enqueue(Tail(worklist), enqueued, t),
                             enqueued \cup {t}, f)
  BY DEF EvalBranch
<1>3. /\ Current = Evaluated + 1 /\ Current \in 1 .. Len(label)
      /\ Evaluated \in Nat
      /\ Tail(worklist) \in Seq(Vpc)
      /\ Aligned(label, Tail(worklist), Current)
      /\ processed' = {label[i] : i \in 1 .. Current}
      /\ enqueued = Range(label)
  BY <1>1, <1>2, DequeueProperties
<1>4. /\ label \in Seq(Vpc) /\ IsInjective(label) /\ Len(label) \in Nat
      /\ DOMAIN label = 1 .. Len(label)
  BY Tables
<1>5. /\ M \in Seq(Vpc) /\ IsInjective(M)
      /\ Range(M) = Range(label) \cup {t}
      /\ Len(M) \in {Len(label), Len(label) + 1}
      /\ \A i \in 1 .. Len(label) : M[i] = label[i]
  BY <1>4, GetBlockProperties
<1>6. X \in Seq(Vpc) /\ Aligned(M, X, Current) /\ Current \in Nat
  <2>1. Current \in Nat
    BY <1>3, <1>4
  <2> QED BY <2>1, <1>3, <1>4, EnqueueAligned
<1>7. label' = L /\ worklist' = W
  BY <1>2, <1>3, <1>5 DEF Store
<1> HIDE DEF M, X
<1>8. /\ L \in Seq(Vpc) /\ IsInjective(L)
      /\ Range(L) = Range(M) \cup {f}
      /\ Len(L) \in {Len(M), Len(M) + 1}
      /\ \A i \in 1 .. Len(M) : L[i] = M[i]
  BY <1>5, GetBlockProperties
<1>9. W \in Seq(Vpc) /\ Aligned(L, W, Current)
  BY <1>5, <1>6, EnqueueAligned
<1> HIDE DEF L, W
<1>10. /\ Len(label) <= Len(L)
       /\ \A i \in 1 .. Len(label) : L[i] = label[i]
       /\ Range(L) = Range(label) \cup {t, f}
  BY <1>4, <1>5, <1>8
<1>11. Advance(L, Current, {t, f})
  BY <1>3, <1>4, <1>6, <1>7, <1>8, <1>9, <1>10, AdvanceIntro
<1>12. /\ x \in 1 .. Len(L) /\ L[x] = t
       /\ y \in 1 .. Len(L) /\ L[y] = f
  <2>1. t \in Range(L) /\ f \in Range(L)
    BY <1>10
  <2> QED BY <2>1, <1>8, IdOfProperties
<1> HIDE DEF x, y
<1> QED BY <1>11, <1>12 DEF L, M, x, y
-----------------------------------------------------------------------------
(* Where the predecessor states come from *)

\* A full-SSA segment hands on entry symbols of its own block only.
OwnSymbols(e) ==
    SSA => \A r \in Reg : e.state[r][1] = "entry" =>
              \E q \in TrackedRegs : e.state[r] = Sym(q, e.pred)

\* Predecessors of the blocks of a table are among the first m blocks.
Flows(inc, m) ==
    \A b \in DOMAIN inc : \A j \in DOMAIN inc[b] :
        inc[b][j].pred \in 1 .. m /\ OwnSymbols(inc[b][j])

\* Each of the blocks S was found along an edge from an earlier block.
FoundFromAbove(inc, S) ==
    \A b \in S : inc[b] # <<>> /\ inc[b][1].pred < b

FlowInv ==
    /\ Flows(incoming, Evaluated)
    /\ FoundFromAbove(incoming, 2 .. Len(label))

\* What drove each block is what is stored of it, until the rewrite.
Symbols(b) == [r \in Reg |-> IF r \in TrackedRegs THEN Sym(r, b) ELSE Absent]
ReadsInv ==
    /\ pc \in {"subst", "resolve", "chase"} => SSA
    /\ \A b \in Blocks :
        /\ SSA /\ pc # "done" =>
              reads[b] = IF b <= Evaluated THEN Symbols(b) ELSE Empty
        /\ ~SSA /\ b \in 2 .. Evaluated => reads[b] = incoming[b][1].state

(* A table padded for blocks without predecessors.                         *)
LEMMA PadIncoming ==
    ASSUME NEW inc \in Seq(Seq(Incoming)), NEW n \in Nat, Len(inc) <= n
    PROVE  /\ Pad(inc, n, <<>>) \in Seq(Seq(Incoming))
           /\ DOMAIN Pad(inc, n, <<>>) = 1 .. n
           /\ \A i \in 1 .. n :
                Pad(inc, n, <<>>)[i] = IF i <= Len(inc) THEN inc[i] ELSE <<>>
<1>1. <<>> \in Seq(Incoming)
  BY EmptySeq
<1>2. DOMAIN inc = 1 .. Len(inc) /\ Len(inc) \in Nat
  BY LenProperties
<1>3. Pad(inc, n, <<>>) \in Seq(Seq(Incoming))
  BY <1>1, PadProperties
<1> QED BY <1>2, <1>3 DEF Pad

(* Linking an edge into block s appends to that block's list.              *)
LEMMA LinkEffect ==
    ASSUME NEW inc \in Seq(Seq(Incoming)), NEW s \in DOMAIN inc,
           NEW b \in Nat, NEW state \in State
    PROVE  LET e == [pred |-> b, state |-> state]
               new == Link(inc, s, b, state)
           IN /\ new \in Seq(Seq(Incoming)) /\ DOMAIN new = DOMAIN inc
              /\ \A c \in DOMAIN inc : c # s => new[c] = inc[c]
              /\ Len(new[s]) = Len(inc[s]) + 1 /\ Len(inc[s]) \in Nat
              /\ DOMAIN inc[s] = 1 .. Len(inc[s])
              /\ DOMAIN new[s] = 1 .. Len(inc[s]) + 1
              /\ \A j \in 1 .. Len(inc[s]) : new[s][j] = inc[s][j]
              /\ new[s][Len(inc[s]) + 1] = e
<1> DEFINE e == [pred |-> b, state |-> state]
           new == Link(inc, s, b, state)
           A == Append(inc[s], e)
<1>1. new \in Seq(Seq(Incoming)) /\ DOMAIN new = DOMAIN inc
  BY LinkProperties
<1>2. inc[s] \in Seq(Incoming) /\ e \in Incoming
  BY LenProperties DEF Incoming
<1>3. new[s] = A /\ \A c \in DOMAIN inc : c # s => new[c] = inc[c]
  BY DEF Link
<1> HIDE DEF new, e
<1>4. /\ Len(A) = Len(inc[s]) + 1 /\ A \in Seq(Incoming)
      /\ \A j \in 1 .. Len(inc[s]) : A[j] = inc[s][j]
      /\ A[Len(inc[s]) + 1] = e
      /\ Len(inc[s]) \in Nat /\ DOMAIN inc[s] = 1 .. Len(inc[s])
  BY <1>2, AppendProperties, LenProperties
<1>5. DOMAIN A = 1 .. Len(inc[s]) + 1
  BY <1>4, LenProperties
<1> QED BY <1>1, <1>3, <1>4, <1>5 DEF new, e

LEMMA LinkFlows ==
    ASSUME NEW inc \in Seq(Seq(Incoming)), NEW s \in DOMAIN inc,
           NEW m \in Nat, NEW b \in 1 .. m, NEW state \in State,
           Flows(inc, m), OwnSymbols([pred |-> b, state |-> state])
    PROVE  Flows(Link(inc, s, b, state), m)
<1> DEFINE e == [pred |-> b, state |-> state]
           new == Link(inc, s, b, state)
<1>1. /\ DOMAIN new = DOMAIN inc
      /\ \A c \in DOMAIN inc : c # s => new[c] = inc[c]
      /\ Len(inc[s]) \in Nat
      /\ DOMAIN inc[s] = 1 .. Len(inc[s])
      /\ DOMAIN new[s] = 1 .. Len(inc[s]) + 1
      /\ \A j \in 1 .. Len(inc[s]) : new[s][j] = inc[s][j]
      /\ new[s][Len(inc[s]) + 1] = e
  <2>1. b \in Nat
    OBVIOUS
  <2> QED BY <2>1, LinkEffect
<1> HIDE DEF new
<1>2. SUFFICES ASSUME NEW c \in DOMAIN new, NEW j \in DOMAIN new[c]
               PROVE  new[c][j].pred \in 1 .. m /\ OwnSymbols(new[c][j])
  BY DEF Flows, new
<1>3. CASE c # s
  <2>1. new[c] = inc[c] /\ c \in DOMAIN inc
    BY <1>1, <1>2, <1>3
  <2> QED BY <2>1, <1>2 DEF Flows
<1>4. CASE c = s /\ j \in DOMAIN inc[s]
  <2>1. new[s][j] = inc[s][j]
    BY <1>1, <1>4
  <2> QED BY <2>1, <1>4 DEF Flows
<1>5. CASE c = s /\ j = Len(inc[s]) + 1
  BY <1>1, <1>5
<1>6. c = s => j \in DOMAIN inc[s] \/ j = Len(inc[s]) + 1
  BY <1>1, <1>2
<1> QED BY <1>3, <1>4, <1>5, <1>6

(* The first edge into a block stays its first.                            *)
LEMMA LinkKeepsFirst ==
    ASSUME NEW inc \in Seq(Seq(Incoming)), NEW s \in DOMAIN inc,
           NEW b \in Nat, NEW state \in State
    PROVE  \A c \in DOMAIN inc : inc[c] # <<>> =>
              /\ Link(inc, s, b, state)[c] # <<>>
              /\ Link(inc, s, b, state)[c][1] = inc[c][1]
<1> DEFINE new == Link(inc, s, b, state)
<1>1. /\ DOMAIN new = DOMAIN inc
      /\ \A d \in DOMAIN inc : d # s => new[d] = inc[d]
      /\ Len(inc[s]) \in Nat
      /\ DOMAIN inc[s] = 1 .. Len(inc[s])
      /\ DOMAIN new[s] = 1 .. Len(inc[s]) + 1
      /\ \A j \in 1 .. Len(inc[s]) : new[s][j] = inc[s][j]
      /\ new[s][Len(inc[s]) + 1] = [pred |-> b, state |-> state]
  BY LinkEffect
<1>2. inc[s] \in Seq(Incoming)
  BY LenProperties
<1> HIDE DEF new
<1> SUFFICES ASSUME NEW c \in DOMAIN inc, inc[c] # <<>>
             PROVE  new[c] # <<>> /\ new[c][1] = inc[c][1]
  BY DEF new
<1>3. CASE c # s
  BY <1>1, <1>3
<1>4. CASE c = s
  <2>1. 1 \in 1 .. Len(inc[s])
    BY <1>1, <1>2, <1>4, EmptySeq
  <2>2. new[s] # <<>>
    <3>1. 1 \in DOMAIN new[s]
      BY <1>1
    <3>2. DOMAIN <<>> = {}
      OBVIOUS
    <3> QED BY <3>1, <3>2
  <2> QED BY <1>1, <1>4, <2>1, <2>2
<1> QED BY <1>3, <1>4

(* An edge from b is the first one into a block that has none yet.         *)
LEMMA LinkIsFirst ==
    ASSUME NEW inc \in Seq(Seq(Incoming)), NEW s \in DOMAIN inc,
           NEW b \in Nat, NEW state \in State
    PROVE  inc[s] = <<>> =>
              /\ Link(inc, s, b, state)[s] # <<>>
              /\ Link(inc, s, b, state)[s][1].pred = b
<1> DEFINE new == Link(inc, s, b, state)
<1>1. /\ DOMAIN new[s] = 1 .. Len(inc[s]) + 1
      /\ new[s][Len(inc[s]) + 1] = [pred |-> b, state |-> state]
  BY LinkEffect
<1> HIDE DEF new
<1> SUFFICES ASSUME inc[s] = <<>>
             PROVE  new[s] # <<>> /\ new[s][1].pred = b
  BY DEF new
<1>2. Len(inc[s]) = 0
  BY EmptySeq
<1>3. 1 \in DOMAIN new[s] /\ new[s][1].pred = b
  BY <1>1, <1>2
<1>4. DOMAIN <<>> = {}
  OBVIOUS
<1> QED BY <1>3, <1>4

(* With an edge into s, which has an earlier one or comes after b, block s *)
(* may join the blocks found from above.                                   *)
LEMMA LinkFound ==
    ASSUME NEW inc \in Seq(Seq(Incoming)), NEW s \in DOMAIN inc,
           NEW b \in Nat, NEW state \in State, NEW S \in SUBSET DOMAIN inc,
           FoundFromAbove(inc, S), NEW T \in SUBSET (S \cup {s}),
           s \in T => s \in S \/ (inc[s] = <<>> /\ b < s)
    PROVE  FoundFromAbove(Link(inc, s, b, state), T)
<1> SUFFICES ASSUME NEW c \in T
             PROVE  /\ Link(inc, s, b, state)[c] # <<>>
                    /\ Link(inc, s, b, state)[c][1].pred < c
  BY DEF FoundFromAbove
<1>1. CASE c \in S
  <2>1. c \in DOMAIN inc /\ inc[c] # <<>> /\ inc[c][1].pred < c
    BY <1>1 DEF FoundFromAbove
  <2> QED BY <2>1, LinkKeepsFirst
<1>2. CASE c \notin S
  <2>1. c = s /\ inc[s] = <<>> /\ b < s
    BY <1>2
  <2> QED BY <2>1, LinkIsFirst
<1> QED BY <1>1, <1>2

(* The state a segment hands on names entry symbols of its own block.      *)
LEMMA OutStateOwn ==
    ASSUME NEW b \in Nat, NEW out \in OutState(Drive(b))
    PROVE  OwnSymbols([pred |-> b, state |-> out])
<1> SUFFICES ASSUME SSA, NEW r \in Reg, out[r][1] = "entry"
             PROVE  \E q \in TrackedRegs : out[r] = Sym(q, b)
  BY DEF OwnSymbols
<1>1. Drive(b) = [q \in Reg |-> IF q \in TrackedRegs THEN Sym(q, b) ELSE Absent]
  BY DEF Drive
<1>2. out[r] \in {Known(c) : c \in Const} \cup Range(Drive(b)) \cup {Absent}
  BY DEF OutState
<1>3. \A c \in Const : Known(c)[1] # "entry"
  BY DEF Known
<1>4. Absent[1] # "entry"
  BY DEF Absent
<1>5. out[r] \in Range(Drive(b))
  BY <1>2, <1>3, <1>4
<1>6. PICK q \in Reg : out[r] = Drive(b)[q]
  BY <1>1, <1>5 DEF Range
<1>7. q \in TrackedRegs
  BY <1>1, <1>4, <1>6
<1> QED BY <1>1, <1>6, <1>7

(* A table padded for a larger graph says the same.                        *)
LEMMA PadFlows ==
    ASSUME NEW inc \in Seq(Seq(Incoming)), NEW n \in Nat, Len(inc) <= n,
           NEW k \in Nat, NEW m \in Nat, k <= m, Flows(inc, k)
    PROVE  Flows(Pad(inc, n, <<>>), m)
<1> DEFINE P == Pad(inc, n, <<>>)
<1>1. /\ P \in Seq(Seq(Incoming)) /\ DOMAIN P = 1 .. n
      /\ \A i \in 1 .. n : P[i] = IF i <= Len(inc) THEN inc[i] ELSE <<>>
  BY PadIncoming
<1>2. DOMAIN inc = 1 .. Len(inc) /\ Len(inc) \in Nat
  BY LenProperties
<1> HIDE DEF P
<1>3. SUFFICES ASSUME NEW c \in DOMAIN P, NEW j \in DOMAIN P[c]
               PROVE  P[c][j].pred \in 1 .. m /\ OwnSymbols(P[c][j])
  BY DEF Flows, P
<1>4. CASE c <= Len(inc)
  <2>1. c \in DOMAIN inc /\ P[c] = inc[c]
    BY <1>1, <1>2, <1>4
  <2>2. inc[c][j].pred \in 1 .. k /\ OwnSymbols(inc[c][j])
    BY <2>1, <1>3 DEF Flows
  <2> QED BY <2>1, <2>2
<1>5. CASE ~(c <= Len(inc))
  <2>1. P[c] = <<>>
    BY <1>1, <1>5
  <2>2. DOMAIN <<>> = {}
    OBVIOUS
  <2> QED BY <2>1, <2>2, <1>3
<1> QED BY <1>4, <1>5

LEMMA FlowInvGoto ==
    ASSUME TypeInv, FlowInv, MayEvaluate, NEW v \in Vpc,
           NEW out \in OutState(Drive(Current)), EvalGoto(v, out)
    PROVE  FlowInv'
<1> DEFINE L == GetBlock(label, v)
           s == IdOf(L, v)
           b == Current
           P == Pad(incoming, Len(L), <<>>)
<1>1. /\ Advance(L, b, {v})
      /\ s \in 1 .. Len(L) /\ L[s] = v
      /\ incoming' = Link(P, s, b, out)
  BY GotoAdvances
<1>2. /\ incoming \in Seq(Seq(Incoming)) /\ DOMAIN incoming = 1 .. Len(label)
      /\ Len(label) \in Nat /\ Len(incoming) = Len(label)
  <2>1. incoming \in Seq(Seq(Incoming)) /\ DOMAIN incoming = 1 .. Len(label)
        /\ Len(label) \in Nat
    BY Tables
  <2> QED BY <2>1, LenProperties
<1> HIDE DEF L, s
<1>3. /\ Len(L) \in Nat /\ Len(label) <= Len(L) /\ IsInjective(L)
      /\ DOMAIN L = 1 .. Len(L)
      /\ \A i \in Len(label) + 1 .. Len(L) : L[i] = v
      /\ b = Evaluated + 1 /\ Evaluated \in Nat /\ b \in 1 .. Len(label)
      /\ b \in Nat /\ label' = L /\ Evaluated' = b
  BY <1>1, LenProperties DEF Advance
<1>4. out \in State
  <2>1. Drive(b) \in State
    BY <1>3, DriveType, Tables
  <2> QED BY <2>1, OutStateType
<1>5. OwnSymbols([pred |-> b, state |-> out])
  BY <1>3, OutStateOwn
<1> HIDE DEF b
<1>6. /\ P \in Seq(Seq(Incoming)) /\ DOMAIN P = 1 .. Len(L)
      /\ \A i \in 1 .. Len(L) :
            P[i] = IF i <= Len(label) THEN incoming[i] ELSE <<>>
  BY <1>2, <1>3, PadIncoming
<1>7. Flows(P, b)
  <2>1. Evaluated <= b /\ Len(incoming) <= Len(L)
    BY <1>2, <1>3
  <2>2. Flows(incoming, Evaluated)
    BY DEF FlowInv
  <2> QED BY <2>1, <2>2, <1>2, <1>3, PadFlows DEF P
<1> HIDE DEF P
<1>8. FoundFromAbove(P, 2 .. Len(label))
  <2>1. FoundFromAbove(incoming, 2 .. Len(label))
    BY DEF FlowInv
  <2>2. \A c \in 2 .. Len(label) : P[c] = incoming[c]
    BY <1>2, <1>3, <1>6
  <2> QED BY <2>1, <2>2 DEF FoundFromAbove
<1>9. Flows(incoming', b)
  <2>1. b \in 1 .. b /\ s \in DOMAIN P
    BY <1>1, <1>3, <1>6
  <2> QED BY <2>1, <1>1, <1>3, <1>4, <1>5, <1>6, <1>7, LinkFlows
<1>10. FoundFromAbove(incoming', 2 .. Len(L))
  <2> DEFINE S == 2 .. Len(label)
             T == 2 .. Len(L)
  <2>1. S \in SUBSET DOMAIN P /\ s \in DOMAIN P
    BY <1>1, <1>3, <1>6
  <2>2. ASSUME NEW c \in Len(label) + 1 .. Len(L) PROVE c = s
    <3>1. c \in DOMAIN L /\ s \in DOMAIN L /\ L[c] = L[s]
      BY <1>1, <1>2, <1>3
    <3> QED BY <3>1, <1>3 DEF IsInjective
  <2>3. T \in SUBSET (S \cup {s})
    BY <1>2, <1>3, <2>2
  <2>4. s \in T => s \in S \/ (P[s] = <<>> /\ b < s)
    BY <1>1, <1>2, <1>3, <1>6
  <2> HIDE DEF S, T
  <2>5. FoundFromAbove(P, S)
    BY <1>8 DEF S
  <2>6. FoundFromAbove(Link(P, s, b, out), T)
    <3>1. /\ P \in Seq(Seq(Incoming)) /\ s \in DOMAIN P
          /\ b \in Nat /\ out \in State /\ S \in SUBSET DOMAIN P
      BY <2>1, <1>3, <1>4, <1>6
    <3> QED BY <3>1, <2>3, <2>4, <2>5, LinkFound
  <2> QED BY <2>6, <1>1 DEF T
<1> QED BY <1>3, <1>9, <1>10 DEF FlowInv

LEMMA FlowInvBranch ==
    ASSUME TypeInv, FlowInv, MayEvaluate, NEW t \in Vpc, NEW f \in Vpc,
           NEW outT \in OutState(Drive(Current)),
           NEW outF \in OutState(Drive(Current)), EvalBranch(t, f, outT, outF)
    PROVE  FlowInv'
<1> DEFINE L == GetBlock(GetBlock(label, t), f)
           x == IdOf(L, t)
           y == IdOf(L, f)
           b == Current
           P == Pad(incoming, Len(L), <<>>)
<1>1. /\ Advance(L, b, {t, f})
      /\ x \in 1 .. Len(L) /\ L[x] = t
      /\ y \in 1 .. Len(L) /\ L[y] = f
  BY BranchAdvances
<1>15. incoming' = Link(Link(P, x, b, outT), y, b, outF)
  BY DEF EvalBranch
<1>2. /\ incoming \in Seq(Seq(Incoming)) /\ DOMAIN incoming = 1 .. Len(label)
      /\ Len(label) \in Nat /\ Len(incoming) = Len(label)
  <2>1. incoming \in Seq(Seq(Incoming)) /\ DOMAIN incoming = 1 .. Len(label)
        /\ Len(label) \in Nat
    BY Tables
  <2> QED BY <2>1, LenProperties
<1> HIDE DEF L, x, y
<1>3. /\ Len(L) \in Nat /\ Len(label) <= Len(L) /\ IsInjective(L)
      /\ DOMAIN L = 1 .. Len(L)
      /\ \A i \in Len(label) + 1 .. Len(L) : L[i] \in {t, f}
      /\ b = Evaluated + 1 /\ Evaluated \in Nat /\ b \in 1 .. Len(label)
      /\ b \in Nat /\ label' = L /\ Evaluated' = b
  BY <1>1, LenProperties DEF Advance
<1>4. outT \in State /\ outF \in State
  <2>1. Drive(b) \in State
    BY <1>3, DriveType, Tables
  <2> QED BY <2>1, OutStateType
<1>5. /\ OwnSymbols([pred |-> b, state |-> outT])
      /\ OwnSymbols([pred |-> b, state |-> outF])
  BY <1>3, OutStateOwn
<1> HIDE DEF b
<1>6. /\ P \in Seq(Seq(Incoming)) /\ DOMAIN P = 1 .. Len(L)
      /\ \A i \in 1 .. Len(L) :
            P[i] = IF i <= Len(label) THEN incoming[i] ELSE <<>>
  BY <1>2, <1>3, PadIncoming
<1>7. Flows(P, b)
  <2>1. Evaluated <= b /\ Len(incoming) <= Len(L)
    BY <1>2, <1>3
  <2>2. Flows(incoming, Evaluated)
    BY DEF FlowInv
  <2> QED BY <2>1, <2>2, <1>2, <1>3, PadFlows DEF P
<1> HIDE DEF P
<1>8. FoundFromAbove(P, 2 .. Len(label))
  <2>1. FoundFromAbove(incoming, 2 .. Len(label))
    BY DEF FlowInv
  <2>2. \A c \in 2 .. Len(label) : P[c] = incoming[c]
    BY <1>2, <1>3, <1>6
  <2> QED BY <2>1, <2>2 DEF FoundFromAbove
<1> DEFINE Q == Link(P, x, b, outT)
<1>9. /\ Q \in Seq(Seq(Incoming)) /\ DOMAIN Q = 1 .. Len(L)
      /\ x \in DOMAIN P /\ y \in DOMAIN Q
      /\ \A c \in DOMAIN P : c # x => Q[c] = P[c]
  <2>1. x \in DOMAIN P
    BY <1>1, <1>6
  <2>2. /\ Q \in Seq(Seq(Incoming)) /\ DOMAIN Q = DOMAIN P
        /\ \A c \in DOMAIN P : c # x => Q[c] = P[c]
        /\ Len(Q[x]) = Len(P[x]) + 1 /\ Len(P[x]) \in Nat
        /\ DOMAIN P[x] = 1 .. Len(P[x])
        /\ DOMAIN Q[x] = 1 .. Len(P[x]) + 1
        /\ \A j \in 1 .. Len(P[x]) : Q[x][j] = P[x][j]
        /\ Q[x][Len(P[x]) + 1] = [pred |-> b, state |-> outT]
    <3>1. P \in Seq(Seq(Incoming)) /\ b \in Nat /\ outT \in State
      BY <1>3, <1>4, <1>6
    <3> QED BY <2>1, <3>1, LinkEffect
  <2> HIDE DEF Q
  <2> QED BY <2>1, <2>2, <1>1, <1>6
<1>10. Flows(Q, b)
  <2>1. b \in 1 .. b
    BY <1>3
  <2> QED BY <2>1, <1>3, <1>4, <1>5, <1>6, <1>7, <1>9, LinkFlows
<1>11. FoundFromAbove(Q, (2 .. Len(label)) \cup ({x} \ {1}))
  <2> DEFINE S == 2 .. Len(label)
             T == (2 .. Len(label)) \cup ({x} \ {1})
  <2>1. S \in SUBSET DOMAIN P /\ T \in SUBSET (S \cup {x})
    BY <1>3, <1>6
  <2>2. x \in T => x \in S \/ (P[x] = <<>> /\ b < x)
    BY <1>1, <1>2, <1>3, <1>6
  <2> HIDE DEF S, T
  <2>3. FoundFromAbove(P, S)
    BY <1>8 DEF S
  <2>4. x \in DOMAIN P
    BY <1>9
  <2>5. FoundFromAbove(Link(P, x, b, outT), T)
    <3>1. P \in Seq(Seq(Incoming)) /\ b \in Nat /\ outT \in State
      BY <1>3, <1>4, <1>6
    <3> QED BY <2>1, <2>2, <2>3, <2>4, <3>1, LinkFound
  <2> QED BY <2>5 DEF T, Q
<1>16. incoming' = Link(Q, y, b, outF)
  BY <1>15 DEF Q
<1> HIDE DEF Q
<1>12. Flows(incoming', b)
  <2>1. b \in 1 .. b
    BY <1>3
  <2> QED BY <2>1, <1>16, <1>3, <1>4, <1>5, <1>9, <1>10, LinkFlows
<1>13. FoundFromAbove(incoming', 2 .. Len(L))
  <2> DEFINE S == (2 .. Len(label)) \cup ({x} \ {1})
             T == 2 .. Len(L)
  <2>1. S \in SUBSET DOMAIN Q
    BY <1>1, <1>3, <1>9
  <2>2. ASSUME NEW c \in Len(label) + 1 .. Len(L) PROVE c = x \/ c = y
    <3>1. /\ c \in DOMAIN L /\ x \in DOMAIN L /\ y \in DOMAIN L
          /\ L[c] = L[x] \/ L[c] = L[y]
      BY <1>1, <1>2, <1>3
    <3> QED BY <3>1, <1>3 DEF IsInjective
  <2>3. T \in SUBSET (S \cup {y})
    <3> SUFFICES ASSUME NEW c \in T, c \notin S PROVE c = y
      OBVIOUS
    <3>1. c \in Len(label) + 1 .. Len(L) /\ c # x
      BY <1>2, <1>3
    <3> QED BY <3>1, <2>2
  <2>4. y \in T => y \in S \/ (Q[y] = <<>> /\ b < y)
    <3> SUFFICES ASSUME y \in T, y \notin S PROVE Q[y] = <<>> /\ b < y
      OBVIOUS
    <3>1. y \in Len(label) + 1 .. Len(L) /\ y # x
      BY <1>2, <1>3
    <3>2. y \in DOMAIN P /\ Q[y] = P[y]
      BY <3>1, <1>2, <1>3, <1>6, <1>9
    <3> QED BY <3>1, <3>2, <1>2, <1>3, <1>6
  <2> HIDE DEF S, T
  <2>5. FoundFromAbove(Q, S)
    BY <1>11 DEF S
  <2>6. FoundFromAbove(Link(Q, y, b, outF), T)
    <3>1. Q \in Seq(Seq(Incoming)) /\ y \in DOMAIN Q
      BY <1>9
    <3>2. b \in Nat /\ outF \in State
      BY <1>3, <1>4
    <3> QED BY <2>1, <2>3, <2>4, <2>5, <3>1, <3>2, LinkFound
  <2> QED BY <2>6, <1>16 DEF T
<1> QED BY <1>3, <1>12, <1>13 DEF FlowInv

(* An iteration is one of three kinds.                                     *)
LEMMA FlowInvExplore ==
    ASSUME TypeInv, FlowInv, Explore
    PROVE  FlowInv'
<1>1. MayEvaluate
  BY DEF Explore
<1>2. CASE \E kind \in {"RET", "UNREACHABLE"} : EvalStop(kind)
  <2>1. Advance(label, Current, {}) /\ incoming' = incoming
    BY <1>1, <1>2, StopAdvances
  <2>2. label' = label /\ Evaluated \in Nat /\ Evaluated' = Evaluated + 1
    BY <2>1 DEF Advance
  <2>3. Flows(incoming, Evaluated)' /\ FoundFromAbove(incoming, 2 .. Len(label))'
    BY <2>1, <2>2 DEF FlowInv, Flows, FoundFromAbove
  <2> QED BY <2>3 DEF FlowInv
<1>3. CASE \E v \in Vpc, out \in OutState(Drive(Current)) : EvalGoto(v, out)
  BY <1>1, <1>3, FlowInvGoto
<1>4. CASE \E t, f \in Vpc, outT, outF \in OutState(Drive(Current)) :
                EvalBranch(t, f, outT, outF)
  BY <1>1, <1>4, FlowInvBranch
<1> QED BY <1>2, <1>3, <1>4 DEF Explore

(* The steps after the exploration leave the graph as it is.               *)
LEMMA GraphStays ==
    ASSUME [Next]_vars, ~Explore
    PROVE  UNCHANGED <<label, term, edges, incoming, queue>> /\ UNCHANGED Evaluated
BY DEF Next, vars, blocks, queue, BuildPhis, BuildSubst, PickKey, Follow,
       SettleKey, Rewrite, Evaluated

LEMMA ExplorationGoesOn ==
    ASSUME Explore
    PROVE  pc' = "explore"
BY DEF Explore, EvalStop, EvalGoto, EvalBranch, Store

LEMMA FlowInvNext == TypeInv /\ FlowInv /\ [Next]_vars => FlowInv'
<1> SUFFICES ASSUME TypeInv, FlowInv, [Next]_vars PROVE FlowInv'
  OBVIOUS
<1>1. CASE Explore
  BY <1>1, FlowInvExplore
<1>2. CASE ~Explore
  BY <1>2, GraphStays DEF FlowInv
<1> QED BY <1>1, <1>2

LEMMA FlowInvInit == Init => FlowInv
<1> SUFFICES ASSUME Init PROVE FlowInv
  OBVIOUS
<1>1. incoming = << <<>> >> /\ Len(label) = 1
  BY DEF Init
<1>2. DOMAIN incoming = {1} /\ incoming[1] = <<>> /\ DOMAIN incoming[1] = {}
  BY <1>1
<1> QED BY <1>1, <1>2 DEF FlowInv, Flows, FoundFromAbove

(* What drove each block is stored of it, and stays the first predecessor's *)
(* state when more edges lead to the block.                                 *)
LEMMA ReadsInvInit == Init => ReadsInv
<1> SUFFICES ASSUME Init PROVE ReadsInv
  OBVIOUS
<1>1. /\ label = <<EntryVpc>> /\ reads = <<Empty>> /\ worklist = <<EntryVpc>>
      /\ pc = "explore"
  BY DEF Init
<1>2. Blocks = {1} /\ Evaluated = 0 /\ reads[1] = Empty
  BY <1>1 DEF Blocks, Evaluated
<1> QED BY <1>1, <1>2 DEF ReadsInv

\* The edges of the table inc stay the first ones of the table new.
FirstKept(inc, new, n) ==
    \A c \in 1 .. n : inc[c] # <<>> => new[c] # <<>> /\ new[c][1] = inc[c][1]

LEMMA PadKeepsFirst ==
    ASSUME NEW inc \in Seq(Seq(Incoming)), NEW n \in Nat, Len(inc) <= n
    PROVE  FirstKept(inc, Pad(inc, n, <<>>), Len(inc))
<1>1. \A i \in 1 .. n :
        Pad(inc, n, <<>>)[i] = IF i <= Len(inc) THEN inc[i] ELSE <<>>
  BY PadIncoming
<1>2. Len(inc) \in Nat
  BY LenProperties
<1> QED BY <1>1, <1>2 DEF FirstKept

(* No iteration takes a block's first edge from it.                        *)
LEMMA ExploreKeepsFirst ==
    ASSUME TypeInv, Explore
    PROVE  FirstKept(incoming, incoming', Len(label))
<1>1. MayEvaluate
  BY DEF Explore
<1>2. /\ incoming \in Seq(Seq(Incoming)) /\ DOMAIN incoming = 1 .. Len(label)
      /\ Len(label) \in Nat /\ Len(incoming) = Len(label)
  <2>1. incoming \in Seq(Seq(Incoming)) /\ DOMAIN incoming = 1 .. Len(label)
        /\ Len(label) \in Nat
    BY Tables
  <2> QED BY <2>1, LenProperties
<1>3. CASE \E kind \in {"RET", "UNREACHABLE"} : EvalStop(kind)
  <2>1. incoming' = incoming
    BY <1>3 DEF EvalStop
  <2> QED BY <2>1 DEF FirstKept
<1>4. CASE \E v \in Vpc, out \in OutState(Drive(Current)) : EvalGoto(v, out)
  <2>1. PICK v \in Vpc, out \in OutState(Drive(Current)) : EvalGoto(v, out)
    BY <1>4
  <2> DEFINE L == GetBlock(label, v)
             s == IdOf(L, v)
             P == Pad(incoming, Len(L), <<>>)
  <2>2. Advance(L, Current, {v}) /\ s \in 1 .. Len(L)
    BY <1>1, <2>1, GotoAdvances
  <2>3. incoming' = Link(P, s, Current, out)
    BY <2>1 DEF EvalGoto
  <2> HIDE DEF L, s
  <2>4. /\ Len(L) \in Nat /\ Len(incoming) <= Len(L)
        /\ Current \in 1 .. Len(label) /\ Current \in Nat
    BY <1>2, <2>2 DEF Advance
  <2>5. out \in State
    <3>1. Drive(Current) \in State
      BY <2>4, DriveType, Tables
    <3> QED BY <3>1, OutStateType
  <2>6. P \in Seq(Seq(Incoming)) /\ DOMAIN P = 1 .. Len(L)
    BY <1>2, <2>4, PadIncoming
  <2>7. FirstKept(incoming, P, Len(label))
    BY <1>2, <2>4, PadKeepsFirst
  <2> HIDE DEF P
  <2>8. s \in DOMAIN P
    BY <2>2, <2>6
  <2>9. \A c \in DOMAIN P : P[c] # <<>> =>
            /\ Link(P, s, Current, out)[c] # <<>>
            /\ Link(P, s, Current, out)[c][1] = P[c][1]
    BY <2>4, <2>5, <2>6, <2>8, LinkKeepsFirst
  <2>10. 1 .. Len(label) \subseteq DOMAIN P
    BY <1>2, <2>4, <2>6
  <2> QED BY <2>3, <2>7, <2>9, <2>10 DEF FirstKept
<1>5. CASE \E t, f \in Vpc, outT, outF \in OutState(Drive(Current)) :
                EvalBranch(t, f, outT, outF)
  <2>1. PICK t \in Vpc, f \in Vpc, outT \in OutState(Drive(Current)),
             outF \in OutState(Drive(Current)) : EvalBranch(t, f, outT, outF)
    BY <1>5
  <2> DEFINE L == GetBlock(GetBlock(label, t), f)
             x == IdOf(L, t)
             y == IdOf(L, f)
             P == Pad(incoming, Len(L), <<>>)
             Q == Link(P, x, Current, outT)
  <2>2. Advance(L, Current, {t, f}) /\ x \in 1 .. Len(L) /\ y \in 1 .. Len(L)
    BY <1>1, <2>1, BranchAdvances
  <2>3. incoming' = Link(Q, y, Current, outF)
    BY <2>1 DEF EvalBranch
  <2> HIDE DEF L, x, y
  <2>4. /\ Len(L) \in Nat /\ Len(incoming) <= Len(L)
        /\ Current \in 1 .. Len(label) /\ Current \in Nat
    BY <1>2, <2>2 DEF Advance
  <2>5. outT \in State /\ outF \in State
    <3>1. Drive(Current) \in State
      BY <2>4, DriveType, Tables
    <3> QED BY <3>1, OutStateType
  <2>6. P \in Seq(Seq(Incoming)) /\ DOMAIN P = 1 .. Len(L)
    BY <1>2, <2>4, PadIncoming
  <2>7. FirstKept(incoming, P, Len(label))
    BY <1>2, <2>4, PadKeepsFirst
  <2> HIDE DEF P
  <2>8. x \in DOMAIN P
    BY <2>2, <2>6
  <2>9. \A c \in DOMAIN P : P[c] # <<>> => Q[c] # <<>> /\ Q[c][1] = P[c][1]
    BY <2>4, <2>5, <2>6, <2>8, LinkKeepsFirst
  <2>10. Q \in Seq(Seq(Incoming)) /\ DOMAIN Q = DOMAIN P
    <3>1. P \in Seq(Seq(Incoming)) /\ Current \in Nat /\ outT \in State
      BY <2>4, <2>5, <2>6
    <3> HIDE DEF Q
    <3>2. /\ Link(P, x, Current, outT) \in Seq(Seq(Incoming))
          /\ DOMAIN Link(P, x, Current, outT) = DOMAIN P
      BY <3>1, <2>8, LinkProperties
    <3> QED BY <3>2 DEF Q
  <2> HIDE DEF Q
  <2>11. y \in DOMAIN Q
    BY <2>2, <2>6, <2>10
  <2>12. \A c \in DOMAIN Q : Q[c] # <<>> =>
            /\ Link(Q, y, Current, outF)[c] # <<>>
            /\ Link(Q, y, Current, outF)[c][1] = Q[c][1]
    BY <2>4, <2>5, <2>10, <2>11, LinkKeepsFirst
  <2>13. 1 .. Len(label) \subseteq DOMAIN P
    BY <1>2, <2>4, <2>6
  <2> QED BY <2>3, <2>7, <2>9, <2>10, <2>12, <2>13 DEF FirstKept
<1> QED BY <1>3, <1>4, <1>5 DEF Explore

(* What an iteration stores keeps the relation of what drove the blocks to *)
(* their first edges.                                                      *)
LEMMA ReadsInvStored ==
    ASSUME TypeInv, FlowInv, ReadsInv, FirstKept(incoming, incoming', Len(label)),
           pc = "explore", NEW L, NEW b, NEW V, Advance(L, b, V),
           NEW t, Store(L, b, t)
    PROVE  ReadsInv'
<1>1. /\ Len(L) \in Nat /\ Len(label) \in Nat /\ Len(label) <= Len(L)
      /\ DOMAIN L = 1 .. Len(L) /\ label' = L
      /\ b = Evaluated + 1 /\ b \in 1 .. Len(label) /\ Evaluated \in Nat
      /\ Evaluated' = b
  BY LenProperties DEF Advance
<1>2. Blocks = 1 .. Len(label) /\ Blocks' = 1 .. Len(L)
  BY <1>1, Tables DEF Blocks
<1>3. /\ \A i \in 1 .. Len(L) :
            reads'[i] = IF i = b THEN Drive(b)
                        ELSE IF i <= Len(label) THEN reads[i] ELSE Empty
      /\ UNCHANGED <<rewrite, pc>>
  BY StoredTables
<1>4. SUFFICES ASSUME NEW c \in 1 .. Len(L)
      PROVE  /\ SSA => reads'[c] = IF c <= b THEN Symbols(c) ELSE Empty
             /\ ~SSA /\ c \in 2 .. b => reads'[c] = incoming'[c][1].state
  BY <1>1, <1>2, <1>3 DEF ReadsInv, SSA, Symbols
<1>5. CASE SSA
  <2>1. Drive(b) = Symbols(b)
    BY <1>5 DEF Drive, Symbols
  <2>2. \A i \in 1 .. Len(label) :
            reads[i] = IF i <= Evaluated THEN Symbols(i) ELSE Empty
    BY <1>2, <1>5 DEF ReadsInv
  <2> QED BY <1>1, <1>3, <1>4, <1>5, <2>1, <2>2
<1>6. CASE ~SSA /\ c \in 2 .. b
  <2>1. /\ c \in 1 .. Len(label) /\ c \in 2 .. Len(label)
        /\ incoming[c] # <<>>
    BY <1>1, <1>6 DEF FlowInv, FoundFromAbove
  <2>2. incoming'[c][1] = incoming[c][1]
    BY <2>1 DEF FirstKept
  <2>3. CASE c = b
    <3>1. Drive(b) = incoming[b][1].state
      BY <1>6, <2>1, <2>3 DEF Drive
    <3> QED BY <1>3, <1>6, <2>1, <2>2, <2>3, <3>1
  <2>4. CASE c # b
    <3>1. c \in 2 .. Evaluated /\ reads'[c] = reads[c]
      BY <1>1, <1>3, <1>6, <2>1, <2>4
    <3>2. reads[c] = incoming[c][1].state
      BY <3>1, <1>2, <1>6, <2>1 DEF ReadsInv
    <3> QED BY <3>1, <3>2, <1>6, <2>2
  <2> QED BY <2>3, <2>4
<1> QED BY <1>5, <1>6

LEMMA ReadsInvExplore ==
    ASSUME TypeInv, FlowInv, ReadsInv, Explore
    PROVE  ReadsInv'
<1>1. MayEvaluate /\ pc = "explore"
  BY DEF Explore
<1>2. FirstKept(incoming, incoming', Len(label))
  BY ExploreKeepsFirst
<1>3. CASE \E kind \in {"RET", "UNREACHABLE"} : EvalStop(kind)
  <2>1. PICK kind \in {"RET", "UNREACHABLE"} : EvalStop(kind)
    BY <1>3
  <2>2. Advance(label, Current, {}) /\ Store(label, Current, Ends(kind))
    BY <1>1, <2>1, StopAdvances
  <2> QED BY <1>1, <1>2, <2>2, ReadsInvStored
<1>4. CASE \E v \in Vpc, out \in OutState(Drive(Current)) : EvalGoto(v, out)
  <2>1. PICK v \in Vpc, out \in OutState(Drive(Current)) : EvalGoto(v, out)
    BY <1>4
  <2> DEFINE L == GetBlock(label, v)
  <2>2. Advance(L, Current, {v})
    BY <1>1, <2>1, GotoAdvances
  <2>3. Store(L, Current, Jmp(IdOf(L, v)))
    BY <2>1 DEF EvalGoto
  <2> QED BY <1>1, <1>2, <2>2, <2>3, ReadsInvStored
<1>5. CASE \E t, f \in Vpc, outT, outF \in OutState(Drive(Current)) :
                EvalBranch(t, f, outT, outF)
  <2>1. PICK t \in Vpc, f \in Vpc, outT \in OutState(Drive(Current)),
             outF \in OutState(Drive(Current)) : EvalBranch(t, f, outT, outF)
    BY <1>5
  <2> DEFINE L == GetBlock(GetBlock(label, t), f)
  <2>2. Advance(L, Current, {t, f})
    BY <1>1, <2>1, BranchAdvances
  <2>3. Store(L, Current, CJmp(IdOf(L, t), IdOf(L, f)))
    BY <2>1 DEF EvalBranch
  <2> QED BY <1>1, <1>2, <2>2, <2>3, ReadsInvStored
<1> QED BY <1>3, <1>4, <1>5 DEF Explore

LEMMA ReadsInvNext ==
    TypeInv /\ FlowInv /\ ReadsInv /\ [Next]_vars => ReadsInv'
<1> SUFFICES ASSUME TypeInv, FlowInv, ReadsInv, [Next]_vars PROVE ReadsInv'
  OBVIOUS
<1>1. CASE Explore
  BY <1>1, ReadsInvExplore
<1>2. CASE ~Explore
  <2>1. UNCHANGED <<label, incoming>> /\ UNCHANGED Evaluated
        /\ Blocks' = Blocks
    BY <1>2, GraphStays DEF Blocks
  <2>2. CASE Rewrite
    <3>1. pc = "resolve" /\ pc' = "done"
      BY <2>2 DEF Rewrite
    <3>2. SSA /\ SSA'
      BY <3>1 DEF ReadsInv, SSA
    <3> QED BY <3>1, <3>2 DEF ReadsInv
  <2>3. CASE ~Rewrite
    <3>1. reads' = reads /\ SSA' = SSA
      BY <1>2, <2>3 DEF Next, vars, blocks, BuildPhis, BuildSubst, PickKey,
                        Follow, SettleKey, SSA
    <3>2. pc' # "done" => pc # "done" \/ ~SSA
      BY <1>2, <2>3 DEF Next, vars, blocks, BuildPhis, BuildSubst, PickKey,
                        Follow, SettleKey, SSA
    <3>3. pc' \in {"subst", "resolve", "chase"} => SSA
      BY <1>2, <2>3 DEF ReadsInv, Next, vars, blocks, BuildPhis, BuildSubst,
                        PickKey, Follow, SettleKey
    <3> QED BY <2>1, <3>1, <3>2, <3>3 DEF ReadsInv, Symbols
  <2> QED BY <2>2, <2>3
<1> QED BY <1>1, <1>2

\* What holds along the edges of the graph.
EdgeInv == TypeInv /\ FlowInv /\ ReadsInv

LEMMA EdgeInvHolds == Spec => []EdgeInv
<1>1. Init => EdgeInv
  BY TypeInvInit, FlowInvInit, ReadsInvInit DEF EdgeInv
<1>2. EdgeInv /\ [Next]_vars => EdgeInv'
  BY TypeInvNext, FlowInvNext, ReadsInvNext DEF EdgeInv
<1> QED BY <1>1, <1>2, PTL DEF Spec

(* Every block but the entry was found along an edge from an earlier block, *)
(* and what drove its evaluation stays that edge's state, however many      *)
(* edges follow it: no block is evaluated out of thin air.                  *)
THEOREM FirstEdgeDrives == Spec => []DriveIsFirstEdge
<1>1. EdgeInv => DriveIsFirstEdge
  <2> SUFFICES ASSUME EdgeInv, NEW b \in 2 .. Evaluated
               PROVE  /\ incoming[b] # <<>>
                      /\ incoming[b][1].pred < b
                      /\ ~SSA => reads[b] = incoming[b][1].state
    BY DEF DriveIsFirstEdge
  <2>1. Evaluated \in 0 .. Len(label) /\ Len(label) \in Nat
        /\ Blocks = 1 .. Len(label)
    BY Tables DEF EdgeInv
  <2>2. b \in 2 .. Len(label) /\ b \in Blocks
    BY <2>1
  <2> QED BY <2>2 DEF EdgeInv, FlowInv, FoundFromAbove, ReadsInv
<1> QED BY <1>1, EdgeInvHolds, PTL

-----------------------------------------------------------------------------
(* Full SSA *)

\* The registers block b has a phi of, and the phis before the rewrite.
PhiRegs(b) == {q \in Reconciled : NeedsPhi(b, q)}
Built ==
    [b \in Blocks |->
       [r \in PhiRegs(b) |->
          [j \in DOMAIN incoming[b] |->
             <<incoming[b][j].pred, incoming[b][j].state[r]>>]]]

\* What the blocks read before the rewrite.
DrivenBy(b) == IF b <= Evaluated THEN Symbols(b) ELSE Empty

\* What the substitution makes of the phis and the reads.
FinalPhis ==
    [b \in Blocks |->
       [r \in PhiRegs(b) |->
          [j \in DOMAIN incoming[b] |->
             <<incoming[b][j].pred, Rewritten(incoming[b][j].state[r])>>]]]
FinalReads ==
    [b \in Blocks |-> [r \in Reg |-> Rewritten(DrivenBy(b)[r])]]

\* The phis are the built ones until the rewrite.
PhiInv ==
    /\ pc \in {"subst", "resolve", "chase"} => phis = Built
    /\ pc = "done" /\ SSA => phis = FinalPhis /\ reads = FinalReads

\* An entry value defined at block b is one of an earlier block.
Descends(val, b) ==
    val[1] = "entry" => KeyOf(val) \in TrackedRegs \X (1 .. b - 1)

\* Every chain of definitions descends through the block ids, and the keys
\* already visited are resolved.
ChainInv ==
    pc \in {"resolve", "chase", "done"} /\ SSA =>
        /\ DOMAIN subst = TrackedRegs \X Blocks
        /\ \A k \in DOMAIN subst : Descends(subst[k], k[2])
        /\ \A k \in DOMAIN subst :
              k \in pending \/ (pc = "chase" /\ k = key) \/ subst[k][1] # "entry"
        /\ pc = "chase" =>
              /\ key \in DOMAIN subst
              /\ Descends(cur, key[2])
              /\ cur[1] = "entry" => \A s \in seen : cur[3] < s[2]
        /\ pc = "done" => pending = {}

LEMMA PhiInvNext ==
    EdgeInv /\ PhiInv /\ [Next]_vars => PhiInv'
<1> SUFFICES ASSUME EdgeInv, PhiInv, [Next]_vars PROVE PhiInv'
  OBVIOUS
<1>1. CASE Explore
  <2>1. pc' = "explore"
    BY <1>1, ExplorationGoesOn
  <2> QED BY <2>1 DEF PhiInv
<1>2. CASE BuildPhis
  <2>1. /\ phis' = [b \in DOMAIN label |->
                      [r \in {q \in Reconciled : NeedsPhi(b, q)} |->
                         [j \in DOMAIN incoming[b] |->
                            <<incoming[b][j].pred, incoming[b][j].state[r]>>]]]
        /\ pc' = (IF SSA THEN "subst" ELSE "done")
        /\ UNCHANGED <<label, incoming>>
    BY <1>2 DEF BuildPhis, blocks
  <2>2. Reconciled' = Reconciled /\ \A b, q : NeedsPhi(b, q)' <=> NeedsPhi(b, q)
    BY <2>1 DEF Reconciled, NeedsPhi
  <2>3. phis' = Built'
    BY <2>1, <2>2 DEF Built, PhiRegs, Blocks
  <2> QED BY <2>1, <2>3 DEF PhiInv, SSA
<1>3. CASE Rewrite
  <2>1. /\ pc = "resolve" /\ pc' = "done"
        /\ reads' = [b \in DOMAIN reads |->
                       [r \in Reg |-> Rewritten(reads[b][r])]]
        /\ phis' = [b \in DOMAIN phis |->
                      [r \in DOMAIN phis[b] |->
                         [j \in DOMAIN phis[b][r] |->
                            <<phis[b][r][j][1], Rewritten(phis[b][r][j][2])>>]]]
        /\ UNCHANGED <<label, incoming, subst, worklist>>
    BY <1>3 DEF Rewrite, queue, rewrite
  <2>2. phis = Built /\ SSA
    BY <2>1 DEF PhiInv, EdgeInv, ReadsInv
  <2>3. phis' = FinalPhis
    BY <2>1, <2>2 DEF Built, FinalPhis
  <2>4. reads' = FinalReads
    <3>1. DOMAIN reads = Blocks
      BY Tables DEF EdgeInv
    <3>2. \A b \in Blocks : reads[b] = DrivenBy(b)
      BY <2>1, <2>2 DEF EdgeInv, ReadsInv, DrivenBy
    <3> QED BY <3>1, <3>2, <2>1 DEF FinalReads
  <2>5. FinalPhis' = FinalPhis /\ FinalReads' = FinalReads
    BY <2>1 DEF FinalPhis, FinalReads, PhiRegs, Reconciled, NeedsPhi, DrivenBy,
                Symbols, Rewritten, IsKey, Blocks, Evaluated
  <2> QED BY <2>1, <2>3, <2>4, <2>5 DEF PhiInv
<1>4. CASE ~Explore /\ ~BuildPhis /\ ~Rewrite
  <2>1. UNCHANGED <<label, phis, reads, incoming, worklist>>
    BY <1>4 DEF Next, vars, blocks, queue, BuildSubst, PickKey, Follow, SettleKey
  <2>2. \/ /\ pc' \in {"subst", "resolve", "chase"}
           /\ pc \in {"subst", "resolve", "chase"}
        \/ UNCHANGED <<pc, subst>>
    <3>1. CASE BuildSubst
      BY <3>1 DEF BuildSubst
    <3>2. CASE \E k \in pending : PickKey(k)
      BY <3>2 DEF PickKey
    <3>3. CASE Follow
      BY <3>3 DEF Follow
    <3>4. CASE SettleKey
      BY <3>4 DEF SettleKey
    <3>5. CASE UNCHANGED vars
      BY <3>5 DEF vars, rewrite
    <3> QED BY <1>4, <3>1, <3>2, <3>3, <3>4, <3>5 DEF Next
  <2>3. Built' = Built
    BY <2>1 DEF Built, PhiRegs, Reconciled, NeedsPhi, Blocks
  <2>4. subst' = subst => FinalPhis' = FinalPhis /\ FinalReads' = FinalReads
    BY <2>1 DEF FinalPhis, FinalReads, PhiRegs, Reconciled, NeedsPhi, DrivenBy,
                Symbols, Rewritten, IsKey, Blocks, Evaluated
  <2>5. SSA' = SSA
    BY DEF SSA
  <2> QED BY <2>1, <2>2, <2>3, <2>4, <2>5 DEF PhiInv
<1> QED BY <1>1, <1>2, <1>3, <1>4

LEMMA PhiInvInit == Init => PhiInv
BY DEF Init, PhiInv

(* An entry symbol a block gets along its first edge is one of an earlier  *)
(* block.                                                                  *)
LEMMA FirstEdgeDescends ==
    ASSUME EdgeInv, SSA, NEW b \in Blocks, NEW r \in TrackedRegs,
           b # 1, incoming[b] # <<>>
    PROVE  Descends(incoming[b][1].state[r], b)
<1> DEFINE val == incoming[b][1].state[r]
<1>1. /\ Blocks = 1 .. Len(label) /\ DOMAIN incoming = 1 .. Len(label)
      /\ incoming \in Seq(Seq(Incoming)) /\ Len(label) \in Nat
      /\ Evaluated \in 0 .. Len(label)
  BY Tables DEF EdgeInv
<1>2. 1 \in DOMAIN incoming[b]
  <2>1. incoming[b] \in Seq(Incoming)
    BY <1>1, LenProperties
  <2>2. 1 \in 1 .. Len(incoming[b])
    BY <2>1, EmptySeq
  <2> QED BY <2>1, <2>2, LenProperties
<1>3. /\ incoming[b][1].pred \in 1 .. Evaluated /\ OwnSymbols(incoming[b][1])
      /\ incoming[b][1].pred < b
  <2>1. b \in DOMAIN incoming /\ b \in 2 .. Len(label)
    BY <1>1
  <2>2. Flows(incoming, Evaluated) /\ FoundFromAbove(incoming, 2 .. Len(label))
    BY DEF EdgeInv, FlowInv
  <2>3. incoming[b][1].pred \in 1 .. Evaluated /\ OwnSymbols(incoming[b][1])
    BY <1>2, <2>1, <2>2 DEF Flows
  <2> QED BY <2>1, <2>2, <2>3 DEF FoundFromAbove
<1>4. r \in Reg
  BY ConstantsAssumption DEF ConstantsAssumption
<1> HIDE DEF val
<1>5. ASSUME val[1] = "entry"
      PROVE  KeyOf(val) \in TrackedRegs \X (1 .. b - 1)
  <2>1. PICK q \in TrackedRegs : val = Sym(q, incoming[b][1].pred)
    BY <1>4, <1>3, <1>5 DEF OwnSymbols, val
  <2>2. val[2] = q /\ val[3] = incoming[b][1].pred
    BY <2>1 DEF Sym
  <2> QED BY <2>2, <1>1, <1>3 DEF KeyOf
<1> QED BY <1>5 DEF Descends, val

\* Definition, told from the table of incoming edges.
FirstDef(b, r) ==
    IF r \in PhiRegs(b) THEN PhiRef(b, r)
    ELSE IF b = 1
         THEN IF Holds(InitialState, r) THEN InitialState[r] ELSE Input(r)
    ELSE IF incoming[b] # <<>> /\ Holds(incoming[b][1].state, r)
         THEN incoming[b][1].state[r]
    ELSE Input(r)

LEMMA DefinitionIsFirstDef ==
    ASSUME PhiInv, SSA, pc \in {"subst", "resolve", "chase", "done"},
           NEW b \in Blocks, NEW r
    PROVE  Definition(b, r) = FirstDef(b, r)
<1>1. phis = Built \/ phis = FinalPhis
  BY DEF PhiInv
<1>2. DOMAIN phis[b] = PhiRegs(b)
  BY <1>1 DEF Built, FinalPhis
<1> QED BY <1>2 DEF Definition, FirstDef

LEMMA FirstDefDescends ==
    ASSUME EdgeInv, SSA, NEW b \in Blocks, NEW r \in TrackedRegs
    PROVE  Descends(FirstDef(b, r), b)
<1>1. r \in Reg /\ InitialState[r][1] # "entry"
  BY ConstantsAssumption DEF ConstantsAssumption
<1>2. PhiRef(b, r)[1] # "entry" /\ Input(r)[1] # "entry"
  BY DEF PhiRef, Input
<1>3. ASSUME b # 1, incoming[b] # <<>>
      PROVE  Descends(incoming[b][1].state[r], b)
  BY <1>3, FirstEdgeDescends
<1> QED BY <1>1, <1>2, <1>3 DEF FirstDef, Descends

(* A chain that cannot be followed further has left the entry symbols: the *)
(* seen test never ends one early.                                         *)
LEMMA ChainEnds ==
    ASSUME TypeInv, ChainInv, SSA, pc = "chase", ~MayFollow
    PROVE  cur[1] # "entry"
<1> SUFFICES ASSUME cur[1] = "entry" PROVE FALSE
  OBVIOUS
<1>1. /\ DOMAIN subst = TrackedRegs \X Blocks /\ key \in DOMAIN subst
      /\ KeyOf(cur) \in TrackedRegs \X (1 .. key[2] - 1)
      /\ \A s \in seen : cur[3] < s[2]
  BY DEF ChainInv, Descends
<1>2. Blocks = 1 .. Len(label) /\ Len(label) \in Nat
  BY Tables
<1>3. key[2] \in 1 .. Len(label) /\ KeyOf(cur)[2] = cur[3]
  BY <1>1, <1>2 DEF KeyOf
<1>4. KeyOf(cur) \in DOMAIN subst /\ cur[3] \in Nat
  BY <1>1, <1>2, <1>3
<1>5. KeyOf(cur) \in seen
  BY <1>4 DEF MayFollow, IsKey, KeyOf
<1> QED BY <1>1, <1>3, <1>4, <1>5

LEMMA ChainInvNext ==
    EdgeInv /\ PhiInv /\ ChainInv /\ [Next]_vars => ChainInv'
<1> SUFFICES ASSUME EdgeInv, PhiInv, ChainInv, [Next]_vars PROVE ChainInv'
  OBVIOUS
<1>1. TypeOK /\ pending \subseteq DOMAIN subst /\ TypeInv
      /\ Blocks = 1 .. Len(label) /\ Len(label) \in Nat
  BY Tables DEF EdgeInv, TypeInv
<1>2. SSA' = SSA
  BY DEF SSA
<1>3. SUFFICES ASSUME SSA, pc' \in {"resolve", "chase", "done"}
               PROVE  ChainInv'
  BY <1>2 DEF ChainInv
<1>4. CASE Explore
  <2>1. pc' = "explore"
    BY <1>4, ExplorationGoesOn
  <2> QED BY <1>3, <2>1
<1>5. CASE BuildPhis
  BY <1>3, <1>5 DEF BuildPhis
<1>6. CASE BuildSubst
  <2>1. /\ subst' = [k \in TrackedRegs \X Blocks |-> Definition(k[2], k[1])]
        /\ pending' = DOMAIN subst' /\ pc = "subst" /\ pc' = "resolve"
        /\ label' = label
    BY <1>6 DEF BuildSubst, Blocks, blocks
  <2>2. ASSUME NEW k \in DOMAIN subst' PROVE Descends(subst'[k], k[2])
    <3>1. k[1] \in TrackedRegs /\ k[2] \in Blocks
          /\ subst'[k] = Definition(k[2], k[1])
      BY <2>1
    <3>2. Definition(k[2], k[1]) = FirstDef(k[2], k[1])
      BY <1>3, <2>1, <3>1, DefinitionIsFirstDef
    <3> QED BY <3>1, <3>2, <1>3, FirstDefDescends
  <2> QED BY <2>1, <2>2 DEF ChainInv, Blocks
<1>7. CASE \E k \in pending : PickKey(k)
  <2>1. PICK k \in pending : PickKey(k)
    BY <1>7
  <2>2. /\ pc = "resolve" /\ pending' = pending \ {k} /\ key' = k
        /\ cur' = subst[k] /\ seen' = {} /\ pc' = "chase"
        /\ label' = label /\ subst' = subst
    BY <2>1 DEF PickKey, blocks
  <2>3. /\ DOMAIN subst = TrackedRegs \X Blocks
        /\ \A i \in DOMAIN subst : Descends(subst[i], i[2])
        /\ \A i \in DOMAIN subst : i \in pending \/ subst[i][1] # "entry"
    BY <1>3, <2>2 DEF ChainInv
  <2>4. k \in DOMAIN subst
    BY <1>1
  <2>5. Blocks' = Blocks
    BY <2>2 DEF Blocks
  <2> QED BY <2>2, <2>3, <2>4, <2>5 DEF ChainInv
<1>8. CASE Follow
  <2>1. /\ pc = "chase" /\ pc' = "chase" /\ IsKey(cur)
        /\ seen' = seen \cup {KeyOf(cur)} /\ cur' = subst[KeyOf(cur)]
        /\ label' = label /\ subst' = subst /\ pending' = pending /\ key' = key
    BY <1>8 DEF Follow, MayFollow, blocks
  <2>2. /\ DOMAIN subst = TrackedRegs \X Blocks
        /\ \A i \in DOMAIN subst : Descends(subst[i], i[2])
        /\ \A i \in DOMAIN subst : i \in pending \/ i = key \/ subst[i][1] # "entry"
        /\ key \in DOMAIN subst /\ Descends(cur, key[2])
        /\ cur[1] = "entry" => \A s \in seen : cur[3] < s[2]
    BY <1>3, <2>1 DEF ChainInv
  <2>3. cur[1] = "entry" /\ KeyOf(cur) \in DOMAIN subst
    BY <2>1 DEF IsKey, KeyOf
  <2>4. /\ cur[3] \in 1 .. key[2] - 1 /\ KeyOf(cur)[2] = cur[3]
        /\ key[2] \in Nat
    BY <1>1, <2>2, <2>3 DEF Descends, KeyOf
  <2>5. Descends(cur', cur[3])
    BY <2>1, <2>2, <2>3, <2>4
  <2>6. Blocks' = Blocks
    BY <2>1 DEF Blocks
  <2>7. ASSUME cur'[1] = "entry"
        PROVE  /\ KeyOf(cur') \in TrackedRegs \X (1 .. key[2] - 1)
               /\ \A s \in seen' : cur'[3] < s[2]
    <3>1. KeyOf(cur') \in TrackedRegs \X (1 .. cur[3] - 1)
      BY <2>5, <2>7 DEF Descends
    <3>2. cur'[3] \in 1 .. cur[3] - 1
      BY <3>1 DEF KeyOf
    <3>3. 1 .. cur[3] - 1 \subseteq 1 .. key[2] - 1
      BY <2>4
    <3>4. ASSUME NEW s \in seen' PROVE cur'[3] < s[2]
      <4>1. CASE s = KeyOf(cur)
        BY <2>4, <3>2, <4>1
      <4>2. CASE s \in seen
        <5>1. cur[3] < s[2] /\ s[2] \in Nat
          BY <1>1, <2>2, <2>3, <4>2 DEF TypeOK, Key
        <5> QED BY <2>4, <3>2, <5>1
      <4> QED BY <2>1, <4>1, <4>2
    <3> QED BY <3>1, <3>3, <3>4
  <2>8. Descends(cur', key[2])
    BY <2>7 DEF Descends
  <2> QED BY <2>1, <2>2, <2>6, <2>7, <2>8 DEF ChainInv
<1>9. CASE SettleKey
  <2>1. /\ pc = "chase" /\ ~MayFollow /\ pc' = "resolve"
        /\ subst' = [subst EXCEPT ![key] = cur]
        /\ label' = label /\ pending' = pending
    BY <1>9 DEF SettleKey, blocks
  <2>2. /\ DOMAIN subst = TrackedRegs \X Blocks
        /\ \A i \in DOMAIN subst : Descends(subst[i], i[2])
        /\ \A i \in DOMAIN subst : i \in pending \/ i = key \/ subst[i][1] # "entry"
        /\ key \in DOMAIN subst
    BY <1>3, <2>1 DEF ChainInv
  <2>3. cur[1] # "entry"
    BY <1>1, <1>3, <2>1, ChainEnds
  <2>4. Blocks' = Blocks
    BY <2>1 DEF Blocks
  <2>5. \A i \in DOMAIN subst :
            subst'[i] = IF i = key THEN cur ELSE subst[i]
    BY <2>1, <2>2
  <2>6. \A i \in DOMAIN subst : Descends(subst'[i], i[2])
    BY <2>2, <2>3, <2>5 DEF Descends
  <2>7. DOMAIN subst' = DOMAIN subst
    BY <2>1
  <2> QED BY <2>1, <2>2, <2>3, <2>4, <2>5, <2>6, <2>7 DEF ChainInv
<1>10. CASE Rewrite
  <2>1. /\ pc = "resolve" /\ pending = {} /\ pc' = "done" /\ pending' = pending
        /\ label' = label /\ subst' = subst
    BY <1>10 DEF Rewrite, rewrite
  <2>2. Blocks' = Blocks
    BY <2>1 DEF Blocks
  <2> QED BY <1>3, <2>1, <2>2 DEF ChainInv
<1>11. CASE UNCHANGED vars
  <2>1. UNCHANGED <<label, subst, pending, key, cur, seen, pc>>
    BY <1>11 DEF vars, blocks, rewrite
  <2>2. Blocks' = Blocks
    BY <2>1 DEF Blocks
  <2> QED BY <1>3, <2>1, <2>2 DEF ChainInv
<1> QED
  BY <1>4, <1>5, <1>6, <1>7, <1>8, <1>9, <1>10, <1>11 DEF Next

LEMMA ChainInvInit == Init => ChainInv
BY DEF Init, ChainInv

(* Where the chains end *)

\* The end of a value's chain, when g has that of every key.
OriginOf(g, val) == IF val[1] = "entry" THEN g[val[3]][val[2]] ELSE val

\* g has the ends of the chains that start at the first n blocks.
EndsUpTo(g, n) ==
    /\ g = [b \in 1 .. n |-> g[b]]
    /\ \A b \in 1 .. n :
          g[b] = [r \in TrackedRegs |-> OriginOf(g, FirstDef(b, r))]

\* Resolving keeps the end of every key's chain.
OriginInv ==
    pc \in {"resolve", "chase", "done"} /\ SSA =>
        \A g : EndsUpTo(g, Len(label)) =>
            /\ \A k \in DOMAIN subst : OriginOf(g, subst[k]) = g[k[2]][k[1]]
            /\ pc = "chase" => OriginOf(g, cur) = g[key[2]][key[1]]

(* The ends known for n blocks give those of the next one.                 *)
LEMMA NextEnds ==
    ASSUME EdgeInv, SSA, NEW n \in Nat, n + 1 \in Blocks,
           NEW g, EndsUpTo(g, n)
    PROVE  \E h : EndsUpTo(h, n + 1)
<1> DEFINE row == [r \in TrackedRegs |-> OriginOf(g, FirstDef(n + 1, r))]
           h == [b \in 1 .. n + 1 |-> IF b <= n THEN g[b] ELSE row]
<1>1. Blocks = 1 .. Len(label) /\ Len(label) \in Nat
  BY Tables DEF EdgeInv
<1>2. ASSUME NEW b \in 1 .. n + 1, NEW r \in TrackedRegs
      PROVE  OriginOf(h, FirstDef(b, r)) = OriginOf(g, FirstDef(b, r))
  <2> DEFINE d == FirstDef(b, r)
  <2>1. Descends(d, b)
    <3>1. b \in Blocks
      BY <1>1
    <3> QED BY <3>1, FirstDefDescends
  <2> HIDE DEF d
  <2>2. ASSUME d[1] = "entry" PROVE h[d[3]] = g[d[3]]
    <3>1. d[3] \in 1 .. b - 1
      BY <2>1, <2>2 DEF Descends, KeyOf
    <3>2. d[3] \in 1 .. n
      BY <3>1
    <3> QED BY <3>2
  <2> QED BY <2>2 DEF OriginOf, d
<1>3. ASSUME NEW b \in 1 .. n + 1
      PROVE  h[b] = [r \in TrackedRegs |-> OriginOf(g, FirstDef(b, r))]
  <2>1. CASE b <= n
    <3>1. h[b] = g[b] /\ b \in 1 .. n
      BY <2>1
    <3> QED BY <3>1 DEF EndsUpTo
  <2>2. CASE b = n + 1
    BY <2>2
  <2> QED BY <2>1, <2>2
<1>4. h = [b \in 1 .. n + 1 |-> h[b]]
  OBVIOUS
<1> HIDE DEF h
<1>5. EndsUpTo(h, n + 1)
  BY <1>2, <1>3, <1>4 DEF EndsUpTo
<1> QED BY <1>5

(* The chains of all blocks have ends.                                     *)
LEMMA EndsExist ==
    ASSUME EdgeInv, SSA
    PROVE  \E g : EndsUpTo(g, Len(label))
<1> DEFINE S == {n \in 1 .. Len(label) : \E g : EndsUpTo(g, n)}
<1>1. Blocks = 1 .. Len(label) /\ Len(label) \in Nat /\ 1 \in 1 .. Len(label)
  <2>1. Blocks = 1 .. Len(label) /\ Len(label) \in Nat /\ label \in Seq(Vpc)
    BY Tables DEF EdgeInv
  <2>2. label # <<>>
    BY DEF EdgeInv, TypeInv, OrderInv
  <2> QED BY <2>1, <2>2, EmptySeq
<1>2. 1 \in S
  <2>1. EndsUpTo(<<>>, 0)
    BY DEF EndsUpTo
  <2>2. \E h : EndsUpTo(h, 0 + 1)
    BY <1>1, <2>1, NextEnds
  <2> QED BY <1>1, <2>2
<1>3. S \in SUBSET (1 .. Len(label)) /\ S # {}
  BY <1>2
<1>4. PICK n \in S : \A m \in S : m <= n
  <2> HIDE DEF S
  <2> QED BY <1>1, <1>3, GreatestBlock
<1>5. n = Len(label)
  <2> SUFFICES ASSUME n # Len(label) PROVE FALSE
    OBVIOUS
  <2>1. n \in Nat /\ n + 1 \in 1 .. Len(label)
    BY <1>1, <1>4
  <2>2. \E h : EndsUpTo(h, n + 1)
    BY <1>1, <1>4, <2>1, NextEnds
  <2>3. n + 1 \in S
    BY <2>1, <2>2
  <2>4. n + 1 <= n
    BY <1>4, <2>3
  <2> QED BY <2>1, <2>4
<1> QED BY <1>4, <1>5

LEMMA OriginInvNext ==
    EdgeInv /\ PhiInv /\ ChainInv /\ OriginInv /\ [Next]_vars => OriginInv'
<1> SUFFICES ASSUME EdgeInv, PhiInv, ChainInv, OriginInv, [Next]_vars,
                    SSA, pc' \in {"resolve", "chase", "done"},
                    NEW g, EndsUpTo(g, Len(label))'
             PROVE  /\ \A k \in DOMAIN subst' :
                            OriginOf(g, subst'[k]) = g[k[2]][k[1]]
                    /\ pc' = "chase" =>
                            OriginOf(g, cur') = g[key'[2]][key'[1]]
  BY DEF OriginInv, SSA, OriginOf
<1>1. CASE Explore
  <2>1. pc' = "explore"
    BY <1>1, ExplorationGoesOn
  <2> QED BY <2>1
<1>2. CASE BuildPhis
  BY <1>2 DEF BuildPhis
<1>3. CASE ~Explore /\ ~BuildPhis
  <2>1. UNCHANGED <<label, incoming>>
    BY <1>3, GraphStays
  <2>2. EndsUpTo(g, Len(label))
    <3>1. \A b : PhiRegs(b)' = PhiRegs(b)
      BY <2>1 DEF PhiRegs, Reconciled, NeedsPhi
    <3>2. \A b, r : FirstDef(b, r)' = FirstDef(b, r)
      BY <2>1, <3>1 DEF FirstDef
    <3>3. /\ g = [b \in 1 .. Len(label) |-> g[b]]
          /\ \A b \in 1 .. Len(label) : g[b] =
                [r \in TrackedRegs |-> OriginOf(g, FirstDef(b, r))]'
      BY <2>1 DEF EndsUpTo
    <3>4. ASSUME NEW b
          PROVE  [r \in TrackedRegs |-> OriginOf(g, FirstDef(b, r))]'
                    = [r \in TrackedRegs |-> OriginOf(g, FirstDef(b, r))]
      BY <3>2 DEF OriginOf
    <3> QED BY <3>3, <3>4 DEF EndsUpTo
  <2>3. CASE BuildSubst
    <3>1. /\ subst' = [k \in TrackedRegs \X Blocks |-> Definition(k[2], k[1])]
          /\ pc' = "resolve" /\ pc = "subst"
      BY <2>3 DEF BuildSubst, Blocks
    <3>2. ASSUME NEW k \in DOMAIN subst'
          PROVE  OriginOf(g, subst'[k]) = g[k[2]][k[1]]
      <4>1. k[1] \in TrackedRegs /\ k[2] \in Blocks
            /\ subst'[k] = Definition(k[2], k[1])
        BY <3>1
      <4>2. subst'[k] = FirstDef(k[2], k[1])
        BY <3>1, <4>1, DefinitionIsFirstDef
      <4>3. k[2] \in 1 .. Len(label)
        BY <4>1, Tables DEF EdgeInv
      <4>4. g[k[2]] = [r \in TrackedRegs |-> OriginOf(g, FirstDef(k[2], r))]
        BY <2>2, <4>3 DEF EndsUpTo
      <4> QED BY <4>1, <4>2, <4>4
    <3> QED BY <3>1, <3>2
  <2>4. CASE \E k \in pending : PickKey(k)
    <3>1. PICK k \in pending : PickKey(k)
      BY <2>4
    <3>2. pc = "resolve" /\ key' = k /\ cur' = subst[k] /\ subst' = subst
      BY <3>1 DEF PickKey
    <3>3. k \in DOMAIN subst
      BY DEF EdgeInv, TypeInv
    <3> QED BY <2>2, <3>2, <3>3 DEF OriginInv
  <2>5. CASE Follow
    <3>1. /\ pc = "chase" /\ IsKey(cur) /\ cur' = subst[KeyOf(cur)]
          /\ subst' = subst /\ key' = key
      BY <2>5 DEF Follow, MayFollow
    <3>2. cur[1] = "entry" /\ KeyOf(cur) \in DOMAIN subst
      BY <3>1 DEF IsKey, KeyOf
    <3>3. /\ \A k \in DOMAIN subst : OriginOf(g, subst[k]) = g[k[2]][k[1]]
          /\ OriginOf(g, cur) = g[key[2]][key[1]]
      BY <2>2, <3>1 DEF OriginInv
    <3>4. OriginOf(g, cur) = g[KeyOf(cur)[2]][KeyOf(cur)[1]]
      BY <3>2 DEF OriginOf, KeyOf
    <3> QED BY <3>1, <3>2, <3>3, <3>4
  <2>6. CASE SettleKey
    <3>1. /\ pc = "chase" /\ pc' = "resolve"
          /\ subst' = [subst EXCEPT ![key] = cur]
      BY <2>6 DEF SettleKey
    <3>2. /\ \A k \in DOMAIN subst : OriginOf(g, subst[k]) = g[k[2]][k[1]]
          /\ OriginOf(g, cur) = g[key[2]][key[1]]
      BY <2>2, <3>1 DEF OriginInv
    <3>3. \A k \in DOMAIN subst : subst'[k] = IF k = key THEN cur ELSE subst[k]
      BY <3>1
    <3>4. DOMAIN subst' = DOMAIN subst
      BY <3>1
    <3> QED BY <3>1, <3>2, <3>3, <3>4
  <2>7. CASE Rewrite
    <3>1. pc = "resolve" /\ pc' = "done" /\ subst' = subst
      BY <2>7 DEF Rewrite, rewrite
    <3> QED BY <2>2, <3>1 DEF OriginInv
  <2>8. CASE UNCHANGED vars
    <3>1. UNCHANGED <<pc, subst, cur, key>>
      BY <2>8 DEF vars, rewrite
    <3> QED BY <2>2, <3>1 DEF OriginInv
  <2> QED BY <1>3, <2>3, <2>4, <2>5, <2>6, <2>7, <2>8 DEF Next
<1> QED BY <1>1, <1>2, <1>3

LEMMA OriginInvInit == Init => OriginInv
BY DEF Init, OriginInv

\* The inductive invariant of the rewrite.
SSAInv == EdgeInv /\ PhiInv /\ ChainInv /\ OriginInv

LEMMA SSAInvHolds == Spec => []SSAInv
<1>1. Init => SSAInv
  BY TypeInvInit, FlowInvInit, ReadsInvInit, PhiInvInit, ChainInvInit,
     OriginInvInit DEF SSAInv, EdgeInv
<1>2. SSAInv /\ [Next]_vars => SSAInv'
  BY TypeInvNext, FlowInvNext, ReadsInvNext, PhiInvNext, ChainInvNext,
     OriginInvNext DEF SSAInv, EdgeInv
<1> QED BY <1>1, <1>2, PTL DEF Spec

(* A key is left with what the substitution makes of its first definition: *)
(* the map is closed under itself.                                         *)
LEMMA Resolved ==
    ASSUME SSAInv, SSA, pc = "done", NEW b \in Blocks, NEW r \in TrackedRegs
    PROVE  /\ <<r, b>> \in DOMAIN subst
           /\ subst[<<r, b>>][1] # "entry"
           /\ subst[<<r, b>>] = Rewritten(Definition(b, r))
<1>1. /\ DOMAIN subst = TrackedRegs \X Blocks
      /\ \A k \in DOMAIN subst : subst[k][1] # "entry"
  BY DEF SSAInv, ChainInv
<1>2. Blocks = 1 .. Len(label) /\ Len(label) \in Nat
  BY Tables DEF SSAInv, EdgeInv
<1>3. PICK g : EndsUpTo(g, Len(label))
  BY EndsExist DEF SSAInv
<1>4. \A k \in DOMAIN subst : subst[k] = g[k[2]][k[1]]
  <2>1. \A k \in DOMAIN subst : OriginOf(g, subst[k]) = g[k[2]][k[1]]
    BY <1>3 DEF SSAInv, OriginInv
  <2> QED BY <1>1, <2>1 DEF OriginOf
<1> DEFINE d == FirstDef(b, r)
<1>5. Definition(b, r) = d /\ Descends(d, b)
  BY DefinitionIsFirstDef, FirstDefDescends DEF SSAInv
<1>6. g[b][r] = OriginOf(g, d)
  <2>1. b \in 1 .. Len(label)
    BY <1>2
  <2>2. g[b] = [q \in TrackedRegs |-> OriginOf(g, FirstDef(b, q))]
    BY <1>3, <2>1 DEF EndsUpTo
  <2> QED BY <2>2
<1> HIDE DEF d
<1>7. <<r, b>> \in DOMAIN subst /\ subst[<<r, b>>] = g[b][r]
  BY <1>1, <1>4
<1>8. CASE d[1] = "entry"
  <2>1. KeyOf(d) \in DOMAIN subst
    BY <1>1, <1>2, <1>5, <1>8 DEF Descends
  <2>2. subst[KeyOf(d)] = g[d[3]][d[2]]
    BY <1>4, <2>1 DEF KeyOf
  <2>3. Rewritten(d) = subst[KeyOf(d)]
    BY <1>8, <2>1 DEF Rewritten, IsKey, KeyOf
  <2> QED BY <1>1, <1>5, <1>6, <1>7, <1>8, <2>2, <2>3 DEF OriginOf
<1>9. CASE d[1] # "entry"
  <2>1. Rewritten(d) = d
    BY <1>9 DEF Rewritten, IsKey
  <2> QED BY <1>1, <1>5, <1>6, <1>7, <1>9, <2>1 DEF OriginOf
<1> QED BY <1>8, <1>9

(* The order in which the hash map yields its keys does not matter: every  *)
(* key ends at the value its own chain of definitions leads to.            *)
THEOREM ResolutionIsOrderIndependent == Spec => []ResolveOrderIrrelevant
<1>1. SSAInv => ResolveOrderIrrelevant
  <2> SUFFICES ASSUME SSAInv, SSA, pc = "done", NEW k \in DOMAIN subst
               PROVE  subst[k] = Origin[k[2]][k[1]]
    BY DEF ResolveOrderIrrelevant
  <2> DEFINE Step(g) ==
               [b \in Blocks |->
                  [r \in TrackedRegs |->
                     LET d == Definition(b, r)
                     IN IF d[1] = "entry" THEN g[d[3]][d[2]] ELSE d]]
  <2>1. Blocks = 1 .. Len(label)
    BY Tables DEF SSAInv, EdgeInv
  <2>2. \A b \in Blocks, r \in TrackedRegs : Definition(b, r) = FirstDef(b, r)
    BY DefinitionIsFirstDef DEF SSAInv
  <2>3. PICK g : EndsUpTo(g, Len(label))
    BY EndsExist DEF SSAInv
  <2>4. g = Step(g)
    <3>1. \A b \in Blocks :
            g[b] = [r \in TrackedRegs |-> OriginOf(g, FirstDef(b, r))]
      BY <2>1, <2>3 DEF EndsUpTo
    <3>2. \A b \in Blocks : g[b] = Step(g)[b]
      BY <2>2, <3>1 DEF OriginOf
    <3>3. g = [b \in Blocks |-> g[b]]
      BY <2>1, <2>3, <3>1 DEF EndsUpTo
    <3> QED BY <3>2, <3>3
  <2>5. Origin = Step(Origin)
    <3>1. Origin = CHOOSE origin : origin = Step(origin)
      BY DEF Origin
    <3> QED BY <2>4, <3>1
  <2>6. EndsUpTo(Origin, Len(label))
    <3>1. Origin = [b \in 1 .. Len(label) |-> Origin[b]]
      BY <2>1, <2>5
    <3>2. ASSUME NEW b \in 1 .. Len(label)
          PROVE  Origin[b] =
                    [r \in TrackedRegs |-> OriginOf(Origin, FirstDef(b, r))]
      <4>1. Origin[b] = Step(Origin)[b]
        BY <2>5
      <4> QED BY <2>1, <2>2, <4>1 DEF OriginOf
    <3> QED BY <3>1, <3>2 DEF EndsUpTo
  <2>7. OriginOf(Origin, subst[k]) = Origin[k[2]][k[1]]
    BY <2>6 DEF SSAInv, OriginInv
  <2>8. subst[k][1] # "entry"
    BY DEF SSAInv, ChainInv
  <2> QED BY <2>7, <2>8 DEF OriginOf
<1> QED BY <1>1, SSAInvHolds, PTL

(* What a full-SSA rewrite leaves of an entry value of a known block.      *)
LEMMA RewrittenGone ==
    ASSUME SSAInv, SSA, pc = "done", NEW val,
           val[1] = "entry" => KeyOf(val) \in TrackedRegs \X Blocks
    PROVE  Rewritten(val)[1] # "entry"
<1>1. /\ DOMAIN subst = TrackedRegs \X Blocks
      /\ \A k \in DOMAIN subst : subst[k][1] # "entry"
  BY DEF SSAInv, ChainInv
<1>2. CASE val[1] = "entry"
  BY <1>1, <1>2 DEF Rewritten, IsKey, KeyOf
<1>3. CASE val[1] # "entry"
  BY <1>3 DEF Rewritten, IsKey
<1> QED BY <1>2, <1>3

(* Full SSA is closed: no operand of the recovered graph names a symbolic  *)
(* entry value, whatever the oracle returned.                              *)
THEOREM FullSSAIsClosed == Spec => []NoEntrySymbolLeft
<1>1. SSAInv => NoEntrySymbolLeft
  <2> SUFFICES ASSUME SSAInv, SSA, pc = "done", NEW b \in Blocks,
                      NEW val \in Operands(b)
               PROVE  val[1] # "entry"
    BY DEF NoEntrySymbolLeft
  <2>1. /\ Blocks = 1 .. Len(label) /\ Len(label) \in Nat
        /\ Evaluated \in 0 .. Len(label) /\ DOMAIN incoming = 1 .. Len(label)
    BY Tables DEF SSAInv, EdgeInv
  <2>2. phis = FinalPhis /\ reads = FinalReads
    BY DEF SSAInv, PhiInv
  <2>3. CASE val \in Range(reads[b])
    <3>1. reads[b] = [r \in Reg |-> Rewritten(DrivenBy(b)[r])]
      BY <2>2 DEF FinalReads
    <3>2. PICK r \in Reg : val = Rewritten(DrivenBy(b)[r])
      BY <2>3, <3>1 DEF Range
    <3>3. DrivenBy(b)[r][1] = "entry" =>
            KeyOf(DrivenBy(b)[r]) \in TrackedRegs \X Blocks
      BY DEF DrivenBy, Symbols, Empty, Absent, Sym, KeyOf
    <3> QED BY <3>2, <3>3, RewrittenGone
  <2>4. CASE \E r \in DOMAIN phis[b] : \E j \in DOMAIN phis[b][r] :
                val = phis[b][r][j][2]
    <3>1. phis[b] = [r \in PhiRegs(b) |->
                       [j \in DOMAIN incoming[b] |->
                          <<incoming[b][j].pred,
                            Rewritten(incoming[b][j].state[r])>>]]
      BY <2>2 DEF FinalPhis
    <3>2. PICK r \in PhiRegs(b), j \in DOMAIN incoming[b] :
                val = Rewritten(incoming[b][j].state[r])
      BY <2>4, <3>1
    <3>3. r \in Reg
      BY ConstantsAssumption
        DEF ConstantsAssumption, PhiRegs, Reconciled, SSA
    <3>4. incoming[b][j].pred \in 1 .. Evaluated /\ OwnSymbols(incoming[b][j])
      BY <2>1 DEF SSAInv, EdgeInv, FlowInv, Flows
    <3>5. incoming[b][j].state[r][1] = "entry" =>
            KeyOf(incoming[b][j].state[r]) \in TrackedRegs \X Blocks
      BY <2>1, <3>3, <3>4 DEF OwnSymbols, Sym, KeyOf
    <3> QED BY <3>2, <3>5, RewrittenGone
  <2> QED BY <2>3, <2>4 DEF Operands
<1> QED BY <1>1, SSAInvHolds, PTL

(* Full SSA is right at every block but the entry: a register all edges    *)
(* define enters the block as its phi, with one operand for each edge, or  *)
(* as the value that every edge carries.                                   *)
THEOREM FullSSAIsSound == Spec => []EntryValuesSound
<1>1. SSAInv => EntryValuesSound
  <2> SUFFICES ASSUME SSAInv, SSA, pc = "done", NEW b \in 2 .. Evaluated,
                      NEW r \in TrackedRegs,
                      \A j \in DOMAIN incoming[b] : Holds(incoming[b][j].state, r),
                      NEW j \in DOMAIN incoming[b]
               PROVE  LET s == incoming[b][j].state
                      IN IF r \in DOMAIN phis[b]
                         THEN /\ reads[b][r] = PhiRef(b, r)
                              /\ phis[b][r][j] =
                                   <<incoming[b][j].pred, Rewritten(s[r])>>
                         ELSE reads[b][r] = Rewritten(s[r])
    BY DEF EntryValuesSound
  <2>1. /\ Blocks = 1 .. Len(label) /\ Len(label) \in Nat
        /\ Evaluated \in 0 .. Len(label) /\ DOMAIN incoming = 1 .. Len(label)
        /\ incoming \in Seq(Seq(Incoming))
    BY Tables DEF SSAInv, EdgeInv
  <2>2. b \in Blocks /\ b # 1 /\ b <= Evaluated /\ r \in Reg
        /\ b \in 2 .. Len(label)
    BY <2>1, ConstantsAssumption DEF ConstantsAssumption
  <2>3. phis = FinalPhis /\ reads = FinalReads
    BY DEF SSAInv, PhiInv
  <2>4. reads[b][r] = Rewritten(Sym(r, b))
    BY <2>2, <2>3 DEF FinalReads, DrivenBy, Symbols
  <2>5. Rewritten(Sym(r, b)) = subst[<<r, b>>] /\ <<r, b>> \in DOMAIN subst
    BY <2>2, Resolved DEF Rewritten, IsKey, KeyOf, Sym
  <2>6. subst[<<r, b>>] = Rewritten(FirstDef(b, r))
    BY <2>2, Resolved, DefinitionIsFirstDef DEF SSAInv
  <2>7. phis[b] = [q \in PhiRegs(b) |->
                     [i \in DOMAIN incoming[b] |->
                        <<incoming[b][i].pred,
                          Rewritten(incoming[b][i].state[q])>>]]
    BY <2>2, <2>3 DEF FinalPhis
  <2>8. CASE r \in PhiRegs(b)
    <3>1. FirstDef(b, r) = PhiRef(b, r)
      BY <2>8 DEF FirstDef
    <3>2. Rewritten(PhiRef(b, r)) = PhiRef(b, r)
      BY DEF Rewritten, IsKey, PhiRef
    <3>3. reads[b][r] = PhiRef(b, r)
      BY <2>4, <2>5, <2>6, <3>1, <3>2
    <3>4. r \in DOMAIN phis[b] /\ phis[b][r][j] =
            <<incoming[b][j].pred, Rewritten(incoming[b][j].state[r])>>
      BY <2>7, <2>8
    <3> QED BY <3>3, <3>4
  <2>9. CASE r \notin PhiRegs(b)
    <3>1. r \in Reconciled
      BY DEF Reconciled, SSA
    <3>2. ~NeedsPhi(b, r)
      BY <2>9, <3>1 DEF PhiRegs
    <3>3. incoming[b] \in Seq(Incoming) /\ incoming[b] # <<>>
      <4>1. incoming[b] \in Seq(Incoming)
        BY <2>1, <2>2, LenProperties
      <4>2. FoundFromAbove(incoming, 2 .. Len(label))
        BY DEF SSAInv, EdgeInv, FlowInv
      <4> QED BY <2>2, <4>1, <4>2 DEF FoundFromAbove
    <3>4. DOMAIN incoming[b] = 1 .. Len(incoming[b])
          /\ Len(incoming[b]) \in Nat /\ 1 \in DOMAIN incoming[b]
      <4>1. DOMAIN incoming[b] = 1 .. Len(incoming[b])
            /\ Len(incoming[b]) \in Nat
        BY <3>3, LenProperties
      <4>2. 1 \in 1 .. Len(incoming[b])
        BY <3>3, EmptySeq
      <4> QED BY <4>1, <4>2
    <3>5. incoming[b][j].state[r] = incoming[b][1].state[r]
      <4>1. CASE Len(incoming[b]) >= 2
        BY <3>2, <4>1 DEF NeedsPhi
      <4>2. CASE ~(Len(incoming[b]) >= 2)
        <5>1. j = 1
          BY <3>4, <4>2
        <5> QED BY <5>1
      <4> QED BY <4>1, <4>2
    <3>6. FirstDef(b, r) = incoming[b][1].state[r]
      BY <2>2, <2>9, <3>3, <3>4 DEF FirstDef
    <3>7. r \notin DOMAIN phis[b]
      BY <2>7, <2>9
    <3> QED BY <2>4, <2>5, <2>6, <3>5, <3>6, <3>7
  <2> QED BY <2>8, <2>9
<1> QED BY <1>1, SSAInvHolds, PTL

-----------------------------------------------------------------------------
(* Terminators, edges and predecessor lists describe one graph *)

\* The edges out of block b in the edge list E are those of terminator t.
Describes(E, t, b) ==
    LET out == {i \in DOMAIN E : E[i].from = b}
    IN CASE t.kind = "JMP" -> \E i \in out : out = {i} /\ E[i].to = t.target
         [] t.kind = "CJMP" ->
              \E i \in out :
                  /\ out = {i, i + 1}
                  /\ E[i].to = t.target
                  /\ E[i + 1].to = t.fallthrough
         [] OTHER -> out = {}

\* The edge list F is E followed by edges from block b.
Extended(E, F, b) ==
    /\ F \in Seq(Edge) /\ Len(E) <= Len(F)
    /\ \A i \in 1 .. Len(E) : F[i] = E[i]
    /\ \A i \in Len(E) + 1 .. Len(F) : F[i].from = b

LEMMA DescribesKept ==
    ASSUME NEW E \in Seq(Edge), NEW F, NEW b, Extended(E, F, b), NEW t,
           NEW c, c # b, Describes(E, t, c)
    PROVE  Describes(F, t, c)
<1> DEFINE out == {i \in DOMAIN E : E[i].from = c}
           new == {i \in DOMAIN F : F[i].from = c}
<1>1. /\ DOMAIN E = 1 .. Len(E) /\ DOMAIN F = 1 .. Len(F)
      /\ Len(E) \in Nat /\ Len(F) \in Nat
  BY LenProperties DEF Extended
<1>2. new = out
  <2>1. ASSUME NEW i \in new PROVE i \in out
    <3>1. i \in 1 .. Len(E)
      BY <1>1, <2>1 DEF Extended
    <3> QED BY <1>1, <2>1, <3>1 DEF Extended
  <2>2. ASSUME NEW i \in out PROVE i \in new
    BY <1>1, <2>2 DEF Extended
  <2> QED BY <2>1, <2>2
<1>3. \A i \in out : F[i] = E[i]
  BY <1>1 DEF Extended
<1> HIDE DEF new, out
<1>4. CASE t.kind = "JMP"
  <2>1. \E i \in out : out = {i} /\ E[i].to = t.target
    BY <1>4 DEF Describes, out
  <2>2. \E i \in new : new = {i} /\ F[i].to = t.target
    BY <1>2, <1>3, <2>1
  <2> QED BY <1>4, <2>2 DEF Describes, new
<1>5. CASE t.kind = "CJMP"
  <2>1. \E i \in out : out = {i, i + 1} /\ E[i].to = t.target
                       /\ E[i + 1].to = t.fallthrough
    BY <1>5 DEF Describes, out
  <2>2. \E i \in new : new = {i, i + 1} /\ F[i].to = t.target
                       /\ F[i + 1].to = t.fallthrough
    BY <1>2, <1>3, <2>1
  <2> QED BY <1>5, <2>2 DEF Describes, new
<1>6. CASE t.kind # "JMP" /\ t.kind # "CJMP"
  <2>1. out = {}
    BY <1>6 DEF Describes, out
  <2> QED BY <1>2, <1>6, <2>1 DEF Describes, new
<1> QED BY <1>4, <1>5, <1>6

(* No edge leaves a block that is not evaluated yet.                       *)
LEMMA NoEdgeFromAhead ==
    ASSUME TypeInv, NEW c \in Nat, c > Evaluated
    PROVE  {i \in DOMAIN edges : edges[i].from = c} = {}
<1>1. \A i \in DOMAIN edges : edges[i].from \in 1 .. Evaluated
  BY DEF TypeInv, OrderInv, BackEdgeOrder
<1>2. Evaluated \in Nat
  BY Tables
<1> QED BY <1>1, <1>2

LEMMA TermStored ==
    ASSUME TypeInv, TermMatchesEdges, NEW L, NEW b, NEW V, Advance(L, b, V),
           NEW t, Store(L, b, t), Extended(edges, edges', b),
           Describes(edges', t, b)
    PROVE  TermMatchesEdges'
<1>1. /\ Len(L) \in Nat /\ Len(label) \in Nat /\ DOMAIN L = 1 .. Len(L)
      /\ label' = L /\ b = Evaluated + 1 /\ b \in 1 .. Len(label)
      /\ Evaluated \in Nat
  BY LenProperties DEF Advance
<1>2. \A i \in 1 .. Len(L) :
        term'[i] = IF i = b THEN t
                   ELSE IF i <= Len(label) THEN term[i] ELSE Ends("UNREACHABLE")
  BY StoredTables
<1>3. edges \in Seq(Edge) /\ Blocks = 1 .. Len(label)
  BY Tables
<1>4. SUFFICES ASSUME NEW c \in 1 .. Len(L) PROVE Describes(edges', term'[c], c)
  BY <1>1 DEF TermMatchesEdges, Describes, Blocks
<1>5. CASE c = b
  BY <1>2, <1>5
<1>6. CASE c # b /\ c <= Len(label)
  <2>1. Describes(edges, term[c], c)
    BY <1>1, <1>3, <1>6 DEF TermMatchesEdges, Describes
  <2>2. term'[c] = term[c]
    BY <1>2, <1>6
  <2> QED BY <1>3, <1>6, <2>1, <2>2, DescribesKept
<1>7. CASE c # b /\ ~(c <= Len(label))
  <2>1. term'[c] = Ends("UNREACHABLE")
    BY <1>2, <1>7
  <2>2. {i \in DOMAIN edges : edges[i].from = c} = {}
    BY <1>1, <1>7, NoEdgeFromAhead
  <2>3. Describes(edges, Ends("UNREACHABLE"), c)
    BY <2>2 DEF Describes, Ends
  <2> QED BY <1>3, <1>7, <2>1, <2>3, DescribesKept
<1> QED BY <1>5, <1>6, <1>7

LEMMA TermGoto ==
    ASSUME TypeInv, TermMatchesEdges, MayEvaluate, NEW v \in Vpc, NEW out,
           EvalGoto(v, out), TypeInv'
    PROVE  TermMatchesEdges'
<1> DEFINE L == GetBlock(label, v)
           s == IdOf(L, v)
           b == Current
           e == [from |-> b, to |-> s, back |-> IsBack(v)]
           n == Len(edges)
<1>1. Advance(L, b, {v})
  BY GotoAdvances
<1>2. Store(L, b, Jmp(s)) /\ edges' = Append(edges, e)
  BY DEF EvalGoto
<1> HIDE DEF L, s
<1>3. b = Evaluated + 1 /\ Evaluated \in Nat /\ b \in Nat
  BY <1>1 DEF Advance
<1> HIDE DEF b
<1>4. edges \in Seq(Edge) /\ n \in Nat /\ DOMAIN edges = 1 .. n
      /\ edges' \in Seq(Edge)
  BY Tables DEF TypeInv, OrderInv
<1>5. e.from = b /\ e.to = s
  OBVIOUS
<1> HIDE DEF e
<1>6. /\ DOMAIN edges' = 1 .. n + 1 /\ Len(edges') = n + 1
      /\ \A i \in 1 .. n : edges'[i] = edges[i]
      /\ edges'[n + 1] = e
  BY <1>2, <1>4
<1>7. Extended(edges, edges', b)
  BY <1>4, <1>5, <1>6 DEF Extended
<1>8. Describes(edges', Jmp(s), b)
  <2>1. {i \in DOMAIN edges : edges[i].from = b} = {}
    BY <1>3, NoEdgeFromAhead
  <2>2. {i \in DOMAIN edges' : edges'[i].from = b} = {n + 1}
    BY <1>4, <1>5, <1>6, <2>1
  <2> QED BY <1>5, <1>6, <2>2 DEF Describes, Jmp
<1> QED BY <1>1, <1>2, <1>7, <1>8, TermStored

LEMMA TermBranch ==
    ASSUME TypeInv, TermMatchesEdges, MayEvaluate, NEW t \in Vpc, NEW f \in Vpc,
           NEW outT, NEW outF, EvalBranch(t, f, outT, outF), TypeInv'
    PROVE  TermMatchesEdges'
<1> DEFINE L == GetBlock(GetBlock(label, t), f)
           x == IdOf(L, t)
           y == IdOf(L, f)
           b == Current
           d == [from |-> b, to |-> x, back |-> IsBack(t)]
           e == [from |-> b, to |-> y, back |-> IsBack(f)]
           n == Len(edges)
<1>1. Advance(L, b, {t, f})
  BY BranchAdvances
<1>2. Store(L, b, CJmp(x, y)) /\ edges' = edges \o <<d, e>>
  BY DEF EvalBranch
<1> HIDE DEF L, x, y
<1>3. b = Evaluated + 1 /\ Evaluated \in Nat /\ b \in Nat
  BY <1>1 DEF Advance
<1> HIDE DEF b
<1>4. edges \in Seq(Edge) /\ n \in Nat /\ DOMAIN edges = 1 .. n
      /\ edges' \in Seq(Edge)
  BY Tables DEF TypeInv, OrderInv
<1>5. d.from = b /\ d.to = x /\ e.from = b /\ e.to = y
  OBVIOUS
<1> HIDE DEF d, e
<1>6. /\ DOMAIN edges' = 1 .. n + 2 /\ Len(edges') = n + 2
      /\ \A i \in 1 .. n : edges'[i] = edges[i]
      /\ edges'[n + 1] = d /\ edges'[n + 2] = e
  BY <1>2, <1>4
<1>7. Extended(edges, edges', b)
  <2>1. \A i \in n + 1 .. n + 2 : i = n + 1 \/ i = n + 2
    BY <1>4
  <2> QED BY <1>4, <1>5, <1>6, <2>1 DEF Extended
<1>8. Describes(edges', CJmp(x, y), b)
  <2>1. {i \in DOMAIN edges : edges[i].from = b} = {}
    BY <1>3, NoEdgeFromAhead
  <2>2. {i \in DOMAIN edges' : edges'[i].from = b} = {n + 1, n + 2}
    <3>1. \A i \in 1 .. n + 2 : i \in 1 .. n \/ i = n + 1 \/ i = n + 2
      BY <1>4
    <3> QED BY <1>4, <1>5, <1>6, <2>1, <3>1
  <2>3. n + 2 = (n + 1) + 1 /\ n + 1 \in {n + 1, n + 2}
    BY <1>4
  <2>4. \E i \in {n + 1, n + 2} :
            {n + 1, n + 2} = {i, i + 1} /\ edges'[i].to = x /\ edges'[i + 1].to = y
    BY <1>5, <1>6, <2>3
  <2> QED BY <2>2, <2>4 DEF Describes, CJmp
<1> QED BY <1>1, <1>2, <1>7, <1>8, TermStored

LEMMA TermNext == TypeInv /\ TermMatchesEdges /\ [Next]_vars => TermMatchesEdges'
<1> SUFFICES ASSUME TypeInv, TermMatchesEdges, [Next]_vars PROVE TermMatchesEdges'
  OBVIOUS
<1>1. TypeInv'
  BY TypeInvNext
<1>2. CASE Explore
  <2>1. MayEvaluate
    BY <1>2 DEF Explore
  <2>2. CASE \E kind \in {"RET", "UNREACHABLE"} : EvalStop(kind)
    <3>1. PICK kind \in {"RET", "UNREACHABLE"} : EvalStop(kind)
      BY <2>2
    <3>2. /\ Advance(label, Current, {}) /\ Store(label, Current, Ends(kind))
          /\ edges' = edges
      BY <2>1, <3>1, StopAdvances
    <3>3. Current = Evaluated + 1 /\ Evaluated \in Nat /\ Current \in Nat
      BY <3>2 DEF Advance
    <3>4. edges \in Seq(Edge) /\ Len(edges) \in Nat
      BY Tables
    <3>5. Extended(edges, edges', Current)
      BY <3>2, <3>4 DEF Extended
    <3>6. {i \in DOMAIN edges : edges[i].from = Current} = {}
      BY <3>3, NoEdgeFromAhead
    <3>7. Describes(edges', Ends(kind), Current)
      BY <3>2, <3>6 DEF Describes, Ends
    <3> QED BY <3>2, <3>5, <3>7, TermStored
  <2>3. CASE \E v \in Vpc, out \in OutState(Drive(Current)) : EvalGoto(v, out)
    BY <1>1, <2>1, <2>3, TermGoto
  <2>4. CASE \E t, f \in Vpc, outT, outF \in OutState(Drive(Current)) :
                  EvalBranch(t, f, outT, outF)
    BY <1>1, <2>1, <2>4, TermBranch
  <2> QED BY <1>2, <2>2, <2>3, <2>4 DEF Explore
<1>3. CASE ~Explore
  <2>1. UNCHANGED <<label, term, edges>>
    BY <1>3, GraphStays
  <2> QED BY <2>1 DEF TermMatchesEdges, Blocks
<1> QED BY <1>2, <1>3

LEMMA TermInit == Init => TermMatchesEdges
<1> SUFFICES ASSUME Init PROVE TermMatchesEdges
  OBVIOUS
<1>1. /\ Blocks = {1} /\ term[1] = Ends("UNREACHABLE") /\ edges = <<>>
      /\ DOMAIN edges = {}
  BY DEF Init, Blocks
<1> QED BY <1>1 DEF TermMatchesEdges, Ends

(* Terminators and edge list, filled at different places of an iteration,  *)
(* describe one graph, whatever the oracle answers.                        *)
THEOREM TerminatorsAreTheEdges == Spec => []TermMatchesEdges
<1> DEFINE Inv == TypeInv /\ TermMatchesEdges
<1>1. Init => Inv
  BY TypeInvInit, TermInit
<1>2. Inv /\ [Next]_vars => Inv'
  BY TypeInvNext, TermNext
<1>3. Inv => TermMatchesEdges
  OBVIOUS
<1> QED BY <1>1, <1>2, <1>3, PTL DEF Spec

\* The list of block b's predecessors runs parallel to its edges in E.
Into(E, b) == {i \in DOMAIN E : E[i].to = b}
Lists(E, list, b) ==
    /\ Len(list) = Cardinality(Into(E, b))
    /\ \A i \in Into(E, b) :
         list[Cardinality({k \in Into(E, b) : k <= i})].pred = E[i].from

LEMMA IntoFinite ==
    ASSUME NEW E \in Seq(Edge), NEW b
    PROVE  /\ IsFiniteSet(Into(E, b)) /\ Cardinality(Into(E, b)) \in Nat
           /\ Into(E, b) \subseteq 1 .. Len(E)
<1>1. DOMAIN E = 1 .. Len(E) /\ Len(E) \in Nat
  BY LenProperties
<1>2. IsFiniteSet(1 .. Len(E))
  BY <1>1, FS_Interval
<1>3. Into(E, b) \subseteq 1 .. Len(E)
  BY <1>1 DEF Into
<1>4. IsFiniteSet(Into(E, b))
  BY <1>2, <1>3, FS_Subset
<1> QED BY <1>3, <1>4, FS_CardinalityType

(* The rank of an edge among the edges into its target.                    *)
LEMMA RankInRange ==
    ASSUME NEW E \in Seq(Edge), NEW b, NEW i \in Into(E, b)
    PROVE  Cardinality({k \in Into(E, b) : k <= i})
                \in 1 .. Cardinality(Into(E, b))
<1> DEFINE I == Into(E, b)
           R == {k \in I : k <= i}
<1>1. IsFiniteSet(I) /\ Cardinality(I) \in Nat /\ I \subseteq 1 .. Len(E)
      /\ Len(E) \in Nat
  BY IntoFinite, LenProperties
<1> HIDE DEF I
<1>2. R \subseteq I /\ i \in R
  <2>1. i \in I /\ i \in Nat
    BY <1>1 DEF I
  <2> QED BY <2>1
<1> HIDE DEF R
<1>3. IsFiniteSet(R) /\ Cardinality(R) <= Cardinality(I)
  BY <1>1, <1>2, FS_Subset
<1>4. Cardinality(R) \in Nat
  BY <1>3, FS_CardinalityType
<1>5. Cardinality(R) # 0
  BY <1>2, <1>3, FS_EmptySet
<1> QED BY <1>1, <1>3, <1>4, <1>5 DEF I, R

LEMMA ListKept ==
    ASSUME NEW E \in Seq(Edge), NEW e \in Edge, NEW list, NEW b, e.to # b,
           Lists(E, list, b)
    PROVE  Lists(Append(E, e), list, b)
<1> DEFINE F == Append(E, e)
<1>1. /\ F \in Seq(Edge) /\ Len(F) = Len(E) + 1 /\ Len(E) \in Nat
      /\ \A i \in 1 .. Len(E) : F[i] = E[i]
      /\ F[Len(E) + 1] = e /\ DOMAIN E = 1 .. Len(E)
  BY AppendProperties, LenProperties
<1>2. DOMAIN F = 1 .. Len(E) + 1
  BY <1>1, LenProperties
<1> HIDE DEF F
<1>3. Into(F, b) = Into(E, b) /\ \A i \in Into(E, b) : F[i] = E[i]
  <2>1. \A i \in 1 .. Len(E) + 1 : i \in 1 .. Len(E) \/ i = Len(E) + 1
    BY <1>1
  <2> QED BY <1>1, <1>2, <2>1 DEF Into
<1>4. Lists(F, list, b)
  BY <1>3 DEF Lists
<1> QED BY <1>4 DEF F

LEMMA ListAppended ==
    ASSUME NEW E \in Seq(Edge), NEW e \in Edge, NEW list \in Seq(Incoming),
           NEW x \in Incoming, x.pred = e.from, Lists(E, list, e.to)
    PROVE  Lists(Append(E, e), Append(list, x), e.to)
<1> DEFINE F == Append(E, e)
           new == Append(list, x)
           b == e.to
           I == Into(E, b)
           J == Into(F, b)
           n == Len(E) + 1
<1>1. /\ F \in Seq(Edge) /\ Len(E) \in Nat /\ Len(F) = n
      /\ \A i \in 1 .. Len(E) : F[i] = E[i]
      /\ F[n] = e /\ DOMAIN E = 1 .. Len(E)
  BY AppendProperties, LenProperties
<1>2. DOMAIN F = 1 .. n
  BY <1>1, LenProperties
<1>3. /\ Len(new) = Len(list) + 1 /\ Len(list) \in Nat
      /\ \A j \in 1 .. Len(list) : new[j] = list[j]
      /\ new[Len(list) + 1] = x
  BY AppendProperties, LenProperties
<1>4. IsFiniteSet(I) /\ Cardinality(I) \in Nat /\ I \subseteq 1 .. Len(E)
  BY IntoFinite
<1>5. \A i \in I :
        Cardinality({k \in I : k <= i}) \in 1 .. Cardinality(I)
  BY RankInRange
<1>6. /\ Len(list) = Cardinality(I)
      /\ \A i \in I : list[Cardinality({k \in I : k <= i})].pred = E[i].from
  BY DEF Lists
<1> HIDE DEF F, new
<1>7. J = I \cup {n} /\ n \notin I
  <2>1. \A i \in 1 .. n : i \in 1 .. Len(E) \/ i = n
    BY <1>1
  <2>2. 1 .. Len(E) \subseteq 1 .. n /\ n \in 1 .. n /\ n \notin 1 .. Len(E)
    BY <1>1
  <2>3. n \notin I
    BY <1>4, <2>2
  <2>4. \A i \in J : i \in I \/ i = n
    BY <1>1, <1>2, <2>1 DEF Into
  <2>5. \A i \in I : i \in J
    BY <1>1, <1>2, <2>2 DEF Into
  <2>6. n \in J
    BY <1>1, <1>2, <2>2 DEF Into
  <2> QED BY <2>3, <2>4, <2>5, <2>6
<1> HIDE DEF I, J, n
<1>8. Cardinality(J) = Cardinality(I) + 1
  BY <1>4, <1>7, FS_AddElement
<1>9. ASSUME NEW i \in J
      PROVE  new[Cardinality({k \in J : k <= i})].pred = F[i].from
  <2>1. CASE i \in I
    <3>1. {k \in J : k <= i} = {k \in I : k <= i}
      <4>1. i \in 1 .. Len(E) /\ ~(n <= i)
        BY <1>1, <1>4, <2>1 DEF n
      <4> QED BY <1>7, <4>1
    <3>2. Cardinality({k \in I : k <= i}) \in 1 .. Len(list)
      BY <1>5, <1>6, <2>1
    <3>3. F[i] = E[i]
      BY <1>1, <1>4, <2>1
    <3> QED BY <1>3, <1>6, <2>1, <3>1, <3>2, <3>3
  <2>2. CASE i = n
    <3>1. {k \in J : k <= i} = J
      <4>1. \A k \in J : k <= n
        BY <1>1, <1>4, <1>7 DEF n
      <4> QED BY <2>2, <4>1
    <3> QED BY <1>1, <1>3, <1>6, <1>8, <2>2, <3>1
  <2> QED BY <1>7, <2>1, <2>2
<1> QED BY <1>3, <1>6, <1>8, <1>9 DEF Lists, F, new, J

(* Linking an edge where it is recorded keeps all lists parallel.          *)
LEMMA LinkLists ==
    ASSUME NEW E \in Seq(Edge), NEW inc \in Seq(Seq(Incoming)),
           \A c \in DOMAIN inc : Lists(E, inc[c], c),
           NEW s \in DOMAIN inc, NEW b \in Nat, NEW state \in State,
           NEW e \in Edge, e.from = b, e.to = s
    PROVE  \A c \in DOMAIN inc :
              Lists(Append(E, e), Link(inc, s, b, state)[c], c)
<1> SUFFICES ASSUME NEW c \in DOMAIN inc
             PROVE  Lists(Append(E, e), Link(inc, s, b, state)[c], c)
  OBVIOUS
<1>1. CASE c # s
  <2>1. Link(inc, s, b, state)[c] = inc[c]
    BY <1>1 DEF Link
  <2>2. e.to # c /\ Lists(E, inc[c], c)
    BY <1>1
  <2> QED BY <2>1, <2>2, ListKept
<1>2. CASE c = s
  <2> DEFINE x == [pred |-> b, state |-> state]
  <2>1. Link(inc, s, b, state)[s] = Append(inc[s], x)
    BY DEF Link
  <2>2. x \in Incoming /\ x.pred = e.from /\ inc[s] \in Seq(Incoming)
    BY LenProperties DEF Incoming
  <2> HIDE DEF x
  <2>3. Lists(E, inc[s], e.to)
    OBVIOUS
  <2> QED BY <1>2, <2>1, <2>2, <2>3, ListAppended
<1> QED BY <1>1, <1>2

(* A block without edges has an empty list.                                *)
LEMMA PadLists ==
    ASSUME TypeInv, EdgesMatchIncoming, NEW n \in Nat, Len(label) <= n
    PROVE  \A c \in 1 .. n : Lists(edges, Pad(incoming, n, <<>>)[c], c)
<1>1. /\ edges \in Seq(Edge) /\ incoming \in Seq(Seq(Incoming))
      /\ DOMAIN incoming = 1 .. Len(label) /\ Len(label) \in Nat
      /\ Blocks = 1 .. Len(label)
  BY Tables
<1> SUFFICES ASSUME NEW c \in 1 .. n
             PROVE  Lists(edges, Pad(incoming, n, <<>>)[c], c)
  OBVIOUS
<1>2. CASE c <= Len(label)
  <2>1. Pad(incoming, n, <<>>)[c] = incoming[c] /\ c \in Blocks
    BY <1>1, <1>2 DEF Pad
  <2> QED BY <2>1 DEF EdgesMatchIncoming, Lists, Into
<1>3. CASE ~(c <= Len(label))
  <2>1. Pad(incoming, n, <<>>)[c] = <<>>
    BY <1>1, <1>3 DEF Pad
  <2>2. Into(edges, c) = {}
    <3>1. \A i \in DOMAIN edges : edges[i].to \in Blocks
      BY DEF TypeInv, OrderInv, BackEdgeOrder
    <3> QED BY <1>1, <1>3, <3>1 DEF Into
  <2>3. Cardinality({}) = 0 /\ Len(<<>>) = 0
    BY FS_EmptySet
  <2> QED BY <2>1, <2>2, <2>3 DEF Lists
<1> QED BY <1>2, <1>3

LEMMA MatchGoto ==
    ASSUME TypeInv, EdgesMatchIncoming, MayEvaluate, NEW v \in Vpc,
           NEW out \in OutState(Drive(Current)), EvalGoto(v, out)
    PROVE  EdgesMatchIncoming'
<1> DEFINE L == GetBlock(label, v)
           s == IdOf(L, v)
           b == Current
           P == Pad(incoming, Len(L), <<>>)
           e == [from |-> b, to |-> s, back |-> IsBack(v)]
<1>1. Advance(L, b, {v}) /\ s \in 1 .. Len(L)
  BY GotoAdvances
<1>2. incoming' = Link(P, s, b, out) /\ edges' = Append(edges, e)
  BY DEF EvalGoto
<1> HIDE DEF L, s
<1>3. /\ Len(L) \in Nat /\ Len(label) <= Len(L) /\ DOMAIN L = 1 .. Len(L)
      /\ b \in 1 .. Len(label) /\ b \in Nat /\ label' = L
  BY <1>1, LenProperties DEF Advance
<1>4. /\ incoming \in Seq(Seq(Incoming)) /\ Len(incoming) = Len(label)
      /\ edges \in Seq(Edge)
  <2>1. incoming \in Seq(Seq(Incoming)) /\ DOMAIN incoming = 1 .. Len(label)
        /\ Len(label) \in Nat /\ edges \in Seq(Edge)
    BY Tables
  <2> QED BY <2>1, LenProperties
<1>5. out \in State
  <2>1. Drive(b) \in State
    BY <1>3, DriveType, Tables
  <2> QED BY <2>1, OutStateType
<1> HIDE DEF b
<1>6. P \in Seq(Seq(Incoming)) /\ DOMAIN P = 1 .. Len(L)
  BY <1>3, <1>4, PadIncoming
<1>7. \A c \in 1 .. Len(L) : Lists(edges, P[c], c)
  BY <1>3, PadLists
<1> HIDE DEF P
<1>8. e \in Edge /\ e.from = b /\ e.to = s
  <2>1. s \in Nat /\ IsBack(v) \in BOOLEAN
    BY <1>1 DEF IsBack
  <2> QED BY <1>3, <2>1 DEF Edge
<1> HIDE DEF e
<1>9. \A c \in DOMAIN P : Lists(Append(edges, e), Link(P, s, b, out)[c], c)
  <2>1. s \in DOMAIN P /\ \A c \in DOMAIN P : Lists(edges, P[c], c)
    BY <1>1, <1>6, <1>7
  <2>2. P \in Seq(Seq(Incoming)) /\ b \in Nat
    BY <1>3, <1>6
  <2> QED BY <2>1, <2>2, <1>4, <1>5, <1>8, LinkLists
<1>10. \A c \in 1 .. Len(L) : Lists(edges', incoming'[c], c)
  BY <1>2, <1>6, <1>9
<1>11. Blocks' = 1 .. Len(L)
  BY <1>3 DEF Blocks
<1> QED BY <1>10, <1>11 DEF EdgesMatchIncoming, Lists, Into

LEMMA MatchBranch ==
    ASSUME TypeInv, EdgesMatchIncoming, MayEvaluate, NEW t \in Vpc, NEW f \in Vpc,
           NEW outT \in OutState(Drive(Current)),
           NEW outF \in OutState(Drive(Current)), EvalBranch(t, f, outT, outF)
    PROVE  EdgesMatchIncoming'
<1> DEFINE L == GetBlock(GetBlock(label, t), f)
           x == IdOf(L, t)
           y == IdOf(L, f)
           b == Current
           P == Pad(incoming, Len(L), <<>>)
           Q == Link(P, x, b, outT)
           d == [from |-> b, to |-> x, back |-> IsBack(t)]
           e == [from |-> b, to |-> y, back |-> IsBack(f)]
<1>1. Advance(L, b, {t, f}) /\ x \in 1 .. Len(L) /\ y \in 1 .. Len(L)
  BY BranchAdvances
<1>2. incoming' = Link(Q, y, b, outF) /\ edges' = edges \o <<d, e>>
  BY DEF EvalBranch
<1> HIDE DEF L, x, y
<1>3. /\ Len(L) \in Nat /\ Len(label) <= Len(L) /\ DOMAIN L = 1 .. Len(L)
      /\ b \in 1 .. Len(label) /\ b \in Nat /\ label' = L
  BY <1>1, LenProperties DEF Advance
<1>4. /\ incoming \in Seq(Seq(Incoming)) /\ Len(incoming) = Len(label)
      /\ edges \in Seq(Edge)
  <2>1. incoming \in Seq(Seq(Incoming)) /\ DOMAIN incoming = 1 .. Len(label)
        /\ Len(label) \in Nat /\ edges \in Seq(Edge)
    BY Tables
  <2> QED BY <2>1, LenProperties
<1>5. outT \in State /\ outF \in State
  <2>1. Drive(b) \in State
    BY <1>3, DriveType, Tables
  <2> QED BY <2>1, OutStateType
<1> HIDE DEF b
<1>6. P \in Seq(Seq(Incoming)) /\ DOMAIN P = 1 .. Len(L)
  BY <1>3, <1>4, PadIncoming
<1>7. \A c \in 1 .. Len(L) : Lists(edges, P[c], c)
  BY <1>3, PadLists
<1> HIDE DEF P
<1>8. /\ d \in Edge /\ d.from = b /\ d.to = x
      /\ e \in Edge /\ e.from = b /\ e.to = y
  <2>1. /\ x \in Nat /\ IsBack(t) \in BOOLEAN
        /\ y \in Nat /\ IsBack(f) \in BOOLEAN
    BY <1>1 DEF IsBack
  <2> QED BY <1>3, <2>1 DEF Edge
<1> HIDE DEF d, e
<1>9. \A c \in DOMAIN P : Lists(Append(edges, d), Q[c], c)
  <2>1. x \in DOMAIN P /\ \A c \in DOMAIN P : Lists(edges, P[c], c)
    BY <1>1, <1>6, <1>7
  <2>2. P \in Seq(Seq(Incoming)) /\ b \in Nat
    BY <1>3, <1>6
  <2> QED BY <2>1, <2>2, <1>4, <1>5, <1>8, LinkLists
<1>10. Q \in Seq(Seq(Incoming)) /\ DOMAIN Q = DOMAIN P
  <2>1. P \in Seq(Seq(Incoming)) /\ b \in Nat /\ x \in DOMAIN P
    BY <1>1, <1>3, <1>6
  <2> QED BY <2>1, <1>5, LinkProperties, ZenonT(60)
<1> HIDE DEF Q
<1>11. Append(edges, d) \in Seq(Edge)
       /\ edges \o <<d, e>> = Append(Append(edges, d), e)
  BY <1>4, <1>8
<1>12. \A c \in DOMAIN Q :
          Lists(Append(Append(edges, d), e), Link(Q, y, b, outF)[c], c)
  <2>1. y \in DOMAIN Q /\ \A c \in DOMAIN Q : Lists(Append(edges, d), Q[c], c)
    BY <1>1, <1>6, <1>9, <1>10
  <2>2. Q \in Seq(Seq(Incoming)) /\ b \in Nat
    BY <1>3, <1>10
  <2> QED BY <2>1, <2>2, <1>5, <1>8, <1>11, LinkLists
<1>13. \A c \in 1 .. Len(L) : Lists(edges', incoming'[c], c)
  BY <1>2, <1>6, <1>10, <1>11, <1>12
<1>14. Blocks' = 1 .. Len(L)
  BY <1>3 DEF Blocks
<1> QED BY <1>13, <1>14 DEF EdgesMatchIncoming, Lists, Into

LEMMA MatchNext ==
    TypeInv /\ EdgesMatchIncoming /\ [Next]_vars => EdgesMatchIncoming'
<1> SUFFICES ASSUME TypeInv, EdgesMatchIncoming, [Next]_vars
             PROVE  EdgesMatchIncoming'
  OBVIOUS
<1>1. CASE Explore
  <2>1. MayEvaluate
    BY <1>1 DEF Explore
  <2>2. CASE \E kind \in {"RET", "UNREACHABLE"} : EvalStop(kind)
    BY <2>2 DEF EvalStop, Store, EdgesMatchIncoming, Blocks
  <2>3. CASE \E v \in Vpc, out \in OutState(Drive(Current)) : EvalGoto(v, out)
    BY <2>1, <2>3, MatchGoto
  <2>4. CASE \E t, f \in Vpc, outT, outF \in OutState(Drive(Current)) :
                  EvalBranch(t, f, outT, outF)
    BY <2>1, <2>4, MatchBranch
  <2> QED BY <1>1, <2>2, <2>3, <2>4 DEF Explore
<1>2. CASE ~Explore
  <2>1. UNCHANGED <<label, edges, incoming>>
    BY <1>2, GraphStays
  <2> QED BY <2>1 DEF EdgesMatchIncoming, Blocks
<1> QED BY <1>1, <1>2

LEMMA MatchInit == Init => EdgesMatchIncoming
<1> SUFFICES ASSUME Init PROVE EdgesMatchIncoming
  OBVIOUS
<1>1. /\ Blocks = {1} /\ incoming[1] = <<>> /\ edges = <<>>
      /\ DOMAIN edges = {}
  BY DEF Init, Blocks
<1>2. Len(<<>>) = 0 /\ Cardinality({}) = 0
  BY FS_EmptySet
<1> QED BY <1>1, <1>2 DEF EdgesMatchIncoming

(* The states phi nodes are built from stay parallel to the edges of the   *)
(* graph: as many entries as edges into the block, in the edges' order,    *)
(* each from its edge's source.                                            *)
THEOREM PredecessorsAreTheEdges == Spec => []EdgesMatchIncoming
<1> DEFINE Inv == TypeInv /\ EdgesMatchIncoming
<1>1. Init => Inv
  BY TypeInvInit, MatchInit
<1>2. Inv /\ [Next]_vars => Inv'
  BY TypeInvNext, MatchNext
<1>3. Inv => EdgesMatchIncoming
  OBVIOUS
<1> QED BY <1>1, <1>2, <1>3, PTL DEF Spec

-----------------------------------------------------------------------------
(* The exploration is a walk of the graph *)

\* The instance brings a copy of Cardinality with it.
LEMMA WalkCardinality == \A T : Walk!Cardinality(T) = Cardinality(T)
BY DEF Walk!Cardinality, Cardinality

\* The VPCs that edges E, between blocks of table L, lead to from v.
SuccessorsIn(L, E, v) ==
    {L[E[i].to] : i \in {j \in DOMAIN E : L[E[j].from] = v}}

(* An evaluated VPC keeps its successors when edges of block b follow.     *)
LEMMA SuccessorsKept ==
    ASSUME TypeInv, NEW L, NEW b, NEW V, Advance(L, b, V), NEW F,
           Extended(edges, F, b), NEW k \in 1 .. Evaluated
    PROVE  SuccessorsIn(L, F, label[k]) = SuccessorsIn(label, edges, label[k])
<1> DEFINE v == label[k]
           old == {j \in DOMAIN edges : label[edges[j].from] = v}
           new == {j \in DOMAIN F : L[F[j].from] = v}
<1>1. /\ edges \in Seq(Edge) /\ Len(edges) \in Nat /\ DOMAIN edges = 1 .. Len(edges)
      /\ Evaluated \in 0 .. Len(label) /\ Len(label) \in Nat
      /\ Blocks = 1 .. Len(label)
  BY Tables
<1>2. /\ F \in Seq(Edge) /\ Len(edges) <= Len(F)
      /\ \A i \in 1 .. Len(edges) : F[i] = edges[i]
      /\ \A i \in Len(edges) + 1 .. Len(F) : F[i].from = b
  BY DEF Extended
<1>3. DOMAIN F = 1 .. Len(F) /\ Len(F) \in Nat
  BY <1>2, LenProperties
<1>4. /\ IsInjective(L) /\ DOMAIN L = 1 .. Len(L) /\ Len(L) \in Nat
      /\ Len(label) <= Len(L) /\ b = Evaluated + 1 /\ b \in 1 .. Len(label)
      /\ \A i \in 1 .. Len(label) : L[i] = label[i]
  BY LenProperties DEF Advance
<1>5. \A i \in DOMAIN edges : edges[i].from \in 1 .. Evaluated
                             /\ edges[i].to \in 1 .. Len(label)
  BY <1>1 DEF TypeInv, OrderInv, BackEdgeOrder
<1>6. \A i \in DOMAIN edges : /\ L[F[i].from] = label[edges[i].from]
                             /\ L[F[i].to] = label[edges[i].to]
  <2>1. \A i \in 1 .. Evaluated : i \in 1 .. Len(label)
    BY <1>1
  <2> QED BY <1>1, <1>2, <1>4, <1>5, <2>1
<1>7. \A i \in Len(edges) + 1 .. Len(F) : L[F[i].from] # v
  <2>1. L[b] # L[k] /\ L[k] = v
    <3>1. b \in DOMAIN L /\ k \in DOMAIN L /\ b # k /\ k \in 1 .. Len(label)
      BY <1>1, <1>4
    <3> QED BY <1>4, <3>1 DEF IsInjective
  <2> QED BY <1>2, <2>1
<1>8. \A i \in DOMAIN F : i \in DOMAIN edges \/ i \in Len(edges) + 1 .. Len(F)
  BY <1>1, <1>3
<1>9. DOMAIN edges \subseteq DOMAIN F
  BY <1>1, <1>2, <1>3
<1>10. new = old
  BY <1>6, <1>7, <1>8, <1>9
<1>11. \A i \in old : L[F[i].to] = label[edges[i].to]
  BY <1>6
<1> HIDE DEF old, new, v
<1>12. {L[F[i].to] : i \in new} = {label[edges[i].to] : i \in old}
  BY <1>10, <1>11
<1> QED BY <1>12 DEF SuccessorsIn, old, new, v

(* What the VPC of block b leads to is read from b's edges.                *)
LEMMA SuccessorsAdded ==
    ASSUME TypeInv, NEW L, NEW b, NEW V, Advance(L, b, V), NEW F,
           Extended(edges, F, b),
           V = {L[F[i].to] : i \in Len(edges) + 1 .. Len(F)}
    PROVE  SuccessorsIn(L, F, label[b]) = V
<1> DEFINE new == {j \in DOMAIN F : L[F[j].from] = label[b]}
<1>1. /\ edges \in Seq(Edge) /\ Len(edges) \in Nat /\ DOMAIN edges = 1 .. Len(edges)
      /\ Evaluated \in 0 .. Len(label) /\ Len(label) \in Nat
  BY Tables
<1>2. /\ F \in Seq(Edge) /\ Len(edges) <= Len(F)
      /\ \A i \in 1 .. Len(edges) : F[i] = edges[i]
      /\ \A i \in Len(edges) + 1 .. Len(F) : F[i].from = b
  BY DEF Extended
<1>3. DOMAIN F = 1 .. Len(F) /\ Len(F) \in Nat
  BY <1>2, LenProperties
<1>4. /\ IsInjective(L) /\ DOMAIN L = 1 .. Len(L) /\ Len(L) \in Nat
      /\ Len(label) <= Len(L) /\ b = Evaluated + 1 /\ b \in 1 .. Len(label)
      /\ \A i \in 1 .. Len(label) : L[i] = label[i]
  BY LenProperties DEF Advance
<1>5. \A i \in DOMAIN edges : edges[i].from \in 1 .. Evaluated
  BY DEF TypeInv, OrderInv, BackEdgeOrder
<1>6. \A i \in DOMAIN edges : L[F[i].from] # label[b]
  <2>1. \A k \in 1 .. Evaluated : L[k] # L[b]
    <3>1. \A k \in 1 .. Evaluated : k \in DOMAIN L /\ k # b
      BY <1>1, <1>4
    <3>2. b \in DOMAIN L
      BY <1>4
    <3> QED BY <1>4, <3>1, <3>2 DEF IsInjective
  <2> QED BY <1>1, <1>2, <1>4, <1>5, <2>1
<1>7. \A i \in DOMAIN F : i \in DOMAIN edges \/ i \in Len(edges) + 1 .. Len(F)
  BY <1>1, <1>3
<1>8. \A i \in Len(edges) + 1 .. Len(F) : i \in DOMAIN F /\ L[F[i].from] = label[b]
  BY <1>1, <1>2, <1>3, <1>4
<1>9. new = Len(edges) + 1 .. Len(F)
  BY <1>6, <1>7, <1>8
<1> QED BY <1>9 DEF SuccessorsIn

(* An evaluation is an expansion of its VPC into the VPCs V.               *)
LEMMA EvaluationExpands ==
    ASSUME TypeInv, MayEvaluate, pc = "explore", pc' = pc,
           NEW L, NEW b, NEW V, Advance(L, b, V), Extended(edges, edges', b),
           V = {L[edges'[i].to] : i \in Len(edges) + 1 .. Len(edges')}
    PROVE  label[b] \in Vpc /\ Walk!Expand(label[b], V)
<1>1. /\ label \in Seq(Vpc) /\ IsInjective(label) /\ Len(label) \in Nat
      /\ DOMAIN label = 1 .. Len(label) /\ Evaluated \in 0 .. Len(label)
  BY Tables
<1>2. /\ IsInjective(L) /\ DOMAIN L = 1 .. Len(L) /\ Len(L) \in Nat
      /\ Len(label) <= Len(L) /\ b = Evaluated + 1 /\ b \in 1 .. Len(label)
      /\ \A i \in 1 .. Len(label) : L[i] = label[i]
      /\ \A i \in Len(label) + 1 .. Len(L) : L[i] \in V
      /\ V \subseteq Range(L)
      /\ label' = L /\ processed' = {L[i] : i \in 1 .. b}
  BY LenProperties DEF Advance
<1>3. processed = {label[i] : i \in 1 .. Evaluated}
  BY DEF TypeInv, OrderInv, DiscoveryOrder
<1>4. label[b] \in Vpc /\ label[b] \in Range(label)
  BY <1>1, <1>2, LenProperties DEF Range
<1>5. label[b] \notin processed
  <2>1. \A k \in 1 .. Evaluated : k \in DOMAIN label /\ b \in DOMAIN label /\ k # b
    BY <1>1, <1>2
  <2>2. \A k \in 1 .. Evaluated : label[k] # label[b]
    BY <1>1, <2>1 DEF IsInjective
  <2> QED BY <1>3, <2>2
<1>6. processed' = processed \cup {label[b]}
  <2>1. \A i \in 1 .. b : L[i] = label[i]
    BY <1>1, <1>2
  <2>2. \A i \in 1 .. b : i \in 1 .. Evaluated \/ i = b
    BY <1>1, <1>2
  <2>3. b \in 1 .. b /\ \A i \in 1 .. Evaluated : i \in 1 .. b
    BY <1>1, <1>2
  <2>4. ASSUME NEW v \in processed' PROVE v \in processed \cup {label[b]}
    <3>1. PICK i \in 1 .. b : v = L[i]
      BY <1>2
    <3> QED BY <1>3, <2>1, <2>2, <3>1
  <2>5. ASSUME NEW v \in processed PROVE v \in processed'
    <3>1. PICK i \in 1 .. Evaluated : v = label[i]
      BY <1>3
    <3>2. i \in 1 .. b /\ v = L[i]
      BY <2>1, <2>3, <3>1
    <3> QED BY <1>2, <3>2
  <2>6. label[b] \in processed'
    <3>1. L[b] = label[b]
      BY <2>1, <2>3
    <3> QED BY <1>2, <2>3, <3>1
  <2> QED BY <2>4, <2>5, <2>6
<1>7. Range(label)' = Range(label) \cup V
  <2>1. ASSUME NEW v \in Range(L) PROVE v \in Range(label) \cup V
    <3>1. PICK i \in 1 .. Len(L) : v = L[i]
      BY <1>2 DEF Range
    <3>2. i \in 1 .. Len(label) \/ i \in Len(label) + 1 .. Len(L)
      BY <1>1, <1>2
    <3> QED BY <1>1, <1>2, <3>1, <3>2 DEF Range
  <2>2. ASSUME NEW v \in Range(label) PROVE v \in Range(L)
    <3>1. PICK i \in 1 .. Len(label) : v = label[i]
      BY <1>1 DEF Range
    <3>2. i \in DOMAIN L /\ L[i] = v
      BY <1>1, <1>2, <3>1
    <3> QED BY <3>2 DEF Range
  <2> QED BY <1>2, <2>1, <2>2
<1>8. DOMAIN Successors = processed
      /\ \A v \in processed : Successors[v] = SuccessorsIn(label, edges, v)
  BY DEF Successors, SuccessorsIn
<1>9. Successors' = [v \in processed' |-> SuccessorsIn(L, edges', v)]
  BY <1>2 DEF Successors, SuccessorsIn
<1>10. \A v \in processed : SuccessorsIn(L, edges', v) = Successors[v]
  <2> SUFFICES ASSUME NEW v \in processed
               PROVE  SuccessorsIn(L, edges', v) = Successors[v]
    OBVIOUS
  <2>1. PICK k \in 1 .. Evaluated : v = label[k]
    BY <1>3
  <2>2. SuccessorsIn(L, edges', label[k]) = SuccessorsIn(label, edges, label[k])
    BY SuccessorsKept
  <2> QED BY <1>8, <2>1, <2>2
<1>11. SuccessorsIn(L, edges', label[b]) = V
  BY SuccessorsAdded
<1>12. Successors' = [v \in processed \cup {label[b]} |->
                        IF v = label[b] THEN V ELSE Successors[v]]
  BY <1>5, <1>6, <1>9, <1>10, <1>11
<1>13. Walk!Expanded = processed
  BY <1>8 DEF Walk!Expanded
<1>14. Walk!WithinBudget
  <2>1. Cardinality(Range(label)) = Len(label)
    BY <1>1, TableSize
  <2> QED BY <2>1, WalkCardinality DEF MayEvaluate, Walk!WithinBudget
<1>15. ~(pc # "explore") /\ (pc # "explore")' = (pc # "explore")
  OBVIOUS
<1>16. Walk!Expand(label[b], V)
  BY <1>4, <1>5, <1>7, <1>12, <1>13, <1>14, <1>15 DEF Walk!Expand
<1> QED BY <1>4, <1>16

LEMMA GotoExpands ==
    ASSUME TypeInv, MayEvaluate, pc = "explore", NEW v \in Vpc, NEW out,
           EvalGoto(v, out), TypeInv'
    PROVE  Walk!Next
<1> DEFINE L == GetBlock(label, v)
           s == IdOf(L, v)
           b == Current
           e == [from |-> b, to |-> s, back |-> IsBack(v)]
           n == Len(edges)
<1>1. Advance(L, b, {v}) /\ s \in 1 .. Len(L) /\ L[s] = v
  BY GotoAdvances
<1>2. edges' = Append(edges, e) /\ pc' = pc
  BY DEF EvalGoto, Store
<1> HIDE DEF L, s, b
<1>3. edges \in Seq(Edge) /\ n \in Nat /\ DOMAIN edges = 1 .. n
      /\ edges' \in Seq(Edge)
  BY Tables DEF TypeInv, OrderInv
<1>4. e.from = b /\ e.to = s
  OBVIOUS
<1> HIDE DEF e
<1>5. /\ Len(edges') = n + 1
      /\ \A i \in 1 .. n : edges'[i] = edges[i]
      /\ edges'[n + 1] = e
  BY <1>2, <1>3
<1>6. n + 1 .. n + 1 = {n + 1}
  BY <1>3
<1>7. Extended(edges, edges', b)
  BY <1>3, <1>4, <1>5, <1>6 DEF Extended
<1>8. {v} = {L[edges'[i].to] : i \in n + 1 .. Len(edges')}
  BY <1>1, <1>4, <1>5, <1>6
<1>9. label[b] \in Vpc /\ Walk!Expand(label[b], {v})
  BY <1>1, <1>2, <1>7, <1>8, EvaluationExpands
<1>10. {v} \in Walk!Pairs
  <2>1. {v} = {v, v}
    OBVIOUS
  <2> QED BY <2>1 DEF Walk!Pairs
<1> QED BY <1>9, <1>10 DEF Walk!Next

LEMMA BranchExpands ==
    ASSUME TypeInv, MayEvaluate, pc = "explore", NEW t \in Vpc, NEW f \in Vpc,
           NEW outT, NEW outF, EvalBranch(t, f, outT, outF), TypeInv'
    PROVE  Walk!Next
<1> DEFINE L == GetBlock(GetBlock(label, t), f)
           x == IdOf(L, t)
           y == IdOf(L, f)
           b == Current
           d == [from |-> b, to |-> x, back |-> IsBack(t)]
           e == [from |-> b, to |-> y, back |-> IsBack(f)]
           n == Len(edges)
<1>1. /\ Advance(L, b, {t, f})
      /\ x \in 1 .. Len(L) /\ L[x] = t /\ y \in 1 .. Len(L) /\ L[y] = f
  BY BranchAdvances
<1>2. edges' = edges \o <<d, e>> /\ pc' = pc
  BY DEF EvalBranch, Store
<1> HIDE DEF L, x, y, b
<1>3. edges \in Seq(Edge) /\ n \in Nat /\ DOMAIN edges = 1 .. n
      /\ edges' \in Seq(Edge)
  BY Tables DEF TypeInv, OrderInv
<1>4. d.from = b /\ d.to = x /\ e.from = b /\ e.to = y
  OBVIOUS
<1> HIDE DEF d, e
<1>5. /\ Len(edges') = n + 2
      /\ \A i \in 1 .. n : edges'[i] = edges[i]
      /\ edges'[n + 1] = d /\ edges'[n + 2] = e
  BY <1>2, <1>3
<1>6. n + 1 .. n + 2 = {n + 1, n + 2}
  BY <1>3
<1>7. Extended(edges, edges', b)
  BY <1>3, <1>4, <1>5, <1>6 DEF Extended
<1>8. {t, f} = {L[edges'[i].to] : i \in n + 1 .. Len(edges')}
  BY <1>1, <1>4, <1>5, <1>6
<1>9. label[b] \in Vpc /\ Walk!Expand(label[b], {t, f})
  BY <1>1, <1>2, <1>7, <1>8, EvaluationExpands
<1>10. {t, f} \in Walk!Pairs
  BY DEF Walk!Pairs
<1> QED BY <1>9, <1>10 DEF Walk!Next

LEMMA StopExpands ==
    ASSUME TypeInv, MayEvaluate, pc = "explore", NEW kind, EvalStop(kind)
    PROVE  Walk!Next
<1>1. Advance(label, Current, {}) /\ edges' = edges
  BY StopAdvances
<1>2. pc' = pc
  BY DEF EvalStop, Store
<1>3. edges \in Seq(Edge) /\ Len(edges) \in Nat
  BY Tables
<1>4. Len(edges) + 1 .. Len(edges') = {}
  BY <1>1, <1>3
<1>5. Extended(edges, edges', Current)
  BY <1>1, <1>3, <1>4 DEF Extended
<1>6. {} = {label[edges'[i].to] : i \in Len(edges) + 1 .. Len(edges')}
  BY <1>4
<1>7. label[Current] \in Vpc /\ Walk!Expand(label[Current], {})
  BY <1>1, <1>2, <1>5, <1>6, EvaluationExpands
<1> QED BY <1>7 DEF Walk!Next

(* The two ways the exploration ends are those of the walk.                *)
LEMMA BuildPhisFinishes ==
    ASSUME TypeInv, BuildPhis
    PROVE  Walk!Finish
<1>1. /\ pc = "explore" /\ pc' # "explore"
      /\ worklist = <<>> \/ ~(Len(label) <= MaxBlocks)
      /\ UNCHANGED <<label, edges, processed>>
  BY DEF BuildPhis, MayEvaluate, blocks, queue
<1>2. /\ label \in Seq(Vpc) /\ IsInjective(label)
      /\ DOMAIN label = 1 .. Len(label) /\ Len(label) \in Nat
  BY Tables
<1>3. Range(label) = Walk!Expanded \/ ~Walk!WithinBudget
  <2>1. CASE worklist = <<>>
    <3>1. Evaluated = Len(label)
      BY <1>2, <2>1 DEF Evaluated
    <3>2. processed = {label[i] : i \in 1 .. Len(label)}
      BY <3>1 DEF TypeInv, OrderInv, DiscoveryOrder
    <3>3. Range(label) = processed
      BY <1>2, <3>2 DEF Range
    <3> QED BY <3>3 DEF Walk!Expanded, Successors
  <2>2. CASE ~(Len(label) <= MaxBlocks)
    <3>1. Cardinality(Range(label)) = Len(label)
      BY <1>2, TableSize
    <3> QED BY <2>2, <3>1, WalkCardinality DEF Walk!WithinBudget
  <2> QED BY <1>1, <2>1, <2>2
<1>4. Range(label)' = Range(label) /\ Successors' = Successors
  BY <1>1 DEF Successors
<1> QED BY <1>1, <1>3, <1>4 DEF Walk!Finish

(* The phases after the exploration leave the walk where it ended.         *)
LEMMA RewriteStutters ==
    ASSUME [Next]_vars, ~Explore, ~BuildPhis
    PROVE  UNCHANGED Walk!vars
<1>1. UNCHANGED <<label, edges, processed>>
  BY GraphStays DEF queue
<1>2. (pc # "explore")' = (pc # "explore")
  BY DEF Next, vars, BuildSubst, PickKey, Follow, SettleKey, Rewrite
<1> QED BY <1>1, <1>2 DEF Walk!vars, Successors

LEMMA WalkStep ==
    ASSUME TypeInv, TypeInv', [Next]_vars
    PROVE  [Walk!Next]_(Walk!vars)
<1>1. CASE Explore
  <2>1. MayEvaluate /\ pc = "explore"
    BY <1>1 DEF Explore
  <2>2. ASSUME NEW kind \in {"RET", "UNREACHABLE"}, EvalStop(kind)
        PROVE  Walk!Next
    BY <2>1, <2>2, StopExpands
  <2>3. ASSUME NEW v \in Vpc, NEW out \in OutState(Drive(Current)),
               EvalGoto(v, out)
        PROVE  Walk!Next
    BY <2>1, <2>3, GotoExpands
  <2>4. ASSUME NEW t \in Vpc, NEW f \in Vpc,
               NEW outT \in OutState(Drive(Current)),
               NEW outF \in OutState(Drive(Current)),
               EvalBranch(t, f, outT, outF)
        PROVE  Walk!Next
    BY <2>1, <2>4, BranchExpands
  <2> QED BY <1>1, <2>2, <2>3, <2>4 DEF Explore
<1>2. CASE BuildPhis
  BY <1>2, BuildPhisFinishes DEF Walk!Next
<1>3. CASE ~Explore /\ ~BuildPhis
  BY <1>3, RewriteStutters
<1> QED BY <1>1, <1>2, <1>3

LEMMA WalkAtStart == Init => Walk!Init
<1> SUFFICES ASSUME Init PROVE Walk!Init
  OBVIOUS
<1>1. Range(label) = {EntryVpc}
  BY DEF Init, Range
<1>2. Successors = [v \in {} |-> {}]
  BY DEF Init, Successors
<1>3. (pc # "explore") = FALSE
  BY DEF Init
<1> QED BY <1>1, <1>2, <1>3 DEF Walk!Init

(* recover is a walk of the graph the oracle describes: each VPC is        *)
(* expanded once, its successors are final, and the exploration is left    *)
(* only when everything found was expanded or max_blocks is exceeded.      *)
(* This is ImplementsWalk without its fairness.                            *)
THEOREM RecoverImplementsWalk == Spec => Walk!Spec
<1>1. Init => TypeInv /\ Walk!Init
  BY TypeInvInit, WalkAtStart
<1>2. TypeInv /\ [Next]_vars => TypeInv' /\ [Walk!Next]_(Walk!vars)
  BY TypeInvNext, WalkStep
<1> QED BY <1>1, <1>2, PTL DEF Spec, Walk!Spec
-----------------------------------------------------------------------------
(* The segments *)

(* A nonempty set of addresses has a last one.                             *)
LEMMA LastAddress ==
    ASSUME NEW S \in SUBSET Address, S # {}
    PROVE  Max(S) \in S /\ \A x \in S : Max(S) >= x
<1>1. ImageLen \in Nat
  BY NativeAssumption
<1> DEFINE T == {ImageLen - a : a \in S}
<1>2. T \in SUBSET Nat /\ T # {}
  <2>1. \A a \in S : ImageLen - a \in Nat
    BY <1>1 DEF Address
  <2> QED BY <2>1
<1>3. IsWellFoundedOn(OpToRel(<, Nat), Nat)
  BY NatLessThanWellFounded
<1>4. PICK m \in T : \A n \in T : <<n, m>> \notin OpToRel(<, Nat)
  BY <1>2, <1>3, WFMin
<1>5. PICK a \in S : m = ImageLen - a
  BY <1>4
<1>6. ASSUME NEW x \in S PROVE a >= x
  <2>1. ImageLen - x \in T /\ ImageLen - x \in Nat
    BY <1>2
  <2>2. ~(ImageLen - x < m)
    BY <2>1, <1>2, <1>4 DEF OpToRel
  <2> QED BY <2>2, <1>1, <1>5 DEF Address
<1> QED BY <1>6 DEF Max

LEMMA LiftedAddresses ==
    ASSUME NEW va
    PROVE  Lifted(va) \in SUBSET Address
BY DEF Lifted, Bytes

(* Each of them decodes within the segment's bytes.                        *)
LEMMA LiftedDecode ==
    ASSUME NEW va, NEW a \in Lifted(va)
    PROVE  Decodes(va, a)
<1> DEFINE T == {x \in Bytes(va) : Decodes(va, x)}
<1>1. T \in SUBSET Bytes(va)
  OBVIOUS
<1>2. Continued(va, T)
  BY DEF Continued, Decodes
<1> QED BY <1>1, <1>2 DEF Lifted

(* A segment's targets are addresses a register can hold, so the graph     *)
(* they are added to is one of CFGRecovery.                                *)
LEMMA TargetsAreVpcs ==
    ASSUME NEW va, NEW val, image \in Images
    PROVE  Targets(SegmentResult(va, val)) \in SUBSET Vpc
<1> DEFINE S == Lifted(va)
           last == Max(S)
           r == SegmentResult(va, val)
           x == ValueAfter(S, val)
<1>1. /\ Vpc = 0 .. Words - 1 /\ Words \in Nat
      /\ ImageLen \in Nat /\ ImageLen < Words
      /\ image \in [0 .. ImageLen - 1 -> [op: Operation, arg: Vpc, size: 1 .. Window]]
      /\ Window \in Nat
  BY NativeAssumption
<1>2. CASE S # {} /\ Terminates(last)
  <2>1. last \in Address
    BY <1>2, LastAddress, LiftedAddresses
  <2>2. image[last].arg \in Vpc /\ NextVa(last) \in Vpc
    <3>1. last \in S
      BY <1>2, LastAddress, LiftedAddresses
    <3>2. Decodes(va, last)
      BY <3>1, LiftedDecode
    <3> HIDE DEF last
    <3>3. image[last].size \in 1 .. Window
      <4>1. image[last] \in [op: Operation, arg: Vpc, size: 1 .. Window]
        BY <2>1, <1>1 DEF Address
      <4> QED BY <4>1
    <3>4. last + image[last].size - 1 \in Address
      BY <3>2 DEF Decodes, Bytes
    <3>5. last + image[last].size <= ImageLen
      BY <2>1, <3>3, <3>4, <1>1 DEF Address
    <3>6. image[last].arg \in Vpc
      <4>1. image[last] \in [op: Operation, arg: Vpc, size: 1 .. Window]
        BY <2>1, <1>1 DEF Address
      <4> QED BY <4>1
    <3> QED BY <2>1, <3>3, <3>5, <3>6, <1>1 DEF Address, NextVa
  <2>3. r = TerminatorResult(last, x)
    BY <1>2 DEF SegmentResult
  <2> HIDE DEF last, x, r
  <2>4. IsConstant(x) => x[2] \in Vpc
    BY DEF IsConstant, Known
  <2>5. \/ Targets(r) = {}
        \/ Targets(r) = {image[last].arg}
        \/ Targets(r) = {image[last].arg, NextVa(last)}
        \/ IsConstant(x) /\ Targets(r) = {x[2]}
    <3>1. CASE image[last].op = "ret"
      BY <3>1, <2>3 DEF TerminatorResult, Targets
    <3>2. CASE image[last].op = "goto"
      BY <3>2, <2>3 DEF TerminatorResult, Targets, Goto
    <3>3. CASE image[last].op = "jcc"
      BY <3>3, <2>3 DEF TerminatorResult, Targets, Goto, Branch, Unresolved
    <3>4. CASE image[last].op = "jmpr"
      BY <3>4, <2>3 DEF TerminatorResult, Targets, Goto, Unresolved
    <3> QED BY <3>1, <3>2, <3>3, <3>4, <1>2 DEF Terminates
  <2>6. Targets(r) \in SUBSET Vpc
    BY <2>2, <2>4, <2>5
  <2> QED BY <2>6 DEF r
<1>3. CASE S # {} /\ ~Terminates(last)
  <2>1. CASE Decodes(va, NextVa(last))
    <3>1. NextVa(last) \in Vpc
      BY <2>1, <1>1 DEF Decodes, Bytes, Address
    <3>2. r = Goto(NextVa(last))
      BY <1>3, <2>1 DEF SegmentResult
    <3> QED BY <3>1, <3>2 DEF Targets, Goto
  <2>2. CASE ~Decodes(va, NextVa(last))
    BY <1>3, <2>2 DEF SegmentResult, Targets, Unresolved
  <2> QED BY <2>1, <2>2
<1>4. CASE S = {}
  BY <1>4 DEF SegmentResult, Targets, Unresolved
<1> QED BY <1>2, <1>3, <1>4

(* An evaluation gives each target a block, and no other address gets one. *)
LEMMA EvaluationAddsTargets ==
    ASSUME OrderInv, image \in Images, Evaluate
    PROVE  \E new \in SUBSET Vpc :
              /\ new = Targets(SegmentResult(Head(worklist),
                                             EntryValue(Drive(Current))))
              /\ IsFiniteSet(new)
              /\ OrderInv'
              /\ Range(label') = Range(label) \cup new
              /\ discovered' = discovered \cup new
              /\ Len(label') >= Len(label)
              /\ \A i \in 1 .. Len(label) : label'[i] = label[i]
              /\ Current \in 1 .. Len(label)
              /\ label[Current] = Head(worklist)
              /\ lifted' = [Pad(lifted, Len(label'), {}) EXCEPT
                              ![Current] = Lifted(Head(worklist))]
<1> DEFINE va == Head(worklist)
           val == EntryValue(Drive(Current))
           r == SegmentResult(va, val)
           out == [q \in Reg |-> ValueAfter(Lifted(va), val)]
<1>1. /\ MayEvaluate
      /\ CASE r.kind = "JMP" -> EvalGoto(r.next, out)
           [] r.kind = "CJMP" -> EvalBranch(r.taken, r.not_taken, out, out)
           [] OTHER -> EvalStop(r.kind)
      /\ discovered' = discovered \cup Targets(r)
      /\ lifted' = [Pad(lifted, Len(label'), {}) EXCEPT ![Current] = Lifted(va)]
  BY DEF Evaluate
<1>2. Targets(r) \in SUBSET Vpc
  BY TargetsAreVpcs
<1>3. label \in Seq(Vpc) /\ Len(label) \in Nat /\ va \in Range(label)
      /\ IsInjective(label)
  <2>1. /\ worklist \in Seq(Vpc) /\ worklist # <<>> /\ label \in Seq(Vpc)
        /\ Len(label) \in Nat /\ DOMAIN label = 1 .. Len(label)
        /\ Len(worklist) \in Nat /\ DOMAIN worklist = 1 .. Len(worklist)
    BY <1>1, LenProperties DEF MayEvaluate, OrderInv
  <2>2. va = worklist[1] /\ 1 \in DOMAIN worklist
    BY <2>1, HeadTailProperties, EmptySeq
  <2>3. /\ Len(worklist) <= Len(label)
        /\ \A i \in DOMAIN worklist : worklist[i] = label[Evaluated + i]
        /\ \A i, j \in DOMAIN label : label[i] = label[j] => i = j
    BY DEF OrderInv, DiscoveryOrder, Blocks
  <2>4. Evaluated + 1 \in DOMAIN label /\ va = label[Evaluated + 1]
    BY <2>1, <2>2, <2>3 DEF Evaluated
  <2>5. va \in Range(label)
    BY <2>4 DEF Range
  <2>6. IsInjective(label)
    BY <2>3 DEF IsInjective
  <2> QED BY <2>1, <2>5, <2>6
<1>4. Current \in 1 .. Len(label) /\ label[Current] = va
  BY <1>3, IdOfProperties DEF Current
<1> HIDE DEF va, val, r, out
<1>5. CASE r.kind = "JMP"
  <2>1. EvalGoto(r.next, out) /\ Targets(r) = {r.next} /\ r.next \in Vpc
    BY <1>1, <1>2, <1>5 DEF Targets
  <2>2. OrderInv'
    BY <1>1, <2>1, OrderInvGoto
  <2>3. label' = GetBlock(label, r.next)
    BY <2>1 DEF EvalGoto, Store
  <2>4. /\ Range(label') = Range(label) \cup {r.next}
        /\ Len(label') \in {Len(label), Len(label) + 1}
        /\ \A i \in 1 .. Len(label) : label'[i] = label[i]
    BY <2>1, <2>3, <1>3, GetBlockProperties
  <2>5. IsFiniteSet({r.next})
    BY FS_Singleton
  <2>6. Len(label') >= Len(label)
    BY <2>4, <1>3
  <2> QED BY <1>1, <1>4, <2>1, <2>2, <2>4, <2>5, <2>6 DEF va, r, val
<1>6. CASE r.kind = "CJMP"
  <2> DEFINE M == GetBlock(label, r.taken)
  <2>1. /\ EvalBranch(r.taken, r.not_taken, out, out)
        /\ Targets(r) = {r.taken, r.not_taken}
        /\ r.taken \in Vpc /\ r.not_taken \in Vpc
    BY <1>1, <1>2, <1>6 DEF Targets
  <2>2. OrderInv'
    BY <1>1, <2>1, OrderInvBranch
  <2>3. label' = GetBlock(M, r.not_taken)
    BY <2>1 DEF EvalBranch, Store
  <2>4. /\ M \in Seq(Vpc) /\ IsInjective(M)
        /\ Range(M) = Range(label) \cup {r.taken}
        /\ Len(M) \in {Len(label), Len(label) + 1}
        /\ \A i \in 1 .. Len(label) : M[i] = label[i]
    BY <2>1, <1>3, GetBlockProperties
  <2> HIDE DEF M
  <2>5. /\ Range(label') = Range(M) \cup {r.not_taken}
        /\ Len(label') \in {Len(M), Len(M) + 1}
        /\ \A i \in 1 .. Len(M) : label'[i] = M[i]
    BY <2>1, <2>3, <2>4, GetBlockProperties
  <2>6. Len(label') >= Len(label)
        /\ \A i \in 1 .. Len(label) : label'[i] = label[i]
    BY <2>4, <2>5, <1>3
  <2>7. Range(label') = Range(label) \cup Targets(r)
    BY <2>1, <2>4, <2>5
  <2>8. IsFiniteSet(Targets(r))
    <3>1. IsFiniteSet({r.taken} \cup {r.not_taken})
      BY FS_Singleton, FS_AddElement
    <3>2. Targets(r) = {r.taken} \cup {r.not_taken}
      BY <2>1
    <3> QED BY <3>1, <3>2
  <2> QED BY <1>1, <1>2, <1>4, <2>2, <2>6, <2>7, <2>8 DEF va, r, val
<1>7. CASE r.kind \notin {"JMP", "CJMP"}
  <2>1. EvalStop(r.kind) /\ Targets(r) = {}
    BY <1>1, <1>7 DEF Targets
  <2>2. OrderInv'
    BY <1>1, <2>1, OrderInvStop
  <2>3. label' = label
    BY <2>1 DEF EvalStop, Store
  <2>4. IsFiniteSet({}) /\ Len(label') >= Len(label)
    BY <2>3, <1>3, FS_EmptySet
  <2> QED BY <1>1, <1>2, <1>4, <2>1, <2>2, <2>3, <2>4 DEF va, r, val
<1> QED BY <1>5, <1>6, <1>7

-----------------------------------------------------------------------------
(* The leaders *)

(* What a pass knows: every block starts at a discovered address, the      *)
(* leaders stay discovered, there are more of them than passes were made,  *)
(* and the instructions of a block are those of its segment.               *)
LeaderInv ==
    /\ image \in Images
    /\ EntryVpc \in leaders
    /\ leaders \subseteq discovered
    /\ discovered \in SUBSET Vpc
    /\ IsFiniteSet(discovered)
    /\ Range(label) \subseteq discovered
    /\ pass \in 0 .. MaxPasses - 1
    /\ pass < Cardinality(leaders)
    /\ returned \in BOOLEAN
    /\ returned => pc = "done" /\ (Settled \/ pass + 1 >= MaxPasses)

SegmentsInv ==
    /\ lifted \in [Blocks -> SUBSET Address]
    /\ \A b \in Blocks : lifted[b] \in {{}, Lifted(label[b])}

NativeInv == OrderInv /\ LeaderInv /\ SegmentsInv

\* The state in which a pass starts.
PassStart == label = <<EntryVpc>> /\ lifted = <<{}>>

LEMMA SegmentsInvStart ==
    ASSUME PassStart
    PROVE  SegmentsInv /\ Range(label) = {EntryVpc}
<1>1. /\ DOMAIN label = 1 .. 1 /\ label[1] = EntryVpc
      /\ lifted \in [1 .. 1 -> SUBSET Address] /\ lifted[1] = {}
  BY DEF PassStart
<1> QED BY <1>1 DEF SegmentsInv, Blocks, Range

LEMMA NativeInvInit == NativeInit => NativeInv
<1> SUFFICES ASSUME NativeInit PROVE NativeInv
  OBVIOUS
<1>1. OrderInv
  BY OrderInvInit, ConstantsAssumption DEF NativeInit
<1>2. SegmentsInv /\ Range(label) = {EntryVpc}
  BY SegmentsInvStart DEF PassStart, NativeInit, Init
<1>3. IsFiniteSet({EntryVpc}) /\ Cardinality({EntryVpc}) = 1
  BY FS_Singleton
<1>4. 0 \in 0 .. MaxPasses - 1 /\ EntryVpc \in Vpc /\ 0 < Cardinality({EntryVpc})
  BY <1>3, ConstantsAssumption, NativeAssumption
<1>5. image \in Images /\ leaders = {EntryVpc} /\ discovered = {EntryVpc}
      /\ pass = 0 /\ returned = FALSE
  BY DEF NativeInit
<1>6. LeaderInv
  BY <1>2, <1>3, <1>4, <1>5 DEF LeaderInv
<1> QED BY <1>1, <1>2, <1>6 DEF NativeInv

LEMMA EvaluateKeepsNativeInv ==
    ASSUME NativeInv, Evaluate
    PROVE  NativeInv'
<1>1. /\ UNCHANGED <<image, leaders, pass, returned>>
      /\ pc = "explore"
      /\ image \in Images
      /\ OrderInv
  BY DEF Evaluate, NativeInv, LeaderInv
<1>2. PICK new \in SUBSET Vpc :
              /\ IsFiniteSet(new)
              /\ OrderInv'
              /\ Range(label') = Range(label) \cup new
              /\ discovered' = discovered \cup new
              /\ Len(label') >= Len(label)
              /\ \A i \in 1 .. Len(label) : label'[i] = label[i]
              /\ Current \in 1 .. Len(label)
              /\ label[Current] = Head(worklist)
              /\ lifted' = [Pad(lifted, Len(label'), {}) EXCEPT
                              ![Current] = Lifted(Head(worklist))]
  BY <1>1, EvaluationAddsTargets
<1>3. LeaderInv'
  <2>1. IsFiniteSet(discovered')
    BY <1>2, FS_Union DEF NativeInv, LeaderInv
  <2> QED BY <1>1, <1>2, <2>1 DEF NativeInv, LeaderInv
<1>4. SegmentsInv'
  <2>1. /\ DOMAIN label = 1 .. Len(label) /\ Len(label) \in Nat
        /\ DOMAIN label' = 1 .. Len(label') /\ Len(label') \in Nat
    BY <1>1, <1>2, LenProperties DEF OrderInv
  <2>2. /\ lifted \in [1 .. Len(label) -> SUBSET Address]
        /\ \A b \in 1 .. Len(label) : lifted[b] \in {{}, Lifted(label[b])}
    BY <2>1 DEF NativeInv, SegmentsInv, Blocks
  <2>3. ASSUME NEW b \in DOMAIN label'
        PROVE  Lifted(label[b])' = Lifted(label'[b])
    BY <1>1 DEF Lifted, Continued, Decodes, Bytes, NextVa, HitsLeader,
                Terminates, Address
  <2>4. lifted' \in [1 .. Len(label') -> SUBSET Address]
    <3>1. Pad(lifted, Len(label'), {}) \in [1 .. Len(label') -> SUBSET Address]
      BY <2>2 DEF Pad
    <3>2. Lifted(Head(worklist)) \in SUBSET Address
      BY LiftedAddresses
    <3> QED BY <1>2, <3>1, <3>2
  <2>5. ASSUME NEW b \in 1 .. Len(label')
        PROVE  lifted'[b] \in {{}, Lifted(label'[b])}
    <3>1. CASE b = Current
      <4>1. lifted'[b] = Lifted(label[b])
        BY <1>2, <3>1 DEF Pad
      <4> QED BY <4>1, <1>2, <3>1
    <3>2. CASE b # Current /\ b \in 1 .. Len(label)
      <4>1. lifted'[b] = lifted[b]
        BY <1>2, <2>2, <3>2 DEF Pad
      <4> QED BY <4>1, <1>2, <2>2, <3>2
    <3>3. CASE b # Current /\ b \notin 1 .. Len(label)
      BY <1>2, <2>2, <3>3 DEF Pad
    <3> QED BY <3>1, <3>2, <3>3
  <2>6. Address' = Address
    BY DEF Address
  <2> QED BY <2>1, <2>3, <2>4, <2>5, <2>6 DEF SegmentsInv, Blocks
<1> QED BY <1>2, <1>3, <1>4 DEF NativeInv

LEMMA StrictSubsetSmaller ==
    ASSUME NEW T, IsFiniteSet(T), NEW S \in SUBSET T, S # T
    PROVE  /\ Cardinality(S) \in Nat /\ Cardinality(T) \in Nat
           /\ Cardinality(S) < Cardinality(T)
<1>1. PICK x \in T : x \notin S
  OBVIOUS
<1>2. /\ IsFiniteSet(T \ {x}) /\ Cardinality(T \ {x}) = Cardinality(T) - 1
      /\ Cardinality(T) \in Nat
  BY <1>1, FS_RemoveElement, FS_CardinalityType
<1>3. S \in SUBSET (T \ {x})
  BY <1>1
<1>4. IsFiniteSet(S) /\ Cardinality(S) <= Cardinality(T \ {x})
  BY <1>2, <1>3, FS_Subset
<1> QED BY <1>2, <1>4, FS_CardinalityType

(* A next pass starts with strictly more leaders.                          *)
LEMMA AgainKeepsNativeInv ==
    ASSUME NativeInv, Again
    PROVE  NativeInv'
<1>1. /\ label' = <<EntryVpc>> /\ worklist' = <<EntryVpc>> /\ edges' = <<>>
      /\ processed' = {} /\ enqueued' = {EntryVpc}
      /\ leaders' = discovered /\ discovered' = discovered
      /\ lifted' = <<{}>> /\ pass' = pass + 1
      /\ image' = image /\ returned' = returned
      /\ ~returned /\ ~Settled /\ pass + 1 < MaxPasses
  BY DEF Again, NextLeaders, LiftedAtStart
<1>2. OrderInv'
  <2>1. EntryVpc \in Vpc
    BY ConstantsAssumption
  <2>2. /\ label' \in Seq(Vpc) /\ worklist' \in Seq(Vpc) /\ edges' \in Seq(Edge)
        /\ label' # <<>> /\ Len(label') = 1 /\ Len(worklist') = 1
        /\ DOMAIN label' = 1 .. 1 /\ DOMAIN worklist' = 1 .. 1
        /\ DOMAIN edges' = {}
    BY <1>1, <2>1
  <2>3. Range(label') = {EntryVpc}
    BY <1>1, <2>2 DEF Range
  <2>4. DiscoveryOrder'
    BY <1>1, <2>2, <2>3 DEF DiscoveryOrder, Evaluated, Blocks
  <2>5. BackEdgeOrder'
    BY <2>2 DEF BackEdgeOrder
  <2> QED BY <2>2, <2>4, <2>5 DEF OrderInv
<1>3. SegmentsInv' /\ Range(label') = {EntryVpc}
  <2>1. PassStart'
    BY <1>1 DEF PassStart
  <2>2. /\ DOMAIN label' = 1 .. 1 /\ label'[1] = EntryVpc
        /\ lifted' \in [1 .. 1 -> SUBSET Address] /\ lifted'[1] = {}
    BY <1>1
  <2>3. Address' = Address
    BY DEF Address
  <2> QED BY <2>2, <2>3 DEF SegmentsInv, Blocks, Range
<1>4. EntryVpc \in discovered
  BY DEF NativeInv, LeaderInv
<1>5. pass + 1 < Cardinality(discovered)
  <2>1. IsFiniteSet(discovered) /\ leaders \subseteq discovered
        /\ pass < Cardinality(leaders) /\ leaders # discovered
        /\ pass \in Nat
    BY <1>1 DEF NativeInv, LeaderInv, Settled
  <2>2. Cardinality(leaders) < Cardinality(discovered)
        /\ Cardinality(leaders) \in Nat /\ Cardinality(discovered) \in Nat
    BY <2>1, StrictSubsetSmaller
  <2> QED BY <2>1, <2>2
<1>6. LeaderInv'
  <2>1. pass' \in 0 .. MaxPasses - 1 /\ pass' < Cardinality(leaders')
    BY <1>1, <1>5, NativeAssumption DEF NativeInv, LeaderInv
  <2>2. ~returned' /\ returned' \in BOOLEAN
    BY <1>1 DEF NativeInv, LeaderInv
  <2>3. /\ image' \in Images /\ EntryVpc \in leaders'
        /\ leaders' \subseteq discovered' /\ discovered' \in SUBSET Vpc
        /\ IsFiniteSet(discovered') /\ Range(label') \subseteq discovered'
    BY <1>1, <1>3, <1>4 DEF NativeInv, LeaderInv
  <2> QED BY <2>1, <2>2, <2>3 DEF LeaderInv
<1> QED BY <1>2, <1>3, <1>6 DEF NativeInv

LEMMA NativeInvNext == NativeInv /\ [NativeNext]_nativeVars => NativeInv'
<1> SUFFICES ASSUME NativeInv, [NativeNext]_nativeVars PROVE NativeInv'
  OBVIOUS
<1>1. CASE Evaluate
  BY <1>1, EvaluateKeepsNativeInv
<1>2. CASE Again
  BY <1>2, AgainKeepsNativeInv
<1>3. ASSUME UNCHANGED <<label, edges, queue>>,
             UNCHANGED <<image, leaders, discovered, lifted, pass>>,
             returned' \in BOOLEAN,
             returned' => pc' = "done" /\ (Settled \/ pass + 1 >= MaxPasses)
      PROVE  NativeInv'
  <2>1. OrderInv'
    BY <1>3, OrderInvLater DEF NativeInv
  <2>2. LeaderInv'
    <3>1. returned' => pc' = "done" /\ (Settled' \/ pass' + 1 >= MaxPasses)
      BY <1>3 DEF Settled
    <3>2. /\ image' = image /\ leaders' = leaders /\ discovered' = discovered
          /\ label' = label /\ pass' = pass
      BY <1>3
    <3> QED BY <1>3, <3>1, <3>2 DEF NativeInv, LeaderInv
  <2>3. SegmentsInv'
    BY <1>3 DEF NativeInv, SegmentsInv, Blocks, Lifted, Continued, Decodes,
                Bytes, NextVa, HitsLeader, Terminates, Address
  <2> QED BY <2>1, <2>2, <2>3 DEF NativeInv
<1>4. CASE EndPass
  BY <1>3, <1>4 DEF EndPass, BuildPhis, segments, blocks, NativeInv, LeaderInv
<1>5. CASE Return
  BY <1>3, <1>5 DEF Return, vars, blocks
<1>6. CASE UNCHANGED nativeVars
  BY <1>3, <1>6 DEF nativeVars, segments, vars, blocks, NativeInv, LeaderInv
<1> QED BY <1>1, <1>2, <1>4, <1>5, <1>6 DEF NativeNext

LEMMA NativeInvAlways == NativeSpec => []NativeInv
<1>1. NativeInv /\ [NativeNext]_nativeVars => NativeInv'
  BY NativeInvNext
<1> QED BY <1>1, NativeInvInit, PTL DEF NativeSpec

-----------------------------------------------------------------------------
(* The properties *)

(* The variables of the passes have their types.                           *)
THEOREM NativeTypeCorrect == NativeSpec => []NativeTypeOK
<1>1. NativeInv => NativeTypeOK
  <2> SUFFICES ASSUME NativeInv PROVE NativeTypeOK
    OBVIOUS
  <2>1. lifted \in [Blocks -> SUBSET Address]
    BY DEF NativeInv, SegmentsInv
  <2> QED BY <2>1 DEF NativeInv, LeaderInv, NativeTypeOK
<1> QED BY <1>1, NativeInvAlways, PTL

(* Each pass but the last finds a leader, and the passes end because they  *)
(* found no new one unless the code has more block starts than passes.     *)
THEOREM LeadersSettle == NativeSpec => []PassesFindLeaders
<1>1. NativeInv => PassesFindLeaders
  <2> SUFFICES ASSUME NativeInv PROVE PassesFindLeaders
    OBVIOUS
  <2>1. pass < Cardinality(leaders)
    BY DEF NativeInv, LeaderInv
  <2>2. ASSUME returned, Cardinality(discovered) <= MaxPasses, ~Settled
        PROVE  FALSE
    <3>1. /\ IsFiniteSet(discovered) /\ leaders \in SUBSET discovered
          /\ leaders # discovered
          /\ pass \in Nat /\ pass < Cardinality(leaders)
          /\ pass + 1 >= MaxPasses
      BY <2>2 DEF NativeInv, LeaderInv, Settled
    <3>2. /\ Cardinality(leaders) \in Nat /\ Cardinality(discovered) \in Nat
          /\ Cardinality(leaders) < Cardinality(discovered)
      BY <3>1, StrictSubsetSmaller
    <3> QED BY <2>2, <3>1, <3>2, NativeAssumption
  <2> QED BY <2>1, <2>2 DEF PassesFindLeaders
<1> QED BY <1>1, NativeInvAlways, PTL

-----------------------------------------------------------------------------
(* A segment is a chain of instructions *)

\* A segment at va between leaders L.
Runs(L, va, a) == Decodes(va, a) /\ (a = va \/ a \notin L)
RunsOn(L, va, S) ==
    /\ Decodes(va, va) => va \in S
    /\ \A x \in S : ~Terminates(x) /\ Runs(L, va, NextVa(x)) => NextVa(x) \in S
Segment(L, va) ==
    {a \in Bytes(va) : \A S \in SUBSET Bytes(va) : RunsOn(L, va, S) => a \in S}

LEMMA LiftedIsSegment ==
    ASSUME NEW va
    PROVE  Lifted(va) = Segment(leaders, va)
<1>1. \A a : Runs(leaders, va, a) <=> Decodes(va, a) /\ ~HitsLeader(va, a)
  BY DEF Runs, HitsLeader
<1>2. \A S : RunsOn(leaders, va, S) <=> Continued(va, S)
  BY <1>1 DEF RunsOn, Continued
<1> QED BY <1>2 DEF Lifted, Segment

LEMMA ImageTyped ==
    ASSUME image \in Images
    PROVE  /\ Vpc = 0 .. Words - 1 /\ Words \in Nat
           /\ ImageLen \in Nat /\ ImageLen < Words
           /\ Address = 0 .. ImageLen - 1
           /\ \A a \in Address : a \in Nat /\ a \in Vpc
           /\ \A a \in Address : /\ image[a].op \in Operation
                                 /\ image[a].arg \in Vpc
                                 /\ image[a].size \in Nat /\ 0 < image[a].size
                                 /\ image[a].size <= Window
                                 /\ NextVa(a) \in Nat /\ a < NextVa(a)
                                 /\ NextVa(a) = a + image[a].size
           /\ \A a \in Address : NextVa(a) <= ImageLen => NextVa(a) \in Vpc
           /\ EntryVpc \in Vpc /\ Window \in Nat /\ 0 < Window
<1>1. /\ Vpc = 0 .. Words - 1 /\ Words \in Nat
      /\ ImageLen \in Nat /\ ImageLen < Words
      /\ image \in [0 .. ImageLen - 1 -> [op: Operation, arg: Vpc, size: 1 .. Window]]
      /\ EntryVpc \in Vpc /\ Window \in Nat /\ 0 < Window
  BY NativeAssumption, ConstantsAssumption
<1>2. Address = 0 .. ImageLen - 1
  BY DEF Address
<1>3. ASSUME NEW a \in Address
      PROVE  /\ a \in Nat /\ a \in Vpc
             /\ image[a].op \in Operation /\ image[a].arg \in Vpc
             /\ image[a].size \in Nat /\ 0 < image[a].size /\ image[a].size <= Window
             /\ NextVa(a) \in Nat /\ a < NextVa(a) /\ NextVa(a) = a + image[a].size
             /\ NextVa(a) <= ImageLen => NextVa(a) \in Vpc
  <2>1. a \in Nat /\ a \in Vpc /\ image[a] \in [op: Operation, arg: Vpc, size: 1 .. Window]
    BY <1>1, <1>2
  <2>2. image[a].size \in 1 .. Window /\ image[a].op \in Operation /\ image[a].arg \in Vpc
    BY <2>1
  <2>3. NextVa(a) = a + image[a].size
    BY DEF NextVa
  <2> HIDE DEF NextVa
  <2> QED BY <1>1, <2>1, <2>2, <2>3
<1> QED BY <1>1, <1>2, <1>3

LEMMA DecodeBounds ==
    ASSUME image \in Images, NEW va \in Nat, NEW a
    PROVE  Decodes(va, a) <=> /\ a \in Address /\ va <= a
                              /\ image[a].op # "invalid"
                              /\ NextVa(a) <= va + Window /\ NextVa(a) <= ImageLen
<1>1. CASE a \in Address
  <2> DEFINE n == image[a].size
  <2>1. /\ a \in Nat /\ n \in Nat /\ 0 < n /\ NextVa(a) = a + n
        /\ Address = 0 .. ImageLen - 1 /\ ImageLen \in Nat /\ Window \in Nat
    BY <1>1, ImageTyped
  <2> HIDE DEF n
  <2>2. a \in Bytes(va) <=> va <= a /\ a < va + Window
    BY <1>1 DEF Bytes
  <2>3. a + n - 1 \in Bytes(va) <=> /\ 0 <= a + n - 1 /\ a + n - 1 <= ImageLen - 1
                                    /\ va <= a + n - 1 /\ a + n - 1 < va + Window
    BY <2>1 DEF Bytes
  <2>4. Decodes(va, a) <=> /\ a \in Bytes(va) /\ image[a].op # "invalid"
                           /\ a + n - 1 \in Bytes(va)
    BY DEF Decodes, n
  <2> QED BY <1>1, <2>1, <2>2, <2>3, <2>4
<1>2. CASE a \notin Address
  BY <1>2 DEF Decodes, Bytes
<1> QED BY <1>1, <1>2

(* It begins at va if anything decodes there, goes on behind each          *)
(* instruction that does not end it, and holds nothing else.               *)
LEMMA SegmentSteps ==
    ASSUME NEW L, NEW va
    PROVE  /\ Segment(L, va) \in SUBSET Address
           /\ \A a \in Segment(L, va) : va <= a /\ Runs(L, va, a)
           /\ Decodes(va, va) => va \in Segment(L, va)
           /\ \A a \in Segment(L, va) :
                 ~Terminates(a) /\ Runs(L, va, NextVa(a))
                 => NextVa(a) \in Segment(L, va)
           /\ \A a \in Segment(L, va) :
                 a = va \/ \E x \in Segment(L, va) :
                              ~Terminates(x) /\ NextVa(x) = a
<1> DEFINE S == Segment(L, va)
<1>1. S \in SUBSET Bytes(va) /\ Bytes(va) \in SUBSET Address
      /\ \A a \in S : va <= a
  BY DEF Segment, Bytes
<1>2. \A a : Runs(L, va, a) => a \in Bytes(va)
  BY DEF Runs, Decodes
<1>3. Decodes(va, va) => va \in S
  BY DEF Segment, RunsOn, Decodes
<1>4. ASSUME NEW a \in S, ~Terminates(a), Runs(L, va, NextVa(a))
      PROVE  NextVa(a) \in S
  <2>1. ASSUME NEW T \in SUBSET Bytes(va), RunsOn(L, va, T) PROVE NextVa(a) \in T
    <3>1. a \in T
      BY <2>1 DEF Segment
    <3> QED BY <2>1, <3>1, <1>4 DEF RunsOn
  <2> QED BY <2>1, <1>2, <1>4 DEF Segment
<1>5. \A a \in S : \A T \in SUBSET Bytes(va) : RunsOn(L, va, T) => a \in T
  BY DEF Segment
<1> HIDE DEF S
<1>6. ASSUME NEW a \in S PROVE Runs(L, va, a)
  <2> DEFINE T == {x \in S : Runs(L, va, x)}
  <2>1. T \in SUBSET Bytes(va)
    BY <1>1
  <2>2. RunsOn(L, va, T)
    <3>1. Decodes(va, va) => va \in T
      BY <1>3 DEF Runs
    <3>2. \A x \in T : ~Terminates(x) /\ Runs(L, va, NextVa(x)) => NextVa(x) \in T
      BY <1>4
    <3> HIDE DEF T
    <3> QED BY <3>1, <3>2 DEF RunsOn
  <2>3. a \in T
    BY <2>1, <2>2, <1>5
  <2> QED BY <2>3
<1>7. ASSUME NEW a \in S, a # va, \A x \in S : ~(~Terminates(x) /\ NextVa(x) = a)
      PROVE  FALSE
  <2> DEFINE T == S \ {a}
  <2>1. T \in SUBSET Bytes(va)
    BY <1>1
  <2>2. RunsOn(L, va, T)
    <3>1. Decodes(va, va) => va \in T
      BY <1>3, <1>7
    <3>2. \A x \in T : ~Terminates(x) /\ Runs(L, va, NextVa(x)) => NextVa(x) \in T
      BY <1>4, <1>7
    <3> HIDE DEF T
    <3> QED BY <3>1, <3>2 DEF RunsOn
  <2>3. a \in T
    BY <2>1, <2>2, <1>5
  <2> QED BY <2>3
<1>8. /\ S \in SUBSET Address
      /\ \A a \in S : va <= a /\ Runs(L, va, a)
      /\ Decodes(va, va) => va \in S
      /\ \A a \in S : ~Terminates(a) /\ Runs(L, va, NextVa(a)) => NextVa(a) \in S
      /\ \A a \in S : a = va \/ \E x \in S : ~Terminates(x) /\ NextVa(x) = a
  BY <1>1, <1>3, <1>4, <1>6, <1>7
<1> QED BY <1>8 DEF S

(* Its instructions do not overlap: the least one that lay in another      *)
(* would follow one that lies in that other, or before it.                 *)
LEMMA SegmentApart ==
    ASSUME image \in Images, NEW L, NEW va,
           NEW a \in Segment(L, va), NEW c \in Segment(L, va), a < c
    PROVE  NextVa(a) <= c
<1> DEFINE S == Segment(L, va)
           Bad == {y \in S : \E x \in S : x < y /\ y < NextVa(x)}
<1>1. /\ S \in SUBSET Address
      /\ \A y \in S : y = va \/ \E p \in S : NextVa(p) = y
      /\ \A y \in S : va <= y /\ y \in Nat /\ NextVa(y) \in Nat /\ y < NextVa(y)
  BY SegmentSteps, ImageTyped
<1>2. va \in S => va \in Nat
  BY <1>1
<1>3. a \in S /\ c \in S
  OBVIOUS
<1> HIDE DEF S
<1>4. SUFFICES ASSUME NextVa(a) > c PROVE FALSE
  BY <1>1, <1>3
<1>5. Bad \in SUBSET Nat /\ c \in Bad
  BY <1>1, <1>3, <1>4
<1>6. PICK y \in Bad : \A z \in Bad : <<z, y>> \notin OpToRel(<, Nat)
  BY <1>5, NatLessThanWellFounded, WFMin
<1>7. \A z \in Bad : ~(z < y)
  BY <1>5, <1>6 DEF OpToRel
<1>8. PICK x \in S : x < y /\ y < NextVa(x)
  OBVIOUS
<1>9. y \in S /\ x \in S /\ y \in Nat /\ x \in Nat
  BY <1>1, <1>5
<1>10. y # va
  BY <1>1, <1>8, <1>9
<1>11. PICK p \in S : NextVa(p) = y
  BY <1>1, <1>9, <1>10
<1>12. p \in Nat /\ p < y
  BY <1>1, <1>11
<1>13. CASE p = x
  BY <1>8, <1>9, <1>11, <1>13
<1>14. CASE x < p
  <2>1. p \in Bad
    BY <1>8, <1>9, <1>11, <1>12, <1>14, <1>1
  <2> QED BY <2>1, <1>7, <1>12
<1>15. CASE p < x
  <2>1. x \in Bad
    BY <1>8, <1>9, <1>11, <1>15
  <2> QED BY <2>1, <1>7, <1>8
<1> QED BY <1>9, <1>12, <1>13, <1>14, <1>15

(* What stands before another of its instructions does not end it, and is  *)
(* followed by one of them.                                                *)
LEMMA SegmentIsChain ==
    ASSUME image \in Images, NEW L, NEW va,
           NEW a \in Segment(L, va), NEW c \in Segment(L, va), a < c
    PROVE  ~Terminates(a) /\ NextVa(a) \in Segment(L, va) /\ NextVa(a) <= c
<1> DEFINE S == Segment(L, va)
           T == {x \in S : x <= a}
<1>1. /\ S \in SUBSET Address
      /\ \A x \in S : va <= x /\ x \in Nat /\ NextVa(x) \in Nat
      /\ Decodes(va, va) => va \in S
      /\ \A x \in S : ~Terminates(x) /\ Runs(L, va, NextVa(x)) => NextVa(x) \in S
      /\ \A x \in S : x = va \/ \E p \in S : NextVa(p) = x
  BY SegmentSteps, ImageTyped
<1>2. \A x, y \in S : x < y => NextVa(x) <= y
  BY SegmentApart
<1>3. ASSUME NEW U \in SUBSET Bytes(va), RunsOn(L, va, U) PROVE c \in U
  BY <1>3 DEF Segment
<1>4. S \in SUBSET Bytes(va) /\ a \in S /\ c \in S
  BY DEF Segment
<1> HIDE DEF S
<1>5. SUFFICES ASSUME ~(~Terminates(a) /\ NextVa(a) \in S) PROVE FALSE
  BY <1>2, <1>4 DEF S
<1>6. RunsOn(L, va, T)
  <2>1. Decodes(va, va) => va \in T
    BY <1>1, <1>4
  <2>2. ASSUME NEW x \in T, ~Terminates(x), Runs(L, va, NextVa(x))
        PROVE  NextVa(x) \in T
    <3>1. NextVa(x) \in S /\ x \in S /\ x <= a /\ x # a
      BY <2>2, <1>1, <1>5
    <3>2. x < a
      BY <3>1, <1>1, <1>4
    <3> QED BY <3>1, <3>2, <1>2, <1>4
  <2> HIDE DEF T
  <2> QED BY <2>1, <2>2 DEF RunsOn
<1>7. c \in T
  BY <1>3, <1>4, <1>6
<1> QED BY <1>7, <1>1, <1>4

(* Once the leaders are settled two blocks share an instruction only if    *)
(* one begins inside an instruction of the other: a block that is entered  *)
(* before another's start and reaches an instruction of it passes over     *)
(* that start, for had it an instruction there it would have ended.        *)
THEOREM BlocksSplit == NativeSpec => []SplitAtLeaders
<1>1. NativeInv => SplitAtLeaders
  <2> SUFFICES ASSUME NativeInv, Settled,
                      NEW b \in Blocks, NEW d \in Blocks, label[b] < label[d],
                      NEW a \in lifted[b], a \in lifted[d]
               PROVE  \E x \in lifted[b] :
                         x < label[d] /\ label[d] < x + image[x].size
    BY DEF SplitAtLeaders
  <2> DEFINE u == label[b]
             v == label[d]
             S == Segment(leaders, u)
             Before == {x \in S : x < v}
             x == Max(Before)
  <2>1. image \in Images /\ v \in leaders /\ u \in Vpc /\ v \in Vpc
    <3>1. u \in Range(label) /\ v \in Range(label)
      BY DEF Blocks, Range
    <3> QED BY <3>1 DEF NativeInv, LeaderInv, Settled
  <2>2. lifted[b] = S /\ a \in S /\ a \in Segment(leaders, v)
    <3>1. lifted[b] \in {{}, Lifted(u)} /\ lifted[d] \in {{}, Lifted(v)}
      BY DEF NativeInv, SegmentsInv
    <3> QED BY <3>1, LiftedIsSegment
  <2>3. /\ u \in Nat /\ v \in Nat /\ a \in Nat /\ v <= a /\ u < v
        /\ S \in SUBSET Address
        /\ \A w \in S : /\ Runs(leaders, u, w) /\ w \in Nat
                        /\ NextVa(w) \in Nat /\ w < NextVa(w)
                        /\ NextVa(w) = w + image[w].size
        /\ \A w \in S : w = u \/ \E p \in S : NextVa(p) = w
    <3>1. u \in Nat /\ v \in Nat
      BY <2>1, ImageTyped
    <3>2. S \in SUBSET Address
      BY SegmentSteps
    <3>3. \A w \in S : /\ w \in Nat /\ NextVa(w) \in Nat /\ w < NextVa(w)
                       /\ NextVa(w) = w + image[w].size
      BY <3>2, <2>1, ImageTyped
    <3>4. \A w \in S : Runs(leaders, u, w)
      BY SegmentSteps
    <3>5. \A w \in S : w = u \/ \E p \in S : NextVa(p) = w
      BY SegmentSteps
    <3>6. v <= a
      BY <2>2, SegmentSteps
    <3> QED BY <3>1, <3>2, <3>3, <3>4, <3>5, <3>6, <2>2
  <2>4. u \in S
    <3>1. IsWellFoundedOn(OpToRel(<, Nat), Nat)
      BY NatLessThanWellFounded
    <3>2. S \in SUBSET Nat
      BY <2>3
    <3> HIDE DEF S, u, v
    <3>3. PICK w \in S : \A z \in S : <<z, w>> \notin OpToRel(<, Nat)
      BY <2>2, <3>1, <3>2, WFMin
    <3>4. \A z \in S : ~(z < w)
      BY <3>2, <3>3 DEF OpToRel
    <3> QED BY <3>4, <2>3
  <2>5. x \in Before /\ \A w \in Before : x >= w
    <3>1. Before \in SUBSET Address /\ u \in Before
      BY <2>3, <2>4
    <3> QED BY <3>1, LastAddress
  <2> HIDE DEF x
  <2>6. x \in S /\ x < v /\ x < a /\ x \in Nat
    BY <2>3, <2>5
  <2>7. NextVa(x) \in S
    BY <2>1, <2>2, <2>6, SegmentIsChain
  <2>8. v <= NextVa(x)
    <3>1. SUFFICES ASSUME NextVa(x) < v PROVE FALSE
      BY <2>3, <2>6
    <3>2. x >= NextVa(x)
      BY <3>1, <2>5, <2>7
    <3> QED BY <3>2, <2>3, <2>6
  <2>9. NextVa(x) # v
    <3>1. v \in S => v = u \/ v \notin leaders
      BY <2>3 DEF Runs
    <3> QED BY <3>1, <2>1, <2>3, <2>7
  <2> QED BY <2>2, <2>3, <2>6, <2>8, <2>9
<1> QED BY <1>1, NativeInvAlways, PTL

-----------------------------------------------------------------------------
(* Code whose jumps do not depend on Ax *)

\* Where control leaves a segment at va between leaders L.
Exits(L, va) ==
    {y \in Vpc : \E a \in Segment(L, va) :
        \/ Terminates(a) /\ y \in Flow(a)
        \/ ~Terminates(a) /\ y = NextVa(a) /\ y \in L /\ Decodes(va, y)}

\* What the first pass would find without max_blocks.
Closed(T) == EntryVpc \in T /\ \A x \in T : Exits({EntryVpc}, x) \subseteq T
Found == {v \in Vpc : \A T \in SUBSET Vpc : Closed(T) => v \in T}

LEMMA PlainValue ==
    ASSUME image \in Images, PlainCode, NEW S \in SUBSET Address, NEW val
    PROVE  ValueAfter(S, val) = val
<1>1. \A a \in S : image[a].op # "set" /\ image[a].op # "dec"
  BY DEF PlainCode
<1>2. {a \in S : image[a].op = "set"} = {}
  BY <1>1
<1>3. {a \in S : /\ image[a].op = "dec"
                 /\ \A s \in {} : s < a} = {}
  BY <1>1
<1>4. Cardinality({}) = 0
  BY FS_EmptySet
<1> QED BY <1>2, <1>3, <1>4 DEF ValueAfter

\* Ax holds this throughout.
Unknown == Known(Symbol)

LEMMA UnknownNotConstant == ~IsConstant(Unknown)
<1>1. \A c \in Vpc : c # Symbol
  BY NativeAssumption DEF Symbol
<1>2. \A c : Known(c)[2] = c
  BY DEF Known
<1>3. ASSUME NEW c \in Vpc, Known(c) = Known(Symbol) PROVE FALSE
  BY <1>1, <1>2, <1>3
<1> QED BY <1>3 DEF IsConstant, Unknown

(* The oracle's targets are where control leaves the segment.              *)
LEMMA TargetsAreExits ==
    ASSUME image \in Images, PlainCode, NEW va \in Vpc
    PROVE  Targets(SegmentResult(va, Unknown)) = Exits(leaders, va)
<1> DEFINE S == Lifted(va)
           last == Max(S)
           r == SegmentResult(va, Unknown)
           E == Exits(leaders, va)
<1>1. S = Segment(leaders, va) /\ S \in SUBSET Address
  BY LiftedIsSegment, LiftedAddresses
<1>2. ValueAfter(S, Unknown) = Unknown
  BY <1>1, PlainValue
<1>3. CASE S = {}
  <2>1. r = Unresolved
    BY <1>3 DEF SegmentResult
  <2>2. E = {}
    BY <1>1, <1>3 DEF Exits
  <2> QED BY <2>1, <2>2 DEF Targets, Unresolved
<1>4. CASE S # {}
  <2>1. last \in S /\ \A x \in S : last >= x
    BY <1>1, <1>4, LastAddress
  <2> HIDE DEF last
  <2>2. /\ last \in Address /\ va \in Nat /\ last \in Nat
        /\ Decodes(va, last) /\ NextVa(last) \in Vpc
        /\ \A x \in S : x \in Nat
    <3>1. last \in Address /\ Decodes(va, last) /\ va \in Nat
      BY <2>1, <1>1, LiftedDecode, ImageTyped
    <3>2. NextVa(last) <= ImageLen
      BY <3>1, DecodeBounds
    <3> QED BY <3>1, <3>2, <1>1, ImageTyped
  <2>3. ASSUME NEW a \in S, a # last
        PROVE  ~Terminates(a) /\ NextVa(a) \in S
    <3>1. a < last
      BY <2>1, <2>2, <2>3
    <3> QED BY <3>1, <2>1, <1>1, SegmentIsChain
  <2>4. ASSUME NEW y \in Vpc
        PROVE  y \in E <=> \/ Terminates(last) /\ y \in Flow(last)
                           \/ /\ ~Terminates(last) /\ y = NextVa(last)
                              /\ y \in leaders /\ Decodes(va, y)
    <3>1. ASSUME NEW a \in S, a # last, NextVa(a) \in leaders PROVE FALSE
      <4>1. NextVa(a) \in S /\ va <= a /\ a < NextVa(a) /\ a \in Nat
            /\ NextVa(a) \in Nat
        BY <2>3, <3>1, <1>1, SegmentSteps, ImageTyped
      <4>2. Runs(leaders, va, NextVa(a))
        BY <4>1, <1>1, SegmentSteps
      <4> QED BY <4>1, <4>2, <3>1, <2>2 DEF Runs
    <3> QED BY <1>1, <2>1, <2>3, <3>1 DEF Exits
  <2>5. CASE Terminates(last)
    <3>1. r = TerminatorResult(last, Unknown)
      BY <1>2, <1>4, <2>5 DEF SegmentResult, last
    <3>2. Flow(last) \in SUBSET Vpc
      <4>1. image[last].arg \in Vpc /\ last + image[last].size \in Vpc
        BY <2>2, ImageTyped
      <4> QED BY <4>1, <2>5 DEF Flow, Terminates
    <3>3. E = Flow(last)
      BY <2>4, <2>5, <3>2 DEF Exits
    <3>4. image[last].op \in {"ret", "goto", "jcc"}
      BY <2>2, <2>5 DEF Terminates, PlainCode
    <3>5. Targets(r) = Flow(last)
      <4>1. CASE image[last].op = "ret"
        BY <4>1, <3>1 DEF TerminatorResult, Targets, Flow
      <4>2. CASE image[last].op = "goto"
        BY <4>2, <3>1 DEF TerminatorResult, Targets, Goto, Flow
      <4>3. CASE image[last].op = "jcc"
        BY <4>3, <3>1, UnknownNotConstant
           DEF TerminatorResult, Targets, Branch, NextVa, Flow
      <4> QED BY <3>4, <4>1, <4>2, <4>3
    <3> QED BY <3>3, <3>5
  <2>6. CASE ~Terminates(last) /\ Decodes(va, NextVa(last))
    <3>1. r = Goto(NextVa(last))
      BY <1>4, <2>6 DEF SegmentResult, last
    <3>2. NextVa(last) \in leaders
      <4>1. SUFFICES ASSUME NextVa(last) \notin leaders PROVE FALSE
        OBVIOUS
      <4>2. Runs(leaders, va, NextVa(last))
        BY <4>1, <2>6 DEF Runs
      <4>3. NextVa(last) \in S
        BY <4>2, <2>1, <2>6, <1>1, SegmentSteps
      <4>4. last >= NextVa(last) /\ last < NextVa(last) /\ NextVa(last) \in Nat
        BY <4>3, <2>1, <2>2, ImageTyped
      <4> QED BY <4>4, <2>2
    <3>3. E = {NextVa(last)}
      BY <2>2, <2>4, <2>6, <3>2 DEF Exits
    <3> QED BY <3>1, <3>3 DEF Targets, Goto
  <2>7. CASE ~Terminates(last) /\ ~Decodes(va, NextVa(last))
    <3>1. r = Unresolved
      BY <1>4, <2>7 DEF SegmentResult, last
    <3>2. E = {}
      BY <2>4, <2>7 DEF Exits
    <3> QED BY <3>1, <3>2 DEF Targets, Unresolved
  <2> QED BY <2>5, <2>6, <2>7
<1> QED BY <1>3, <1>4

(* A segment is reached as a whole.                                        *)
LEMMA SegmentIsReached ==
    ASSUME image \in Images, NEW va \in Vpc, NEW L, NEW a \in Segment(L, va),
           va \in Decodable => va \in ReachableCode
    PROVE  a \in ReachableCode
<1> DEFINE T == {x \in Bytes(va) : x \in ReachableCode}
<1>1. va \in Nat
  BY ImageTyped
<1>2. \A x : Decodes(va, x) => x \in Decodable /\ x \in Bytes(va)
  <2>1. \A x \in Address : NextVa(x) = x + image[x].size
    BY ImageTyped
  <2> QED BY <1>1, <2>1, DecodeBounds DEF Decodable, Decodes
<1>3. RunsOn(L, va, T)
  <2>1. Decodes(va, va) => va \in T
    BY <1>2
  <2>2. ASSUME NEW x \in T, ~Terminates(x), Runs(L, va, NextVa(x))
        PROVE  NextVa(x) \in T
    <3>1. NextVa(x) \in Decodable /\ NextVa(x) \in Bytes(va)
      BY <2>2, <1>2 DEF Runs
    <3>2. NextVa(x) \in Flow(x)
      BY <2>2 DEF Flow, Terminates, NextVa
    <3> QED BY <3>1, <3>2 DEF ReachableCode
  <2> HIDE DEF T
  <2> QED BY <2>1, <2>2 DEF RunsOn
<1>4. a \in T
  BY <1>3 DEF Segment
<1> QED BY <1>4

(* Where control goes from a reached segment is reached.                   *)
LEMMA ExitIsReached ==
    ASSUME image \in Images, PlainCode, NEW va \in Vpc, NEW L,
           va \in Decodable => va \in ReachableCode,
           NEW y \in Exits(L, va), y \in Decodable
    PROVE  y \in ReachableCode
<1>1. PICK a \in Segment(L, va) :
         \/ Terminates(a) /\ y \in Flow(a)
         \/ ~Terminates(a) /\ y = NextVa(a) /\ y \in L /\ Decodes(va, y)
  BY DEF Exits
<1>2. a \in ReachableCode
  BY SegmentIsReached
<1>3. y \in Flow(a)
  BY <1>1 DEF Flow, Terminates, NextVa
<1> QED BY <1>2, <1>3 DEF ReachableCode

(* More leaders only shorten a segment.                                    *)
LEMMA FewerLeaders ==
    ASSUME NEW va, NEW L, NEW M \in SUBSET L
    PROVE  Segment(L, va) \subseteq Segment(M, va)
<1>1. \A y : Runs(L, va, y) => Runs(M, va, y)
  BY DEF Runs
<1>2. \A S : RunsOn(M, va, S) => RunsOn(L, va, S)
  BY <1>1 DEF RunsOn
<1> QED BY <1>2 DEF Segment

(* A pass with more leaders finds nothing that the first would not.        *)
LEMMA ExitIsFound ==
    ASSUME image \in Images, EntryVpc \in leaders, leaders \subseteq Found,
           NEW va \in Found, NEW y \in Exits(leaders, va)
    PROVE  y \in Found
<1>1. y \in Vpc
  BY DEF Exits
<1>2. PICK a \in Segment(leaders, va) :
         \/ Terminates(a) /\ y \in Flow(a)
         \/ ~Terminates(a) /\ y = NextVa(a) /\ y \in leaders /\ Decodes(va, y)
  BY DEF Exits
<1>3. CASE ~Terminates(a)
  BY <1>2, <1>3
<1>4. CASE Terminates(a)
  <2>1. a \in Segment({EntryVpc}, va)
    BY FewerLeaders
  <2>2. y \in Exits({EntryVpc}, va)
    BY <1>1, <1>2, <1>4, <2>1 DEF Exits
  <2>3. ASSUME NEW T \in SUBSET Vpc, Closed(T) PROVE y \in T
    <3>1. va \in T
      BY <2>3 DEF Found
    <3> QED BY <2>2, <2>3, <3>1 DEF Closed
  <2> QED BY <1>1, <2>3 DEF Found
<1> QED BY <1>3, <1>4

(* What a pass cuts in two at a leader is found in two steps: a table that *)
(* holds all its targets holds those of the first pass.                    *)
LEMMA SplitFindsAll ==
    ASSUME image \in Images, NEW L, NEW T \in SUBSET Vpc, EntryVpc \in T,
           \A x \in T : Exits(L, x) \subseteq T
    PROVE  Found \subseteq T
<1> SUFFICES Closed(T)
  BY DEF Found
<1> SUFFICES ASSUME NEW x \in T, NEW y \in Exits({EntryVpc}, x)
             PROVE  y \in T
  BY DEF Closed
<1> DEFINE S == Segment({EntryVpc}, x)
<1>1. PICK a \in S :
         \/ Terminates(a) /\ y \in Flow(a)
         \/ ~Terminates(a) /\ y = NextVa(a) /\ y \in {EntryVpc} /\ Decodes(x, y)
  BY DEF Exits
<1>2. CASE ~Terminates(a)
  BY <1>1, <1>2
<1>3. CASE Terminates(a)
  <2>1. /\ x \in Nat /\ a \in Address /\ S \in SUBSET Address
        /\ \A w \in S : /\ w \in Nat /\ x <= w /\ Runs({EntryVpc}, x, w)
                        /\ NextVa(w) \in Nat /\ w < NextVa(w)
        /\ Decodes(x, x) => x \in S
    <3>1. S \in SUBSET Address
      BY SegmentSteps
    <3> QED BY <3>1, <1>1, SegmentSteps, ImageTyped
  <2>2. \A w \in S : w <= a /\ (w # a => ~Terminates(w) /\ NextVa(w) \in S)
    <3> SUFFICES ASSUME NEW w \in S
                 PROVE  w <= a /\ (w # a => ~Terminates(w) /\ NextVa(w) \in S)
      OBVIOUS
    <3>1. w \in Nat /\ a \in Nat
      BY <2>1, <1>1
    <3>2. ~(a < w)
      BY <1>3, SegmentIsChain
    <3>3. w < a => ~Terminates(w) /\ NextVa(w) \in S
      BY SegmentIsChain
    <3> QED BY <3>1, <3>2, <3>3
  <2>3. x \in S
    <3>1. IsWellFoundedOn(OpToRel(<, Nat), Nat)
      BY NatLessThanWellFounded
    <3>2. S \in SUBSET Nat
      BY <2>1
    <3>3. \A w \in S : w = x \/ \E p \in S : NextVa(p) = w
      BY SegmentSteps
    <3> HIDE DEF S
    <3>4. PICK w \in S : \A z \in S : <<z, w>> \notin OpToRel(<, Nat)
      BY <1>1, <3>1, <3>2, WFMin
    <3>5. \A z \in S : ~(z < w)
      BY <3>2, <3>4 DEF OpToRel
    <3> QED BY <3>3, <3>5, <2>1
  <2> DEFINE G == {w \in S : w \in T}
             z == Max(G)
  <2>4. z \in G /\ \A w \in G : z >= w
    <3>1. x \in G /\ G \in SUBSET Address
      BY <2>1, <2>3
    <3> QED BY <3>1, LastAddress
  <2> HIDE DEF z
  <2>5. z \in S /\ z \in T /\ z \in Nat /\ x <= z
    BY <2>1, <2>4
  <2>6. \A w \in S : z <= w => Decodes(z, w)
    <3> SUFFICES ASSUME NEW w \in S, z <= w PROVE Decodes(z, w)
      OBVIOUS
    <3>1. Decodes(x, w) /\ w \in Nat /\ NextVa(w) \in Nat /\ Window \in Nat
      BY <2>1, ImageTyped DEF Runs
    <3>2. /\ w \in Address /\ image[w].op # "invalid"
          /\ NextVa(w) <= x + Window /\ NextVa(w) <= ImageLen
      BY <3>1, <2>1, DecodeBounds
    <3>3. NextVa(w) <= z + Window
      BY <3>1, <3>2, <2>1, <2>5
    <3> QED BY <3>2, <3>3, <2>5, DecodeBounds
  <2> DEFINE Z == Segment(L, z)
             C == {w \in S : w \in Z}
             c == Max(C)
  <2>7. z \in Z /\ Z \in SUBSET Address
        /\ \A w \in Z : /\ z <= w
                        /\ ~Terminates(w) /\ Runs(L, z, NextVa(w)) => NextVa(w) \in Z
    <3>1. Decodes(z, z)
      BY <2>5, <2>6
    <3> QED BY <3>1, SegmentSteps
  <2>8. c \in C /\ \A w \in C : c >= w
    <3>1. z \in C /\ C \in SUBSET Address
      BY <2>5, <2>7
    <3> QED BY <3>1, LastAddress
  <2> HIDE DEF c, Z
  <2>9. c \in S /\ c \in Z /\ c \in Nat /\ z <= c
    BY <2>1, <2>7, <2>8
  <2>10. c = a
    <3>1. SUFFICES ASSUME c # a PROVE FALSE
      OBVIOUS
    <3>2. ~Terminates(c) /\ NextVa(c) \in S /\ NextVa(c) \in Nat /\ c < NextVa(c)
      BY <3>1, <2>1, <2>2, <2>9
    <3>3. Decodes(z, NextVa(c))
      BY <3>2, <2>5, <2>6, <2>9
    <3>4. NextVa(c) # z
      BY <3>2, <2>5, <2>9
    <3>5. CASE NextVa(c) \in L
      <4>1. NextVa(c) \in Vpc
        BY <3>2, <2>1, ImageTyped
      <4>2. NextVa(c) \in Exits(L, z)
        BY <4>1, <2>9, <3>2, <3>3, <3>5 DEF Exits, Z
      <4>3. NextVa(c) \in G
        BY <4>2, <3>2, <2>5
      <4>4. z >= NextVa(c)
        BY <4>3, <2>4
      <4> QED BY <4>4, <3>2, <2>5, <2>9
    <3>6. CASE NextVa(c) \notin L
      <4>1. NextVa(c) \in Z
        BY <3>2, <3>3, <3>6, <2>7, <2>9 DEF Runs
      <4>2. c >= NextVa(c)
        BY <4>1, <3>2, <2>8
      <4> QED BY <4>2, <3>2, <2>9
    <3> QED BY <3>5, <3>6
  <2>11. y \in Exits(L, z)
    BY <1>1, <1>3, <2>9, <2>10 DEF Exits, Z
  <2> QED BY <2>11, <2>5
<1> QED BY <1>2, <1>3

-----------------------------------------------------------------------------
(* The graph of plain code *)

\* Every state on an edge says that nothing is known of Ax.
UnknownStates == incoming \in [Blocks -> Seq([pred: Nat, state: [Reg -> {Unknown}]])]

\* The blocks evaluated in this pass hold their segments, and have successors
\* wherever control leaves them.
SegmentsLead ==
    \A b \in 1 .. Evaluated :
        /\ lifted[b] = Segment(leaders, label[b])
        /\ Exits(leaders, label[b]) \subseteq Range(label)

\* When a pass may end, and that it does by max_blocks only with too many.
PassEnds ==
    /\ worklist = <<>> => Len(label) <= MaxBlocks
    /\ pc = "done" => worklist = <<>> \/ Len(label) > MaxBlocks

\* The second pass has all leaders, unless no pass may see them all.
TooMany == Cardinality(Found) > MaxBlocks
FoundAtOnce ==
    /\ pass >= 1 => leaders = Found \/ TooMany
    /\ pass >= 2 => TooMany

PlainInv ==
    PlainCode =>
        /\ label[1] = EntryVpc
        /\ UnknownStates
        /\ SegmentsLead
        /\ discovered \subseteq Found
        /\ discovered \cap Decodable \subseteq ReachableCode
        /\ PassEnds
        /\ FoundAtOnce

\* What plain code is and where it leads does not change.
LEMMA CodeStays ==
    ASSUME image' = image
    PROVE  /\ PlainCode' <=> PlainCode
           /\ Found' = Found /\ Decodable' = Decodable
           /\ ReachableCode' = ReachableCode
           /\ TooMany' <=> TooMany
<1>1. /\ PlainCode' <=> PlainCode
      /\ Decodable' = Decodable /\ ReachableCode' = ReachableCode
  BY DEF PlainCode, Decodable, ReachableCode, Flow, Address
<1>2. Found' = Found
  BY DEF Found, Closed, Exits, Segment, RunsOn, Runs, Bytes, Decodes, NextVa,
         Terminates, Flow, Address
<1> QED BY <1>1, <1>2 DEF TooMany

LEMMA EntryIsFound ==
    EntryVpc \in Found /\ (EntryVpc \in Decodable => EntryVpc \in ReachableCode)
BY ConstantsAssumption DEF Found, Closed, ReachableCode

(* A pass begins.                                                          *)
LEMMA PlainInvStarts ==
    ASSUME OrderInv, label = <<EntryVpc>>, worklist = <<EntryVpc>>,
           incoming = << <<>> >>, pc = "explore",
           PlainCode => /\ discovered \subseteq Found
                        /\ discovered \cap Decodable \subseteq ReachableCode
                        /\ FoundAtOnce
    PROVE  PlainInv
<1>1. /\ label[1] = EntryVpc /\ Len(label) = 1 /\ DOMAIN label = 1 .. 1
      /\ Len(worklist) = 1 /\ worklist # <<>>
  OBVIOUS
<1>2. UnknownStates
  <2> DEFINE U == Seq([pred: Nat, state: [Reg -> {Unknown}]])
  <2>1. <<>> \in U
    BY EmptySeq
  <2> HIDE DEF U
  <2>2. incoming \in [1 .. 1 -> U]
    BY <2>1
  <2> QED BY <1>1, <2>2 DEF UnknownStates, Blocks, U
<1>3. SegmentsLead
  BY <1>1 DEF SegmentsLead, Evaluated
<1> QED BY <1>1, <1>2, <1>3 DEF PlainInv, PassEnds

LEMMA PlainInvInit == NativeInit => PlainInv
<1> SUFFICES ASSUME NativeInit PROVE PlainInv
  OBVIOUS
<1>1. OrderInv
  BY NativeInvInit DEF NativeInv
<1>2. /\ label = <<EntryVpc>> /\ worklist = <<EntryVpc>>
      /\ incoming = << <<>> >> /\ pc = "explore"
      /\ discovered = {EntryVpc} /\ pass = 0
  BY DEF NativeInit, Init
<1>3. FoundAtOnce
  BY <1>2 DEF FoundAtOnce
<1> QED BY <1>1, <1>2, <1>3, EntryIsFound, PlainInvStarts

(* What drives the next segment knows nothing of Ax.                       *)
LEMMA DrivenUnknown ==
    ASSUME NativeInv, UnknownStates, NEW b \in Blocks
    PROVE  EntryValue(Drive(b)) = Unknown
<1>1. ~SSA /\ Ax \in Reg
  BY NativeAssumption DEF SSA
<1>2. CASE incoming[b] # <<>>
  <2> DEFINE E == [pred: Nat, state: [Reg -> {Unknown}]]
             inc == incoming[b]
  <2>1. inc \in Seq(E)
    BY DEF UnknownStates
  <2>2. inc[1] \in E
    <3> HIDE DEF E, inc
    <3>1. Len(inc) \in Nat /\ inc \in [1 .. Len(inc) -> E]
      BY <2>1, LenProperties
    <3>2. Len(inc) # 0
      BY <1>2, <2>1, EmptySeq DEF inc
    <3> QED BY <3>1, <3>2
  <2>3. Drive(b)[Ax] = Unknown
    BY <1>1, <1>2, <2>2 DEF Drive
  <2> QED BY <2>3 DEF EntryValue, Unknown
<1>3. CASE incoming[b] = <<>>
  <2>1. Drive(b) = Empty
    BY <1>1, <1>3, NativeAssumption DEF Drive
  <2>2. ~Holds(Drive(b), Ax)
    BY <1>1, <2>1 DEF Holds, Empty
  <2> QED BY <2>2 DEF EntryValue, Unknown
<1> QED BY <1>2, <1>3

LEMMA PadUnknown ==
    ASSUME UnknownStates, label \in Seq(Vpc), NEW n \in Nat, Len(label) <= n
    PROVE  Pad(incoming, n, <<>>)
              \in [1 .. n -> Seq([pred: Nat, state: [Reg -> {Unknown}]])]
<1> DEFINE U == Seq([pred: Nat, state: [Reg -> {Unknown}]])
<1>1. <<>> \in U
  BY EmptySeq
<1>2. \A i \in DOMAIN incoming : incoming[i] \in U
  BY DEF UnknownStates
<1> HIDE DEF U
<1>3. Pad(incoming, n, <<>>) \in [1 .. n -> U]
  BY <1>1, <1>2 DEF Pad
<1> QED BY <1>3 DEF U

LEMMA LinkUnknown ==
    ASSUME NEW n \in Nat,
           NEW inc \in [1 .. n -> Seq([pred: Nat, state: [Reg -> {Unknown}]])],
           NEW s \in 1 .. n, NEW b \in Nat, NEW out \in [Reg -> {Unknown}]
    PROVE  Link(inc, s, b, out)
              \in [1 .. n -> Seq([pred: Nat, state: [Reg -> {Unknown}]])]
<1> DEFINE E == [pred: Nat, state: [Reg -> {Unknown}]]
           e == [pred |-> b, state |-> out]
<1>1. e \in E
  OBVIOUS
<1> HIDE DEF E, e
<1>2. Append(inc[s], e) \in Seq(E)
  BY <1>1, AppendProperties DEF E
<1>3. [inc EXCEPT ![s] = Append(inc[s], e)] \in [1 .. n -> Seq(E)]
  BY <1>2 DEF E
<1> QED BY <1>3 DEF Link, E, e

LEMMA EvaluateUnknown ==
    ASSUME NativeInv, UnknownStates, PlainCode, Evaluate
    PROVE  UnknownStates'
<1> DEFINE va == Head(worklist)
           r == SegmentResult(va, EntryValue(Drive(Current)))
           out == [q \in Reg |-> ValueAfter(Lifted(va), EntryValue(Drive(Current)))]
           U == Seq([pred: Nat, state: [Reg -> {Unknown}]])
<1>1. image \in Images /\ OrderInv
  BY DEF NativeInv, LeaderInv
<1>2. PICK new \in SUBSET Vpc :
         /\ new = Targets(r)
         /\ OrderInv'
         /\ Range(label') = Range(label) \cup new
         /\ Len(label') >= Len(label)
         /\ Current \in 1 .. Len(label)
  BY <1>1, EvaluationAddsTargets
<1>3. /\ label \in Seq(Vpc) /\ label' \in Seq(Vpc)
      /\ DOMAIN label = 1 .. Len(label) /\ DOMAIN label' = 1 .. Len(label')
      /\ Len(label) \in Nat /\ Len(label') \in Nat
  <2>1. label \in Seq(Vpc) /\ label' \in Seq(Vpc)
    BY <1>1, <1>2 DEF OrderInv
  <2> QED BY <2>1, LenProperties
<1>4. /\ CASE r.kind = "JMP" -> EvalGoto(r.next, out)
           [] r.kind = "CJMP" -> EvalBranch(r.taken, r.not_taken, out, out)
           [] OTHER -> EvalStop(r.kind)
  BY DEF Evaluate
<1>5. out \in [Reg -> {Unknown}]
  <2>1. EntryValue(Drive(Current)) = Unknown
    BY <1>2, <1>3, DrivenUnknown DEF Blocks
  <2>2. ValueAfter(Lifted(va), Unknown) = Unknown
    BY <1>1, LiftedAddresses, PlainValue
  <2> QED BY <2>1, <2>2
<1>6. Pad(incoming, Len(label'), <<>>) \in [1 .. Len(label') -> U]
  BY <1>2, <1>3, PadUnknown
<1>7. Current \in Nat
  BY <1>2, <1>3
<1>8. SUFFICES incoming' \in [1 .. Len(label') -> U]
  BY <1>3 DEF UnknownStates, Blocks
<1> HIDE DEF va, r, out
<1>9. CASE r.kind = "JMP"
  <2>1. EvalGoto(r.next, out) /\ Targets(r) = {r.next}
    BY <1>4, <1>9 DEF Targets
  <2>2. /\ label' = GetBlock(label, r.next)
        /\ incoming' = Link(Pad(incoming, Len(GetBlock(label, r.next)), <<>>),
                            IdOf(GetBlock(label, r.next), r.next), Current, out)
    BY <2>1 DEF EvalGoto, Store
  <2>3. r.next \in Range(label')
    BY <1>2, <2>1
  <2>4. IdOf(label', r.next) \in 1 .. Len(label')
    BY <1>3, <2>3, IdOfProperties
  <2>5. incoming' = Link(Pad(incoming, Len(label'), <<>>),
                         IdOf(label', r.next), Current, out)
    BY <2>2
  <2> QED BY <1>3, <1>5, <1>6, <1>7, <2>4, <2>5, LinkUnknown
<1>10. CASE r.kind = "CJMP"
  <2>1. /\ EvalBranch(r.taken, r.not_taken, out, out)
        /\ Targets(r) = {r.taken, r.not_taken}
    BY <1>4, <1>10 DEF Targets
  <2> DEFINE L == GetBlock(GetBlock(label, r.taken), r.not_taken)
  <2>2. /\ label' = L
        /\ incoming' = Link(Link(Pad(incoming, Len(L), <<>>),
                                 IdOf(L, r.taken), Current, out),
                            IdOf(L, r.not_taken), Current, out)
    BY <2>1 DEF EvalBranch, Store
  <2> HIDE DEF L
  <2>3. r.taken \in Range(label') /\ r.not_taken \in Range(label')
    BY <1>2, <2>1
  <2>4. /\ IdOf(label', r.taken) \in 1 .. Len(label')
        /\ IdOf(label', r.not_taken) \in 1 .. Len(label')
    BY <1>3, <2>3, IdOfProperties
  <2>5. incoming' = Link(Link(Pad(incoming, Len(label'), <<>>),
                              IdOf(label', r.taken), Current, out),
                         IdOf(label', r.not_taken), Current, out)
    BY <2>2
  <2>6. Link(Pad(incoming, Len(label'), <<>>), IdOf(label', r.taken), Current, out)
           \in [1 .. Len(label') -> U]
    BY <1>3, <1>5, <1>6, <1>7, <2>4, LinkUnknown
  <2> QED BY <1>3, <1>5, <1>7, <2>4, <2>5, <2>6, LinkUnknown
<1>11. CASE r.kind \notin {"JMP", "CJMP"}
  <2>1. EvalStop(r.kind)
    BY <1>4, <1>11
  <2>2. label' = label /\ incoming' = incoming
    BY <2>1 DEF EvalStop, Store
  <2> QED BY <1>3, <2>2 DEF UnknownStates, Blocks
<1> QED BY <1>9, <1>10, <1>11

(* One more block is evaluated.                                            *)
LEMMA OneMoreEvaluated ==
    ASSUME OrderInv, Evaluate
    PROVE  Current = Evaluated + 1 /\ Evaluated \in Nat
           /\ processed' = {label[i] : i \in 1 .. Current}
           /\ MayEvaluate
<1> DEFINE va == Head(worklist)
           r == SegmentResult(va, EntryValue(Drive(Current)))
           out == [q \in Reg |-> ValueAfter(Lifted(va), EntryValue(Drive(Current)))]
<1>1. /\ MayEvaluate
      /\ CASE r.kind = "JMP" -> EvalGoto(r.next, out)
           [] r.kind = "CJMP" -> EvalBranch(r.taken, r.not_taken, out, out)
           [] OTHER -> EvalStop(r.kind)
  BY DEF Evaluate
<1> HIDE DEF r, out
<1>2. Dequeue
  BY <1>1 DEF EvalGoto, EvalBranch, EvalStop
<1> QED BY <1>1, <1>2, DequeueProperties

LEMMA EvaluatedNext ==
    ASSUME OrderInv, OrderInv', Evaluate, NEW n \in Nat, n = Current,
           n \in 1 .. Len(label), Len(label') >= Len(label),
           \A i \in 1 .. Len(label) : label'[i] = label[i]
    PROVE  Evaluated' = n
<1>1. /\ label \in Seq(Vpc) /\ label' \in Seq(Vpc)
      /\ worklist \in Seq(Vpc) /\ worklist' \in Seq(Vpc)
  BY DEF OrderInv
<1>2. /\ Len(label) \in Nat /\ Len(label') \in Nat /\ Len(worklist') \in Nat
      /\ DOMAIN label' = 1 .. Len(label')
  BY <1>1, LenProperties
<1>3. /\ Len(worklist') <= Len(label')
      /\ processed' = {label'[i] : i \in 1 .. Evaluated'}
      /\ \A i, j \in 1 .. Len(label') : label'[i] = label'[j] => i = j
  BY <1>2 DEF OrderInv, DiscoveryOrder, Blocks
<1> DEFINE m == Evaluated'
<1>4. m \in Nat /\ m <= Len(label')
  BY <1>2, <1>3 DEF Evaluated
<1>5. processed' = {label'[i] : i \in 1 .. n}
  <2>1. processed' = {label[i] : i \in 1 .. n}
    BY OneMoreEvaluated
  <2>2. \A i \in 1 .. n : i \in 1 .. Len(label)
    BY <1>2
  <2>3. {label[i] : i \in 1 .. n} = {label'[i] : i \in 1 .. n}
    BY <2>2
  <2> QED BY <2>1, <2>3
<1>9. processed' = {label'[i] : i \in 1 .. m}
  BY <1>3
<1> HIDE DEF m
<1>6. n \in 1 .. Len(label')
  BY <1>2
<1>7. ASSUME n < m PROVE FALSE
  <2>1. m \in 1 .. m /\ m \in 1 .. Len(label')
    BY <1>4, <1>7
  <2>2. PICK i \in 1 .. n : label'[i] = label'[m]
    <3>1. label'[m] \in {label'[i] : i \in 1 .. m}
      BY <2>1
    <3>2. label'[m] \in {label'[i] : i \in 1 .. n}
      BY <3>1, <1>5, <1>9
    <3> QED BY <3>2
  <2>3. i \in 1 .. Len(label') /\ i # m
    BY <2>2, <1>6, <1>7, <1>4, <1>2
  <2> QED BY <2>1, <2>2, <2>3, <1>3
<1>8. ASSUME m < n PROVE FALSE
  <2>1. PICK i \in 1 .. m : label'[i] = label'[n]
    <3>1. label'[n] \in {label'[i] : i \in 1 .. n}
      OBVIOUS
    <3>2. label'[n] \in {label'[i] : i \in 1 .. m}
      BY <3>1, <1>5, <1>9
    <3> QED BY <3>2
  <2>2. i \in 1 .. Len(label') /\ i # n
    BY <2>1, <1>4, <1>8, <1>2
  <2> QED BY <2>1, <2>2, <1>3, <1>6
<1> QED BY <1>4, <1>7, <1>8 DEF m

LEMMA EvaluateKeepsPlainInv ==
    ASSUME NativeInv, PlainInv, Evaluate
    PROVE  PlainInv'
<1>1. /\ image' = image /\ leaders' = leaders /\ pass' = pass
      /\ pc = "explore" /\ image \in Images /\ OrderInv
      /\ EntryVpc \in leaders /\ leaders \subseteq discovered
      /\ Range(label) \subseteq discovered
  BY DEF Evaluate, NativeInv, LeaderInv
<1> SUFFICES ASSUME PlainCode
             PROVE  /\ (label[1] = EntryVpc)' /\ UnknownStates' /\ SegmentsLead'
                    /\ (discovered \subseteq Found)'
                    /\ (discovered \cap Decodable \subseteq ReachableCode)'
                    /\ PassEnds' /\ FoundAtOnce'
  BY <1>1, CodeStays DEF PlainInv
<1>2. /\ label[1] = EntryVpc /\ UnknownStates /\ SegmentsLead
      /\ discovered \subseteq Found
      /\ discovered \cap Decodable \subseteq ReachableCode
      /\ PassEnds /\ FoundAtOnce
  BY DEF PlainInv
<1> DEFINE va == Head(worklist)
           b == Current
<1>3. PICK new \in SUBSET Vpc :
         /\ new = Targets(SegmentResult(va, EntryValue(Drive(Current))))
         /\ OrderInv'
         /\ Range(label') = Range(label) \cup new
         /\ discovered' = discovered \cup new
         /\ Len(label') >= Len(label)
         /\ \A i \in 1 .. Len(label) : label'[i] = label[i]
         /\ b \in 1 .. Len(label)
         /\ label[b] = va
         /\ lifted' = [Pad(lifted, Len(label'), {}) EXCEPT ![b] = Lifted(va)]
  BY <1>1, EvaluationAddsTargets
<1>4. b = Evaluated + 1 /\ Evaluated \in Nat /\ MayEvaluate
  BY <1>1, OneMoreEvaluated
<1>5. /\ DOMAIN label = 1 .. Len(label) /\ Len(label) \in Nat
      /\ DOMAIN label' = 1 .. Len(label') /\ Len(label') \in Nat
      /\ worklist' \in Seq(Vpc) /\ Len(worklist') \in Nat
  <2>1. label \in Seq(Vpc) /\ label' \in Seq(Vpc) /\ worklist' \in Seq(Vpc)
    BY <1>1, <1>3 DEF OrderInv
  <2> QED BY <2>1, LenProperties
<1>6. Evaluated' = b
  <2>1. b \in Nat
    BY <1>3, <1>5
  <2> QED BY <2>1, <1>1, <1>3, EvaluatedNext
<1>7. va \in Range(label) /\ va \in discovered /\ va \in Vpc /\ va \in Found
  <2>1. va \in Range(label)
    BY <1>3, <1>5 DEF Range
  <2> QED BY <2>1, <1>1, <1>2 DEF Found
<1>8. new = Exits(leaders, va)
  <2>1. EntryValue(Drive(Current)) = Unknown
    BY <1>2, <1>3, <1>5, DrivenUnknown DEF Blocks
  <2> QED BY <2>1, <1>1, <1>3, <1>7, TargetsAreExits
<1>9. Found' = Found /\ Decodable' = Decodable /\ ReachableCode' = ReachableCode
  BY <1>1, CodeStays
<1>10. UnknownStates'
  BY <1>2, EvaluateUnknown
<1> HIDE DEF va, b
<1>11. label'[1] = EntryVpc
  BY <1>2, <1>3, <1>5
<1>12. (discovered \subseteq Found)'
  <2>1. new \subseteq Found
    BY <1>1, <1>2, <1>7, <1>8, ExitIsFound
  <2> QED BY <2>1, <1>2, <1>3, <1>9
<1>13. (discovered \cap Decodable \subseteq ReachableCode)'
  <2>1. ASSUME NEW y \in new, y \in Decodable PROVE y \in ReachableCode
    <3>1. va \in Decodable => va \in ReachableCode
      BY <1>2, <1>7
    <3> QED BY <2>1, <3>1, <1>1, <1>7, <1>8, ExitIsReached
  <2> QED BY <2>1, <1>2, <1>3, <1>9
<1>14. SegmentsLead'
  <2>1. ASSUME NEW i \in 1 .. b
        PROVE  /\ lifted'[i] = Segment(leaders, label'[i])
               /\ Exits(leaders, label'[i]) \subseteq Range(label')
    <3>1. i \in 1 .. Len(label) /\ label'[i] = label[i]
      BY <1>3, <1>5
    <3>2. CASE i = b
      <4>1. lifted'[i] = Lifted(va)
        BY <1>3, <1>5, <3>1, <3>2 DEF Pad
      <4> QED BY <4>1, <3>1, <3>2, <1>3, <1>8, LiftedIsSegment
    <3>3. CASE i # b
      <4>1. i \in 1 .. Evaluated
        BY <1>4, <3>3, <3>1, <1>5
      <4>2. /\ lifted[i] = Segment(leaders, label[i])
            /\ Exits(leaders, label[i]) \subseteq Range(label)
        BY <4>1, <1>2 DEF SegmentsLead
      <4>3. DOMAIN lifted = 1 .. Len(label)
        BY <1>5 DEF NativeInv, SegmentsInv, Blocks
      <4>4. lifted'[i] = lifted[i]
        BY <4>3, <3>1, <3>3, <1>3, <1>5 DEF Pad
      <4> QED BY <4>2, <4>4, <3>1, <1>3
    <3> QED BY <3>2, <3>3
  <2>2. ASSUME NEW v PROVE /\ Segment(leaders, v)' = Segment(leaders, v')
                           /\ Exits(leaders, v)' = Exits(leaders, v')
    BY <1>1 DEF Exits, Segment, RunsOn, Runs, Bytes, Decodes, NextVa,
               Terminates, Flow, Address
  <2>3. ASSUME NEW i \in 1 .. b
        PROVE  /\ (lifted[i] = Segment(leaders, label[i]))'
               /\ (Exits(leaders, label[i]) \subseteq Range(label))'
    <3>1. /\ Segment(leaders, label[i])' = Segment(leaders, label'[i])
          /\ Exits(leaders, label[i])' = Exits(leaders, label'[i])
      BY <1>1 DEF Exits, Segment, RunsOn, Runs, Bytes, Decodes, NextVa,
               Terminates, Flow, Address
    <3> QED BY <2>1, <3>1
  <2> QED BY <2>3, <1>6 DEF SegmentsLead
<1>15. PassEnds'
  <2>1. pc' = "explore"
    BY <1>1 DEF Evaluate, EvalGoto, EvalBranch, EvalStop, Store
  <2>2. ASSUME worklist' = <<>> PROVE Len(label') <= MaxBlocks
    <3>1. Len(worklist') = 0
      BY <2>2
    <3>2. Len(label') = b
      BY <3>1, <1>5, <1>6 DEF Evaluated
    <3>3. Len(label') <= Len(label) /\ Len(label) <= MaxBlocks
      BY <3>2, <1>3, <1>4, <1>5 DEF MayEvaluate
    <3> QED BY <3>3, <1>5, ConstantsAssumption
  <2> QED BY <2>1, <2>2 DEF PassEnds
<1>16. FoundAtOnce'
  BY <1>1, <1>2, <1>9, CodeStays DEF FoundAtOnce
<1> QED BY <1>10, <1>11, <1>12, <1>13, <1>14, <1>15, <1>16

(* A pass that is not cut short by max_blocks finds all there is.          *)
LEMMA FullPassFindsAll ==
    ASSUME NativeInv, PlainInv, PlainCode, worklist = <<>>
    PROVE  /\ Evaluated = Len(label)
           /\ discovered = Found /\ Range(label) = Found
           /\ ~TooMany
<1>1. /\ image \in Images /\ OrderInv /\ EntryVpc \in leaders
      /\ leaders \subseteq discovered /\ Range(label) \subseteq discovered
      /\ label[1] = EntryVpc /\ SegmentsLead /\ discovered \subseteq Found
      /\ Len(label) <= MaxBlocks
  BY DEF NativeInv, LeaderInv, PlainInv, PassEnds
<1>2. /\ label \in Seq(Vpc) /\ Len(label) \in Nat /\ DOMAIN label = 1 .. Len(label)
      /\ label # <<>> /\ IsInjective(label)
  <2>1. label \in Seq(Vpc) /\ label # <<>>
    BY <1>1 DEF OrderInv
  <2> QED BY <2>1, <1>1, LenProperties DEF OrderInv, DiscoveryOrder, IsInjective, Blocks
<1>3. Evaluated = Len(label)
  <2>1. Len(worklist) = 0
    OBVIOUS
  <2> QED BY <2>1, <1>2 DEF Evaluated
<1>4. Range(label) \in SUBSET Vpc /\ EntryVpc \in Range(label)
  <2>1. 1 \in DOMAIN label
    BY <1>2, EmptySeq
  <2> QED BY <2>1, <1>1, <1>2 DEF Range
<1>5. \A x \in Range(label) : Exits(leaders, x) \subseteq Range(label)
  BY <1>1, <1>2, <1>3 DEF SegmentsLead, Range
<1>6. Found \subseteq Range(label)
  BY <1>1, <1>4, <1>5, SplitFindsAll
<1>7. Range(label) = Found /\ discovered = Found
  BY <1>1, <1>6
<1>8. Cardinality(Found) = Len(label)
  BY <1>2, <1>7, TableSize
<1> QED BY <1>1, <1>2, <1>3, <1>7, <1>8, ConstantsAssumption DEF TooMany

(* One that is cut short has found too many.                               *)
LEMMA CutPassHasTooMany ==
    ASSUME NativeInv, PlainInv, PlainCode, Len(label) > MaxBlocks
    PROVE  TooMany
<1>1. Range(label) \subseteq Found /\ Found \subseteq Vpc
  BY DEF NativeInv, LeaderInv, PlainInv, Found
<1>2. label \in Seq(Vpc) /\ IsInjective(label)
  BY DEF NativeInv, OrderInv, DiscoveryOrder, IsInjective, Blocks
<1>3. Cardinality(Range(label)) = Len(label) /\ Len(label) \in Nat
  BY <1>2, TableSize
<1>4. IsFiniteSet(Found)
  <2>1. IsFiniteSet(0 .. Words - 1) /\ Vpc = 0 .. Words - 1
    BY NativeAssumption, FS_Interval
  <2> QED BY <2>1, <1>1, FS_Subset
<1>5. Cardinality(Range(label)) <= Cardinality(Found) /\ Cardinality(Found) \in Nat
  BY <1>1, <1>4, FS_Subset, FS_CardinalityType
<1> QED BY <1>3, <1>5, ConstantsAssumption DEF TooMany

LEMMA AgainKeepsPlainInv ==
    ASSUME NativeInv, PlainInv, Again
    PROVE  PlainInv'
<1>1. /\ label' = <<EntryVpc>> /\ worklist' = <<EntryVpc>>
      /\ incoming' = << <<>> >> /\ pc' = "explore"
      /\ leaders' = discovered /\ discovered' = discovered
      /\ pass' = pass + 1 /\ image' = image
      /\ pc = "done" /\ ~Settled
  BY DEF Again, NextLeaders
<1>2. OrderInv' /\ pass \in Nat
  BY AgainKeepsNativeInv DEF NativeInv, LeaderInv
<1>3. /\ PlainCode' <=> PlainCode
      /\ Found' = Found /\ Decodable' = Decodable
      /\ ReachableCode' = ReachableCode /\ (TooMany' <=> TooMany)
  BY <1>1, CodeStays
<1>4. ASSUME PlainCode
      PROVE  /\ (discovered \subseteq Found)'
             /\ (discovered \cap Decodable \subseteq ReachableCode)'
             /\ FoundAtOnce'
  <2>1. (discovered \subseteq Found)'
    BY <1>1, <1>3, <1>4 DEF PlainInv
  <2>2. (discovered \cap Decodable \subseteq ReachableCode)'
    BY <1>1, <1>3, <1>4 DEF PlainInv
  <2>3. worklist = <<>> \/ Len(label) > MaxBlocks
    BY <1>1, <1>4 DEF PlainInv, PassEnds
  <2>4. discovered = Found \/ TooMany
    BY <2>3, <1>4, FullPassFindsAll, CutPassHasTooMany
  <2>5. pass >= 1 => TooMany
    <3>1. SUFFICES ASSUME pass >= 1, ~TooMany PROVE FALSE
      OBVIOUS
    <3>2. leaders = Found /\ discovered = Found
      BY <3>1, <2>4, <1>4 DEF PlainInv, FoundAtOnce
    <3> QED BY <3>2, <1>1 DEF Settled
  <2>6. FoundAtOnce'
    BY <2>4, <2>5, <1>1, <1>2, <1>3 DEF FoundAtOnce
  <2> QED BY <2>1, <2>2, <2>6
<1>5. /\ (label[1] = EntryVpc)' /\ UnknownStates' /\ SegmentsLead' /\ PassEnds'
  <2>1. /\ label'[1] = EntryVpc /\ Len(label') = 1 /\ DOMAIN label' = 1 .. 1
        /\ Len(worklist') = 1 /\ worklist' # <<>>
    BY <1>1
  <2>2. UnknownStates'
    <3> DEFINE U == Seq([pred: Nat, state: [Reg -> {Unknown}]])
    <3>1. <<>> \in U
      BY EmptySeq
    <3> HIDE DEF U
    <3>2. incoming' \in [1 .. 1 -> U]
      BY <1>1, <3>1
    <3> QED BY <2>1, <3>2 DEF UnknownStates, Blocks, U
  <2>3. SegmentsLead'
    BY <2>1 DEF SegmentsLead, Evaluated
  <2>4. PassEnds'
    BY <1>1, <2>1 DEF PassEnds
  <2> QED BY <2>1, <2>2, <2>3, <2>4
<1> QED BY <1>3, <1>4, <1>5 DEF PlainInv

(* The steps that leave the graph as it is.                                *)
LEMMA PlainInvKept ==
    ASSUME OrderInv, PlainInv, UNCHANGED <<label, worklist, incoming>>,
           UNCHANGED <<image, leaders, discovered, lifted, pass>>,
           pc' = "done" => pc = "done" \/ ~MayEvaluate
    PROVE  PlainInv'
<1>1. /\ PlainCode' <=> PlainCode
      /\ Found' = Found /\ Decodable' = Decodable
      /\ ReachableCode' = ReachableCode /\ (TooMany' <=> TooMany)
  BY CodeStays
<1>2. UnknownStates => UnknownStates'
  BY DEF UnknownStates, Blocks
<1>3. SegmentsLead => SegmentsLead'
  <2>1. \A va : Segment(leaders, va)' = Segment(leaders, va)
    BY DEF Segment, RunsOn, Runs, Bytes, Decodes, NextVa, Terminates, Address
  <2>2. \A va : Exits(leaders, va)' = Exits(leaders, va)
    BY <2>1 DEF Exits, Bytes, Decodes, NextVa, Terminates, Flow, Address
  <2>3. Evaluated' = Evaluated /\ Range(label)' = Range(label)
    BY DEF Evaluated
  <2> QED BY <2>1, <2>2, <2>3 DEF SegmentsLead
<1>4. PassEnds => PassEnds'
  <2>1. Len(label) \in Nat
    BY LenProperties DEF OrderInv
  <2> QED BY <2>1, ConstantsAssumption DEF PassEnds, MayEvaluate
<1>5. FoundAtOnce => FoundAtOnce'
  BY <1>1 DEF FoundAtOnce
<1> QED BY <1>1, <1>2, <1>3, <1>4, <1>5 DEF PlainInv

LEMMA PlainInvAlways == NativeSpec => [](NativeInv /\ PlainInv)
<1>1. NativeInit => NativeInv /\ PlainInv
  BY NativeInvInit, PlainInvInit
<1>2. NativeInv /\ PlainInv /\ [NativeNext]_nativeVars => NativeInv' /\ PlainInv'
  <2> SUFFICES ASSUME NativeInv, PlainInv, [NativeNext]_nativeVars
               PROVE  NativeInv' /\ PlainInv'
    OBVIOUS
  <2>1. NativeInv'
    BY NativeInvNext
  <2>2. CASE Evaluate
    BY <2>1, <2>2, EvaluateKeepsPlainInv
  <2>3. CASE Again
    BY <2>1, <2>3, AgainKeepsPlainInv
  <2>4. CASE EndPass
    BY <2>1, <2>4, PlainInvKept DEF NativeInv, EndPass, BuildPhis, blocks, queue, segments
  <2>5. CASE Return
    BY <2>1, <2>5, PlainInvKept DEF NativeInv, Return, vars, blocks, queue
  <2>6. CASE UNCHANGED nativeVars
    BY <2>1, <2>6, PlainInvKept DEF NativeInv, nativeVars, vars, blocks, queue, segments
  <2> QED BY <2>2, <2>3, <2>4, <2>5, <2>6 DEF NativeNext
<1> QED BY <1>1, <1>2, PTL DEF NativeSpec

(* In code whose jumps depend on no register two passes find all leaders,  *)
(* though each window hides a part of the code.                            *)
THEOREM SecondPassSettles == NativeSpec => []TwoPassesSettle
<1>1. NativeInv /\ PlainInv => TwoPassesSettle
  <2> SUFFICES ASSUME NativeInv, PlainInv, PlainCode, returned, worklist = <<>>
               PROVE  Settled /\ pass <= 1
    BY DEF TwoPassesSettle
  <2>1. discovered = Found /\ ~TooMany
    BY FullPassFindsAll
  <2>2. (pass >= 1 => leaders = Found) /\ ~(pass >= 2) /\ pass \in Nat
    BY <2>1 DEF PlainInv, FoundAtOnce, NativeInv, LeaderInv
  <2>3. CASE pass >= 1
    BY <2>1, <2>2, <2>3 DEF Settled
  <2>4. CASE pass = 0
    <3>1. Settled \/ pass + 1 >= MaxPasses
      BY DEF NativeInv, LeaderInv
    <3> QED BY <3>1, <2>4, NativeAssumption
  <2> QED BY <2>2, <2>3, <2>4
<1> QED BY <1>1, PlainInvAlways, PTL

(* The blocks hold the code that control reaches, no more and no less,     *)
(* unless a window or max_blocks cuts the graph short.                     *)
THEOREM GraphCoversCode == NativeSpec => []CoversReachableCode
<1>1. NativeInv /\ PlainInv => CoversReachableCode
  <2> SUFFICES ASSUME NativeInv, PlainInv, PlainCode, worklist = <<>>,
                      \A b \in Blocks : ~CutByWindow(b)
               PROVE  UNION Range(lifted) = ReachableCode
    BY DEF CoversReachableCode
  <2> DEFINE U == UNION Range(lifted)
  <2>1. /\ image \in Images /\ label \in Seq(Vpc) /\ label # <<>>
        /\ label[1] = EntryVpc /\ SegmentsLead /\ Range(label) \subseteq discovered
        /\ discovered \cap Decodable \subseteq ReachableCode
        /\ DOMAIN lifted = Blocks /\ OrderInv
    BY DEF NativeInv, LeaderInv, SegmentsInv, OrderInv, PlainInv
  <2>2. Blocks = 1 .. Len(label) /\ Len(label) \in Nat /\ 1 \in Blocks
    <3>1. Blocks = 1 .. Len(label) /\ Len(label) \in Nat
      BY <2>1, LenProperties DEF Blocks
    <3>2. 1 \in Blocks
      BY <2>1, <3>1, EmptySeq
    <3> QED BY <3>1, <3>2
  <2>3. \A b \in Blocks : /\ lifted[b] = Segment(leaders, label[b])
                          /\ Exits(leaders, label[b]) \subseteq Range(label)
                          /\ label[b] \in Vpc /\ label[b] \in Range(label)
    <3>1. Evaluated = Len(label)
      BY FullPassFindsAll
    <3>2. \A b \in Blocks : label[b] \in Vpc /\ label[b] \in Range(label)
      BY <2>1, <2>2 DEF Range, Blocks
    <3> QED BY <2>1, <2>2, <3>1, <3>2 DEF SegmentsLead
  <2>4. ASSUME NEW a PROVE a \in U <=> \E b \in Blocks : a \in lifted[b]
    BY <2>1 DEF Range
  <2>5. ASSUME NEW a \in U PROVE a \in ReachableCode
    <3>1. PICK b \in Blocks : a \in Segment(leaders, label[b])
      BY <2>3, <2>4
    <3>2. label[b] \in Decodable => label[b] \in ReachableCode
      BY <2>1, <2>3
    <3> QED BY <3>1, <3>2, <2>1, <2>3, SegmentIsReached
  <2>6. ASSUME NEW v \in Range(label), v \in Decodable PROVE v \in U
    <3>1. PICK b \in Blocks : label[b] = v
      BY DEF Range, Blocks
    <3>2. v \in Nat /\ v \in Address /\ image[v].op # "invalid"
          /\ NextVa(v) = v + image[v].size /\ image[v].size <= Window
          /\ NextVa(v) \in Nat /\ image[v].size \in Nat /\ Window \in Nat
          /\ NextVa(v) <= ImageLen
      BY <2>1, <2>6, ImageTyped DEF Decodable
    <3>3. NextVa(v) <= v + Window
      BY <3>2
    <3>4. Decodes(v, v)
      BY <3>2, <3>3, <2>1, DecodeBounds
    <3>5. v \in Segment(leaders, v)
      BY <3>4, SegmentSteps
    <3> QED BY <3>1, <3>5, <2>3, <2>4
  <2>7. EntryVpc \in Decodable => EntryVpc \in U
    <3>1. EntryVpc \in Range(label)
      BY <2>1, <2>2, <2>3
    <3> QED BY <3>1, <2>6
  <2>8. ASSUME NEW a \in U, NEW y \in Flow(a), y \in Decodable PROVE y \in U
    <3>1. PICK b \in Blocks : a \in lifted[b]
      BY <2>4
    <3>2. a \in Segment(leaders, label[b])
      BY <3>1, <2>3
    <3>3. a \in Address /\ y \in Vpc /\ label[b] \in Nat /\ a \in Nat
          /\ NextVa(a) \in Nat /\ a < NextVa(a) /\ NextVa(a) = a + image[a].size
      <4>1. a \in Address
        BY <3>2, SegmentSteps
      <4>2. y \in Address
        BY <2>8 DEF Decodable
      <4>3. image \in Images
        BY <2>1
      <4>4. a \in Nat /\ NextVa(a) \in Nat /\ a < NextVa(a)
            /\ NextVa(a) = a + image[a].size
        BY <4>1, <4>3, ImageTyped
      <4>5. y \in Vpc
        BY <4>2, <4>3, ImageTyped
      <4>6. label[b] \in Nat
        <5>1. label[b] \in Vpc
          BY <2>3
        <5>2. Vpc = 0 .. Words - 1 /\ Words \in Nat
          BY <4>3, ImageTyped
        <5> QED BY <5>1, <5>2
      <4> QED BY <4>1, <4>4, <4>5, <4>6
    <3>4. CASE Terminates(a)
      <4>1. y \in Exits(leaders, label[b])
        BY <3>2, <3>3, <3>4 DEF Exits
      <4> QED BY <4>1, <2>3, <2>6, <2>8
    <3>5. CASE ~Terminates(a)
      <4>1. y = NextVa(a)
        BY <3>3, <3>5 DEF Flow, Terminates
      <4>2. CASE y \in lifted[b]
        BY <4>2, <2>4
      <4>3. CASE y \notin lifted[b]
        <5>1. /\ lifted[b] \in SUBSET Address
              /\ Max(lifted[b]) \in lifted[b]
              /\ \A x \in lifted[b] : Max(lifted[b]) >= x
          BY <3>1, <2>3, SegmentSteps, LastAddress
        <5>2. Max(lifted[b]) = a
          <6>1. ~(a < Max(lifted[b]))
            BY <3>2, <5>1, <4>1, <4>3, <2>1, <2>3, SegmentIsChain
          <6>2. Max(lifted[b]) \in Nat /\ Max(lifted[b]) >= a
            BY <5>1, <3>1, <2>1, ImageTyped
          <6> QED BY <6>1, <6>2, <3>3
        <5>3. Decodes(label[b], y)
          <6>1. SUFFICES ASSUME ~Decodes(label[b], y) PROVE FALSE
            OBVIOUS
          <6>2. CutByWindow(b)
            BY <6>1, <5>2, <4>1, <3>1, <3>3, <3>5, <2>8 DEF CutByWindow
          <6> QED BY <6>2
        <5>4. y \in leaders
          <6>1. SUFFICES ASSUME y \notin leaders PROVE FALSE
            OBVIOUS
          <6>2. Runs(leaders, label[b], y)
            BY <6>1, <5>3 DEF Runs
          <6>3. y \in Segment(leaders, label[b])
            BY <6>2, <4>1, <3>2, <3>5, SegmentSteps
          <6> QED BY <6>3, <4>3, <2>3
        <5>5. y \in Exits(leaders, label[b])
          BY <3>2, <3>3, <3>5, <4>1, <5>3, <5>4 DEF Exits
        <5> QED BY <5>5, <2>3, <2>6, <2>8
      <4> QED BY <4>2, <4>3
    <3> QED BY <3>4, <3>5
  <2>9. U \in SUBSET Decodable
    BY <2>5 DEF ReachableCode
  <2>10. ASSUME NEW a \in ReachableCode PROVE a \in U
    <3> HIDE DEF U
    <3>1. \A x \in U : Flow(x) \cap Decodable \subseteq U
      BY <2>8
    <3> QED BY <3>1, <2>7, <2>9 DEF ReachableCode
  <2> QED BY <2>5, <2>10
<1> QED BY <1>1, PlainInvAlways, PTL

=============================================================================
