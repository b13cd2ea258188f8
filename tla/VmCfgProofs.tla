---------------------------- MODULE VmCfgProofs ----------------------------
(***************************************************************************)
(* Proofs about VmCfg for every set of VPCs, every way the segments may    *)
(* end and every max_blocks: types, instruction ids, the dispatcher, the   *)
(* refinement of GraphWalk, the order of the runs, and the edge list.      *)
(***************************************************************************)
EXTENDS VmCfg, TLAPS, SequenceTheorems, FiniteSetTheorems

-----------------------------------------------------------------------------
(* The helpers *)

(* get_block keeps every block it finds and has one for v afterwards.      *)
LEMMA GetBlockProperties ==
    ASSUME NEW L \in Seq(Keys), NEW v \in Keys
    PROVE  /\ GetBlock(L, v) \in Seq(Keys)
           /\ Len(GetBlock(L, v)) \in Nat
           /\ Len(GetBlock(L, v)) >= Len(L)
           /\ \A i \in 1 .. Len(L) : GetBlock(L, v)[i] = L[i]
           /\ \E i \in 1 .. Len(GetBlock(L, v)) : GetBlock(L, v)[i] = v
<1>1. CASE Contains(L, v)
  BY <1>1, LenProperties DEF GetBlock, Contains
<1>2. CASE ~Contains(L, v)
  <2>1. /\ Append(L, v) \in Seq(Keys)
        /\ Len(Append(L, v)) = Len(L) + 1
        /\ \A i \in 1 .. Len(L) : Append(L, v)[i] = L[i]
        /\ Append(L, v)[Len(L) + 1] = v
        /\ Len(L) \in Nat
    BY AppendProperties, LenProperties
  <2>2. GetBlock(L, v) = Append(L, v)
    BY <1>2 DEF GetBlock
  <2>3. Len(L) + 1 \in 1 .. Len(L) + 1
    BY <2>1
  <2> QED BY <2>1, <2>2, <2>3
<1> QED BY <1>1, <1>2

(* vpc_to_block finds the block of a key in the table.                     *)
LEMMA IdOfProperties ==
    ASSUME NEW L \in Seq(Keys), NEW v, \E i \in 1 .. Len(L) : L[i] = v
    PROVE  IdOf(L, v) \in 1 .. Len(L) /\ L[IdOf(L, v)] = v
<1>1. DOMAIN L = 1 .. Len(L)
  BY LenProperties
<1>2. \E i \in DOMAIN L : L[i] = v
  BY <1>1
<1> QED BY <1>1, <1>2 DEF IdOf

(* append_renumbered gives a segment's instructions ids of their own, all  *)
(* from the counter on and below its new value, in their old order.        *)
LEMMA RenumberingProperties ==
    ASSUME NEW ids \in SUBSET Nat, IsFiniteSet(ids), NEW n \in Nat
    PROVE  /\ Cardinality(ids) \in Nat
           /\ DOMAIN Renumbering(ids, n) = ids
           /\ \A k \in ids : /\ Renumbering(ids, n)[k] \in Nat
                             /\ Renumbering(ids, n)[k] >= n
                             /\ Renumbering(ids, n)[k] < n + Cardinality(ids)
           /\ \A j, k \in ids :
                j < k => Renumbering(ids, n)[j] < Renumbering(ids, n)[k]
<1> DEFINE Below(k) == {j \in ids : j < k}
<1>1. Cardinality(ids) \in Nat
  BY FS_CardinalityType
<1>2. \A k \in ids : Renumbering(ids, n)[k] = n + Cardinality(Below(k))
  BY DEF Renumbering
<1>3. ASSUME NEW k \in ids
      PROVE  /\ Cardinality(Below(k)) \in Nat
             /\ Cardinality(Below(k)) < Cardinality(ids)
             /\ IsFiniteSet(Below(k))
  <2>1. Below(k) \subseteq ids /\ Below(k) # ids
    <3>1. k \notin Below(k)
      OBVIOUS
    <3> QED BY <3>1
  <2>2. /\ IsFiniteSet(Below(k))
        /\ Cardinality(Below(k)) <= Cardinality(ids)
        /\ Cardinality(ids) = Cardinality(Below(k)) => ids = Below(k)
    BY <2>1, FS_Subset
  <2>3. Cardinality(Below(k)) \in Nat
    BY <2>2, FS_CardinalityType
  <2> QED BY <2>1, <2>2, <2>3, <1>1
<1>4. ASSUME NEW j \in ids, NEW k \in ids, j < k
      PROVE  Cardinality(Below(j)) < Cardinality(Below(k))
  <2>1. ASSUME NEW x \in Below(j) PROVE x \in Below(k)
    <3>1. x \in Nat /\ j \in Nat /\ k \in Nat /\ x < j
      OBVIOUS
    <3> QED BY <3>1, <1>4
  <2>2. j \in Below(k) /\ j \notin Below(j)
    BY <1>4
  <2>3. /\ Cardinality(Below(j)) <= Cardinality(Below(k))
        /\ Cardinality(Below(k)) = Cardinality(Below(j))
             => Below(k) = Below(j)
    BY <2>1, <1>3, FS_Subset
  <2> QED BY <2>2, <2>3, <1>3
<1>5. DOMAIN Renumbering(ids, n) = ids
  BY DEF Renumbering
<1> HIDE DEF Below
<1>6. ASSUME NEW k \in ids
      PROVE  /\ Renumbering(ids, n)[k] \in Nat
             /\ Renumbering(ids, n)[k] >= n
             /\ Renumbering(ids, n)[k] < n + Cardinality(ids)
  BY <1>1, <1>2, <1>3
<1>7. ASSUME NEW j \in ids, NEW k \in ids, j < k
      PROVE  Renumbering(ids, n)[j] < Renumbering(ids, n)[k]
  BY <1>2, <1>3, <1>4, <1>7
<1> QED BY <1>1, <1>5, <1>6, <1>7

(* Sequences over a set are sequences over a larger one.                   *)
LEMMA SeqMonotone ==
    ASSUME NEW S, NEW T, S \subseteq T, NEW s \in Seq(S)
    PROVE  s \in Seq(T)
<1>1. /\ Len(s) \in Nat
      /\ s \in [1 .. Len(s) -> S]
  BY LenProperties
<1>2. s \in [1 .. Len(s) -> T]
  BY <1>1
<1> QED BY <1>1, <1>2, SeqDef

-----------------------------------------------------------------------------
(* Types *)

Terminators == [kind: {"UNREACHABLE", "RET", "CJMP"}, target: Nat,
                fallthrough: Nat, condition: Condition]
InjectedVpc == {NoVpc} \cup {Inject(v) : v \in Vpc}
Items(n) == [key: Keys, start: Nat, inject: InjectedVpc, block: 1 .. n]
Edges(n) == [from: 1 .. n, to: 1 .. n, back: BOOLEAN]

\* What Store is given: a table L that extends the table of blocks, a
\* terminator, and what a segment left behind.
StoreInput(L, t, ids, stop) ==
    /\ L \in Seq(Keys)
    /\ Len(L) >= Len(label)
    /\ \A i \in 1 .. Len(label) : L[i] = label[i]
    /\ t \in Terminators
    /\ ids \in SUBSET Nat /\ IsFiniteSet(ids)
    /\ stop \in Nat

\* The type invariant, with the number of blocks named.
Typed ==
    /\ label \in Seq(Keys)
    /\ Len(label) \in Nat
    /\ DOMAIN label = 1 .. Len(label)
    /\ term \in [1 .. Len(label) -> Terminators]
    /\ instrs \in [1 .. Len(label) -> SUBSET Nat]
    /\ edges \in Seq(Edges(Len(label)))
    /\ wl \in Seq(Items(Len(label)))
    /\ processed \in SUBSET Keys
    /\ dispatcher \in Nat
    /\ nextId \in Nat
    /\ pc \in {"explore", "done"}

LEMMA TypeOKIsTyped == TypeOK <=> Typed
<1>1. label \in Seq(Keys) =>
        Len(label) \in Nat /\ DOMAIN label = 1 .. Len(label)
  BY LenProperties
<1>2. label \in Seq(Keys) => Block = 1 .. Len(label)
  BY <1>1 DEF Block
<1> QED
  BY <1>1, <1>2 DEF TypeOK, Typed, Terminators, InjectedVpc, Items, Edges

(* A work item taken from the list has a key and a block of the table.     *)
LEMMA WorkIsTyped ==
    ASSUME Typed, MayIterate
    PROVE  /\ Work \in Items(Len(label))
           /\ Work.block \in 1 .. Len(label) /\ Work.key \in Keys
           /\ Tail(wl) \in Seq(Items(Len(label)))
           /\ Work = wl[1] /\ 1 \in DOMAIN wl
<1>1. wl \in Seq(Items(Len(label))) /\ wl # <<>>
  BY DEF Typed, MayIterate
<1>2. Head(wl) \in Items(Len(label)) /\ Tail(wl) \in Seq(Items(Len(label)))
  BY <1>1, HeadTailProperties
<1>3. Head(wl) = wl[1] /\ 1 \in DOMAIN wl
  BY <1>1, EmptySeq, LenProperties
<1> QED BY <1>2, <1>3 DEF Work, Items

(* A renumbered condition is a condition.                                  *)
LEMMA RemappedIsCondition ==
    ASSUME NEW c \in Condition, NEW ids \in SUBSET Nat, IsFiniteSet(ids),
           NEW n \in Nat
    PROVE  Remapped(c, Renumbering(ids, n)) \in Condition
<1>1. CASE c[1] = "instr" /\ c[2] \in ids
  <2>1. Renumbering(ids, n)[c[2]] \in Nat
    BY <1>1, RenumberingProperties
  <2>2. DOMAIN Renumbering(ids, n) = ids
    BY RenumberingProperties
  <2> QED BY <1>1, <2>1, <2>2 DEF Remapped, InstrRef, Condition
<1>2. CASE ~(c[1] = "instr" /\ c[2] \in ids)
  <2>1. DOMAIN Renumbering(ids, n) = ids
    BY RenumberingProperties
  <2> QED BY <1>2, <2>1 DEF Remapped
<1> QED BY <1>1, <1>2

(* What a run leaves in the tables of blocks and the counters.             *)
LEMMA StoreEffect ==
    ASSUME Typed, NEW L, NEW t, NEW ids, NEW stop,
           StoreInput(L, t, ids, stop), Store(L, t, ids, stop)
    PROVE  /\ label' = L /\ Len(L) \in Nat /\ DOMAIN L = 1 .. Len(L)
           /\ Work.block \in 1 .. Len(L)
           /\ term' \in [1 .. Len(L) -> Terminators]
           /\ \A b \in 1 .. Len(label) : b # Work.block => term'[b] = term[b]
           /\ \A b \in 1 .. Len(L) : b > Len(label) =>
                term'[b] = Ends("UNREACHABLE") /\ instrs'[b] = {}
           /\ term'[Work.block].condition
                = Remapped(t.condition, Renumbering(ids, nextId))
           /\ instrs' \in [1 .. Len(L) -> SUBSET Nat]
           /\ \A b \in 1 .. Len(label) : b # Work.block =>
                instrs'[b] = instrs[b]
           /\ instrs'[Work.block] = instrs[Work.block]
                \cup {Renumbering(ids, nextId)[k] : k \in ids}
           /\ processed' \in SUBSET Keys
           /\ dispatcher' \in Nat
           /\ nextId' = nextId + Cardinality(ids) /\ nextId' \in Nat
           /\ pc' = pc
<1> DEFINE b == Work.block
           R == Renumbering(ids, nextId)
           T == Pad(term, Len(L), Ends("UNREACHABLE"))
           I == Pad(instrs, Len(L), {})
<1>1. Len(L) \in Nat /\ DOMAIN L = 1 .. Len(L) /\ Len(label) \in Nat
      /\ 1 .. Len(label) \subseteq 1 .. Len(L)
  BY LenProperties DEF StoreInput, Typed
<1>2. MayIterate
  BY DEF Store
<1>3. b \in 1 .. Len(label) /\ b \in 1 .. Len(L) /\ Work.key \in Keys
  BY <1>1, <1>2, WorkIsTyped
<1>4. /\ DOMAIN R = ids
      /\ \A k \in ids : R[k] \in Nat
      /\ Cardinality(ids) \in Nat
  BY RenumberingProperties DEF StoreInput, Typed
<1>5. /\ T \in [1 .. Len(L) -> Terminators]
      /\ \A i \in 1 .. Len(label) : T[i] = term[i]
      /\ \A i \in 1 .. Len(L) : i > Len(label) => T[i] = Ends("UNREACHABLE")
  <2>1. Ends("UNREACHABLE") \in Terminators
    BY DEF Ends, Terminators, Condition
  <2>2. DOMAIN term = 1 .. Len(label)
        /\ \A i \in 1 .. Len(label) : term[i] \in Terminators
    BY DEF Typed
  <2> QED BY <2>1, <2>2, <1>1 DEF Pad
<1>6. /\ I \in [1 .. Len(L) -> SUBSET Nat]
      /\ \A i \in 1 .. Len(label) : I[i] = instrs[i]
      /\ \A i \in 1 .. Len(L) : i > Len(label) => I[i] = {}
  <2>1. DOMAIN instrs = 1 .. Len(label)
        /\ \A i \in 1 .. Len(label) : instrs[i] \in SUBSET Nat
    BY DEF Typed
  <2> QED BY <2>1, <1>1 DEF Pad
<1>7. /\ label' = L
      /\ term' = [T EXCEPT ![b] = [t EXCEPT !.condition = Remapped(@, R)]]
      /\ instrs' = [I EXCEPT ![b] = @ \cup {R[k] : k \in ids}]
      /\ processed' = processed \cup {Work.key}
      /\ nextId' = nextId + Cardinality(ids)
      /\ pc' = pc
      /\ dispatcher' = IF dispatcher = 0 THEN stop ELSE dispatcher
  BY DEF Store, Latch, Counter
<1>8. [t EXCEPT !.condition = Remapped(@, R)] \in Terminators
      /\ [t EXCEPT !.condition = Remapped(@, R)].condition
           = Remapped(t.condition, R)
  <2>1. t \in Terminators /\ t.condition \in Condition
    BY DEF StoreInput, Terminators
  <2>2. Remapped(t.condition, R) \in Condition
    BY <2>1, RemappedIsCondition DEF StoreInput, Typed
  <2> HIDE DEF R
  <2> QED BY <2>1, <2>2 DEF Terminators
<1> HIDE DEF T, I, R, b
<1>9. /\ term' \in [1 .. Len(L) -> Terminators]
      /\ \A i \in 1 .. Len(label) : i # b => term'[i] = term[i]
      /\ \A i \in 1 .. Len(L) : i > Len(label) =>
            term'[i] = Ends("UNREACHABLE")
      /\ term'[b].condition = Remapped(t.condition, R)
  BY <1>1, <1>3, <1>5, <1>7, <1>8
<1>10. /\ instrs' \in [1 .. Len(L) -> SUBSET Nat]
       /\ \A i \in 1 .. Len(label) : i # b => instrs'[i] = instrs[i]
       /\ \A i \in 1 .. Len(L) : i > Len(label) => instrs'[i] = {}
       /\ instrs'[b] = instrs[b] \cup {R[k] : k \in ids}
  BY <1>1, <1>3, <1>4, <1>6, <1>7
<1>11. processed' \in SUBSET Keys
  BY <1>3, <1>7 DEF Typed
<1>12. dispatcher' \in Nat /\ nextId' \in Nat
  BY <1>4, <1>7 DEF Typed, StoreInput
<1> QED BY <1>1, <1>3, <1>7, <1>9, <1>10, <1>11, <1>12 DEF b, R

(* A segment that ends recovery at its block adds no block.                *)
LEMMA StopInput ==
    ASSUME Typed, NEW kind \in {"RET", "UNREACHABLE"}, NEW ids \in SUBSET Nat,
           IsFiniteSet(ids), NEW stop \in Nat
    PROVE  StoreInput(label, Ends(kind), ids, stop)
<1>1. Ends(kind) \in Terminators
  BY DEF Ends, Terminators, Condition
<1> QED BY <1>1 DEF StoreInput, Typed

(* A branch adds the blocks its arms need; each arm finds its own.         *)
LEMMA BranchInput ==
    ASSUME Typed, NEW t \in Vpc, NEW f \in Vpc, NEW ids \in SUBSET Nat,
           IsFiniteSet(ids), NEW c \in Conditions(ids), NEW stop \in Nat,
           NEW L, L = GetBlock(GetBlock(label, t), f)
    PROVE  /\ StoreInput(L, CJmp(IdOf(L, t), IdOf(L, f), c), ids, stop)
           /\ IdOf(L, t) \in 1 .. Len(L) /\ L[IdOf(L, t)] = t
           /\ IdOf(L, f) \in 1 .. Len(L) /\ L[IdOf(L, f)] = f
           /\ c \in Condition
<1> DEFINE M == GetBlock(label, t)
<1>1. label \in Seq(Keys) /\ Len(label) \in Nat /\ t \in Keys /\ f \in Keys
  BY DEF Typed, Keys
<1>2. /\ M \in Seq(Keys) /\ Len(M) \in Nat /\ Len(M) >= Len(label)
      /\ \A i \in 1 .. Len(label) : M[i] = label[i]
      /\ \E i \in 1 .. Len(M) : M[i] = t
  BY <1>1, GetBlockProperties
<1> HIDE DEF M
<1>3. /\ GetBlock(M, f) \in Seq(Keys)
      /\ Len(GetBlock(M, f)) \in Nat
      /\ Len(GetBlock(M, f)) >= Len(M)
      /\ \A i \in 1 .. Len(M) : GetBlock(M, f)[i] = M[i]
      /\ \E i \in 1 .. Len(GetBlock(M, f)) : GetBlock(M, f)[i] = f
  BY <1>1, <1>2, GetBlockProperties
<1>4. L = GetBlock(M, f)
  BY DEF M
<1>5. /\ L \in Seq(Keys) /\ Len(L) \in Nat /\ Len(L) >= Len(label)
      /\ \A i \in 1 .. Len(label) : L[i] = label[i]
      /\ \E i \in 1 .. Len(L) : L[i] = t
      /\ \E i \in 1 .. Len(L) : L[i] = f
  <2>1. Len(L) >= Len(label) /\ 1 .. Len(label) \subseteq 1 .. Len(M)
        /\ 1 .. Len(M) \subseteq 1 .. Len(L)
    BY <1>1, <1>2, <1>3, <1>4
  <2>2. \A i \in 1 .. Len(label) : L[i] = label[i]
    BY <1>2, <1>3, <1>4, <2>1
  <2>3. \E i \in 1 .. Len(L) : L[i] = t
    <3>1. PICK i \in 1 .. Len(M) : M[i] = t
      BY <1>2
    <3> QED BY <3>1, <1>3, <1>4, <2>1
  <2> QED BY <1>3, <1>4, <2>1, <2>2, <2>3
<1>6. IdOf(L, t) \in 1 .. Len(L) /\ L[IdOf(L, t)] = t
  BY <1>5, IdOfProperties
<1>7. IdOf(L, f) \in 1 .. Len(L) /\ L[IdOf(L, f)] = f
  BY <1>5, IdOfProperties
<1>8. c \in Condition
  BY DEF Conditions, Condition, InstrRef
<1>9. CJmp(IdOf(L, t), IdOf(L, f), c) \in Terminators
  <2>1. IdOf(L, t) \in Nat /\ IdOf(L, f) \in Nat
    BY <1>5, <1>6, <1>7
  <2> QED BY <2>1, <1>8 DEF CJmp, Terminators
<1> QED BY <1>5, <1>6, <1>7, <1>8, <1>9 DEF StoreInput

LEMMA ItemsMonotone ==
    ASSUME NEW n \in Nat, NEW m \in Nat, n <= m, NEW W \in Seq(Items(n))
    PROVE  W \in Seq(Items(m))
<1>1. 1 .. n \subseteq 1 .. m
  OBVIOUS
<1>2. Items(n) \subseteq Items(m)
  BY <1>1 DEF Items
<1> QED BY <1>2, SeqMonotone

LEMMA EdgesMonotone ==
    ASSUME NEW n \in Nat, NEW m \in Nat, n <= m, NEW E \in Seq(Edges(n))
    PROVE  E \in Seq(Edges(m))
<1>1. 1 .. n \subseteq 1 .. m
  OBVIOUS
<1>2. Edges(n) \subseteq Edges(m)
  BY <1>1 DEF Edges
<1> QED BY <1>2, SeqMonotone

(* Queueing an arm leaves the list as it is, or adds the arm's item.       *)
LEMMA PushProperties ==
    ASSUME NEW n \in Nat, NEW W \in Seq(Items(n)), NEW v \in Vpc,
           NEW b \in 1 .. n, dispatcher' \in Nat
    PROVE  /\ Push(W, v, b) \in Seq(Items(n))
           /\ \A i \in DOMAIN Push(W, v, b) :
                \/ i \in DOMAIN W /\ Push(W, v, b)[i] = W[i]
                \/ Push(W, v, b)[i] = Item(v, dispatcher', Inject(v), b)
<1> DEFINE x == Item(v, dispatcher', Inject(v), b)
<1>1. x \in Items(n)
  BY DEF Item, Items, InjectedVpc, Keys
<1> HIDE DEF x
<1>2. /\ Append(W, x) \in Seq(Items(n))
      /\ Len(Append(W, x)) = Len(W) + 1
      /\ \A i \in 1 .. Len(W) : Append(W, x)[i] = W[i]
      /\ Append(W, x)[Len(W) + 1] = x
      /\ DOMAIN Append(W, x) = 1 .. Len(W) + 1
      /\ DOMAIN W = 1 .. Len(W) /\ Len(W) \in Nat
  BY <1>1, AppendProperties, LenProperties
<1>3. CASE v \in processed'
  BY <1>3 DEF Push
<1>4. CASE v \notin processed'
  <2>1. Push(W, v, b) = Append(W, x)
    BY <1>4 DEF Push, x
  <2>2. ASSUME NEW i \in 1 .. Len(W) + 1
        PROVE  \/ i \in 1 .. Len(W) /\ Append(W, x)[i] = W[i]
               \/ Append(W, x)[i] = x
    <3>1. i \in 1 .. Len(W) \/ i = Len(W) + 1
      BY <1>2
    <3> QED BY <3>1, <1>2
  <2> QED BY <2>1, <2>2, <1>2 DEF x
<1> QED BY <1>3, <1>4

-----------------------------------------------------------------------------
(* TypeOK *)

LEMMA TypedAtStart == Init => Typed
<1> SUFFICES ASSUME Init PROVE Typed
  OBVIOUS
<1>1. /\ label = <<EntryVa>> /\ label \in Seq(Keys) /\ Len(label) = 1
      /\ DOMAIN label = 1 .. 1
  BY DEF Init, Keys
<1>2. Ends("UNREACHABLE") \in Terminators
  BY DEF Ends, Terminators, Condition
<1>3. term \in [1 .. 1 -> Terminators] /\ instrs \in [1 .. 1 -> SUBSET Nat]
  BY <1>2 DEF Init
<1>4. wl \in Seq(Items(1))
  <2>1. Item(EntryVa, EntryVa, NoVpc, 1) \in Items(1)
    BY ConstantsAssumption DEF Item, Items, Keys, InjectedVpc
  <2> HIDE DEF Item
  <2> QED BY <2>1 DEF Init
<1>5. edges \in Seq(Edges(1))
  BY DEF Init
<1> QED BY <1>1, <1>3, <1>4, <1>5 DEF Init, Typed

LEMMA RunStopTyped ==
    ASSUME Typed, NEW kind \in {"RET", "UNREACHABLE"}, NEW ids \in SUBSET Nat,
           IsFiniteSet(ids), NEW stop \in Nat, RunStop(kind, ids, stop)
    PROVE  Typed'
<1>1. StoreInput(label, Ends(kind), ids, stop)
  BY StopInput
<1>2. Store(label, Ends(kind), ids, stop)
  BY DEF RunStop
<1>3. /\ label' = label
      /\ term' \in [1 .. Len(label) -> Terminators]
      /\ instrs' \in [1 .. Len(label) -> SUBSET Nat]
      /\ processed' \in SUBSET Keys
      /\ dispatcher' \in Nat /\ nextId' \in Nat /\ pc' = pc
  BY <1>1, <1>2, StoreEffect
<1>4. wl' \in Seq(Items(Len(label))) /\ edges' = edges
  BY <1>2, WorkIsTyped DEF RunStop, Store
<1> QED BY <1>3, <1>4 DEF Typed

LEMMA RunBranchTyped ==
    ASSUME Typed, NEW t \in Vpc, NEW f \in Vpc, NEW ids \in SUBSET Nat,
           IsFiniteSet(ids), NEW c \in Conditions(ids), NEW stop \in Nat,
           RunBranch(t, f, c, ids, stop)
    PROVE  Typed'
<1> DEFINE L == GetBlock(GetBlock(label, t), f)
           x == IdOf(L, t)
           y == IdOf(L, f)
           b == Work.block
<1>1. /\ StoreInput(L, CJmp(x, y, c), ids, stop)
      /\ x \in 1 .. Len(L) /\ y \in 1 .. Len(L)
  BY BranchInput
<1>2. /\ Store(L, CJmp(x, y, c), ids, stop)
      /\ edges' = edges \o << [from |-> b, to |-> x, back |-> IsBack(t)],
                              [from |-> b, to |-> y, back |-> IsBack(f)] >>
      /\ wl' = Push(Push(Tail(wl), t, x), f, y)
  BY DEF RunBranch
<1> HIDE DEF L, x, y
<1>3. /\ label' = L /\ Len(L) \in Nat /\ DOMAIN L = 1 .. Len(L)
      /\ b \in 1 .. Len(L)
      /\ term' \in [1 .. Len(L) -> Terminators]
      /\ instrs' \in [1 .. Len(L) -> SUBSET Nat]
      /\ processed' \in SUBSET Keys
      /\ dispatcher' \in Nat /\ nextId' \in Nat /\ pc' = pc
  BY <1>1, <1>2, StoreEffect
<1>4. L \in Seq(Keys) /\ Len(label) \in Nat /\ Len(label) <= Len(L)
  BY <1>1, <1>3 DEF StoreInput, Typed
<1>5. edges' \in Seq(Edges(Len(L)))
  <2>1. edges \in Seq(Edges(Len(L)))
    BY <1>3, <1>4, EdgesMonotone DEF Typed
  <2>2. [from |-> b, to |-> x, back |-> IsBack(t)] \in Edges(Len(L))
    BY <1>1, <1>3 DEF Edges, IsBack
  <2>3. [from |-> b, to |-> y, back |-> IsBack(f)] \in Edges(Len(L))
    BY <1>1, <1>3 DEF Edges, IsBack
  <2> DEFINE p == [from |-> b, to |-> x, back |-> IsBack(t)]
             q == [from |-> b, to |-> y, back |-> IsBack(f)]
  <2>4. p \in Edges(Len(L)) /\ q \in Edges(Len(L))
    BY <2>2, <2>3
  <2>5. edges' = edges \o <<p, q>>
    BY <1>2
  <2> HIDE DEF p, q
  <2>6. <<p, q>> \in Seq(Edges(Len(L)))
    BY <2>4
  <2> QED BY <2>1, <2>5, <2>6, ConcatProperties
<1>6. wl' \in Seq(Items(Len(L)))
  <2>1. Tail(wl) \in Seq(Items(Len(label)))
    BY <1>2, WorkIsTyped DEF Store
  <2>2. Tail(wl) \in Seq(Items(Len(L)))
    BY <2>1, <1>3, <1>4, ItemsMonotone
  <2>3. Push(Tail(wl), t, x) \in Seq(Items(Len(L)))
    BY <2>2, <1>1, <1>3, PushProperties
  <2>4. Push(Push(Tail(wl), t, x), f, y) \in Seq(Items(Len(L)))
    BY <2>3, <1>1, <1>3, PushProperties
  <2> QED BY <2>4, <1>2
<1> QED BY <1>3, <1>4, <1>5, <1>6 DEF Typed

\* What the actions choose is of the types the lemmas ask for.
LEMMA SegmentTypes ==
    /\ \A ids \in SegmentIds : ids \in SUBSET Nat /\ IsFiniteSet(ids)
    /\ \A stop \in StopVa : stop \in Nat
    /\ {} \in SUBSET Nat /\ IsFiniteSet({}) /\ 0 \in Nat
BY ConstantsAssumption, FS_EmptySet

(* The cases of a step: a segment that ends recovery, a branch, or a step  *)
(* that leaves the graph alone.                                            *)
LEMMA StepCases ==
    ASSUME [Next]_vars
    PROVE  \/ \E kind \in {"RET", "UNREACHABLE"}, ids \in SUBSET Nat,
                 stop \in StopVa \cup {0} :
                IsFiniteSet(ids) /\ RunStop(kind, ids, stop)
           \/ \E t, f \in Vpc, ids \in SUBSET Nat, stop \in StopVa :
              \E c \in Conditions(ids) :
                IsFiniteSet(ids) /\ RunBranch(t, f, c, ids, stop)
           \/ SkipItem
           \/ Finish
           \/ UNCHANGED vars
<1>1. CASE Run
  <2>1. CASE \E kind \in {"RET", "UNREACHABLE"}, ids \in SegmentIds,
                stop \in StopVa : RunStop(kind, ids, stop)
    BY <2>1, SegmentTypes
  <2>2. CASE RunStop("UNREACHABLE", {}, 0)
    BY <2>2, SegmentTypes
  <2>3. CASE \E t, f \in Vpc, ids \in SegmentIds \ {{}}, stop \in StopVa :
             \E c \in Conditions(ids) : t # f /\ RunBranch(t, f, c, ids, stop)
    BY <2>3, SegmentTypes
  <2> QED BY <1>1, <2>1, <2>2, <2>3 DEF Run
<1> QED BY <1>1 DEF Next

LEMMA TypedStep == Typed /\ [Next]_vars => Typed'
<1> SUFFICES ASSUME Typed, [Next]_vars PROVE Typed'
  OBVIOUS
<1>1. CASE \E kind \in {"RET", "UNREACHABLE"}, ids \in SUBSET Nat,
              stop \in StopVa \cup {0} :
                IsFiniteSet(ids) /\ RunStop(kind, ids, stop)
  BY <1>1, RunStopTyped, SegmentTypes
<1>2. CASE \E t, f \in Vpc, ids \in SUBSET Nat, stop \in StopVa :
           \E c \in Conditions(ids) :
                IsFiniteSet(ids) /\ RunBranch(t, f, c, ids, stop)
  BY <1>2, RunBranchTyped, SegmentTypes
<1>3. CASE SkipItem
  <2>1. wl' \in Seq(Items(Len(label)))
    BY <1>3, WorkIsTyped DEF SkipItem
  <2> QED BY <2>1, <1>3 DEF SkipItem, Typed, blocks
<1>4. CASE Finish
  BY <1>4 DEF Finish, Typed, blocks
<1>5. CASE UNCHANGED vars
  BY <1>5 DEF Typed, vars, blocks
<1> QED BY <1>1, <1>2, <1>3, <1>4, <1>5, StepCases

(* Whatever the segments are, the tables, the edges and the work items     *)
(* keep their types: every edge and every work item names a block.         *)
THEOREM VmTypeCorrect == Spec => []TypeOK
<1>1. Typed => TypeOK
  BY TypeOKIsTyped
<1> QED BY TypedAtStart, TypedStep, <1>1, PTL DEF Spec

-----------------------------------------------------------------------------
(* Instruction ids *)

(* A run gives its block ids that no block has, and moves the counter past *)
(* them.                                                                   *)
LEMMA StoreKeepsIdsUnique ==
    ASSUME Typed, IdsUnique, NEW L, NEW t, NEW ids, NEW stop,
           StoreInput(L, t, ids, stop), Store(L, t, ids, stop)
    PROVE  IdsUnique'
<1> DEFINE b == Work.block
           New == {Renumbering(ids, nextId)[k] : k \in ids}
<1>1. /\ label' = L /\ Len(L) \in Nat /\ DOMAIN L = 1 .. Len(L)
      /\ \A i \in 1 .. Len(L) : i > Len(label) => instrs'[i] = {}
      /\ \A i \in 1 .. Len(label) : i # b => instrs'[i] = instrs[i]
      /\ instrs'[b] = instrs[b] \cup New
      /\ nextId' = nextId + Cardinality(ids)
      /\ instrs' \in [1 .. Len(L) -> SUBSET Nat]
  BY StoreEffect
<1>2. /\ Cardinality(ids) \in Nat
      /\ \A n \in New : n \in Nat /\ n >= nextId /\ n < nextId'
  <2>1. ids \in SUBSET Nat /\ IsFiniteSet(ids) /\ nextId \in Nat
    BY DEF StoreInput, Typed
  <2>2. /\ Cardinality(ids) \in Nat
        /\ \A k \in ids :
             /\ Renumbering(ids, nextId)[k] \in Nat
             /\ Renumbering(ids, nextId)[k] >= nextId
             /\ Renumbering(ids, nextId)[k] < nextId + Cardinality(ids)
    BY <2>1, RenumberingProperties
  <2> QED BY <2>2, <1>1
<1>3. b \in 1 .. Len(label)
  BY WorkIsTyped DEF Store
<1>4. /\ DOMAIN label = 1 .. Len(label) /\ Len(label) \in Nat
      /\ nextId \in Nat /\ nextId' \in Nat
      /\ \A i \in 1 .. Len(label) : instrs[i] \in SUBSET Nat
      /\ \A i \in 1 .. Len(label) : \A n \in instrs[i] : n < nextId
      /\ \A i, j \in 1 .. Len(label) : i # j => instrs[i] \cap instrs[j] = {}
  <2>1. /\ DOMAIN label = 1 .. Len(label) /\ Len(label) \in Nat
        /\ nextId \in Nat
    BY DEF Typed
  <2>2. nextId' \in Nat
    BY <2>1, <1>1, <1>2
  <2>3. \A i \in 1 .. Len(label) : instrs[i] \in SUBSET Nat
    BY DEF Typed
  <2>4. /\ \A i \in 1 .. Len(label) : \A n \in instrs[i] : n < nextId
        /\ \A i, j \in 1 .. Len(label) :
                i # j => instrs[i] \cap instrs[j] = {}
    BY <2>1 DEF IdsUnique, Block
  <2> QED BY <2>1, <2>2, <2>3, <2>4
<1> HIDE DEF New, b
<1>5. ASSUME NEW i \in 1 .. Len(L)
      PROVE  \/ instrs'[i] = {}
             \/ i \in 1 .. Len(label) /\ i # b /\ instrs'[i] = instrs[i]
             \/ i = b /\ instrs'[i] = instrs[b] \cup New
  BY <1>1, <1>4
<1>6. ASSUME NEW i \in 1 .. Len(L), NEW n \in instrs'[i] PROVE n < nextId'
  <2>1. CASE n \in New
    BY <2>1, <1>2
  <2>2. CASE n \notin New
    <3>1. n \in instrs[i] /\ i \in 1 .. Len(label)
      BY <2>2, <1>3, <1>5
    <3>2. n < nextId /\ n \in Nat
      BY <3>1, <1>4
    <3> QED BY <3>2, <1>1, <1>2, <1>4
  <2> QED BY <2>1, <2>2
<1>7. ASSUME NEW i \in 1 .. Len(L), NEW j \in 1 .. Len(L), i # j,
             NEW n \in instrs'[i], n \in instrs'[j]
      PROVE  FALSE
  <2>1. n \in New => i = b /\ j = b
    <3>1. ASSUME NEW d \in 1 .. Len(label), n \in instrs[d], n \in New
          PROVE  FALSE
      <4>1. n < nextId /\ n >= nextId /\ n \in Nat
        BY <3>1, <1>2, <1>4
      <4> QED BY <4>1, <1>4
    <3>2. ASSUME NEW d \in 1 .. Len(L), n \in instrs'[d], n \in New
          PROVE  d = b
      BY <3>1, <3>2, <1>5
    <3> QED BY <1>7, <3>2
  <2>2. n \notin New
    BY <2>1, <1>7
  <2>3. /\ i \in 1 .. Len(label) /\ n \in instrs[i]
        /\ j \in 1 .. Len(label) /\ n \in instrs[j]
    BY <2>2, <1>3, <1>5, <1>7
  <2> QED BY <2>3, <1>4, <1>7
<1>8. Block' = 1 .. Len(L)
  BY <1>1 DEF Block
<1> QED BY <1>6, <1>7, <1>8 DEF IdsUnique

\* The condition a segment hands over is a result of its own instructions,
\* not of the last one.
LocalTo(c, ids) == c[1] = "instr" => c[2] \in ids /\ \E j \in ids : c[2] < j

(* The renumbered condition still is one.                                  *)
LEMMA StoreKeepsConditionLocal ==
    ASSUME Typed, ConditionIsLocal, NEW L, NEW t, NEW ids, NEW stop,
           StoreInput(L, t, ids, stop), Store(L, t, ids, stop),
           LocalTo(t.condition, ids)
    PROVE  ConditionIsLocal'
<1> DEFINE b == Work.block
           R == Renumbering(ids, nextId)
<1>1. /\ label' = L /\ Len(L) \in Nat /\ DOMAIN L = 1 .. Len(L)
      /\ \A i \in 1 .. Len(L) :
            i > Len(label) => term'[i] = Ends("UNREACHABLE")
      /\ \A i \in 1 .. Len(label) : i # b =>
            term'[i] = term[i] /\ instrs'[i] = instrs[i]
      /\ term'[b].condition = Remapped(t.condition, R)
      /\ instrs'[b] = instrs[b] \cup {R[k] : k \in ids}
  BY StoreEffect
<1>2. /\ DOMAIN R = ids
      /\ \A j, k \in ids : j < k => R[j] < R[k]
  BY RenumberingProperties DEF StoreInput, Typed
<1>3. DOMAIN label = 1 .. Len(label) /\ Len(label) \in Nat
  BY DEF Typed
<1> HIDE DEF R, b
<1>4. SUFFICES ASSUME NEW i \in 1 .. Len(L), term'[i].condition[1] = "instr"
               PROVE  /\ term'[i].condition[2] \in instrs'[i]
                      /\ \E j \in instrs'[i] : term'[i].condition[2] < j
  BY <1>1 DEF ConditionIsLocal, Block
<1>5. CASE i > Len(label)
  BY <1>1, <1>4, <1>5 DEF Ends, NoCondition
<1>6. CASE i <= Len(label) /\ i # b
  <2>1. i \in 1 .. Len(label)
    BY <1>3, <1>6
  <2>2. term'[i] = term[i] /\ instrs'[i] = instrs[i]
    BY <1>1, <1>6, <2>1
  <2> QED BY <1>3, <1>4, <2>1, <2>2 DEF ConditionIsLocal, Block
<1>7. CASE i = b
  <2>1. Remapped(t.condition, R)[1] = "instr"
    BY <1>1, <1>4, <1>7
  <2>2. t.condition[1] = "instr"
    BY <2>1 DEF Remapped, InstrRef
  <2>3. t.condition[2] \in ids
    BY <2>2 DEF LocalTo
  <2>4. PICK j \in ids : t.condition[2] < j
    BY <2>2 DEF LocalTo
  <2>5. Remapped(t.condition, R) = InstrRef(R[t.condition[2]])
    BY <2>2, <2>3, <1>2 DEF Remapped
  <2>6. term'[b].condition[2] = R[t.condition[2]]
    BY <2>5, <1>1 DEF InstrRef
  <2>7. R[t.condition[2]] < R[j]
    BY <2>3, <2>4, <1>2
  <2>8. R[t.condition[2]] \in instrs'[b] /\ R[j] \in instrs'[b]
    BY <2>3, <1>1
  <2> QED BY <2>6, <2>7, <2>8, <1>7
<1>8. i \in Nat /\ (i > Len(label) \/ i <= Len(label))
  BY <1>1, <1>3
<1> QED BY <1>5, <1>6, <1>7, <1>8

IdInv == Typed /\ IdsUnique /\ ConditionIsLocal

LEMMA IdInvAtStart == Init => IdInv
<1> SUFFICES ASSUME Init PROVE IdsUnique /\ ConditionIsLocal
  BY TypedAtStart DEF IdInv
<1>1. Block = 1 .. 1
  <2>1. label = <<EntryVa>> /\ DOMAIN <<EntryVa>> = 1 .. 1
    BY DEF Init
  <2> QED BY <2>1 DEF Block
<1>2. instrs[1] = {} /\ term[1].condition = NoCondition
  BY DEF Init, Ends
<1> QED BY <1>1, <1>2 DEF IdsUnique, ConditionIsLocal, NoCondition

LEMMA IdInvStep == IdInv /\ [Next]_vars => IdInv'
<1> SUFFICES ASSUME IdInv, [Next]_vars PROVE IdsUnique' /\ ConditionIsLocal'
  BY TypedStep DEF IdInv
<1> USE DEF IdInv
<1>1. ASSUME NEW kind \in {"RET", "UNREACHABLE"}, NEW ids \in SUBSET Nat,
             NEW stop \in StopVa \cup {0}, IsFiniteSet(ids),
             RunStop(kind, ids, stop)
      PROVE  IdsUnique' /\ ConditionIsLocal'
  <2>1. StoreInput(label, Ends(kind), ids, stop)
    BY <1>1, StopInput, SegmentTypes
  <2>2. Store(label, Ends(kind), ids, stop)
    BY <1>1 DEF RunStop
  <2>3. LocalTo(Ends(kind).condition, ids)
    BY DEF LocalTo, Ends, NoCondition
  <2> QED BY <2>1, <2>2, <2>3, StoreKeepsIdsUnique, StoreKeepsConditionLocal
<1>2. ASSUME NEW t \in Vpc, NEW f \in Vpc, NEW ids \in SUBSET Nat,
             NEW stop \in StopVa, NEW c \in Conditions(ids), IsFiniteSet(ids),
             RunBranch(t, f, c, ids, stop)
      PROVE  IdsUnique' /\ ConditionIsLocal'
  <2> DEFINE L == GetBlock(GetBlock(label, t), f)
             s == CJmp(IdOf(L, t), IdOf(L, f), c)
  <2>1. StoreInput(L, s, ids, stop)
    BY <1>2, BranchInput, SegmentTypes
  <2>2. Store(L, s, ids, stop)
    BY <1>2 DEF RunBranch
  <2>3. s.condition = c
    BY DEF CJmp
  <2> HIDE DEF L, s
  <2>4. LocalTo(s.condition, ids)
    BY <2>3 DEF LocalTo, Conditions, InstrRef, SymReg
  <2> QED BY <2>1, <2>2, <2>4, StoreKeepsIdsUnique, StoreKeepsConditionLocal
<1>3. CASE SkipItem \/ Finish \/ UNCHANGED vars
  BY <1>3 DEF SkipItem, Finish, vars, blocks, IdsUnique, ConditionIsLocal, Block
<1> QED BY <1>1, <1>2, <1>3, StepCases

(* Every instruction of the recovered graph has an id of its own, however  *)
(* the segments numbered theirs.                                           *)
THEOREM VmIdsUnique == Spec => []IdsUnique
<1>1. IdInv => IdsUnique
  BY DEF IdInv
<1> QED BY IdInvAtStart, IdInvStep, <1>1, PTL DEF Spec

(* A branch condition refers to an instruction of its own block.           *)
THEOREM VmConditionIsLocal == Spec => []ConditionIsLocal
<1>1. IdInv => ConditionIsLocal
  BY DEF IdInv
<1> QED BY IdInvAtStart, IdInvStep, <1>1, PTL DEF Spec

-----------------------------------------------------------------------------
(* The dispatcher *)

\* Work item w enters at d with the VPC of its block in table L.
EntersAt(w, d, L) ==
    w.inject # NoVpc =>
        w.start = d /\ d \in StopVa /\ w.inject = Inject(L[w.block])

DispatchInv ==
    /\ Typed
    /\ dispatcher \in StopVa \cup {0}
    /\ \A i \in DOMAIN wl : EntersAt(wl[i], dispatcher, label)

LEMMA DispatchInvAtStart == Init => DispatchInv
<1> SUFFICES ASSUME Init PROVE DispatchInv
  OBVIOUS
<1>1. DOMAIN wl = 1 .. 1 /\ wl[1].inject = NoVpc
  BY DEF Init, Item
<1> QED BY <1>1, TypedAtStart DEF DispatchInv, EntersAt, Init

(* Once items wait for it the dispatcher is known and a run keeps it, and  *)
(* the blocks keep their keys: what is left of the list stays right.       *)
LEMMA StoreKeepsItems ==
    ASSUME DispatchInv, 0 \notin StopVa, NEW L, NEW t, NEW ids, NEW stop,
           StoreInput(L, t, ids, stop), Store(L, t, ids, stop),
           stop \in StopVa \cup {0}
    PROVE  /\ dispatcher' \in StopVa \cup {0}
           /\ stop \in StopVa => dispatcher' \in StopVa
           /\ Tail(wl) \in Seq(Items(Len(label)))
           /\ \A i \in DOMAIN Tail(wl) : EntersAt(Tail(wl)[i], dispatcher', L)
<1>1. dispatcher' = IF dispatcher = 0 THEN stop ELSE dispatcher
  BY DEF Store, Latch
<1>2. dispatcher \in StopVa => dispatcher' = dispatcher
  BY <1>1
<1>3. Tail(wl) \in Seq(Items(Len(label)))
  BY WorkIsTyped DEF Store, DispatchInv
<1>4. ASSUME NEW i \in DOMAIN Tail(wl)
      PROVE  EntersAt(Tail(wl)[i], dispatcher', L)
  <2>1. wl \in Seq(Items(Len(label))) /\ wl # <<>>
    BY DEF DispatchInv, Typed, Store, MayIterate
  <2>2. /\ DOMAIN Tail(wl) = 1 .. Len(wl) - 1 /\ DOMAIN wl = 1 .. Len(wl)
        /\ Len(wl) \in Nat
        /\ \A j \in 1 .. Len(wl) - 1 : Tail(wl)[j] = wl[j + 1]
    <3>1. Len(Tail(wl)) = Len(wl) - 1
          /\ \A j \in 1 .. Len(Tail(wl)) : Tail(wl)[j] = wl[j + 1]
      BY <2>1, HeadTailProperties
    <3>2. DOMAIN Tail(wl) = 1 .. Len(Tail(wl)) /\ DOMAIN wl = 1 .. Len(wl)
          /\ Len(wl) \in Nat
      BY <2>1, <1>3, LenProperties
    <3> QED BY <3>1, <3>2
  <2>3. i + 1 \in DOMAIN wl /\ Tail(wl)[i] = wl[i + 1]
    BY <2>2
  <2>4. wl[i + 1].block \in 1 .. Len(label)
    <3>1. wl[i + 1] \in Items(Len(label))
      BY <2>1, <2>2, <2>3, ElementOfSeq
    <3> QED BY <3>1 DEF Items
  <2>5. L[wl[i + 1].block] = label[wl[i + 1].block]
    BY <2>4 DEF StoreInput
  <2> QED BY <1>2, <2>3, <2>5 DEF DispatchInv, EntersAt
<1> QED BY <1>1, <1>2, <1>3, <1>4 DEF DispatchInv

LEMMA DispatchInvStep ==
    ASSUME 0 \notin StopVa, DispatchInv, [Next]_vars
    PROVE  DispatchInv'
<1> USE DEF DispatchInv
<1>0. Typed'
  BY TypedStep
<1>1. ASSUME NEW kind \in {"RET", "UNREACHABLE"}, NEW ids \in SUBSET Nat,
             NEW stop \in StopVa \cup {0}, IsFiniteSet(ids),
             RunStop(kind, ids, stop)
      PROVE  DispatchInv'
  <2>1. StoreInput(label, Ends(kind), ids, stop)
    BY <1>1, StopInput, SegmentTypes
  <2>2. /\ Store(label, Ends(kind), ids, stop)
        /\ wl' = Tail(wl) /\ label' = label
    BY <1>1 DEF RunStop, Store
  <2>3. /\ dispatcher' \in StopVa \cup {0}
        /\ \A i \in DOMAIN Tail(wl) :
                EntersAt(Tail(wl)[i], dispatcher', label)
    BY <2>1, <2>2, StoreKeepsItems
  <2> QED BY <1>0, <2>2, <2>3
<1>2. ASSUME NEW t \in Vpc, NEW f \in Vpc, NEW ids \in SUBSET Nat,
             NEW stop \in StopVa, NEW c \in Conditions(ids), IsFiniteSet(ids),
             RunBranch(t, f, c, ids, stop)
      PROVE  DispatchInv'
  <2> DEFINE L == GetBlock(GetBlock(label, t), f)
             x == IdOf(L, t)
             y == IdOf(L, f)
             W == Push(Tail(wl), t, x)
  <2>1. /\ StoreInput(L, CJmp(x, y, c), ids, stop)
        /\ x \in 1 .. Len(L) /\ L[x] = t /\ y \in 1 .. Len(L) /\ L[y] = f
    BY <1>2, BranchInput, SegmentTypes
  <2>2. /\ Store(L, CJmp(x, y, c), ids, stop)
        /\ label' = L /\ wl' = Push(W, f, y)
    BY <1>2 DEF RunBranch, Store
  <2> HIDE DEF L, x, y
  <2>3. /\ dispatcher' \in StopVa
        /\ Tail(wl) \in Seq(Items(Len(label)))
        /\ \A i \in DOMAIN Tail(wl) : EntersAt(Tail(wl)[i], dispatcher', L)
    BY <2>1, <2>2, StoreKeepsItems
  <2>4. /\ Len(L) \in Nat /\ Len(label) \in Nat /\ Len(label) <= Len(L)
        /\ dispatcher' \in Nat
    BY <2>1, <2>3, SegmentTypes, LenProperties DEF StoreInput, Typed
  <2>5. Tail(wl) \in Seq(Items(Len(L)))
    BY <2>3, <2>4, ItemsMonotone
  <2>6. EntersAt(Item(t, dispatcher', Inject(t), x), dispatcher', L)
    BY <2>1, <2>3 DEF EntersAt, Item
  <2>7. EntersAt(Item(f, dispatcher', Inject(f), y), dispatcher', L)
    BY <2>1, <2>3 DEF EntersAt, Item
  <2>8. /\ W \in Seq(Items(Len(L)))
        /\ \A i \in DOMAIN W : EntersAt(W[i], dispatcher', L)
    <3>1. W \in Seq(Items(Len(L)))
      BY <2>1, <2>4, <2>5, PushProperties
    <3>2. \A i \in DOMAIN W :
                \/ i \in DOMAIN Tail(wl) /\ W[i] = Tail(wl)[i]
                \/ W[i] = Item(t, dispatcher', Inject(t), x)
      BY <2>1, <2>4, <2>5, PushProperties, ZenonT(60)
    <3> QED BY <3>1, <3>2, <2>3, <2>6
  <2> HIDE DEF W
  <2>9. \A i \in DOMAIN Push(W, f, y) :
                \/ i \in DOMAIN W /\ Push(W, f, y)[i] = W[i]
                \/ Push(W, f, y)[i] = Item(f, dispatcher', Inject(f), y)
    BY <2>1, <2>4, <2>8, PushProperties
  <2>10. \A i \in DOMAIN Push(W, f, y) :
                EntersAt(Push(W, f, y)[i], dispatcher', L)
    BY <2>7, <2>8, <2>9
  <2> QED BY <1>0, <2>2, <2>3, <2>10
<1>3. CASE SkipItem
  <2>1. wl \in Seq(Items(Len(label))) /\ wl # <<>>
    BY <1>3 DEF Typed, SkipItem, MayIterate
  <2>2. /\ Len(Tail(wl)) = Len(wl) - 1
        /\ \A j \in 1 .. Len(Tail(wl)) : Tail(wl)[j] = wl[j + 1]
        /\ Tail(wl) \in Seq(Items(Len(label)))
    BY <2>1, HeadTailProperties
  <2>3. DOMAIN Tail(wl) = 1 .. Len(Tail(wl)) /\ DOMAIN wl = 1 .. Len(wl)
        /\ Len(wl) \in Nat
    BY <2>1, <2>2, LenProperties
  <2>4. \A i \in DOMAIN Tail(wl) :
            i + 1 \in DOMAIN wl /\ Tail(wl)[i] = wl[i + 1]
    BY <2>2, <2>3
  <2>5. \A i \in DOMAIN Tail(wl) : EntersAt(Tail(wl)[i], dispatcher, label)
    BY <2>4
  <2> QED BY <1>0, <1>3, <2>5 DEF SkipItem, blocks
<1>4. CASE Finish \/ UNCHANGED vars
  BY <1>0, <1>4 DEF Finish, vars, blocks
<1> QED BY <1>1, <1>2, <1>3, <1>4, StepCases

(* Where the bytecode is not at address 0, every arm is entered at the one *)
(* dispatcher with its own VPC, whatever the later segments stop at.       *)
THEOREM VmArmsReenterDispatcher == Spec => []ArmsReenterDispatcher
<1>1. CASE 0 \notin StopVa
  <2>1. DispatchInv => ArmsReenterDispatcher
    BY DEF DispatchInv, EntersAt, ArmsReenterDispatcher
  <2>2. DispatchInv /\ [Next]_vars => DispatchInv'
    BY <1>1, DispatchInvStep
  <2> QED BY DispatchInvAtStart, <2>1, <2>2, PTL DEF Spec
<1>2. CASE 0 \in StopVa
  <2>1. ArmsReenterDispatcher
    BY <1>2 DEF ArmsReenterDispatcher
  <2> QED BY <2>1, PTL
<1> QED BY <1>1, <1>2

-----------------------------------------------------------------------------
(* The walk: the block table as a set of keys *)

(* get_block never gives a key a second block.                             *)
LEMMA GetBlockOneToOne ==
    ASSUME NEW L \in Seq(Keys), IsInjective(L), NEW v \in Keys
    PROVE  /\ IsInjective(GetBlock(L, v))
           /\ ToSet(GetBlock(L, v)) = ToSet(L) \cup {v}
<1>0. DOMAIN L = 1 .. Len(L) /\ Len(L) \in Nat
  BY LenProperties
<1>1. CASE Contains(L, v)
  <2>1. v \in ToSet(L)
    BY <1>0, <1>1 DEF Contains, ToSet
  <2> QED BY <1>1, <2>1 DEF GetBlock
<1>2. CASE ~Contains(L, v)
  <2> DEFINE M == Append(L, v)
  <2>1. /\ DOMAIN M = 1 .. Len(L) + 1
        /\ \A i \in 1 .. Len(L) : M[i] = L[i]
        /\ M[Len(L) + 1] = v
    BY AppendProperties, LenProperties
  <2>2. \A i \in 1 .. Len(L) : L[i] # v
    BY <1>0, <1>2 DEF Contains
  <2>3. GetBlock(L, v) = M
    BY <1>2 DEF GetBlock
  <2> HIDE DEF M
  <2>4. \A i \in 1 .. Len(L) + 1 : i \in 1 .. Len(L) \/ i = Len(L) + 1
    BY <1>0
  <2>5. IsInjective(M)
    BY <1>0, <2>1, <2>2, <2>4 DEF IsInjective
  <2>6. ToSet(M) = ToSet(L) \cup {v}
    <3>1. ASSUME NEW x \in ToSet(M) PROVE x \in ToSet(L) \cup {v}
      BY <1>0, <2>1, <2>4 DEF ToSet
    <3>2. ASSUME NEW x \in ToSet(L) PROVE x \in ToSet(M)
      <4>1. PICK i \in 1 .. Len(L) : x = L[i]
        BY <1>0 DEF ToSet
      <4>2. i \in DOMAIN M /\ M[i] = x
        BY <1>0, <2>1, <4>1
      <4> QED BY <4>2 DEF ToSet
    <3>3. v \in ToSet(M)
      <4>1. Len(L) + 1 \in DOMAIN M
        BY <1>0, <2>1
      <4> QED BY <2>1, <4>1 DEF ToSet
    <3> QED BY <3>1, <3>2, <3>3
  <2> QED BY <2>3, <2>5, <2>6
<1> QED BY <1>1, <1>2

(* The table holds as many keys as blocks, so max_blocks counts keys.      *)
LEMMA TableSize ==
    ASSUME NEW L \in Seq(Keys), IsInjective(L)
    PROVE  Cardinality(ToSet(L)) = Len(L) /\ Len(L) \in Nat
<1>1. DOMAIN L = 1 .. Len(L) /\ Len(L) \in Nat
  BY LenProperties
<1> DEFINE n == Len(L)
           T == ToSet(L)
<1>2. L \in Bijection(1 .. n, T)
  <2>1. L \in [1 .. n -> T]
    <3>1. L \in [1 .. n -> Keys]
      BY LenProperties
    <3>2. \A i \in 1 .. n : L[i] \in T
      BY <1>1 DEF ToSet
    <3> QED BY <3>1, <3>2
  <2>2. \A x \in T : \E i \in 1 .. n : L[i] = x
    BY <1>1 DEF ToSet
  <2>3. IsInjective(L)
    OBVIOUS
  <2> QED BY <2>1, <2>2, <2>3 DEF Bijection, Injection, Surjection
<1>3. IsFiniteSet(1 .. n) /\ Cardinality(1 .. n) = n
  <2>1. 1 \in Int /\ n \in Int /\ (1 > n => n = 0)
    BY <1>1
  <2> QED BY <2>1, <1>1, FS_Interval
<1>4. ExistsBijection(1 .. n, T)
  BY <1>2 DEF ExistsBijection
<1> QED BY <1>1, <1>3, <1>4, FS_Bijection

(* What is found where: vpc_to_block gives a key the block that holds it.  *)
LEMMA IdOfIsTheBlock ==
    ASSUME NEW L \in Seq(Keys), IsInjective(L), NEW i \in 1 .. Len(L)
    PROVE  IdOf(L, L[i]) = i
<1>1. DOMAIN L = 1 .. Len(L)
  BY LenProperties
<1>2. IdOf(L, L[i]) \in 1 .. Len(L) /\ L[IdOf(L, L[i])] = L[i]
  BY IdOfProperties
<1> QED BY <1>1, <1>2 DEF IsInjective

-----------------------------------------------------------------------------
(* The invariant of the walk *)

\* The successors of the key of block b, in table L with terminators T.
SuccOf(L, T, b) ==
    IF T[b].kind = "CJMP" THEN {L[T[b].target], L[T[b].fallthrough]} ELSE {}

\* The arms of block b, in a table of n blocks with terminators T.
ArmsExist(T, b, n) ==
    T[b].kind = "CJMP" => T[b].target \in 1 .. n /\ T[b].fallthrough \in 1 .. n

\* Blocks and keys correspond one to one, the keys that were run are among
\* them, and every block that was not run has a work item of its own.
WalkInv ==
    /\ Typed
    /\ IsInjective(label)
    /\ processed \subseteq ToSet(label)
    /\ \A i \in DOMAIN wl : label[wl[i].block] = wl[i].key
    /\ \A b \in 1 .. Len(label) :
            label[b] \in processed \/ \E i \in DOMAIN wl : wl[i].block = b
    /\ \A b \in 1 .. Len(label) : ArmsExist(term, b, Len(label))

LEMMA WalkInvAtStart == Init => WalkInv
<1> SUFFICES ASSUME Init PROVE WalkInv
  OBVIOUS
<1>1. label = <<EntryVa>> /\ Len(label) = 1 /\ DOMAIN label = 1 .. 1
      /\ label[1] = EntryVa
  BY DEF Init
<1>2. DOMAIN wl = 1 .. 1 /\ wl[1].block = 1 /\ wl[1].key = EntryVa
  BY DEF Init, Item
<1>3. term[1].kind = "UNREACHABLE" /\ processed = {}
  BY DEF Init, Ends
<1> QED
  BY <1>1, <1>2, <1>3, TypedAtStart DEF WalkInv, IsInjective, ArmsExist

(* Removing the head of the list loses no block but the head's own.        *)
LEMMA TailKeepsItems ==
    ASSUME WalkInv, MayIterate
    PROVE  /\ \A i \in DOMAIN Tail(wl) :
                /\ label[Tail(wl)[i].block] = Tail(wl)[i].key
                /\ Tail(wl)[i].block \in 1 .. Len(label)
           /\ \A b \in 1 .. Len(label) :
                \/ label[b] \in processed
                \/ b = Work.block
                \/ \E i \in DOMAIN Tail(wl) : Tail(wl)[i].block = b
           /\ label[Work.block] = Work.key
<1>1. wl \in Seq(Items(Len(label))) /\ wl # <<>>
  BY DEF WalkInv, Typed, MayIterate
<1>2. /\ Len(Tail(wl)) = Len(wl) - 1
      /\ \A j \in 1 .. Len(Tail(wl)) : Tail(wl)[j] = wl[j + 1]
      /\ Tail(wl) \in Seq(Items(Len(label)))
  BY <1>1, HeadTailProperties
<1>3. DOMAIN Tail(wl) = 1 .. Len(Tail(wl)) /\ DOMAIN wl = 1 .. Len(wl)
      /\ Len(wl) \in Nat
  BY <1>1, <1>2, LenProperties
<1>4. Work = wl[1] /\ 1 \in DOMAIN wl
  BY WorkIsTyped DEF WalkInv
<1>5. ASSUME NEW i \in DOMAIN Tail(wl)
      PROVE  /\ label[Tail(wl)[i].block] = Tail(wl)[i].key
             /\ Tail(wl)[i].block \in 1 .. Len(label)
  <2>1. i + 1 \in DOMAIN wl /\ Tail(wl)[i] = wl[i + 1]
    BY <1>2, <1>3
  <2>2. wl[i + 1] \in Items(Len(label))
    BY <1>1, <1>3, <2>1, ElementOfSeq
  <2> QED BY <2>1, <2>2 DEF WalkInv, Items
<1>6. ASSUME NEW b \in 1 .. Len(label), label[b] \notin processed,
             b # Work.block
      PROVE  \E i \in DOMAIN Tail(wl) : Tail(wl)[i].block = b
  <2>1. PICK i \in DOMAIN wl : wl[i].block = b
    BY <1>6 DEF WalkInv
  <2>2. i # 1
    BY <1>4, <1>6, <2>1
  <2>3. i - 1 \in DOMAIN Tail(wl) /\ Tail(wl)[i - 1] = wl[i]
    BY <1>2, <1>3, <2>1, <2>2
  <2> QED BY <2>1, <2>3
<1>7. label[Work.block] = Work.key
  BY <1>4 DEF WalkInv
<1> QED BY <1>5, <1>6, <1>7

(* The terminator a run stores, and the key it marks.                      *)
LEMMA StoreTerminator ==
    ASSUME Typed, NEW L, NEW t, NEW ids, NEW stop,
           StoreInput(L, t, ids, stop), Store(L, t, ids, stop)
    PROVE  /\ term'[Work.block].kind = t.kind
           /\ term'[Work.block].target = t.target
           /\ term'[Work.block].fallthrough = t.fallthrough
           /\ processed' = processed \cup {Work.key}
           /\ Work.key \notin processed
           /\ MayIterate
<1> DEFINE b == Work.block
           T == Pad(term, Len(L), Ends("UNREACHABLE"))
           R == Renumbering(ids, nextId)
           u == [t EXCEPT !.condition = Remapped(@, R)]
<1>1. b \in 1 .. Len(L)
  BY StoreEffect
<1>2. DOMAIN T = 1 .. Len(L)
  BY DEF Pad
<1>3. u.kind = t.kind /\ u.target = t.target /\ u.fallthrough = t.fallthrough
  BY DEF StoreInput, Terminators
<1>4. /\ term' = [T EXCEPT ![b] = u]
      /\ processed' = processed \cup {Work.key}
      /\ Work.key \notin processed
      /\ MayIterate
  BY DEF Store, IsFresh
<1> HIDE DEF T, u, b
<1>5. term'[b] = u
  BY <1>1, <1>2, <1>4
<1> QED BY <1>3, <1>4, <1>5 DEF b

-----------------------------------------------------------------------------
(* The steps *)

\* The instance brings a copy of Cardinality with it.
LEMMA WalkCardinality == \A T : Walk!Cardinality(T) = Cardinality(T)
BY DEF Walk!Cardinality, Cardinality

(* Successors, through the blocks of the keys.                             *)
LEMMA SuccessorsByBlock ==
    /\ DOMAIN Successors = processed
    /\ \A v \in processed :
            Successors[v] = SuccOf(label, term, IdOf(label, v))
BY DEF Successors, SuccOf

(* A run is an expansion of its key: a segment's terminator t is what the  *)
(* key's successors S are read from, now and ever after.                   *)
LEMMA StoreExpands ==
    ASSUME WalkInv, NEW L, NEW t, NEW ids, NEW stop, NEW S,
           StoreInput(L, t, ids, stop), Store(L, t, ids, stop),
           IsInjective(L), ToSet(L) = ToSet(label) \cup S,
           t.kind = "CJMP" =>
                t.target \in 1 .. Len(L) /\ t.fallthrough \in 1 .. Len(L),
           S = IF t.kind = "CJMP" THEN {L[t.target], L[t.fallthrough]} ELSE {}
    PROVE  /\ Walk!Expand(Work.key, S)
           /\ processed' \subseteq ToSet(label')
           /\ \A i \in 1 .. Len(L) : ArmsExist(term', i, Len(L))
<1> DEFINE k == Work.key
           b == Work.block
<1>1. /\ Typed /\ label \in Seq(Keys) /\ IsInjective(label)
      /\ DOMAIN label = 1 .. Len(label) /\ Len(label) \in Nat
      /\ \A i \in 1 .. Len(label) : ArmsExist(term, i, Len(label))
      /\ processed \subseteq ToSet(label)
  BY DEF WalkInv, Typed
<1>2. /\ label' = L /\ Len(L) \in Nat /\ DOMAIN L = 1 .. Len(L)
      /\ b \in 1 .. Len(L)
      /\ \A i \in 1 .. Len(label) : i # b => term'[i] = term[i]
      /\ \A i \in 1 .. Len(L) : i > Len(label) => term'[i] = Ends("UNREACHABLE")
      /\ pc' = pc
  BY <1>1, StoreEffect
<1>3. /\ term'[b].kind = t.kind
      /\ term'[b].target = t.target
      /\ term'[b].fallthrough = t.fallthrough
      /\ processed' = processed \cup {k}
      /\ k \notin processed
      /\ MayIterate
  BY <1>1, StoreTerminator
<1>4. /\ L \in Seq(Keys) /\ Len(label) <= Len(L)
      /\ \A i \in 1 .. Len(label) : i \in 1 .. Len(L) /\ L[i] = label[i]
  BY <1>1, <1>2 DEF StoreInput
<1>5. label[b] = k /\ b \in 1 .. Len(label) /\ L[b] = k
  BY <1>1, <1>3, <1>4, TailKeepsItems, WorkIsTyped
<1>6. k \in ToSet(label)
  BY <1>1, <1>5 DEF ToSet
<1> HIDE DEF k, b
<1>7. ~(pc = "done") /\ (pc = "done")' = (pc = "done")
  BY <1>2, <1>3 DEF MayIterate
<1>8. Walk!WithinBudget
  <2>1. Cardinality(ToSet(label)) = Len(label)
    BY <1>1, TableSize
  <2> QED BY <1>3, <2>1, WalkCardinality DEF MayIterate, Walk!WithinBudget
<1>9. Walk!Expanded = processed
  BY SuccessorsByBlock DEF Walk!Expanded
<1>10. DOMAIN Successors' = processed'
       /\ \A v \in processed' :
            Successors'[v] = SuccOf(L, term', IdOf(L, v))
  BY <1>2 DEF Successors, SuccOf
<1>11. Successors'[k] = S
  <2>1. IdOf(L, k) = b
    BY <1>2, <1>4, <1>5, IdOfIsTheBlock
  <2>2. SuccOf(L, term', b) = S
    BY <1>3 DEF SuccOf
  <2> QED BY <1>3, <1>10, <2>1, <2>2
<1>12. ASSUME NEW v \in processed PROVE Successors'[v] = Successors[v]
  <2>1. PICK i \in 1 .. Len(label) : label[i] = v
    BY <1>1 DEF ToSet
  <2>2. i # b
    BY <1>3, <1>5, <2>1
  <2>3. IdOf(label, v) = i
    BY <1>1, <2>1, IdOfIsTheBlock
  <2>4. IdOf(L, v) = i
    <3>1. i \in 1 .. Len(L) /\ L[i] = v
      BY <1>4, <2>1
    <3> QED BY <1>4, <3>1, IdOfIsTheBlock
  <2>5. term'[i] = term[i]
    BY <1>2, <2>2
  <2>6. SuccOf(L, term', i) = SuccOf(label, term, i)
    <3>1. CASE term[i].kind = "CJMP"
      <4>1. /\ term[i].target \in 1 .. Len(label)
            /\ term[i].fallthrough \in 1 .. Len(label)
        BY <1>1, <3>1 DEF ArmsExist
      <4>2. /\ L[term[i].target] = label[term[i].target]
            /\ L[term[i].fallthrough] = label[term[i].fallthrough]
        BY <1>4, <4>1
      <4> QED BY <2>5, <4>2 DEF SuccOf
    <3>2. CASE term[i].kind # "CJMP"
      BY <2>5, <3>2 DEF SuccOf
    <3> QED BY <3>1, <3>2
  <2>7. v \in processed'
    BY <1>3
  <2> QED BY <1>10, <2>3, <2>4, <2>6, <2>7, SuccessorsByBlock
<1>13. Successors' = [v \in processed \cup {k} |->
                        IF v = k THEN S ELSE Successors[v]]
  <2>1. Successors' = [v \in processed' |-> Successors'[v]]
    BY <1>10 DEF Successors
  <2>2. \A v \in processed' :
            Successors'[v] = IF v = k THEN S ELSE Successors[v]
    BY <1>3, <1>11, <1>12
  <2> QED BY <1>3, <2>1, <2>2
<1>14. Walk!Expand(k, S)
  <2>1. k \in ToSet(label) \ Walk!Expanded
    BY <1>3, <1>6, <1>9
  <2>2. ToSet(label)' = ToSet(label) \cup S
    BY <1>2
  <2> QED BY <1>7, <1>8, <1>9, <1>13, <2>1, <2>2 DEF Walk!Expand
<1>15. processed' \subseteq ToSet(label')
  BY <1>1, <1>2, <1>3, <1>6
<1>16. ASSUME NEW i \in 1 .. Len(L) PROVE ArmsExist(term', i, Len(L))
  <2>1. CASE i > Len(label)
    BY <1>2, <2>1 DEF ArmsExist, Ends
  <2>2. CASE i = b
    BY <1>3, <2>2 DEF ArmsExist
  <2>3. CASE i # b /\ i <= Len(label)
    <3>1. i \in 1 .. Len(label) /\ term'[i] = term[i]
      BY <1>1, <1>2, <2>3
    <3>2. ArmsExist(term, i, Len(label))
      BY <1>1, <3>1
    <3> QED BY <1>4, <3>1, <3>2 DEF ArmsExist
  <2>4. i > Len(label) \/ i <= Len(label)
    BY <1>1, <1>2
  <2> QED BY <2>1, <2>2, <2>3, <2>4
<1> QED BY <1>14, <1>15, <1>16 DEF k

LEMMA StopExpands ==
    ASSUME WalkInv, NEW kind \in {"RET", "UNREACHABLE"}, NEW ids \in SUBSET Nat,
           IsFiniteSet(ids), NEW stop \in Nat, RunStop(kind, ids, stop)
    PROVE  WalkInv' /\ Walk!Expand(Work.key, {})
<1>1. Typed
  BY DEF WalkInv
<1>2. StoreInput(label, Ends(kind), ids, stop)
  BY <1>1, StopInput
<1>3. /\ Store(label, Ends(kind), ids, stop)
      /\ wl' = Tail(wl) /\ label' = label
  BY DEF RunStop, Store
<1>4. Ends(kind).kind # "CJMP"
  BY DEF Ends
<1>5. IsInjective(label) /\ ToSet(label) = ToSet(label) \cup {}
  BY DEF WalkInv
<1>6. /\ Walk!Expand(Work.key, {})
      /\ processed' \subseteq ToSet(label')
      /\ \A i \in 1 .. Len(label) : ArmsExist(term', i, Len(label))
  BY <1>2, <1>3, <1>4, <1>5, StoreExpands
<1>7. processed' = processed \cup {Work.key} /\ MayIterate
  BY <1>1, <1>2, <1>3, StoreTerminator
<1>8. \A b \in 1 .. Len(label) :
        label[b] \in processed' \/ \E i \in DOMAIN wl' : wl'[i].block = b
  BY <1>3, <1>7, TailKeepsItems
<1>9. \A i \in DOMAIN wl' : label[wl'[i].block] = wl'[i].key
  BY <1>3, <1>7, TailKeepsItems
<1>10. Typed'
  BY <1>1, RunStopTyped
<1> QED BY <1>3, <1>5, <1>6, <1>8, <1>9, <1>10 DEF WalkInv

(* Queueing keeps the items there are, and adds one for a key not run yet. *)
LEMMA PushKeepsItems ==
    ASSUME NEW n \in Nat, NEW W \in Seq(Items(n)), NEW v \in Vpc,
           NEW b \in 1 .. n, dispatcher' \in Nat
    PROVE  /\ \A i \in DOMAIN W :
                i \in DOMAIN Push(W, v, b) /\ Push(W, v, b)[i] = W[i]
           /\ v \notin processed' =>
                \E i \in DOMAIN Push(W, v, b) : Push(W, v, b)[i].block = b
<1> DEFINE x == Item(v, dispatcher', Inject(v), b)
<1>1. x \in Items(n) /\ x.block = b
  BY DEF Item, Items, InjectedVpc, Keys
<1> HIDE DEF x
<1>2. /\ \A i \in 1 .. Len(W) : Append(W, x)[i] = W[i]
      /\ Append(W, x)[Len(W) + 1] = x
      /\ DOMAIN Append(W, x) = 1 .. Len(W) + 1
      /\ DOMAIN W = 1 .. Len(W) /\ Len(W) \in Nat
  BY <1>1, AppendProperties, LenProperties
<1>3. CASE v \in processed'
  BY <1>3 DEF Push
<1>4. CASE v \notin processed'
  <2>1. Push(W, v, b) = Append(W, x)
    BY <1>4 DEF Push, x
  <2>2. Len(W) + 1 \in DOMAIN Append(W, x)
    BY <1>2
  <2>3. \A i \in DOMAIN W : i \in DOMAIN Append(W, x)
    BY <1>2
  <2> QED BY <1>1, <1>2, <2>1, <2>2, <2>3
<1> QED BY <1>3, <1>4

LEMMA BranchExpands ==
    ASSUME WalkInv, NEW t \in Vpc, NEW f \in Vpc, NEW ids \in SUBSET Nat,
           IsFiniteSet(ids), NEW c \in Conditions(ids), NEW stop \in Nat,
           RunBranch(t, f, c, ids, stop)
    PROVE  WalkInv' /\ Walk!Expand(Work.key, {t, f})
<1> DEFINE M == GetBlock(label, t)
           L == GetBlock(M, f)
           x == IdOf(L, t)
           y == IdOf(L, f)
           s == CJmp(x, y, c)
           U == Tail(wl)
           V == Push(U, t, x)
           W == Push(V, f, y)
<1>1. Typed /\ label \in Seq(Keys) /\ IsInjective(label)
      /\ Len(label) \in Nat /\ DOMAIN label = 1 .. Len(label)
      /\ t \in Keys /\ f \in Keys
  BY DEF WalkInv, Typed, Keys
<1>2. /\ StoreInput(L, s, ids, stop)
      /\ x \in 1 .. Len(L) /\ L[x] = t /\ y \in 1 .. Len(L) /\ L[y] = f
  BY <1>1, BranchInput
<1>3. IsInjective(L) /\ ToSet(L) = ToSet(label) \cup {t, f}
  <2>1. M \in Seq(Keys) /\ IsInjective(M) /\ ToSet(M) = ToSet(label) \cup {t}
    BY <1>1, GetBlockProperties, GetBlockOneToOne
  <2> HIDE DEF M
  <2>2. IsInjective(L) /\ ToSet(L) = ToSet(M) \cup {f}
    BY <1>1, <2>1, GetBlockOneToOne
  <2> HIDE DEF L
  <2> QED BY <2>1, <2>2
<1>4. /\ Store(L, s, ids, stop)
      /\ label' = L /\ wl' = W
  BY DEF RunBranch, Store
<1>5. s.kind = "CJMP" /\ s.target = x /\ s.fallthrough = y
  BY DEF CJmp
<1> HIDE DEF M, L, x, y, s
<1>6. /\ Walk!Expand(Work.key, {t, f})
      /\ processed' \subseteq ToSet(label')
      /\ \A i \in 1 .. Len(L) : ArmsExist(term', i, Len(L))
  BY <1>2, <1>3, <1>4, <1>5, StoreExpands
<1>7. processed' = processed \cup {Work.key} /\ MayIterate
  BY <1>1, <1>2, <1>4, StoreTerminator
<1>8. /\ Len(L) \in Nat /\ DOMAIN L = 1 .. Len(L) /\ dispatcher' \in Nat
      /\ Len(label) <= Len(L)
      /\ \A i \in 1 .. Len(label) : i \in 1 .. Len(L) /\ L[i] = label[i]
  <2>1. Len(L) \in Nat /\ DOMAIN L = 1 .. Len(L) /\ dispatcher' \in Nat
    BY <1>1, <1>2, <1>4, StoreEffect
  <2> QED BY <1>1, <1>2, <2>1 DEF StoreInput
<1>9. U \in Seq(Items(Len(L)))
  <2>1. U \in Seq(Items(Len(label)))
    BY <1>1, <1>7, WorkIsTyped
  <2> QED BY <1>1, <1>8, <2>1, ItemsMonotone
<1> HIDE DEF U
<1>10. V \in Seq(Items(Len(L)))
  BY <1>2, <1>8, <1>9, PushProperties
<1>11. /\ \A i \in DOMAIN V :
            \/ i \in DOMAIN U /\ V[i] = U[i]
            \/ V[i] = Item(t, dispatcher', Inject(t), x)
       /\ \A i \in DOMAIN U : i \in DOMAIN V /\ V[i] = U[i]
       /\ t \notin processed' => \E i \in DOMAIN V : V[i].block = x
  <2>1. \A i \in DOMAIN V : \/ i \in DOMAIN U /\ V[i] = U[i]
                            \/ V[i] = Item(t, dispatcher', Inject(t), x)
    BY <1>2, <1>8, <1>9, PushProperties
  <2>2. \A i \in DOMAIN U : i \in DOMAIN V /\ V[i] = U[i]
    BY <1>2, <1>8, <1>9, PushKeepsItems
  <2>3. t \notin processed' => \E i \in DOMAIN V : V[i].block = x
    BY <1>2, <1>8, <1>9, PushKeepsItems
  <2> QED BY <2>1, <2>2, <2>3
<1> HIDE DEF V
<1>12. /\ \A i \in DOMAIN W :
            \/ i \in DOMAIN V /\ W[i] = V[i]
            \/ W[i] = Item(f, dispatcher', Inject(f), y)
       /\ \A i \in DOMAIN V : i \in DOMAIN W /\ W[i] = V[i]
       /\ f \notin processed' => \E i \in DOMAIN W : W[i].block = y
  <2>1. \A i \in DOMAIN W : \/ i \in DOMAIN V /\ W[i] = V[i]
                            \/ W[i] = Item(f, dispatcher', Inject(f), y)
    BY <1>2, <1>8, <1>10, PushProperties
  <2>2. \A i \in DOMAIN V : i \in DOMAIN W /\ W[i] = V[i]
    BY <1>2, <1>8, <1>10, PushKeepsItems
  <2>3. f \notin processed' => \E i \in DOMAIN W : W[i].block = y
    BY <1>2, <1>8, <1>10, PushKeepsItems
  <2> QED BY <2>1, <2>2, <2>3
<1> HIDE DEF W
<1>13. \A i \in DOMAIN wl' : L[wl'[i].block] = wl'[i].key
  <2>1. \A i \in DOMAIN U : L[U[i].block] = U[i].key
    BY <1>7, <1>8, TailKeepsItems DEF U
  <2>2. \A i \in DOMAIN V : L[V[i].block] = V[i].key
    BY <1>2, <1>11, <2>1 DEF Item
  <2> QED BY <1>2, <1>4, <1>12, <2>2 DEF Item
<1>14. ASSUME NEW b \in 1 .. Len(L), L[b] \notin processed'
       PROVE  \E i \in DOMAIN wl' : wl'[i].block = b
  <2>1. CASE b \in 1 .. Len(label)
    <3>1. L[b] = label[b] /\ label[b] \notin processed /\ b # Work.block
      BY <1>7, <1>8, <1>14, <2>1, TailKeepsItems
    <3>2. PICK i \in DOMAIN U : U[i].block = b
      BY <1>7, <2>1, <3>1, TailKeepsItems DEF U
    <3>3. i \in DOMAIN W /\ W[i] = U[i]
      BY <1>11, <1>12, <3>2
    <3> QED BY <1>4, <3>2, <3>3
  <2>2. CASE b \notin 1 .. Len(label)
    <3>1. L[b] \notin ToSet(label)
      <4>1. SUFFICES ASSUME NEW i \in 1 .. Len(label), L[b] = label[i]
                     PROVE  FALSE
        BY <1>1 DEF ToSet
      <4>2. L[b] = L[i] /\ i \in DOMAIN L /\ b \in DOMAIN L
        BY <1>8, <4>1
      <4>3. b = i
        BY <1>3, <4>2 DEF IsInjective
      <4> QED BY <2>2, <4>3
    <3>2. L[b] = t \/ L[b] = f
      <4>1. L[b] \in ToSet(L)
        BY <1>8 DEF ToSet
      <4> QED BY <1>3, <3>1, <4>1
    <3>3. CASE L[b] = t
      <4>1. b = x
        BY <1>2, <1>3, <1>8, <3>3 DEF IsInjective
      <4>2. PICK i \in DOMAIN V : V[i].block = x
        BY <1>11, <1>14, <3>3
      <4> QED BY <1>4, <1>12, <4>1, <4>2
    <3>4. CASE L[b] = f
      <4>1. b = y
        BY <1>2, <1>3, <1>8, <3>4 DEF IsInjective
      <4> QED BY <1>4, <1>12, <1>14, <3>4, <4>1
    <3> QED BY <3>2, <3>3, <3>4
  <2> QED BY <2>1, <2>2
<1>15. Typed'
  BY <1>1, RunBranchTyped
<1> QED BY <1>3, <1>4, <1>6, <1>13, <1>14, <1>15 DEF WalkInv

(* The two ways the loop ends are those of the walk.                       *)
LEMMA FinishFinishes ==
    ASSUME WalkInv, Finish
    PROVE  WalkInv' /\ Walk!Finish
<1>1. /\ pc = "explore" /\ pc' = "done"
      /\ wl = <<>> \/ ~(Len(label) <= MaxBlocks)
  BY DEF Finish, MayIterate
<1>2. UNCHANGED <<label, term, instrs, edges, wl, processed, dispatcher, nextId>>
  BY DEF Finish, blocks
<1>3. WalkInv'
  BY <1>1, <1>2 DEF WalkInv, Typed, ArmsExist
<1>4. ToSet(label) = Walk!Expanded \/ ~Walk!WithinBudget
  <2>1. CASE wl = <<>>
    <3>1. DOMAIN wl = {}
      BY <2>1
    <3>2. \A b \in 1 .. Len(label) : label[b] \in processed
      BY <3>1 DEF WalkInv
    <3>3. DOMAIN label = 1 .. Len(label) /\ processed \subseteq ToSet(label)
      BY DEF WalkInv, Typed
    <3>4. ToSet(label) = processed
      BY <3>2, <3>3 DEF ToSet
    <3> QED BY <3>4, SuccessorsByBlock DEF Walk!Expanded
  <2>2. CASE ~(Len(label) <= MaxBlocks)
    <3>1. Cardinality(ToSet(label)) = Len(label)
      BY TableSize DEF WalkInv, Typed
    <3> QED BY <2>2, <3>1, WalkCardinality DEF Walk!WithinBudget
  <2> QED BY <1>1, <2>1, <2>2
<1>5. ToSet(label)' = ToSet(label) /\ Successors' = Successors
  BY <1>2 DEF Successors
<1> QED BY <1>1, <1>3, <1>4, <1>5 DEF Walk!Finish

(* A step that leaves the graph alone is a stutter of the walk.            *)
LEMMA StutterStutters ==
    ASSUME WalkInv, SkipItem \/ UNCHANGED vars
    PROVE  WalkInv' /\ UNCHANGED Walk!vars
<1>1. UNCHANGED <<label, term, instrs, edges, processed, dispatcher, nextId, pc>>
  BY DEF SkipItem, vars, blocks
<1>2. UNCHANGED Walk!vars
  BY <1>1 DEF Walk!vars, Successors
<1>3. Typed'
  <2>1. [Next]_vars
    BY DEF Next
  <2> QED BY <2>1, TypedStep DEF WalkInv
<1>4. CASE SkipItem
  <2>1. wl' = Tail(wl) /\ MayIterate /\ Work.key \in processed
    BY <1>4 DEF SkipItem, IsFresh
  <2>2. \A i \in DOMAIN wl' : label[wl'[i].block] = wl'[i].key
    BY <2>1, TailKeepsItems
  <2>3. \A b \in 1 .. Len(label) :
            label[b] \in processed \/ \E i \in DOMAIN wl' : wl'[i].block = b
    BY <2>1, TailKeepsItems
  <2> QED BY <1>1, <1>2, <1>3, <2>2, <2>3 DEF WalkInv, ArmsExist
<1>5. CASE UNCHANGED vars
  <2>1. wl' = wl
    BY <1>5 DEF vars
  <2> QED BY <1>1, <1>2, <1>3, <2>1 DEF WalkInv, ArmsExist
<1> QED BY <1>4, <1>5

LEMMA WalkStep ==
    ASSUME WalkInv, [Next]_vars
    PROVE  WalkInv' /\ [Walk!Next]_(Walk!vars)
<1>1. ASSUME NEW kind \in {"RET", "UNREACHABLE"}, NEW ids \in SUBSET Nat,
             NEW stop \in StopVa \cup {0}, IsFiniteSet(ids),
             RunStop(kind, ids, stop)
      PROVE  WalkInv' /\ [Walk!Next]_(Walk!vars)
  <2>1. WalkInv' /\ Walk!Expand(Work.key, {})
    BY <1>1, StopExpands, SegmentTypes
  <2>2. Work.key \in Keys
    BY <1>1, WorkIsTyped DEF RunStop, Store, WalkInv
  <2> QED BY <2>1, <2>2 DEF Walk!Next
<1>2. ASSUME NEW t \in Vpc, NEW f \in Vpc, NEW ids \in SUBSET Nat,
             NEW stop \in StopVa, NEW c \in Conditions(ids), IsFiniteSet(ids),
             RunBranch(t, f, c, ids, stop)
      PROVE  WalkInv' /\ [Walk!Next]_(Walk!vars)
  <2>1. WalkInv' /\ Walk!Expand(Work.key, {t, f})
    BY <1>2, BranchExpands, SegmentTypes
  <2>2. Work.key \in Keys
    BY <1>2, WorkIsTyped DEF RunBranch, Store, WalkInv
  <2>3. {t, f} \in Walk!Pairs
    BY DEF Walk!Pairs, Keys
  <2> QED BY <2>1, <2>2, <2>3 DEF Walk!Next
<1>3. CASE Finish
  BY <1>3, FinishFinishes DEF Walk!Next
<1>4. CASE SkipItem \/ UNCHANGED vars
  BY <1>4, StutterStutters
<1> QED BY <1>1, <1>2, <1>3, <1>4, StepCases

LEMMA WalkAtStart == Init => Walk!Init
<1> SUFFICES ASSUME Init PROVE Walk!Init
  OBVIOUS
<1>1. ToSet(label) = {EntryVa}
  BY DEF Init, ToSet
<1>2. Successors = [v \in {} |-> {}]
  BY DEF Init, Successors
<1>3. (pc = "done") = FALSE
  BY DEF Init
<1> QED BY <1>1, <1>2, <1>3 DEF Walk!Init

(* recover_vm_cfg is a walk of the graph its segments describe: each key   *)
(* is expanded once, its successors are final, and the loop is left only   *)
(* when everything found was expanded or max_blocks is exceeded.           *)
THEOREM VmImplementsWalk == Spec => ImplementsWalk
<1>1. Init => WalkInv /\ Walk!Init
  BY WalkInvAtStart, WalkAtStart
<1>2. WalkInv /\ [Next]_vars => WalkInv' /\ [Walk!Next]_(Walk!vars)
  BY WalkStep
<1> QED BY <1>1, <1>2, PTL DEF Spec, ImplementsWalk, Walk!Spec

-----------------------------------------------------------------------------
(* The order of the runs *)

\* In list W, an item is preceded by one for each earlier block outside E.
Leads(W, E) ==
    \A i \in DOMAIN W : \A b \in 1 .. W[i].block :
        b \in E \/ \E j \in 1 .. i : W[j].block = b

\* Every block up to the n-th is in E or has an item in W.
Covers(W, E, n) ==
    \A b \in 1 .. n : b \in E \/ \E j \in DOMAIN W : W[j].block = b

\* The blocks run so far come first, and the list leads to the others in
\* the order of their ids.
QueueInv ==
    /\ WalkInv
    /\ \E n \in 0 .. Len(label) : Evaluated = 1 .. n
    /\ Leads(wl, Evaluated)

LEMMA QueueInvAtStart == Init => QueueInv
<1> SUFFICES ASSUME Init PROVE QueueInv
  OBVIOUS
<1>1. WalkInv
  BY WalkInvAtStart
<1>2. /\ Len(label) = 1 /\ processed = {}
      /\ DOMAIN wl = 1 .. 1 /\ wl[1].block = 1
  BY DEF Init, Item
<1>3. Evaluated = 1 .. 0 /\ 0 \in 0 .. Len(label)
  BY <1>2 DEF Evaluated, Block
<1>4. Leads(wl, Evaluated)
  BY <1>2 DEF Leads
<1> QED BY <1>1, <1>3, <1>4 DEF QueueInv

(* What is left of the list behind its head.                               *)
LEMMA TailLeads ==
    ASSUME NEW n \in Nat, NEW W \in Seq(Items(n)), W # <<>>, NEW E, Leads(W, E)
    PROVE  Leads(Tail(W), E \cup {W[1].block})
<1>1. /\ DOMAIN W = 1 .. Len(W) /\ Len(W) \in Nat
      /\ DOMAIN Tail(W) = 1 .. Len(W) - 1
      /\ \A j \in 1 .. Len(W) - 1 : Tail(W)[j] = W[j + 1]
  <2>1. /\ Tail(W) \in Seq(Items(n)) /\ Len(Tail(W)) = Len(W) - 1
        /\ \A j \in 1 .. Len(Tail(W)) : Tail(W)[j] = W[j + 1]
    BY HeadTailProperties
  <2> QED BY <2>1, LenProperties
<1> SUFFICES ASSUME NEW i \in DOMAIN Tail(W), NEW b \in 1 .. Tail(W)[i].block,
                    b \notin E, b # W[1].block
             PROVE  \E j \in 1 .. i : Tail(W)[j].block = b
  BY DEF Leads
<1>2. i + 1 \in DOMAIN W /\ Tail(W)[i] = W[i + 1]
  BY <1>1
<1>3. PICK j \in 1 .. i + 1 : W[j].block = b
  BY <1>2 DEF Leads
<1>4. j # 1
  BY <1>3
<1>5. j - 1 \in 1 .. i /\ Tail(W)[j - 1] = W[j]
  <2>1. i \in Nat /\ i <= Len(W) - 1
    BY <1>1
  <2>2. j - 1 \in 1 .. i /\ j - 1 \in 1 .. Len(W) - 1 /\ (j - 1) + 1 = j
    BY <1>1, <1>3, <1>4, <2>1
  <2> QED BY <1>1, <2>2
<1> QED BY <1>3, <1>5

(* An item that is queued for block b, when all earlier blocks have one,   *)
(* leaves the list in order.                                               *)
LEMMA PushLeads ==
    ASSUME NEW n \in Nat, NEW W \in Seq(Items(n)), NEW v \in Vpc,
           NEW b \in 1 .. n, dispatcher' \in Nat, NEW E, NEW m \in Nat,
           Leads(W, E), Covers(W, E, m), b <= m + 1,
           v \in processed' => b \in E
    PROVE  /\ Leads(Push(W, v, b), E)
           /\ Covers(Push(W, v, b), E, m)
           /\ b = m + 1 => Covers(Push(W, v, b), E, m + 1)
<1> DEFINE P == Push(W, v, b)
           x == Item(v, dispatcher', Inject(v), b)
<1>1. DOMAIN W = 1 .. Len(W) /\ Len(W) \in Nat
  BY LenProperties
<1>2. /\ \A i \in DOMAIN W : i \in DOMAIN P /\ P[i] = W[i]
      /\ v \notin processed' => \E i \in DOMAIN P : P[i].block = b
  BY PushKeepsItems
<1>3. Covers(P, E, m)
  BY <1>2 DEF Covers
<1>4. b \in E \/ \E i \in DOMAIN P : P[i].block = b
  BY <1>2
<1>5. b = m + 1 => Covers(P, E, m + 1)
  <2>1. \A c \in 1 .. m + 1 : c \in 1 .. m \/ c = m + 1
    OBVIOUS
  <2> QED BY <1>3, <1>4, <2>1 DEF Covers
<1>6. Leads(P, E)
  <2>1. CASE v \in processed'
    <3>1. P = W
      BY <2>1 DEF Push
    <3> QED BY <3>1
  <2>2. CASE v \notin processed'
    <3>1. P = Append(W, x)
      BY <2>2 DEF Push
    <3>2. x.block = b /\ x \in Items(n)
      BY DEF Item, Items, InjectedVpc, Keys
    <3> HIDE DEF x, P
    <3>3. /\ DOMAIN P = 1 .. Len(W) + 1 /\ P[Len(W) + 1] = x
          /\ \A i \in 1 .. Len(W) : P[i] = W[i]
      BY <1>1, <3>1, <3>2, AppendProperties
    <3> SUFFICES ASSUME NEW i \in DOMAIN P, NEW c \in 1 .. P[i].block, c \notin E
                 PROVE  \E j \in 1 .. i : P[j].block = c
      BY DEF Leads
    <3>4. CASE i \in 1 .. Len(W)
      <4>1. i \in DOMAIN W /\ P[i] = W[i]
        BY <1>1, <3>3, <3>4
      <4>2. PICK j \in 1 .. i : W[j].block = c
        BY <4>1 DEF Leads
      <4>3. j \in 1 .. Len(W)
        BY <1>1, <3>4
      <4> QED BY <3>3, <4>2, <4>3
    <3>5. CASE i = Len(W) + 1
      <4>1. c \in 1 .. b
        BY <3>2, <3>3, <3>5
      <4>2. CASE c = b
        <5>1. i \in 1 .. i /\ P[i].block = c
          BY <1>1, <3>2, <3>3, <3>5, <4>2
        <5> QED BY <5>1
      <4>3. CASE c # b
        <5>1. c \in 1 .. m
          BY <4>1, <4>3
        <5>2. PICK j \in DOMAIN W : W[j].block = c
          BY <5>1 DEF Covers
        <5>3. j \in 1 .. i /\ P[j].block = c
          BY <1>1, <3>3, <3>5, <5>2
        <5> QED BY <5>3
      <4> QED BY <4>2, <4>3
    <3>6. i \in 1 .. Len(W) \/ i = Len(W) + 1
      BY <1>1, <3>3
    <3> QED BY <3>4, <3>5, <3>6
  <2> QED BY <2>1, <2>2
<1> QED BY <1>3, <1>5, <1>6

(* The block that is run is the first that was not: the runs extend the    *)
(* prefix by one block, whatever the block table grows to.                 *)
LEMMA StoreRunsNext ==
    ASSUME QueueInv, NEW L, NEW t, NEW ids, NEW stop,
           StoreInput(L, t, ids, stop), Store(L, t, ids, stop), IsInjective(L)
    PROVE  /\ Evaluated' = Evaluated \cup {Work.block}
           /\ Work.block \in 1 .. Len(label)
           /\ Evaluated = 1 .. Work.block - 1
           /\ Evaluated' = 1 .. Work.block
           /\ Leads(Tail(wl), Evaluated')
           /\ Covers(Tail(wl), Evaluated', Len(label))
<1> DEFINE B == Work.block
           k == Work.key
<1>1. Typed /\ WalkInv /\ Leads(wl, Evaluated)
  BY DEF QueueInv, WalkInv
<1>2. /\ processed' = processed \cup {k} /\ k \notin processed /\ MayIterate
  BY <1>1, StoreTerminator
<1>3. /\ label' = L /\ Len(L) \in Nat /\ DOMAIN L = 1 .. Len(L)
  BY <1>1, StoreEffect
<1>4. /\ label \in Seq(Keys) /\ Len(label) \in Nat /\ Len(label) <= Len(L)
      /\ DOMAIN label = 1 .. Len(label)
      /\ \A i \in 1 .. Len(label) : L[i] = label[i]
      /\ processed \subseteq ToSet(label)
      /\ wl \in Seq(Items(Len(label)))
  BY <1>1, LenProperties DEF StoreInput, WalkInv, Typed
<1>5. B \in 1 .. Len(label) /\ label[B] = k /\ B = wl[1].block /\ 1 \in DOMAIN wl
  BY <1>1, <1>2, TailKeepsItems, WorkIsTyped
<1>6. PICK n \in 0 .. Len(label) : Evaluated = 1 .. n
  BY DEF QueueInv
<1> HIDE DEF B, k
<1>7. B \notin Evaluated
  BY <1>2, <1>5 DEF Evaluated
<1>8. B = n + 1
  <2>1. B > n
    BY <1>4, <1>5, <1>6, <1>7
  <2>2. n + 1 \in 1 .. wl[1].block /\ n + 1 \notin Evaluated
    BY <1>4, <1>5, <1>6, <2>1
  <2>3. \E j \in 1 .. 1 : wl[j].block = n + 1
    BY <1>1, <1>5, <2>2 DEF Leads
  <2> QED BY <1>5, <2>3
<1>9. Evaluated' = Evaluated \cup {B}
  <2>1. Evaluated' = {b \in 1 .. Len(L) : L[b] \in processed \cup {k}}
    BY <1>2, <1>3 DEF Evaluated, Block
  <2>2. Evaluated = {b \in 1 .. Len(label) : label[b] \in processed}
    BY <1>4 DEF Evaluated, Block
  <2>3. ASSUME NEW b \in 1 .. Len(L), L[b] \in processed \cup {k}
        PROVE  b \in Evaluated \cup {B}
    <3>1. PICK c \in 1 .. Len(label) : L[b] = label[c]
      <4>1. L[b] \in ToSet(label)
        BY <1>4, <1>5, <2>3 DEF ToSet
      <4> QED BY <1>4, <4>1 DEF ToSet
    <3>2. L[c] = L[b] /\ c \in DOMAIN L /\ b \in DOMAIN L
      BY <1>3, <1>4, <3>1
    <3>3. b = c
      BY <3>2 DEF IsInjective
    <3>4. CASE L[b] \in processed
      BY <2>2, <3>1, <3>3, <3>4
    <3>5. CASE L[b] = k
      <4>1. L[B] = L[b] /\ B \in DOMAIN L
        BY <1>3, <1>4, <1>5, <3>5
      <4>2. b = B
        BY <3>2, <4>1 DEF IsInjective
      <4> QED BY <4>2
    <3> QED BY <2>3, <3>4, <3>5
  <2>4. ASSUME NEW b \in Evaluated
        PROVE  b \in 1 .. Len(L) /\ L[b] \in processed
    BY <1>3, <1>4, <2>2
  <2>5. B \in 1 .. Len(L) /\ L[B] = k
    BY <1>3, <1>4, <1>5
  <2> QED BY <2>1, <2>3, <2>4, <2>5
<1>10. Evaluated = 1 .. B - 1 /\ Evaluated' = 1 .. B
  <2>1. B - 1 = n
    BY <1>8
  <2>2. (1 .. n) \cup {n + 1} = 1 .. n + 1
    OBVIOUS
  <2> QED BY <1>6, <1>8, <1>9, <2>1, <2>2
<1>11. Leads(Tail(wl), Evaluated')
  <2>1. wl # <<>>
    BY <1>2 DEF MayIterate
  <2>2. Leads(Tail(wl), Evaluated \cup {wl[1].block})
    BY <1>1, <1>4, <2>1, TailLeads
  <2> QED BY <1>5, <1>9, <2>2
<1>12. Covers(Tail(wl), Evaluated', Len(label))
  <2>1. \A b \in 1 .. Len(label) :
                \/ label[b] \in processed
                \/ b = Work.block
                \/ \E i \in DOMAIN Tail(wl) : Tail(wl)[i].block = b
    BY <1>1, <1>2, TailKeepsItems
  <2>2. \A b \in 1 .. Len(label) : label[b] \in processed => b \in Evaluated
    BY <1>4 DEF Evaluated, Block
  <2> QED BY <1>9, <2>1, <2>2 DEF Covers, B
<1> QED BY <1>5, <1>9, <1>10, <1>11, <1>12 DEF B

LEMMA QueueInvStop ==
    ASSUME QueueInv, NEW kind \in {"RET", "UNREACHABLE"}, NEW ids \in SUBSET Nat,
           IsFiniteSet(ids), NEW stop \in Nat, RunStop(kind, ids, stop)
    PROVE  QueueInv'
<1>1. WalkInv /\ Typed /\ IsInjective(label) /\ Len(label) \in Nat
  BY DEF QueueInv, WalkInv, Typed
<1>2. StoreInput(label, Ends(kind), ids, stop)
  BY <1>1, StopInput
<1>3. /\ Store(label, Ends(kind), ids, stop)
      /\ wl' = Tail(wl) /\ label' = label
  BY DEF RunStop, Store
<1>4. /\ Evaluated' = 1 .. Work.block /\ Work.block \in 1 .. Len(label)
      /\ Leads(Tail(wl), Evaluated')
  BY <1>1, <1>2, <1>3, StoreRunsNext
<1>5. WalkInv'
  BY <1>1, StopExpands
<1>6. Work.block \in 0 .. Len(label')
  BY <1>1, <1>3, <1>4
<1> QED BY <1>3, <1>4, <1>5, <1>6 DEF QueueInv

(* The block an arm finds or gets is at most one past the table.           *)
LEMMA GetBlockIsNext ==
    ASSUME NEW L \in Seq(Keys), IsInjective(L), NEW v \in Keys
    PROVE  LET M == GetBlock(L, v)
               i == IdOf(M, v)
           IN /\ Len(M) \in Nat /\ i \in 1 .. Len(M) /\ M[i] = v
              /\ Len(L) <= Len(M) /\ i <= Len(L) + 1
              /\ \/ Len(M) = Len(L)
                 \/ Len(M) = Len(L) + 1 /\ i = Len(L) + 1
<1> DEFINE M == GetBlock(L, v)
           i == IdOf(M, v)
<1>1. /\ M \in Seq(Keys) /\ Len(M) \in Nat
      /\ \E j \in 1 .. Len(M) : M[j] = v
  BY GetBlockProperties
<1>2. i \in 1 .. Len(M) /\ M[i] = v
  BY <1>1, IdOfProperties
<1>3. CASE Contains(L, v)
  <2>1. M = L
    BY <1>3 DEF GetBlock
  <2> HIDE DEF M, i
  <2>2. Len(L) <= Len(M) /\ i <= Len(L) + 1 /\ Len(M) = Len(L)
    BY <1>1, <1>2, <2>1
  <2> QED BY <1>1, <1>2, <2>2 DEF M, i
<1>4. CASE ~Contains(L, v)
  <2>1. M = Append(L, v)
    BY <1>4 DEF GetBlock
  <2>2. /\ Len(L) \in Nat /\ DOMAIN L = 1 .. Len(L)
        /\ Len(M) = Len(L) + 1 /\ \A j \in 1 .. Len(L) : M[j] = L[j]
    BY <2>1, AppendProperties, LenProperties
  <2>3. \A j \in 1 .. Len(L) : L[j] # v
    BY <1>4, <2>2 DEF Contains
  <2> HIDE DEF M, i
  <2>4. i = Len(L) + 1
    BY <1>2, <2>2, <2>3
  <2> QED BY <1>1, <1>2, <2>2, <2>4 DEF M, i
<1> QED BY <1>3, <1>4

LEMMA QueueInvBranch ==
    ASSUME QueueInv, NEW t \in Vpc, NEW f \in Vpc, NEW ids \in SUBSET Nat,
           IsFiniteSet(ids), NEW c \in Conditions(ids), NEW stop \in Nat,
           RunBranch(t, f, c, ids, stop)
    PROVE  QueueInv'
<1> DEFINE M == GetBlock(label, t)
           L == GetBlock(M, f)
           x == IdOf(L, t)
           y == IdOf(L, f)
           s == CJmp(x, y, c)
           U == Tail(wl)
           V == Push(U, t, x)
           W == Push(V, f, y)
           E == 1 .. Work.block
<1>1. WalkInv /\ Typed /\ label \in Seq(Keys) /\ IsInjective(label)
      /\ Len(label) \in Nat /\ t \in Keys /\ f \in Keys
  BY DEF QueueInv, WalkInv, Typed, Keys
<1>2. /\ StoreInput(L, s, ids, stop)
      /\ x \in 1 .. Len(L) /\ L[x] = t /\ y \in 1 .. Len(L) /\ L[y] = f
  BY <1>1, BranchInput
<1>3. M \in Seq(Keys) /\ IsInjective(M) /\ L \in Seq(Keys) /\ IsInjective(L)
  <2>1. M \in Seq(Keys) /\ IsInjective(M)
    BY <1>1, GetBlockProperties, GetBlockOneToOne
  <2> HIDE DEF M
  <2>2. L \in Seq(Keys) /\ IsInjective(L)
    BY <1>1, <2>1, GetBlockProperties, GetBlockOneToOne
  <2> QED BY <2>1, <2>2
<1>4. /\ Store(L, s, ids, stop) /\ label' = L /\ wl' = W
  BY DEF RunBranch, Store
<1>5. /\ Len(M) \in Nat
      /\ x <= Len(label) + 1 /\ y <= Len(M) + 1
      /\ \/ Len(M) = Len(label)
         \/ Len(M) = Len(label) + 1 /\ x = Len(label) + 1
  <2> DEFINE z == IdOf(M, t)
  <2>1. /\ Len(M) \in Nat /\ z \in 1 .. Len(M) /\ M[z] = t
        /\ z <= Len(label) + 1
        /\ \/ Len(M) = Len(label)
           \/ Len(M) = Len(label) + 1 /\ z = Len(label) + 1
    BY <1>1, GetBlockIsNext
  <2> HIDE DEF M, z
  <2>2. Len(M) <= Len(L) /\ y <= Len(M) + 1
    BY <1>1, <1>3, GetBlockIsNext
  <2>3. \A i \in 1 .. Len(M) : L[i] = M[i]
    BY <1>1, <1>3, GetBlockProperties
  <2>4. x = z
    <3>1. Len(L) \in Nat /\ DOMAIN L = 1 .. Len(L)
      BY <1>3, LenProperties
    <3>2. z \in DOMAIN L /\ L[z] = t
      BY <2>1, <2>2, <2>3, <3>1
    <3> QED BY <1>2, <1>3, <3>1, <3>2 DEF IsInjective
  <2> QED BY <2>1, <2>2, <2>4
<1> HIDE DEF M, L, x, y, s
<1>6. /\ Evaluated' = E /\ Work.block \in 1 .. Len(label)
      /\ Leads(U, E) /\ Covers(U, E, Len(label))
  <2>1. /\ Evaluated' = 1 .. Work.block /\ Work.block \in 1 .. Len(label)
        /\ Leads(Tail(wl), Evaluated')
        /\ Covers(Tail(wl), Evaluated', Len(label))
    BY <1>2, <1>3, <1>4, StoreRunsNext
  <2> QED BY <2>1
<1>7. /\ Len(L) \in Nat /\ DOMAIN L = 1 .. Len(L) /\ dispatcher' \in Nat
      /\ Len(label) <= Len(L)
  <2>1. Len(L) \in Nat /\ DOMAIN L = 1 .. Len(L) /\ dispatcher' \in Nat
    BY <1>1, <1>2, <1>4, StoreEffect
  <2> QED BY <1>2, <2>1 DEF StoreInput
<1>8. MayIterate
  BY <1>4 DEF Store
<1>9. U \in Seq(Items(Len(L)))
  <2>1. U \in Seq(Items(Len(label)))
    BY <1>1, <1>8, WorkIsTyped
  <2> QED BY <1>1, <1>7, <2>1, ItemsMonotone
<1>10. (t \in processed' => x \in E) /\ (f \in processed' => y \in E)
  <2>1. Evaluated' = {b \in 1 .. Len(L) : L[b] \in processed'}
    BY <1>4, <1>7 DEF Evaluated, Block
  <2> QED BY <1>2, <1>6, <2>1
<1> HIDE DEF U, E
<1>11. V \in Seq(Items(Len(L)))
  BY <1>2, <1>7, <1>9, PushProperties
<1>12. Leads(V, E) /\ Covers(V, E, Len(M))
  <2>2. /\ Leads(V, E) /\ Covers(V, E, Len(label))
        /\ x = Len(label) + 1 => Covers(V, E, Len(label) + 1)
    BY <1>1, <1>2, <1>6, <1>5, <1>7, <1>9, <1>10, PushLeads
  <2> QED BY <1>5, <2>2
<1> HIDE DEF V
<1>13. Leads(W, E)
  BY <1>2, <1>5, <1>7, <1>10, <1>11, <1>12, PushLeads
<1>14. WalkInv'
  BY <1>1, BranchExpands
<1>15. Work.block \in 0 .. Len(label')
  BY <1>1, <1>4, <1>6, <1>7
<1> QED BY <1>4, <1>6, <1>13, <1>14, <1>15 DEF QueueInv, E

(* An item for a key that was run is dropped without loss.                 *)
LEMMA QueueInvSkip ==
    ASSUME QueueInv, SkipItem
    PROVE  QueueInv'
<1>1. WalkInv /\ Typed /\ Leads(wl, Evaluated)
      /\ wl \in Seq(Items(Len(label))) /\ Len(label) \in Nat
      /\ DOMAIN label = 1 .. Len(label)
  BY DEF QueueInv, WalkInv, Typed
<1>2. /\ MayIterate /\ Work.key \in processed /\ wl' = Tail(wl)
      /\ UNCHANGED <<label, processed>>
  BY DEF SkipItem, IsFresh, blocks
<1>3. Work.block \in 1 .. Len(label) /\ label[Work.block] = Work.key
      /\ Work.block = wl[1].block
  BY <1>1, <1>2, TailKeepsItems, WorkIsTyped
<1>4. wl[1].block \in Evaluated
  BY <1>1, <1>2, <1>3 DEF Evaluated, Block
<1>5. Evaluated' = Evaluated
  BY <1>2 DEF Evaluated, Block
<1>6. Evaluated \cup {wl[1].block} = Evaluated
  BY <1>4
<1>7. Leads(Tail(wl), Evaluated)
  <2>1. wl # <<>>
    BY <1>2 DEF MayIterate
  <2>2. Leads(Tail(wl), Evaluated \cup {wl[1].block})
    BY <1>1, <2>1, TailLeads
  <2> QED BY <1>6, <2>2
<1>8. WalkInv'
  BY <1>1, StutterStutters
<1> QED BY <1>2, <1>5, <1>7, <1>8 DEF QueueInv

LEMMA QueueInvStep == QueueInv /\ [Next]_vars => QueueInv'
<1> SUFFICES ASSUME QueueInv, [Next]_vars PROVE QueueInv'
  OBVIOUS
<1>1. ASSUME NEW kind \in {"RET", "UNREACHABLE"}, NEW ids \in SUBSET Nat,
             NEW stop \in StopVa \cup {0}, IsFiniteSet(ids),
             RunStop(kind, ids, stop)
      PROVE  QueueInv'
  BY <1>1, QueueInvStop, SegmentTypes
<1>2. ASSUME NEW t \in Vpc, NEW f \in Vpc, NEW ids \in SUBSET Nat,
             NEW stop \in StopVa, NEW c \in Conditions(ids), IsFiniteSet(ids),
             RunBranch(t, f, c, ids, stop)
      PROVE  QueueInv'
  BY <1>2, QueueInvBranch, SegmentTypes
<1>3. CASE SkipItem
  BY <1>3, QueueInvSkip
<1>4. CASE Finish \/ UNCHANGED vars
  <2>1. UNCHANGED <<label, processed, wl>>
    BY <1>4 DEF Finish, vars, blocks
  <2>2. WalkInv'
    BY <1>4, FinishFinishes, StutterStutters DEF QueueInv
  <2>3. Evaluated' = Evaluated
    BY <2>1 DEF Evaluated, Block
  <2> QED BY <2>1, <2>2, <2>3 DEF QueueInv
<1> QED BY <1>1, <1>2, <1>3, <1>4, StepCases

LEMMA QueueInvAlways == Spec => []QueueInv
BY QueueInvAtStart, QueueInvStep, PTL DEF Spec

(* Blocks are run in the order they were found, and none that waits is     *)
(* forgotten, although keys are queued again until they are run.           *)
THEOREM VmRunsFollowDiscovery == Spec => []RunsFollowDiscovery
<1>1. QueueInv => RunsFollowDiscovery
  <2> SUFFICES ASSUME QueueInv PROVE RunsFollowDiscovery
    OBVIOUS
  <2>1. WalkInv /\ Leads(wl, Evaluated) /\ Block = 1 .. Len(label)
    BY LenProperties DEF QueueInv, WalkInv, Typed, Block
  <2>2. PICK n \in 0 .. Len(label) : Evaluated = 1 .. n
    BY DEF QueueInv
  <2>3. n \in Nat
    BY <2>1, <2>2, LenProperties DEF WalkInv, Typed
  <2>4. Cardinality(Evaluated) = n
    <3>1. 1 \in Int /\ n \in Int /\ (1 > n => n = 0)
      BY <2>3
    <3>2. Cardinality(1 .. n) = IF 1 > n THEN 0 ELSE n - 1 + 1
      BY <3>1, FS_Interval
    <3> QED BY <2>2, <2>3, <3>2
  <2>5. \A i \in DOMAIN wl : label[wl[i].block] = wl[i].key
    BY <2>1 DEF WalkInv
  <2>6. \A b \in Block \ Evaluated : \E i \in DOMAIN wl : wl[i].block = b
    BY <2>1 DEF WalkInv, Evaluated
  <2> QED BY <2>1, <2>2, <2>4, <2>5, <2>6 DEF RunsFollowDiscovery, Leads
<1> QED BY <1>1, QueueInvAlways, PTL

-----------------------------------------------------------------------------
(* The edge list *)

\* The edges of block b in list E are those of terminator t.
Describes(E, t, b) ==
    LET out == {i \in DOMAIN E : E[i].from = b}
        To(s) == [from |-> b, to |-> s, back |-> s <= b]
    IN IF t.kind = "CJMP"
       THEN \E i \in out : /\ out = {i, i + 1}
                           /\ E[i] = To(t.target)
                           /\ E[i + 1] = To(t.fallthrough)
       ELSE out = {}

\* The edge list F is E followed by edges from block b.
Extends(E, F, b) ==
    /\ DOMAIN E = 1 .. Len(E) /\ Len(E) \in Nat
    /\ DOMAIN F = 1 .. Len(F) /\ Len(F) \in Nat /\ Len(E) <= Len(F)
    /\ \A i \in 1 .. Len(E) : F[i] = E[i]
    /\ \A i \in Len(E) + 1 .. Len(F) : F[i].from = b

\* The edge list tells what the terminators of the blocks that were run do.
EdgeInv ==
    /\ QueueInv
    /\ EdgesDescribeTerms
    /\ \A i \in DOMAIN edges : edges[i].from \in Evaluated

LEMMA DescribesKept ==
    ASSUME NEW E, NEW F, NEW b, Extends(E, F, b), NEW t, NEW c, c # b,
           Describes(E, t, c)
    PROVE  Describes(F, t, c)
<1> DEFINE out == {i \in DOMAIN E : E[i].from = c}
           new == {i \in DOMAIN F : F[i].from = c}
           To(s) == [from |-> c, to |-> s, back |-> s <= c]
<1>1. /\ DOMAIN E = 1 .. Len(E) /\ DOMAIN F = 1 .. Len(F)
      /\ Len(E) \in Nat /\ Len(F) \in Nat /\ Len(E) <= Len(F)
  BY DEF Extends
<1>2. new = out
  <2>1. ASSUME NEW i \in new PROVE i \in out
    <3>1. i \in 1 .. Len(E)
      BY <1>1, <2>1 DEF Extends
    <3> QED BY <1>1, <2>1, <3>1 DEF Extends
  <2>2. ASSUME NEW i \in out PROVE i \in new
    BY <1>1, <2>2 DEF Extends
  <2> QED BY <2>1, <2>2
<1>3. \A i \in out : F[i] = E[i]
  BY <1>1 DEF Extends
<1> HIDE DEF new, out, To
<1>4. CASE t.kind = "CJMP"
  <2>1. \E i \in out : out = {i, i + 1} /\ E[i] = To(t.target)
                       /\ E[i + 1] = To(t.fallthrough)
    BY <1>4 DEF Describes, out, To
  <2>2. \E i \in new : new = {i, i + 1} /\ F[i] = To(t.target)
                       /\ F[i + 1] = To(t.fallthrough)
    BY <1>2, <1>3, <2>1
  <2> QED BY <1>4, <2>2 DEF Describes, new, To
<1>5. CASE t.kind # "CJMP"
  <2>1. out = {}
    BY <1>5 DEF Describes, out
  <2> QED BY <1>2, <1>5, <2>1 DEF Describes, new
<1> QED BY <1>4, <1>5

(* Storing a terminator whose edges are added keeps list and terminators   *)
(* together.                                                               *)
LEMMA StoreKeepsEdges ==
    ASSUME EdgeInv, NEW L, NEW t, NEW ids, NEW stop,
           StoreInput(L, t, ids, stop), Store(L, t, ids, stop), IsInjective(L),
           Extends(edges, edges', Work.block),
           Describes(edges', t, Work.block)
    PROVE  /\ EdgesDescribeTerms'
           /\ (\A i \in DOMAIN edges : edges[i].from \in Evaluated)'
<1> DEFINE B == Work.block
<1>1. Typed /\ QueueInv /\ EdgesDescribeTerms
      /\ \A i \in DOMAIN edges : edges[i].from \in Evaluated
  BY DEF EdgeInv, QueueInv, WalkInv
<1>2. /\ label' = L /\ Len(L) \in Nat /\ DOMAIN L = 1 .. Len(L)
      /\ \A i \in 1 .. Len(label) : i # B => term'[i] = term[i]
      /\ \A i \in 1 .. Len(L) : i > Len(label) => term'[i] = Ends("UNREACHABLE")
  BY <1>1, StoreEffect
<1>3. /\ term'[B].kind = t.kind /\ term'[B].target = t.target
      /\ term'[B].fallthrough = t.fallthrough
  BY <1>1, StoreTerminator
<1>4. /\ B \in 1 .. Len(label) /\ Evaluated = 1 .. B - 1 /\ Evaluated' = 1 .. B
  BY <1>1, StoreRunsNext
<1>5. /\ Len(label) \in Nat /\ Len(label) <= Len(L)
      /\ DOMAIN label = 1 .. Len(label)
  BY <1>1 DEF Typed, StoreInput
<1>6. /\ DOMAIN edges = 1 .. Len(edges) /\ Len(edges) \in Nat
      /\ DOMAIN edges' = 1 .. Len(edges') /\ Len(edges') \in Nat
      /\ Len(edges) <= Len(edges')
      /\ \A i \in 1 .. Len(edges) : edges'[i] = edges[i]
      /\ \A i \in Len(edges) + 1 .. Len(edges') : edges'[i].from = B
  BY DEF Extends
<1>7. Extends(edges, edges', B) /\ Describes(edges', t, B)
  OBVIOUS
<1> HIDE DEF B
<1>8. \A i \in DOMAIN edges' : i \in 1 .. Len(edges) \/ edges'[i].from = B
  BY <1>6
<1>9. \A i \in 1 .. Len(edges) : edges'[i].from \in 1 .. B - 1
  BY <1>1, <1>4, <1>6
<1>10. \A i \in DOMAIN edges' : edges'[i].from \in Evaluated'
  <2>1. B \in 1 .. B /\ \A c \in 1 .. B - 1 : c \in 1 .. B
    BY <1>4
  <2> QED BY <1>4, <1>8, <1>9, <2>1
<1>11. \A i, j \in DOMAIN edges' : i <= j => edges'[i].from <= edges'[j].from
  <2> SUFFICES ASSUME NEW i \in DOMAIN edges', NEW j \in DOMAIN edges', i <= j
               PROVE  edges'[i].from <= edges'[j].from
    OBVIOUS
  <2>1. CASE j \in 1 .. Len(edges)
    <3>1. i \in 1 .. Len(edges)
      BY <1>6, <2>1
    <3>2. edges[i].from <= edges[j].from
      BY <1>1, <1>6, <2>1, <3>1 DEF EdgesDescribeTerms
    <3> QED BY <1>6, <2>1, <3>1, <3>2
  <2>2. CASE j \notin 1 .. Len(edges)
    <3>1. edges'[j].from = B
      BY <1>8, <2>2
    <3>2. edges'[i].from \in 1 .. B
      BY <1>4, <1>10
    <3> QED BY <1>4, <3>1, <3>2
  <2> QED BY <2>1, <2>2
<1>12. ASSUME NEW c \in 1 .. Len(L) PROVE Describes(edges', term'[c], c)
  <2>1. CASE c = B
    BY <1>3, <1>7, <2>1 DEF Describes
  <2>2. CASE c # B /\ c <= Len(label)
    <3>1. c \in Block /\ term'[c] = term[c]
      BY <1>2, <1>5, <2>2 DEF Block
    <3>2. Describes(edges, term[c], c)
      BY <1>1, <3>1 DEF EdgesDescribeTerms, Describes
    <3> QED BY <1>7, <2>2, <3>1, <3>2, DescribesKept
  <2>3. CASE c > Len(label)
    <3>1. term'[c] = Ends("UNREACHABLE")
      BY <1>2, <2>3
    <3>2. \A i \in DOMAIN edges : edges[i].from # c
      BY <1>1, <1>4, <1>5, <2>3
    <3>3. Describes(edges, Ends("UNREACHABLE"), c)
      BY <3>2 DEF Describes, Ends
    <3>4. c # B
      BY <1>4, <1>5, <2>3
    <3> QED BY <1>7, <3>1, <3>3, <3>4, DescribesKept
  <2>4. c <= Len(label) \/ c > Len(label)
    BY <1>2, <1>5
  <2> QED BY <2>1, <2>2, <2>3, <2>4
<1>13. Block' = 1 .. Len(L)
  BY <1>2 DEF Block
<1>14. EdgesDescribeTerms'
  BY <1>11, <1>12, <1>13 DEF EdgesDescribeTerms, Describes
<1> QED BY <1>10, <1>14

LEMMA EdgeInvStop ==
    ASSUME EdgeInv, NEW kind \in {"RET", "UNREACHABLE"}, NEW ids \in SUBSET Nat,
           IsFiniteSet(ids), NEW stop \in Nat, RunStop(kind, ids, stop)
    PROVE  EdgeInv'
<1>1. QueueInv /\ Typed /\ IsInjective(label)
      /\ \A i \in DOMAIN edges : edges[i].from \in Evaluated
  BY DEF EdgeInv, QueueInv, WalkInv
<1>2. StoreInput(label, Ends(kind), ids, stop)
  BY <1>1, StopInput
<1>3. Store(label, Ends(kind), ids, stop) /\ edges' = edges
  BY DEF RunStop
<1>4. DOMAIN edges = 1 .. Len(edges) /\ Len(edges) \in Nat
  BY <1>1, LenProperties DEF Typed
<1>5. Extends(edges, edges', Work.block)
  BY <1>3, <1>4 DEF Extends
<1>6. Evaluated = 1 .. Work.block - 1 /\ Work.block \in 1 .. Len(label)
  BY <1>1, <1>2, <1>3, StoreRunsNext
<1>7. Describes(edges', Ends(kind), Work.block)
  <2>1. Len(label) \in Nat
    BY <1>1 DEF Typed
  <2>2. \A i \in DOMAIN edges : edges[i].from # Work.block
    BY <1>1, <1>6, <2>1
  <2> QED BY <1>3, <2>2 DEF Describes, Ends
<1>8. QueueInv'
  BY <1>1, QueueInvStop
<1>9. EdgesDescribeTerms' /\ (\A i \in DOMAIN edges : edges[i].from \in Evaluated)'
  BY <1>1, <1>2, <1>3, <1>5, <1>7, StoreKeepsEdges
<1> QED BY <1>8, <1>9 DEF EdgeInv

LEMMA EdgeInvBranch ==
    ASSUME EdgeInv, NEW t \in Vpc, NEW f \in Vpc, NEW ids \in SUBSET Nat,
           IsFiniteSet(ids), NEW c \in Conditions(ids), NEW stop \in Nat,
           RunBranch(t, f, c, ids, stop)
    PROVE  EdgeInv'
<1> DEFINE M == GetBlock(label, t)
           L == GetBlock(M, f)
           x == IdOf(L, t)
           y == IdOf(L, f)
           s == CJmp(x, y, c)
           B == Work.block
           d == [from |-> B, to |-> x, back |-> IsBack(t)]
           e == [from |-> B, to |-> y, back |-> IsBack(f)]
           n == Len(edges)
<1>1. QueueInv /\ WalkInv /\ Typed /\ label \in Seq(Keys) /\ IsInjective(label)
      /\ Len(label) \in Nat /\ t \in Keys /\ f \in Keys
      /\ \A i \in DOMAIN edges : edges[i].from \in Evaluated
  BY DEF EdgeInv, QueueInv, WalkInv, Typed, Keys
<1>2. /\ StoreInput(L, s, ids, stop)
      /\ x \in 1 .. Len(L) /\ L[x] = t /\ y \in 1 .. Len(L) /\ L[y] = f
  BY <1>1, BranchInput
<1>3. L \in Seq(Keys) /\ IsInjective(L)
  <2>1. M \in Seq(Keys) /\ IsInjective(M)
    BY <1>1, GetBlockProperties, GetBlockOneToOne
  <2> HIDE DEF M
  <2> QED BY <1>1, <2>1, GetBlockProperties, GetBlockOneToOne
<1>4. /\ Store(L, s, ids, stop) /\ label' = L /\ edges' = edges \o <<d, e>>
  BY DEF RunBranch, Store
<1>5. s.kind = "CJMP" /\ s.target = x /\ s.fallthrough = y
  BY DEF CJmp
<1> HIDE DEF M, L, x, y, s
<1>6. B \in 1 .. Len(label) /\ Evaluated = 1 .. B - 1 /\ Evaluated' = 1 .. B
  BY <1>1, <1>2, <1>3, <1>4, StoreRunsNext
<1>7. DOMAIN L = 1 .. Len(L) /\ Len(L) \in Nat
  BY <1>3, LenProperties
<1>8. IsBack(t) = (x <= B) /\ IsBack(f) = (y <= B)
  <2>1. Evaluated' = {b \in 1 .. Len(L) : L[b] \in processed'}
    BY <1>4, <1>7 DEF Evaluated, Block
  <2>2. (t \in processed') <=> x \in 1 .. B
    BY <1>2, <1>6, <2>1
  <2>3. (f \in processed') <=> y \in 1 .. B
    BY <1>2, <1>6, <2>1
  <2>4. (x \in 1 .. B) <=> (x <= B)
    BY <1>1, <1>2, <1>6, <1>7
  <2>5. (y \in 1 .. B) <=> (y <= B)
    BY <1>1, <1>2, <1>6, <1>7
  <2> QED BY <2>2, <2>3, <2>4, <2>5 DEF IsBack
<1>9. /\ d = [from |-> B, to |-> x, back |-> x <= B]
      /\ e = [from |-> B, to |-> y, back |-> y <= B]
  BY <1>8
<1>10. d.from = B /\ e.from = B
  OBVIOUS
<1> HIDE DEF B, d, e
<1>11. edges \in Seq(Edges(Len(label))) /\ n \in Nat /\ DOMAIN edges = 1 .. n
  BY <1>1, LenProperties DEF Typed
<1>12. /\ DOMAIN edges' = 1 .. n + 2 /\ Len(edges') = n + 2
       /\ \A i \in 1 .. n : edges'[i] = edges[i]
       /\ edges'[n + 1] = d /\ edges'[n + 2] = e
  BY <1>4, <1>11
<1>13. \A i \in 1 .. n + 2 : i \in 1 .. n \/ i = n + 1 \/ i = n + 2
  BY <1>11
<1>14. Extends(edges, edges', B)
  BY <1>10, <1>11, <1>12, <1>13 DEF Extends
<1>15. Describes(edges', s, B)
  <2>1. \A i \in 1 .. n : edges'[i].from # B
    BY <1>1, <1>6, <1>11, <1>12
  <2>2. {i \in DOMAIN edges' : edges'[i].from = B} = {n + 1, n + 2}
    BY <1>10, <1>11, <1>12, <1>13, <2>1
  <2>3. n + 2 = (n + 1) + 1 /\ n + 1 \in {n + 1, n + 2}
    BY <1>11
  <2> DEFINE To(z) == [from |-> B, to |-> z, back |-> z <= B]
  <2>4. \E i \in {n + 1, n + 2} :
            {n + 1, n + 2} = {i, i + 1} /\ edges'[i] = To(x) /\ edges'[i + 1] = To(y)
    BY <1>9, <1>12, <2>3
  <2> QED BY <1>5, <2>2, <2>4 DEF Describes
<1>16. QueueInv'
  BY <1>1, QueueInvBranch
<1>17. EdgesDescribeTerms' /\ (\A i \in DOMAIN edges : edges[i].from \in Evaluated)'
  BY <1>2, <1>3, <1>4, <1>14, <1>15, StoreKeepsEdges DEF B
<1> QED BY <1>16, <1>17 DEF EdgeInv

LEMMA EdgeInvStep == EdgeInv /\ [Next]_vars => EdgeInv'
<1> SUFFICES ASSUME EdgeInv, [Next]_vars PROVE EdgeInv'
  OBVIOUS
<1>1. ASSUME NEW kind \in {"RET", "UNREACHABLE"}, NEW ids \in SUBSET Nat,
             NEW stop \in StopVa \cup {0}, IsFiniteSet(ids),
             RunStop(kind, ids, stop)
      PROVE  EdgeInv'
  BY <1>1, EdgeInvStop, SegmentTypes
<1>2. ASSUME NEW t \in Vpc, NEW f \in Vpc, NEW ids \in SUBSET Nat,
             NEW stop \in StopVa, NEW c \in Conditions(ids), IsFiniteSet(ids),
             RunBranch(t, f, c, ids, stop)
      PROVE  EdgeInv'
  BY <1>2, EdgeInvBranch, SegmentTypes
<1>3. CASE SkipItem \/ Finish \/ UNCHANGED vars
  <2>1. UNCHANGED <<label, term, edges, processed>>
    BY <1>3 DEF SkipItem, Finish, vars, blocks
  <2>2. Evaluated' = Evaluated /\ Block' = Block
    BY <2>1 DEF Evaluated, Block
  <2>3. QueueInv'
    BY QueueInvStep DEF EdgeInv
  <2> QED BY <2>1, <2>2, <2>3 DEF EdgeInv, EdgesDescribeTerms
<1> QED BY <1>1, <1>2, <1>3, StepCases

LEMMA EdgeInvAtStart == Init => EdgeInv
<1> SUFFICES ASSUME Init PROVE EdgeInv
  OBVIOUS
<1>1. /\ Block = {1} /\ term[1] = Ends("UNREACHABLE") /\ edges = <<>>
      /\ DOMAIN edges = {}
  BY DEF Init, Block
<1> QED BY <1>1, QueueInvAtStart DEF EdgeInv, EdgesDescribeTerms, Ends

(* The edge list, filled as blocks are run, says what the terminators say, *)
(* in the order of the blocks, and flags exactly the edges that do not     *)
(* lead further down.                                                      *)
THEOREM VmEdgesDescribeTerms == Spec => []EdgesDescribeTerms
<1>1. EdgeInv => EdgesDescribeTerms
  BY DEF EdgeInv
<1> QED BY EdgeInvAtStart, EdgeInvStep, <1>1, PTL DEF Spec
=============================================================================
