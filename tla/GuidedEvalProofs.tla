-------------------------- MODULE GuidedEvalProofs --------------------------
(***************************************************************************)
(* Proofs about GuidedEval for every code, image and limit.                *)
(***************************************************************************)
EXTENDS GuidedEval, TLAPS, SequenceTheorems, FiniteSetTheorems

-----------------------------------------------------------------------------
(* Types *)

Record == [before: VpcValue, after: VpcValue \cup {Unknown}, handler: Addr,
           start: Nat, end: Nat]

\* TypeOK, and what the handler record of a dispatch needs: a window was
\* lifted before an address can come up again.
TypeInv ==
    /\ TypeOK
    /\ dispatcher = {} \/ \E d \in Addr : dispatcher = {d}
    /\ visited # {} /\ pc \in {"visit", "follow"} => jmpTrace # <<>>

LEMMA LatchedProperties ==
    ASSUME TypeInv, pc = "visit"
    PROVE  \E d \in Addr : Latched = {d}
BY DEF TypeInv, TypeOK, Latched

LEMMA CatalogType ==
    ASSUME TypeInv, pc = "visit", IsVisited
    PROVE  Catalog \in Seq(Record)
<1>1. /\ handlers \in Seq(Record) /\ lastVpc \in VpcValue \cup {Unknown}
      /\ vpc \in VpcValue \cup {Unknown} /\ handlerStart \in Nat /\ irLen \in Nat
      /\ jmpTrace \in Seq(Addr) /\ jmpTrace # <<>>
  BY DEF TypeInv, TypeOK, Record, IsVisited
<1>2. jmpTrace[Len(jmpTrace)] \in Addr
  BY <1>1, LenProperties, EmptySeq, ElementOfSeq
<1>3. lastVpc # Unknown => Handler \in Record
  BY <1>1, <1>2 DEF Handler, Record
<1> QED BY <1>1, <1>3, AppendProperties DEF Catalog

LEMMA TypeInvInit == Init => TypeInv
<1> SUFFICES ASSUME Init PROVE TypeInv
  OBVIOUS
<1>1. StartVa \in Addr
  BY GuidedAssumption
<1>2. Cardinality({}) = 0
  BY FS_EmptySet
<1>3. InitialRsp \in [constant: BOOLEAN, delta: Int]
  BY DEF InitialRsp
<1>4. vpcTrace \in Seq(VpcValue \cup {Unknown}) /\ jmpTrace \in Seq(Addr)
      /\ handlers \in Seq(Record)
  BY DEF Init
<1>5. TypeOK
  BY <1>1, <1>2, <1>3, <1>4 DEF Init, TypeOK, Target, Record
<1> QED BY <1>5 DEF Init, TypeInv

\* What no step changes but those of the dispatcher, and those of a window.
LEMMA TypeInvStep ==
    ASSUME TypeInv, code' = code,
           va' \in Addr \/ (va' = Outside /\ pc' \in {"cleanup", "done"}),
           visited' \in SUBSET Addr,
           \/ dispatcher' = dispatcher
           \/ \E d \in Addr : dispatcher' = {d},
           vpc' \in VpcValue \cup {Unknown},
           lastVpc' \in VpcValue \cup {Unknown},
           vpcTrace' \in Seq(VpcValue \cup {Unknown}),
           jmpTrace' \in Seq(Addr), handlerStart' \in Nat, irLen' \in Nat,
           vmInsns' \in Nat, steps' \in Nat,
           jump' \in Target,
           handlers' \in Seq(Record),
           rsp' \in [constant: BOOLEAN, delta: Int],
           pc' \in {"visit", "lift", "follow", "cleanup", "done"},
           visited' # {} /\ pc' \in {"visit", "follow"} => jmpTrace' # <<>>
    PROVE  TypeInv'
<1>1. dispatcher' = {} \/ \E d \in Addr : dispatcher' = {d}
  BY DEF TypeInv
<1>2. Cardinality(dispatcher') <= 1
  <2>1. Cardinality({}) = 0 /\ \A d : Cardinality({d}) = 1
    BY FS_EmptySet, FS_Singleton
  <2>2. Cardinality(dispatcher') \in {0, 1}
    BY <1>1, <2>1
  <2> QED BY <2>2
<1>3. code' \in Code
  BY DEF TypeInv, TypeOK
<1>4. TypeOK'
  BY <1>1, <1>2, <1>3 DEF TypeOK, Record
<1> QED BY <1>1, <1>4 DEF TypeInv

LEMMA TypeInvNext == TypeInv /\ [Next]_vars => TypeInv'
<1> SUFFICES ASSUME TypeInv, [Next]_vars PROVE TypeInv'
  OBVIOUS
<1> USE DEF trace, machine, Record
<1>0. /\ va \in Addr \/ (va = Outside /\ pc \in {"cleanup", "done"})
      /\ visited \in SUBSET Addr
      /\ vpc \in VpcValue \cup {Unknown} /\ lastVpc \in VpcValue \cup {Unknown}
      /\ vpcTrace \in Seq(VpcValue \cup {Unknown}) /\ jmpTrace \in Seq(Addr)
      /\ handlerStart \in Nat /\ irLen \in Nat /\ vmInsns \in Nat /\ steps \in Nat
      /\ jump \in Target
      /\ handlers \in Seq(Record)
      /\ rsp \in [constant: BOOLEAN, delta: Int]
      /\ pc \in {"visit", "lift", "follow", "cleanup", "done"}
      /\ visited # {} /\ pc \in {"visit", "follow"} => jmpTrace # <<>>
  BY DEF TypeInv, TypeOK
<1>1. CASE OutOfSteps
  BY <1>0, <1>1, TypeInvStep DEF OutOfSteps, Stop
<1>2. CASE Enter
  BY <1>0, <1>2, TypeInvStep DEF Enter
<1>3. CASE InnerLoop
  BY <1>0, <1>3, TypeInvStep DEF InnerLoop, Stop
<1>4. CASE DispatchStop
  <2>1. Catalog \in Seq(Record) /\ \E d \in Addr : Latched = {d}
    BY <1>4, CatalogType, LatchedProperties DEF DispatchStop
  <2> QED BY <1>0, <1>4, <2>1, TypeInvStep DEF DispatchStop, Stop
<1>5. CASE Dispatch
  <2>1. Catalog \in Seq(Record) /\ \E d \in Addr : Latched = {d}
    BY <1>5, CatalogType, LatchedProperties DEF Dispatch
  <2>2. vpcTrace' \in Seq(VpcValue \cup {Unknown})
    BY <1>0, <1>5, AppendProperties DEF Dispatch
  <2>3. visited' \in SUBSET Addr /\ pc' \in {"lift", "cleanup"}
    BY <1>0, <1>5 DEF Dispatch, Stop, AfterDispatch
  <2> QED BY <1>0, <1>5, <2>1, <2>2, <2>3, TypeInvStep
          DEF Dispatch, NextVpc, NextStart
<1>6. CASE OutOfBounds
  <2>1. jmpTrace' \in Seq(Addr) /\ va \in Addr
    BY <1>0, <1>6, AppendProperties DEF OutOfBounds
  <2> QED BY <1>0, <1>6, <2>1, TypeInvStep DEF OutOfBounds, Stop
<1>7. CASE Lift
  <2>0. va \in Addr
    BY <1>0, <1>7 DEF Lift
  <2>1. jmpTrace' \in Seq(Addr) /\ jmpTrace' # <<>>
    BY <1>0, <1>7, <2>0, AppendProperties, EmptySeq DEF Lift
  <2>2. code[va].len \in Nat
    BY <2>0, GuidedAssumption DEF TypeInv, TypeOK, Window
  <2>3. /\ vpc' \in VpcValue \cup {Unknown} /\ irLen' \in Nat
        /\ steps' \in Nat
        /\ rsp' \in [constant: BOOLEAN, delta: Int]
    <3>1. steps' \in Nat
      BY <1>0, <1>7, <2>2 DEF Lift
    <3>2. /\ vpc' \in VpcValue \cup {Unknown} /\ rsp' \in StackAfter
          /\ irLen' \in {irLen + n : n \in 0 .. code[va].len}
      BY <1>7 DEF Lift
    <3>3. irLen' \in Nat
      BY <1>0, <2>2, <3>2
    <3>4. rsp' \in [constant: BOOLEAN, delta: Int]
      <4>1. rsp' = rsp \/ rsp' = InitialRsp
            \/ rsp' \in [constant: {FALSE}, delta: {-16, -8, 0}]
        BY <3>2 DEF StackAfter
      <4>2. InitialRsp \in [constant: BOOLEAN, delta: Int]
        BY DEF InitialRsp
      <4>3. -16 \in Int /\ -8 \in Int /\ 0 \in Int
        OBVIOUS
      <4>4. [constant: {FALSE}, delta: {-16, -8, 0}]
              \subseteq [constant: BOOLEAN, delta: Int]
        BY <4>3
      <4> QED BY <1>0, <4>1, <4>2, <4>4
    <3> QED BY <3>1, <3>2, <3>3, <3>4
  <2>4. jump' \in Target
    BY <1>0, <1>7 DEF Lift, JumpAfter
  <2>5. pc' \in {"follow", "cleanup"}
    BY <1>7 DEF Lift, Stop
  <2> QED BY <1>0, <1>7, <2>1, <2>3, <2>4, <2>5, TypeInvStep DEF Lift
<1>8. CASE Follow
  BY <1>0, <1>8, TypeInvStep DEF Follow
<1>9. CASE Unresolved
  BY <1>0, <1>9, TypeInvStep DEF Unresolved, Stop
<1>10. CASE Cleanup
  BY <1>0, <1>10, TypeInvStep DEF Cleanup
<1>11. CASE UNCHANGED vars
  BY <1>0, <1>11, TypeInvStep DEF vars
<1> QED BY <1>1, <1>2, <1>3, <1>4, <1>5, <1>6, <1>7, <1>8, <1>9, <1>10, <1>11
        DEF Next

LEMMA TypeInvAlways == Spec => []TypeInv
BY TypeInvInit, TypeInvNext, PTL DEF Spec

(* The evaluator's state has its types; every handler record is made at a  *)
(* dispatch, from a VPC that was known.                                    *)
THEOREM GuidedTypeCorrect == Spec => []TypeOK
<1>1. TypeInv => TypeOK
  BY DEF TypeInv
<1> QED BY <1>1, TypeInvAlways, PTL

-----------------------------------------------------------------------------
(* The work *)

WorkInv ==
    /\ WorkBounded
    /\ pc = "lift" => va \in visited
    /\ pc \in {"visit", "lift", "follow"} => vmInsns < MaxVmInsns \/ vmInsns = 0

LEMMA VisitedFinite ==
    ASSUME NEW S \in SUBSET Addr
    PROVE  /\ IsFiniteSet(S)
           /\ Cardinality(S) \in Nat /\ Cardinality(Addr) \in Nat
           /\ Cardinality(S) <= Cardinality(Addr)
BY GuidedAssumption, FS_Subset, FS_CardinalityType

LEMMA WorkInvInit == Init => WorkInv
<1> SUFFICES ASSUME Init PROVE WorkInv
  OBVIOUS
<1>1. /\ Cardinality({}) = 0 /\ Cardinality(Addr) \in Nat
      /\ 0 * Cardinality(Addr) = 0
  BY FS_EmptySet, VisitedFinite
<1>2. vmInsns = 0 /\ visited = {} /\ Len(jmpTrace) = 0 /\ pc = "visit"
  BY DEF Init
<1>3. MaxVmInsns \in Int
  BY GuidedAssumption
<1> QED BY <1>1, <1>2, <1>3 DEF WorkInv, WorkBounded

LEMMA WorkInvNext == TypeInv /\ WorkInv /\ [Next]_vars => WorkInv'
<1> SUFFICES ASSUME TypeInv, WorkInv, [Next]_vars PROVE WorkInv'
  OBVIOUS
<1> USE DEF trace, machine
<1>0. /\ visited \in SUBSET Addr /\ jmpTrace \in Seq(Addr)
      /\ Len(jmpTrace) \in Nat /\ vmInsns \in Nat /\ MaxVmInsns \in Int
      /\ Cardinality(Addr) \in Nat /\ Cardinality(visited) \in Nat
      /\ vmInsns * Cardinality(Addr) \in Nat
  BY VisitedFinite, LenProperties, GuidedAssumption DEF TypeInv, TypeOK
<1>1. ASSUME UNCHANGED <<vmInsns, visited, jmpTrace>>, pc' # "lift",
             pc' = "visit" => pc \in {"visit", "follow"},
             pc' = "follow" => pc = "follow"
      PROVE  WorkInv'
  BY <1>1 DEF WorkInv, WorkBounded
<1>2. CASE Enter
  <2>1. IsFiniteSet(visited) /\ va \notin visited
    BY <1>0, <1>2, VisitedFinite DEF Enter, IsVisited
  <2>2. Cardinality(visited') = Cardinality(visited) + 1
    BY <1>2, <2>1, FS_AddElement DEF Enter
  <2>3. /\ UNCHANGED <<va, vmInsns, jmpTrace>> /\ va \in visited'
        /\ pc = "visit" /\ pc' = "lift"
    BY <1>2 DEF Enter
  <2> QED BY <1>0, <2>2, <2>3 DEF WorkInv, WorkBounded
<1>3. CASE Dispatch
  <2>1. /\ jmpTrace' = jmpTrace /\ va' = va /\ vmInsns' = vmInsns + 1
        /\ pc = "visit"
    BY <1>3 DEF Dispatch
  <2>2. vmInsns < MaxVmInsns \/ vmInsns = 0
    BY <2>1 DEF WorkInv
  <2>3. Len(jmpTrace) <= vmInsns' * Cardinality(Addr)
    <3>1. (vmInsns + 1) * Cardinality(Addr)
            = vmInsns * Cardinality(Addr) + Cardinality(Addr)
      BY <1>0
    <3>2. Cardinality(visited) <= Cardinality(Addr)
      BY <1>0, VisitedFinite
    <3>3. Len(jmpTrace) <= vmInsns * Cardinality(Addr) + Cardinality(visited)
      BY DEF WorkInv, WorkBounded
    <3> QED BY <1>0, <2>1, <3>1, <3>2, <3>3
  <2>4. vmInsns' * Cardinality(Addr) \in Nat
    BY <1>0, <2>1
  <2>5. CASE vmInsns' >= MaxVmInsns
    <3>1. pc' = "cleanup" /\ visited' = visited
      BY <1>3, <2>5 DEF Dispatch, Stop
    <3> QED BY <1>0, <2>1, <2>2, <2>3, <2>4, <3>1 DEF WorkInv, WorkBounded
  <2>6. CASE ~(vmInsns' >= MaxVmInsns)
    <3>1. pc' = "lift" /\ visited' = {va}
      BY <1>3, <2>6 DEF Dispatch, AfterDispatch
    <3>2. Cardinality(visited') = 1
      BY <3>1, FS_Singleton
    <3> QED BY <1>0, <2>1, <2>3, <2>4, <2>6, <3>1, <3>2
            DEF WorkInv, WorkBounded
  <2> QED BY <2>5, <2>6
<1>4. CASE OutOfBounds \/ Lift
  <2>1. /\ jmpTrace' = Append(jmpTrace, va) /\ UNCHANGED <<vmInsns, visited>>
        /\ pc = "lift" /\ pc' \in {"follow", "cleanup"}
    BY <1>4 DEF OutOfBounds, Lift, Stop
  <2>2. Len(jmpTrace') = Len(jmpTrace) + 1
    BY <1>0, <2>1, AppendProperties
  <2> QED BY <1>0, <2>1, <2>2 DEF WorkInv, WorkBounded
<1>5. CASE Follow
  BY <1>1, <1>5 DEF Follow
<1>6. CASE OutOfSteps \/ InnerLoop \/ DispatchStop \/ Unresolved \/ Cleanup
  BY <1>1, <1>6 DEF OutOfSteps, InnerLoop, DispatchStop, Unresolved, Cleanup, Stop
<1>7. CASE UNCHANGED vars
  BY <1>7 DEF vars, WorkInv, WorkBounded
<1> QED BY <1>2, <1>3, <1>4, <1>5, <1>6, <1>7 DEF Next

(* For every image and every code in it, a run lifts at most as many       *)
(* windows as there are addresses between two dispatches, and dispatches   *)
(* at most max_vm_insns times.                                             *)
THEOREM GuidedWorkBounded == Spec => []WorkBounded
<1>1. TypeInv /\ WorkInv /\ [Next]_vars => WorkInv'
  BY WorkInvNext
<1>2. WorkInv => WorkBounded
  BY DEF WorkInv
<1> QED BY <1>1, <1>2, WorkInvInit, TypeInvAlways, PTL DEF Spec

-----------------------------------------------------------------------------
(* The trace of the VPC and the catalog of handlers *)

Active == pc \notin {"cleanup", "done"}

TraceInv ==
    /\ Len(vpcTrace) = vmInsns
    /\ vpcTrace = <<>> => lastVpc = Unknown
    /\ vpcTrace # <<>> => lastVpc = vpcTrace[Len(vpcTrace)]
    /\ DispatchesMove
    /\ Active => result = "IN_PROGRESS"
    /\ Active => handlerStart <= irLen
    /\ CatalogMatchesTrace

LEMMA TraceInvInit == Init => TraceInv
<1> SUFFICES ASSUME Init PROVE TraceInv
  OBVIOUS
<1>1. /\ vpcTrace = <<>> /\ handlers = <<>> /\ vmInsns = 0 /\ irLen = 0
      /\ handlerStart = 0 /\ lastVpc = Unknown /\ result = "IN_PROGRESS"
  BY DEF Init
<1>2. Len(vpcTrace) = 0 /\ DOMAIN handlers = {}
  BY <1>1
<1> QED BY <1>1, <1>2 DEF TraceInv, DispatchesMove, CatalogMatchesTrace

\* A record of the catalog in the trace T; ended is how the run may have
\* ended where the trace does.
Describes(r, T, ended) ==
    \E i \in DOMAIN T : /\ r.before = T[i]
                        /\ IF i < Len(T) THEN r.after = T[i + 1] ELSE ended

\* The ranges of the records of H follow each other.
InOrder(H) == \A h \in DOMAIN H : /\ H[h].start < H[h].end
                                  /\ h > 1 => H[h - 1].end <= H[h].start

LEMMA CatalogParts ==
    CatalogMatchesTrace <=>
        /\ InOrder(handlers)
        /\ \A h \in DOMAIN handlers :
              /\ Active => handlers[h].end <= handlerStart
              /\ Describes(handlers[h], vpcTrace,
                           result \in {"VPC_CONVERGED", "INNER_LOOP"})
BY DEF CatalogMatchesTrace, InOrder, Describes, Active

\* The record made at a dispatch follows those before it and starts where the
\* trace ends.
LEMMA CatalogGrows ==
    ASSUME TypeInv, TraceInv, pc = "visit", IsVisited
    PROVE  /\ InOrder(Catalog)
           /\ \A h \in DOMAIN Catalog :
                 /\ Catalog[h].end <= irLen
                 /\ \/ h \in DOMAIN handlers /\ Catalog[h] = handlers[h]
                    \/ /\ vpcTrace # <<>> /\ Catalog[h].after = vpc
                       /\ Catalog[h].before = vpcTrace[Len(vpcTrace)]
<1>1. /\ handlers \in Seq(Record) /\ handlerStart \in Nat /\ irLen \in Nat
      /\ DOMAIN handlers = 1 .. Len(handlers) /\ Len(handlers) \in Nat
      /\ handlerStart <= irLen
  BY LenProperties DEF TypeInv, TypeOK, Record, TraceInv, Active
<1>2. /\ InOrder(handlers)
      /\ \A h \in DOMAIN handlers : handlers[h].end <= handlerStart
  BY CatalogParts DEF TraceInv, Active
<1>3. \A h \in DOMAIN handlers : handlers[h].end \in Nat
  <2>1. ASSUME NEW h \in DOMAIN handlers PROVE handlers[h] \in Record
    BY <1>1, ElementOfSeq
  <2> QED BY <2>1 DEF Record
<1>4. CASE Catalog = handlers
  <2>1. \A h \in DOMAIN handlers : handlers[h].end <= irLen
    BY <1>1, <1>2, <1>3
  <2> QED BY <1>2, <1>4, <2>1
<1>5. CASE Catalog # handlers
  <2> DEFINE r == Handler
  <2>1. /\ Catalog = Append(handlers, r) /\ lastVpc # Unknown
        /\ handlerStart < irLen
    BY <1>5 DEF Catalog
  <2>2. /\ r.start = handlerStart /\ r.end = irLen /\ r.before = lastVpc
        /\ r.after = vpc
    BY DEF Handler
  <2>3. vpcTrace # <<>> /\ r.before = vpcTrace[Len(vpcTrace)]
    BY <2>1, <2>2 DEF TraceInv
  <2>4. Catalog \in Seq(Record) /\ Handler \in Record
    <3>1. Catalog \in Seq(Record)
      BY CatalogType
    <3>2. Handler \in Record
      <4>1. jmpTrace[Len(jmpTrace)] \in Addr
        BY LenProperties, EmptySeq, ElementOfSeq DEF TypeInv, TypeOK, IsVisited
      <4> QED BY <1>1, <2>1, <4>1 DEF Handler, Record, TypeInv, TypeOK
    <3> QED BY <3>1, <3>2
  <2>5. /\ DOMAIN Catalog = 1 .. Len(handlers) + 1
        /\ \A h \in 1 .. Len(handlers) : Catalog[h] = handlers[h]
        /\ Catalog[Len(handlers) + 1] = r
    <3>1. /\ Len(Catalog) = Len(handlers) + 1
          /\ \A h \in 1 .. Len(handlers) : Catalog[h] = handlers[h]
          /\ Catalog[Len(handlers) + 1] = r
      BY <1>1, <2>1, <2>4, AppendProperties
    <3> QED BY <3>1, <2>4, LenProperties
  <2> HIDE DEF r
  <2>6. ASSUME NEW h \in 1 .. Len(handlers) + 1
        PROVE  /\ Catalog[h].start < Catalog[h].end
               /\ h > 1 => Catalog[h - 1].end <= Catalog[h].start
               /\ Catalog[h].end <= irLen
               /\ \/ h \in DOMAIN handlers /\ Catalog[h] = handlers[h]
                  \/ /\ vpcTrace # <<>> /\ Catalog[h].after = vpc
                     /\ Catalog[h].before = vpcTrace[Len(vpcTrace)]
    <3>1. CASE h \in 1 .. Len(handlers)
      <4>2. h > 1 => h - 1 \in 1 .. Len(handlers) /\ Catalog[h - 1] = handlers[h - 1]
        BY <1>1, <2>5, <3>1
      <4>3. Catalog[h] = handlers[h] /\ handlers[h].end <= irLen
        BY <1>1, <1>2, <1>3, <2>5, <3>1
      <4> QED BY <1>1, <1>2, <3>1, <4>2, <4>3 DEF InOrder
    <3>2. CASE h = Len(handlers) + 1
      <4>1. h > 1 => h - 1 \in 1 .. Len(handlers)
        BY <1>1, <3>2
      <4>2. h > 1 => Catalog[h - 1].end <= handlerStart
        BY <1>1, <1>2, <2>5, <4>1
      <4>3. Catalog[h] = r
        BY <2>5, <3>2
      <4>4. /\ r.start < r.end /\ r.end <= irLen
            /\ h > 1 => Catalog[h - 1].end <= r.start
        BY <1>1, <2>1, <2>2, <4>2
      <4> QED BY <2>2, <2>3, <4>3, <4>4
    <3> QED BY <1>1, <3>1, <3>2
  <2> QED BY <2>5, <2>6 DEF InOrder
<1> QED BY <1>4, <1>5

LEMMA TraceInvNext == TypeInv /\ TraceInv /\ [Next]_vars => TraceInv'
<1> SUFFICES ASSUME TypeInv, TraceInv, [Next]_vars PROVE TraceInv'
  OBVIOUS
<1> USE DEF trace, machine
<1> DEFINE Ended == result \in {"VPC_CONVERGED", "INNER_LOOP"}
<1>0. /\ vpcTrace \in Seq(VpcValue \cup {Unknown})
      /\ Len(vpcTrace) \in Nat /\ DOMAIN vpcTrace = 1 .. Len(vpcTrace)
      /\ handlerStart \in Nat /\ irLen \in Nat /\ vmInsns = Len(vpcTrace)
  BY LenProperties DEF TypeInv, TypeOK, TraceInv
\* A record of an active run stays described when the run ends.
<1>1. ASSUME UNCHANGED <<lastVpc, vpcTrace, handlerStart, handlers, vmInsns>>,
             Active, irLen' \in Nat, irLen <= irLen',
             Active' => result' = "IN_PROGRESS"
      PROVE  TraceInv'
  <2>1. /\ InOrder(handlers)
        /\ \A h \in DOMAIN handlers :
              /\ handlers[h].end <= handlerStart
              /\ Describes(handlers[h], vpcTrace, Ended)
    BY <1>1, CatalogParts DEF TraceInv
  <2>2. ~Ended
    BY <1>1 DEF TraceInv
  <2>3. \A h \in DOMAIN handlers : Describes(handlers[h], vpcTrace, Ended')
    BY <2>1, <2>2 DEF Describes
  <2>4. CatalogMatchesTrace'
    BY <1>1, <2>1, <2>3 DEF CatalogMatchesTrace, InOrder, Describes, Active
  <2>5. Active' => handlerStart' <= irLen'
    BY <1>0, <1>1 DEF TraceInv
  <2> QED BY <1>1, <2>4, <2>5 DEF TraceInv, DispatchesMove
<1>2. CASE OutOfSteps \/ Enter \/ InnerLoop \/ OutOfBounds \/ Follow \/ Unresolved
  <2>1. /\ UNCHANGED <<lastVpc, vpcTrace, handlerStart, handlers, vmInsns, irLen>>
        /\ Active
        /\ result' = result \/ pc' = "cleanup"
    BY <1>2 DEF OutOfSteps, Enter, InnerLoop, OutOfBounds, Follow, Unresolved,
                Stop, Active
  <2>2. Active' => result' = "IN_PROGRESS"
    BY <2>1 DEF Active, TraceInv
  <2> QED BY <1>0, <1>1, <2>1, <2>2
<1>3. CASE Lift
  <2>1. /\ UNCHANGED <<lastVpc, vpcTrace, handlerStart, handlers, vmInsns>>
        /\ Active
        /\ result' = result \/ pc' = "cleanup"
    BY <1>3 DEF Lift, Stop, Active
  <2>2. code[va].len \in Nat
    <3>1. va \in Addr
      BY <1>3 DEF Lift, TypeInv, TypeOK
    <3> QED BY <3>1, GuidedAssumption DEF TypeInv, TypeOK, Window
  <2>3. irLen' \in {irLen + n : n \in 0 .. code[va].len}
    BY <1>3 DEF Lift
  <2>4. irLen' \in Nat /\ irLen <= irLen'
    BY <1>0, <2>2, <2>3
  <2>5. Active' => result' = "IN_PROGRESS"
    BY <2>1 DEF Active, TraceInv
  <2> QED BY <1>1, <2>1, <2>4, <2>5
<1>4. CASE Cleanup
  <2>1. UNCHANGED <<lastVpc, vpcTrace, handlerStart, handlers, vmInsns, result>>
        /\ ~Active /\ ~Active'
    BY <1>4 DEF Cleanup, Active
  <2>2. CatalogMatchesTrace'
    BY <2>1 DEF TraceInv, CatalogMatchesTrace, Active
  <2> QED BY <2>1, <2>2 DEF TraceInv, DispatchesMove
<1>5. CASE DispatchStop \/ Dispatch
  <2> DEFINE C == Catalog
  <2>1. /\ Active /\ pc = "visit" /\ IsVisited /\ handlers' = C
        /\ irLen' = irLen
    BY <1>5 DEF DispatchStop, Dispatch, Active
  <2>2. /\ InOrder(C)
        /\ \A h \in DOMAIN C :
              /\ C[h].end <= irLen
              /\ \/ h \in DOMAIN handlers /\ C[h] = handlers[h]
                 \/ /\ vpcTrace # <<>> /\ C[h].after = vpc
                    /\ C[h].before = vpcTrace[Len(vpcTrace)]
    BY <2>1, CatalogGrows
  <2>3. ~Ended /\ \A h \in DOMAIN handlers : Describes(handlers[h], vpcTrace, Ended)
    BY <2>1, CatalogParts DEF TraceInv
  <2>4. vpcTrace # <<>> => Len(vpcTrace) \in DOMAIN vpcTrace
    BY <1>0, EmptySeq
  <2> HIDE DEF C
  <2>5. CASE DispatchStop
    <3>1. /\ UNCHANGED <<lastVpc, vpcTrace, handlerStart, vmInsns>>
          /\ Ended' /\ ~Active'
      BY <2>5 DEF DispatchStop, Stop, Active
    <3>2. \A h \in DOMAIN C : Describes(C[h], vpcTrace, TRUE)
      <4>1. ASSUME NEW h \in DOMAIN C PROVE Describes(C[h], vpcTrace, TRUE)
        <5>1. CASE h \in DOMAIN handlers /\ C[h] = handlers[h]
          BY <2>3, <5>1 DEF Describes
        <5>2. CASE vpcTrace # <<>> /\ C[h].before = vpcTrace[Len(vpcTrace)]
          <6>1. Len(vpcTrace) \in DOMAIN vpcTrace
            BY <2>4, <5>2
          <6>2. ~(Len(vpcTrace) < Len(vpcTrace))
            BY <1>0
          <6> QED BY <5>2, <6>1, <6>2 DEF Describes
        <5> QED BY <2>2, <5>1, <5>2
      <4> QED BY <4>1
    <3>3. CatalogMatchesTrace'
      BY <2>1, <2>2, <3>1, <3>2
         DEF CatalogMatchesTrace, InOrder, Describes, Active
    <3> QED BY <3>1, <3>3 DEF TraceInv, DispatchesMove
  <2>6. CASE Dispatch
    <3> DEFINE T == vpcTrace'
    <3>1. /\ T = Append(vpcTrace, vpc) /\ lastVpc' = vpc /\ handlerStart' = irLen
          /\ vmInsns' = vmInsns + 1 /\ vpc' = vpc
          /\ ~Converged /\ ~Symbolic
          /\ result' = result \/ pc' = "cleanup"
      BY <2>6 DEF Dispatch, NextVpc, NextStart, Stop
    <3>2. /\ T \in Seq(VpcValue \cup {Unknown}) /\ Len(T) = Len(vpcTrace) + 1
          /\ \A i \in 1 .. Len(vpcTrace) : T[i] = vpcTrace[i]
          /\ T[Len(vpcTrace) + 1] = vpc
      <4>1. vpc \in VpcValue \cup {Unknown}
        BY DEF TypeInv, TypeOK
      <4> QED BY <1>0, <3>1, <4>1, AppendProperties
    <3>3. DOMAIN T = 1 .. Len(vpcTrace) + 1 /\ T # <<>>
      BY <1>0, <3>2, LenProperties, EmptySeq
    <3> HIDE DEF T
    <3>4. vpcTrace # <<>> => vpcTrace[Len(vpcTrace)] # vpc
      <4>1. vpcTrace # <<>> => vmInsns > 0
        BY <1>0, EmptySeq
      <4>2. vpcTrace # <<>> => lastVpc = vpcTrace[Len(vpcTrace)]
        BY DEF TraceInv
      <4> QED BY <3>1, <4>1, <4>2 DEF Converged, Symbolic
    <3>5. \A i \in 1 .. Len(T) - 1 : T[i] # T[i + 1]
      <4>1. ASSUME NEW i \in 1 .. Len(vpcTrace) PROVE T[i] # T[i + 1]
        <5>1. CASE i = Len(vpcTrace)
          BY <1>0, <3>2, <3>4, <5>1, EmptySeq
        <5>2. CASE i # Len(vpcTrace)
          <6>1. i \in 1 .. Len(vpcTrace) - 1 /\ i + 1 \in 1 .. Len(vpcTrace)
            <7>1. Len(vpcTrace) \in Nat
              BY <1>0
            <7> QED BY <5>2, <7>1
          <6> QED BY <3>2, <6>1 DEF TraceInv, DispatchesMove
        <5> QED BY <5>1, <5>2
      <4> QED BY <1>0, <3>2, <4>1
    <3>6. ASSUME NEW h \in DOMAIN C PROVE Describes(C[h], T, FALSE)
      <4>1. CASE h \in DOMAIN handlers /\ C[h] = handlers[h]
        <5>1. PICK i \in DOMAIN vpcTrace :
                 /\ C[h].before = vpcTrace[i]
                 /\ i < Len(vpcTrace) /\ C[h].after = vpcTrace[i + 1]
          BY <1>0, <2>3, <4>1 DEF Describes
        <5>2. i \in DOMAIN T /\ i < Len(T) /\ T[i] = vpcTrace[i]
              /\ T[i + 1] = vpcTrace[i + 1]
          BY <1>0, <3>2, <3>3, <5>1
        <5> QED BY <5>1, <5>2 DEF Describes
      <4>2. CASE /\ vpcTrace # <<>> /\ C[h].after = vpc
                 /\ C[h].before = vpcTrace[Len(vpcTrace)]
        <5>1. Len(vpcTrace) \in DOMAIN T /\ Len(vpcTrace) < Len(T)
              /\ T[Len(vpcTrace)] = vpcTrace[Len(vpcTrace)]
          BY <1>0, <2>4, <3>2, <3>3, <4>2
        <5> QED BY <3>2, <4>2, <5>1 DEF Describes
      <4> QED BY <2>2, <4>1, <4>2
    <3>7. CatalogMatchesTrace'
      <4>1. \A h \in DOMAIN C : Describes(C[h], T, Ended')
        BY <3>6 DEF Describes
      <4> QED BY <2>1, <2>2, <3>1, <4>1
              DEF CatalogMatchesTrace, InOrder, Describes, T
    <3>8. Active' => result' = "IN_PROGRESS"
      BY <2>1, <3>1 DEF Active, TraceInv
    <3>9. /\ Len(T) = vmInsns' /\ lastVpc' = T[Len(T)]
          /\ handlerStart' <= irLen'
      BY <1>0, <2>1, <3>1, <3>2
    <3> QED BY <3>3, <3>5, <3>7, <3>8, <3>9 DEF TraceInv, DispatchesMove, T
  <2> QED BY <1>5, <2>5, <2>6
<1>6. CASE UNCHANGED vars
  BY <1>6 DEF vars, TraceInv, DispatchesMove, CatalogMatchesTrace, Active
<1> QED BY <1>2, <1>3, <1>4, <1>5, <1>6 DEF Next

LEMMA TraceInvAlways == Spec => []TraceInv
<1>1. TypeInv /\ TraceInv /\ [Next]_vars => TraceInv'
  BY TraceInvNext
<1> QED BY <1>1, TraceInvInit, TypeInvAlways, PTL DEF Spec

(* However often the dispatcher is passed, two successive VPCs of the      *)
(* trace differ.                                                           *)
THEOREM GuidedDispatchesMove == Spec => []DispatchesMove
<1>1. TraceInv => DispatchesMove
  BY DEF TraceInv
<1> QED BY <1>1, TraceInvAlways, PTL

(* The catalog's records have successive IR ranges and belong to successive*)
(* VPCs of the trace.                                                      *)
THEOREM GuidedCatalogMatches == Spec => []CatalogMatchesTrace
<1>1. TraceInv => CatalogMatchesTrace
  BY DEF TraceInv
<1> QED BY <1>1, TraceInvAlways, PTL
=============================================================================
