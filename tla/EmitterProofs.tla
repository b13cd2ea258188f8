--------------------------- MODULE EmitterProofs ---------------------------
(***************************************************************************)
(* Proofs about Emitter: the text is in SSA form, and each block ends      *)
(* once, for every well-formed source. Then the runs: while the text is    *)
(* written, each line that is added does what the source's instruction     *)
(* does (EmitInv), so a run of the text stays beside the run of its source *)
(* (RunInv), whatever blocks it goes through and however often.            *)
(***************************************************************************)
EXTENDS Emitter, IRProofs, SequenceTheorems, TLAPS

-----------------------------------------------------------------------------
(* What a context says *)

\* The lines of c, and the names they define and use.
LinesOf(c) == UNION {{b} \X DOMAIN c.text[b] : b \in DOMAIN c.text}
LineOf(c, p) == c.text[p[1]][p[2]]
Defs(c) == {LineOf(c, p).def : p \in LinesOf(c)}
Locals(args) == {args[k][2] : k \in {j \in DOMAIN args : args[j][1] = "local"}}
Used(c) == UNION {Locals(LineOf(c, p).args) : p \in LinesOf(c)}

Sane(c) ==
    /\ c = [names |-> c.names, temps |-> c.temps, text |-> c.text]
    /\ c.temps \in Nat
    /\ c.text = [b \in DOMAIN c.text |-> c.text[b]]
    /\ \A b \in DOMAIN c.text : c.text[b] \in Seq(Range(c.text[b]))
Distinct(c) ==
    \A p, q \in LinesOf(c) :
        LineOf(c, p).def = LineOf(c, q).def => p = q \/ LineOf(c, p).def = NoName
Fresh(c, def) == def = NoName \/ def \notin Defs(c)

LEMMA InLines ==
    ASSUME NEW c, NEW p
    PROVE  p \in LinesOf(c) <=> /\ p = <<p[1], p[2]>>
                                /\ p[1] \in DOMAIN c.text
                                /\ p[2] \in DOMAIN c.text[p[1]]
<1>1. ASSUME p \in LinesOf(c)
      PROVE  p = <<p[1], p[2]>> /\ p[1] \in DOMAIN c.text /\ p[2] \in DOMAIN c.text[p[1]]
  <2>1. PICK b \in DOMAIN c.text : p \in {b} \X DOMAIN c.text[b]
    BY <1>1 DEF LinesOf
  <2> QED BY <2>1
<1>2. ASSUME p = <<p[1], p[2]>>, p[1] \in DOMAIN c.text, p[2] \in DOMAIN c.text[p[1]]
      PROVE  p \in LinesOf(c)
  <2>1. p \in {p[1]} \X DOMAIN c.text[p[1]]
    BY <1>2
  <2> QED BY <2>1, <1>2 DEF LinesOf
<1> QED BY <1>1, <1>2

LEMMA AppendLine ==
    ASSUME NEW s, s \in Seq(Range(s)), NEW e
    PROVE  /\ Len(s) \in Nat /\ DOMAIN s = 1 .. Len(s)
           /\ Len(Append(s, e)) = Len(s) + 1
           /\ DOMAIN Append(s, e) = 1 .. Len(s) + 1
           /\ \A k \in 1 .. Len(s) : Append(s, e)[k] = s[k]
           /\ Append(s, e)[Len(s) + 1] = e
           /\ Append(s, e) \in Seq(Range(Append(s, e)))
<1> DEFINE S == Range(s) \cup {e}
<1>1. s \in Seq(S) /\ e \in S
  BY SeqDef
<1>2. Append(s, e) \in Seq(S) /\ DOMAIN s = 1 .. Len(s) /\ Len(s) \in Nat
  BY <1>1, AppendProperties, LenProperties
<1>3. /\ Len(Append(s, e)) = Len(s) + 1
      /\ \A k \in 1 .. Len(s) : Append(s, e)[k] = s[k]
      /\ Append(s, e)[Len(s) + 1] = e
  BY <1>1, AppendProperties
<1>4. DOMAIN Append(s, e) = 1 .. Len(Append(s, e))
  BY <1>2, LenProperties
<1>5. Append(s, e) \in Seq(Range(Append(s, e)))
  <2> DEFINE t == Append(s, e)
  <2>1. t \in [1 .. Len(t) -> Range(t)] /\ Len(t) \in Nat
    BY <1>2, <1>3, <1>4, LenProperties, SeqDef DEF Range
  <2> HIDE DEF t
  <2>2. t \in Seq(Range(t))
    BY <2>1, SeqDef
  <2> QED BY <2>2 DEF t
<1> QED BY <1>2, <1>3, <1>4, <1>5

\* Context d says one line more than c, in the block being emitted.
Says(c, d, def, op, args) ==
    /\ Sane(d)
    /\ d.names = c.names /\ d.temps = c.temps
    /\ DOMAIN d.text = DOMAIN c.text
    /\ \A b \in DOMAIN c.text \ {Block.id} : d.text[b] = c.text[b]
    /\ d.text[Block.id] = Append(c.text[Block.id], [def |-> def, op |-> op, args |-> args])

LEMMA SaySays ==
    ASSUME NEW c, Sane(c), NEW def, NEW op, NEW args, Block.id \in DOMAIN c.text
    PROVE  Says(c, Say(c, def, op, args), def, op, args)
<1> DEFINE d == Say(c, def, op, args)
           line == [def |-> def, op |-> op, args |-> args]
           id == Block.id
           N == c.names
           K == c.temps
           X == c.text
<1>1. d = [names |-> c.names, temps |-> c.temps,
           text |-> [b \in DOMAIN c.text |->
                        IF b = id THEN Append(c.text[id], line) ELSE c.text[b]]]
  <2>1. c = [names |-> N, temps |-> K, text |-> X]
        /\ X = [b \in DOMAIN X |-> X[b]] /\ id \in DOMAIN X
    BY DEF Sane
  <2>2. d = [c EXCEPT !.text = [X EXCEPT ![id] = Append(X[id], line)]]
    BY DEF Say
  <2> HIDE DEF d, line, id, N, K, X
  <2> DEFINE Y == [X EXCEPT ![id] = Append(X[id], line)]
  <2>4. Y = [b \in DOMAIN X |-> IF b = id THEN Append(X[id], line) ELSE X[b]]
    BY <2>1
  <2>5. d = [c EXCEPT !.text = Y]
    BY <2>2
  <2> HIDE DEF Y
  <2>6. [[names |-> N, temps |-> K, text |-> X] EXCEPT !.text = Y]
           = [names |-> N, temps |-> K, text |-> Y]
    OBVIOUS
  <2>3. d = [names |-> N, temps |-> K, text |-> Y]
    BY <2>1, <2>5, <2>6
  <2> QED BY <2>3, <2>4 DEF N, K, X
<1> HIDE DEF d, line, id, N, K, X
<1>2. /\ DOMAIN d.text = DOMAIN c.text
      /\ \A b \in DOMAIN c.text \ {id} : d.text[b] = c.text[b]
      /\ d.text[id] = Append(c.text[id], line)
      /\ d.text = [b \in DOMAIN d.text |-> d.text[b]]
  BY <1>1 DEF id
<1>3. \A b \in DOMAIN d.text : d.text[b] \in Seq(Range(d.text[b]))
  <2>1. d.text[id] \in Seq(Range(d.text[id]))
    BY <1>2, AppendLine DEF Sane, id
  <2> QED BY <1>2, <2>1 DEF Sane
<1>4. Sane(d)
  BY <1>1, <1>2, <1>3 DEF Sane
<1>5. d.names = c.names /\ d.temps = c.temps
  BY <1>1
<1> QED BY <1>2, <1>4, <1>5 DEF Says, d, line, id

(* A line that defines a name nobody has, or none, keeps names distinct.    *)
LEMMA SaysFresh ==
    ASSUME NEW c, Sane(c), NEW d, NEW def, NEW op, NEW args,
           Says(c, d, def, op, args), Block.id \in DOMAIN c.text,
           Distinct(c), Fresh(c, def)
    PROVE  /\ Distinct(d)
           /\ Defs(d) = Defs(c) \cup {def}
           /\ Used(d) = Used(c) \cup Locals(args)
<1> DEFINE id == Block.id
           last == <<id, Len(c.text[id]) + 1>>
           line == [def |-> def, op |-> op, args |-> args]
<1>1. /\ Len(c.text[id]) \in Nat /\ DOMAIN c.text[id] = 1 .. Len(c.text[id])
      /\ DOMAIN d.text[id] = 1 .. Len(c.text[id]) + 1
      /\ \A k \in 1 .. Len(c.text[id]) : d.text[id][k] = c.text[id][k]
      /\ d.text[id][Len(c.text[id]) + 1] = line
  BY AppendLine DEF Sane, Says
<1>2. DOMAIN d.text = DOMAIN c.text /\ \A b \in DOMAIN c.text \ {id} : d.text[b] = c.text[b]
  BY DEF Says
<1> HIDE DEF id
<1>3. id \in DOMAIN c.text
  BY DEF id
<1>4. LineOf(d, last) = line /\ last \in LinesOf(d) /\ last \notin LinesOf(c)
  BY <1>1, <1>2, <1>3, InLines DEF LineOf
<1>5. ASSUME NEW p \in LinesOf(c) PROVE p \in LinesOf(d) /\ LineOf(d, p) = LineOf(c, p)
  <2>1. p = <<p[1], p[2]>> /\ p[1] \in DOMAIN c.text /\ p[2] \in DOMAIN c.text[p[1]]
    BY InLines
  <2>2. d.text[p[1]][p[2]] = c.text[p[1]][p[2]] /\ p[2] \in DOMAIN d.text[p[1]]
    BY <2>1, <1>1, <1>2
  <2> QED BY <2>1, <2>2, <1>2, InLines DEF LineOf
<1>6. ASSUME NEW p \in LinesOf(d), p # last PROVE p \in LinesOf(c)
  <2>1. p = <<p[1], p[2]>> /\ p[1] \in DOMAIN d.text /\ p[2] \in DOMAIN d.text[p[1]]
    BY InLines
  <2>2. CASE p[1] = id
    <3>1. p[2] # Len(c.text[id]) + 1
      BY <2>1, <2>2, <1>6
    <3> QED BY <2>1, <2>2, <3>1, <1>1, <1>2, InLines
  <2>3. CASE p[1] # id
    BY <2>1, <2>3, <1>2, InLines
  <2> QED BY <2>2, <2>3
<1> HIDE DEF last
<1>7. LinesOf(d) = LinesOf(c) \cup {last}
  BY <1>4, <1>5, <1>6
<1>8. LineOf(d, last).def = def /\ LineOf(d, last).args = args
  BY <1>4
<1> HIDE DEF line
<1>9. Defs(d) = Defs(c) \cup {def}
  BY <1>5, <1>7, <1>8 DEF Defs
<1>10. Used(d) = Used(c) \cup Locals(args)
  BY <1>5, <1>7, <1>8 DEF Used
<1>11. Distinct(d)
  <2> SUFFICES ASSUME NEW p \in LinesOf(d), NEW q \in LinesOf(d),
                      LineOf(d, p).def = LineOf(d, q).def, p # q
               PROVE  LineOf(d, p).def = NoName
    BY DEF Distinct
  <2>1. CASE p \in LinesOf(c) /\ q \in LinesOf(c)
    BY <2>1, <1>5 DEF Distinct
  <2>2. CASE p = last \/ q = last
    BY <2>2, <1>5, <1>7, <1>8 DEF Fresh, Defs
  <2> QED BY <2>1, <2>2, <1>7
<1> QED BY <1>9, <1>10, <1>11

(* Where a line that ends a block stands.                                  *)
LEMMA SaysEnds ==
    ASSUME NEW c, Sane(c), NEW d, NEW def, NEW op, NEW args,
           Says(c, d, def, op, args), Block.id \in DOMAIN c.text
    PROVE  LET id == Block.id
           IN /\ Len(d.text[id]) = Len(c.text[id]) + 1 /\ Len(c.text[id]) \in Nat
              /\ op \in {"br", "ret", "unreachable"} =>
                    Ends(d, id) = Ends(c, id) \cup {Len(d.text[id])}
              /\ op \notin {"br", "ret", "unreachable"} => Ends(d, id) = Ends(c, id)
              /\ \A b \in DOMAIN c.text \ {id} : d.text[b] = c.text[b]
<1> DEFINE id == Block.id
           line == [def |-> def, op |-> op, args |-> args]
<1>1. /\ Len(c.text[id]) \in Nat /\ DOMAIN c.text[id] = 1 .. Len(c.text[id])
      /\ Len(d.text[id]) = Len(c.text[id]) + 1
      /\ DOMAIN d.text[id] = 1 .. Len(c.text[id]) + 1
      /\ \A k \in 1 .. Len(c.text[id]) : d.text[id][k] = c.text[id][k]
      /\ d.text[id][Len(c.text[id]) + 1] = line
  BY AppendLine DEF Sane, Says
<1>2. line.op = op
  OBVIOUS
<1> HIDE DEF id, line
<1>3. op \in {"br", "ret", "unreachable"} => Ends(d, id) = Ends(c, id) \cup {Len(d.text[id])}
  <2> SUFFICES ASSUME op \in {"br", "ret", "unreachable"}
               PROVE  Ends(d, id) = Ends(c, id) \cup {Len(c.text[id]) + 1}
    BY <1>1
  <2>1. Len(c.text[id]) + 1 \in Ends(d, id)
    BY <1>1, <1>2 DEF Ends
  <2>2. ASSUME NEW k \in Ends(d, id) PROVE k \in Ends(c, id) \cup {Len(c.text[id]) + 1}
    <3>1. k \in 1 .. Len(c.text[id]) + 1 /\ d.text[id][k].op \in {"br", "ret", "unreachable"}
      BY <1>1 DEF Ends
    <3>2. CASE k \in 1 .. Len(c.text[id])
      BY <3>1, <3>2, <1>1 DEF Ends
    <3>3. CASE k = Len(c.text[id]) + 1
      BY <3>3
    <3> QED BY <3>1, <3>2, <3>3, <1>1
  <2>3. Ends(c, id) \subseteq Ends(d, id)
    BY <1>1 DEF Ends
  <2> QED BY <2>1, <2>2, <2>3
<1>4. op \notin {"br", "ret", "unreachable"} => Ends(d, id) = Ends(c, id)
  <2> SUFFICES ASSUME op \notin {"br", "ret", "unreachable"}
               PROVE  Ends(d, id) = Ends(c, id)
    OBVIOUS
  <2>1. Len(c.text[id]) + 1 \notin Ends(d, id)
    BY <1>1, <1>2 DEF Ends
  <2>2. ASSUME NEW k \in Ends(d, id) PROVE k \in Ends(c, id)
    <3>1. k \in 1 .. Len(c.text[id]) + 1 /\ k # Len(c.text[id]) + 1
      BY <2>1, <1>1 DEF Ends
    <3>2. k \in 1 .. Len(c.text[id])
      BY <3>1, <1>1
    <3> QED BY <3>2, <1>1 DEF Ends
  <2>3. Ends(c, id) \subseteq Ends(d, id)
    BY <1>1 DEF Ends
  <2> QED BY <2>2, <2>3
<1> QED BY <1>1, <1>3, <1>4 DEF Says, id

-----------------------------------------------------------------------------
(* The source *)

\* The item to be written next, and the places of those that were.
Here == <<at, n>>
Done == Before(source, Here)

LEMMA InPlaces ==
    ASSUME NEW s, NEW p
    PROVE  p \in Places(s) <=> /\ p = <<p[1], p[2]>>
                               /\ p[1] \in DOMAIN s.blocks
                               /\ p[2] \in DOMAIN Items(s.blocks[p[1]])
<1>1. ASSUME p \in Places(s)
      PROVE  /\ p = <<p[1], p[2]>> /\ p[1] \in DOMAIN s.blocks
             /\ p[2] \in DOMAIN Items(s.blocks[p[1]])
  <2>1. PICK a \in DOMAIN s.blocks : p \in {a} \X DOMAIN Items(s.blocks[a])
    BY <1>1 DEF Places
  <2> QED BY <2>1
<1>2. ASSUME p = <<p[1], p[2]>>, p[1] \in DOMAIN s.blocks,
             p[2] \in DOMAIN Items(s.blocks[p[1]])
      PROVE  p \in Places(s)
  <2>1. p \in {p[1]} \X DOMAIN Items(s.blocks[p[1]])
    BY <1>2
  <2> QED BY <2>1, <1>2 DEF Places
<1> QED BY <1>1, <1>2

\* Blocks and their parts are sequences.
LEMMA Shape ==
    ASSUME NEW s, WellFormed(s)
    PROVE  /\ Len(s.blocks) \in Nat /\ DOMAIN s.blocks = 1 .. Len(s.blocks)
           /\ \A a \in DOMAIN s.blocks :
                 /\ Len(s.blocks[a].phis) \in Nat /\ Len(s.blocks[a].instrs) \in Nat
                 /\ DOMAIN s.blocks[a].phis = 1 .. Len(s.blocks[a].phis)
                 /\ DOMAIN s.blocks[a].instrs = 1 .. Len(s.blocks[a].instrs)
                 /\ DOMAIN Items(s.blocks[a])
                       = 1 .. Len(s.blocks[a].phis) + Len(s.blocks[a].instrs)
                 /\ \A k \in DOMAIN Items(s.blocks[a]) :
                       Items(s.blocks[a])[k] =
                          IF k <= Len(s.blocks[a].phis) THEN s.blocks[a].phis[k]
                          ELSE s.blocks[a].instrs[k - Len(s.blocks[a].phis)]
<1>1. Len(s.blocks) \in Nat /\ DOMAIN s.blocks = 1 .. Len(s.blocks)
  BY LenProperties DEF WellFormed
<1>2. ASSUME NEW a \in DOMAIN s.blocks
      PROVE  /\ Len(s.blocks[a].phis) \in Nat /\ Len(s.blocks[a].instrs) \in Nat
             /\ DOMAIN s.blocks[a].phis = 1 .. Len(s.blocks[a].phis)
             /\ DOMAIN s.blocks[a].instrs = 1 .. Len(s.blocks[a].instrs)
             /\ DOMAIN Items(s.blocks[a])
                   = 1 .. Len(s.blocks[a].phis) + Len(s.blocks[a].instrs)
             /\ \A k \in DOMAIN Items(s.blocks[a]) :
                   Items(s.blocks[a])[k] =
                      IF k <= Len(s.blocks[a].phis) THEN s.blocks[a].phis[k]
                      ELSE s.blocks[a].instrs[k - Len(s.blocks[a].phis)]
  <2> DEFINE f == s.blocks[a].phis
             g == s.blocks[a].instrs
             S == ToSet(f) \cup ToSet(g)
  <2>1. f \in Seq(ToSet(f)) /\ g \in Seq(ToSet(g))
    BY DEF WellFormed
  <2> HIDE DEF f, g
  <2>2. f \in Seq(S) /\ g \in Seq(S)
    BY <2>1, SeqDef
  <2> HIDE DEF S
  <2>3. /\ Len(f) \in Nat /\ Len(g) \in Nat
        /\ DOMAIN f = 1 .. Len(f) /\ DOMAIN g = 1 .. Len(g)
    BY <2>2, LenProperties
  <2>4. /\ f \o g \in Seq(S) /\ Len(f \o g) = Len(f) + Len(g)
        /\ \A k \in 1 .. Len(f) + Len(g) :
              (f \o g)[k] = IF k <= Len(f) THEN f[k] ELSE g[k - Len(f)]
    BY <2>2, ConcatProperties
  <2>5. DOMAIN (f \o g) = 1 .. Len(f) + Len(g)
    BY <2>4, LenProperties
  <2> QED BY <2>3, <2>4, <2>5 DEF Items, f, g
<1> QED BY <1>1, <1>2

\* No two items share an id.
LEMMA ItemsDiffer ==
    ASSUME NEW s, WellFormed(s), NEW p \in Places(s), NEW q \in Places(s),
           Item(s, p).id = Item(s, q).id
    PROVE  p = q
BY DEF WellFormed

LEMMA HerePlace ==
    ASSUME WellFormed(source), at \in DOMAIN source.blocks, n \in Nat \ {0}
    PROVE  /\ Here \in Places(source) <=> n <= Len(Block.phis) + Len(Block.instrs)
           /\ n <= Len(Block.phis) =>
                 /\ Here \in Places(source) /\ IsPhi(source, Here)
                 /\ Item(source, Here) = Block.phis[n]
           /\ n - Len(Block.phis) \in DOMAIN Block.instrs =>
                 /\ Here \in Places(source) /\ ~IsPhi(source, Here)
                 /\ Item(source, Here) = Block.instrs[n - Len(Block.phis)]
<1> DEFINE P == Len(Block.phis)
           L == Len(Block.instrs)
<1>1. Here[1] = at /\ Here[2] = n /\ Here = <<Here[1], Here[2]>>
  BY DEF Here
<1>2. /\ P \in Nat /\ L \in Nat
      /\ DOMAIN Block.instrs = 1 .. L
      /\ DOMAIN Items(Block) = 1 .. P + L
  BY Shape DEF Block
<1>3. \A k \in DOMAIN Items(Block) :
         Items(Block)[k] = IF k <= P THEN Block.phis[k] ELSE Block.instrs[k - P]
  BY Shape DEF Block
<1>4. Here \in Places(source) <=> n \in DOMAIN Items(Block)
  BY <1>1, InPlaces DEF Block
<1>5. Item(source, Here) = Items(Block)[n] /\ (IsPhi(source, Here) <=> n <= P)
  BY <1>1 DEF Item, IsPhi, Block
<1> HIDE DEF Here, P, L
<1>6. n \in DOMAIN Items(Block) <=> n <= P + L
  BY <1>2
<1>7. n <= P => n \in DOMAIN Items(Block)
  BY <1>2
<1>8. n - P \in DOMAIN Block.instrs => n \in DOMAIN Items(Block) /\ ~(n <= P)
  BY <1>2
<1> QED BY <1>3, <1>4, <1>5, <1>6, <1>7, <1>8 DEF P, L

LEMMA PlaceNumbers ==
    ASSUME NEW s, WellFormed(s), NEW p \in Places(s)
    PROVE  /\ p = <<p[1], p[2]>> /\ p[1] \in Nat /\ p[2] \in Nat \ {0}
           /\ p[1] \in DOMAIN s.blocks
           /\ p[2] \in 1 .. Len(s.blocks[p[1]].phis) + Len(s.blocks[p[1]].instrs)
<1>1. /\ p = <<p[1], p[2]>> /\ p[1] \in DOMAIN s.blocks
      /\ p[2] \in DOMAIN Items(s.blocks[p[1]])
  BY InPlaces
<1>2. Len(s.blocks) \in Nat /\ DOMAIN s.blocks = 1 .. Len(s.blocks)
  BY Shape
<1>3. /\ Len(s.blocks[p[1]].phis) \in Nat /\ Len(s.blocks[p[1]].instrs) \in Nat
      /\ DOMAIN Items(s.blocks[p[1]])
            = 1 .. Len(s.blocks[p[1]].phis) + Len(s.blocks[p[1]].instrs)
  BY <1>1, Shape
<1>4. p[1] \in Nat
  BY <1>1, <1>2
<1>5. p[2] \in Nat \ {0}
  BY <1>1, <1>3
<1> QED BY <1>1, <1>3, <1>4, <1>5

LEMMA AtIsNumber ==
    ASSUME WellFormed(source), at \in DOMAIN source.blocks
    PROVE  at \in Nat \ {0}
<1>1. Len(source.blocks) \in Nat /\ DOMAIN source.blocks = 1 .. Len(source.blocks)
  BY Shape
<1> QED BY <1>1

LEMMA DoneGrows ==
    ASSUME WellFormed(source), at \in DOMAIN source.blocks, n \in Nat \ {0},
           Here \in Places(source)
    PROVE  /\ Before(source, <<at, n + 1>>) = Done \cup {Here}
           /\ Done \subseteq Places(source) /\ Here \notin Done
<1>1. at \in Nat
  BY AtIsNumber
<1>2. ASSUME NEW p \in Places(source)
      PROVE  Precedes(p, <<at, n + 1>>) <=> Precedes(p, Here) \/ p = Here
  <2>1. p = <<p[1], p[2]>> /\ p[1] \in Nat /\ p[2] \in Nat
    BY PlaceNumbers
  <2> QED BY <2>1, <1>1 DEF Precedes, Here
<1>3. ~ Precedes(Here, Here)
  BY <1>1 DEF Precedes, Here
<1> QED BY <1>2, <1>3 DEF Before, Done

LEMMA DoneStays ==
    ASSUME WellFormed(source), at \in DOMAIN source.blocks, n \in Nat,
           n > Len(Block.phis) + Len(Block.instrs)
    PROVE  Before(source, <<at + 1, 1>>) = Done
<1>1. at \in Nat
  BY AtIsNumber
<1>2. ASSUME NEW p \in Places(source)
      PROVE  Precedes(p, <<at + 1, 1>>) <=> Precedes(p, Here)
  <2>1. p[1] \in Nat /\ p[2] \in Nat \ {0}
    BY PlaceNumbers
  <2>2. CASE p[1] = at
    <3>1. p[2] \in 1 .. Len(Block.phis) + Len(Block.instrs)
      BY <2>2, PlaceNumbers DEF Block
    <3>2. Len(Block.phis) \in Nat /\ Len(Block.instrs) \in Nat
      BY Shape DEF Block
    <3>3. p[2] < n
      <4> DEFINE P == Len(Block.phis)
                 L == Len(Block.instrs)
      <4>1. P \in Nat /\ L \in Nat /\ p[2] \in 1 .. P + L /\ n > P + L
        BY <3>1, <3>2
      <4> HIDE DEF P, L
      <4> QED BY <4>1
    <3> QED BY <2>1, <2>2, <3>3, <1>1 DEF Precedes, Here
  <2>3. CASE p[1] # at
    BY <2>1, <2>3, <1>1 DEF Precedes, Here
  <2> QED BY <2>2, <2>3
<1> QED BY <1>2 DEF Before, Done

\* What an instruction or a phi refers to is a parameter or an operand of it.
LEMMA SymsAreParameters ==
    ASSUME WellFormed(source), NEW p \in Places(source)
    PROVE  /\ ~IsPhi(source, p) =>
                 \A k \in DOMAIN Item(source, p).args :
                    Item(source, p).args[k][1] = "sym" =>
                        Item(source, p).args[k] \in Parameters
           /\ IsPhi(source, p) =>
                 \A b \in DOMAIN Item(source, p).incoming :
                    Item(source, p).incoming[b][1] = "sym" =>
                        Item(source, p).incoming[b] \in Parameters
<1> DEFINE bb == source.blocks[p[1]]
           i == Item(source, p)
           P == Len(bb.phis)
           L == Len(bb.instrs)
<1>1. p[1] \in DOMAIN source.blocks /\ p[2] \in DOMAIN Items(bb)
  BY InPlaces
<1>2. bb \in ToSet(source.blocks)
  BY <1>1 DEF ToSet
<1>3. P \in Nat /\ L \in Nat /\ DOMAIN bb.phis = 1 .. P /\ DOMAIN bb.instrs = 1 .. L
      /\ p[2] \in 1 .. P + L
  BY <1>1, Shape
<1>4. i = IF p[2] <= P THEN bb.phis[p[2]] ELSE bb.instrs[p[2] - P]
  BY <1>1, Shape DEF Item
<1>5. IsPhi(source, p) <=> p[2] <= P
  BY DEF IsPhi
<1> HIDE DEF bb, i, P, L
<1>6. ASSUME ~IsPhi(source, p), NEW k \in DOMAIN i.args, i.args[k][1] = "sym"
      PROVE  i.args[k] \in Parameters
  <2>0. p[2] - P \in 1 .. L
    BY <1>3, <1>5, <1>6
  <2>1. p[2] - P \in DOMAIN bb.instrs /\ i = bb.instrs[p[2] - P]
    BY <2>0, <1>3, <1>4, <1>5, <1>6
  <2>2. i \in ToSet(bb.instrs) /\ i.args[k] \in Range(i.args)
    BY <2>1, <1>6 DEF ToSet, Range
  <2>3. i \in UNION {ToSet(b.instrs) : b \in ToSet(source.blocks)}
    BY <2>2, <1>2
  <2> QED BY <2>2, <2>3, <1>6 DEF Parameters
<1>7. ASSUME IsPhi(source, p), NEW k \in DOMAIN i.incoming, i.incoming[k][1] = "sym"
      PROVE  i.incoming[k] \in Parameters
  <2>0. p[2] \in 1 .. P
    BY <1>3, <1>5, <1>7
  <2>1. p[2] \in DOMAIN bb.phis /\ i = bb.phis[p[2]]
    BY <2>0, <1>3, <1>4, <1>5, <1>7
  <2>2. i \in ToSet(bb.phis) /\ i.incoming[k] \in Range(i.incoming)
    BY <2>1, <1>7 DEF ToSet, Range
  <2>3. i \in UNION {ToSet(b.phis) : b \in ToSet(source.blocks)}
    BY <2>2, <1>2
  <2> QED BY <2>2, <2>3, <1>7 DEF Parameters
<1> QED BY <1>6, <1>7 DEF i

\* The same of a condition.
LEMMA ConditionIsParameter ==
    ASSUME NEW a \in DOMAIN source.blocks, source.blocks[a].term.condition[1] = "sym"
    PROVE  source.blocks[a].term.condition \in Parameters
<1>1. source.blocks[a] \in ToSet(source.blocks)
  BY DEF ToSet
<1> QED BY <1>1 DEF Parameters

-----------------------------------------------------------------------------
(* Names *)

\* The ids of the items in places S, and what operands D defines.
IdsOf(S) == {Item(source, p).id : p \in S}
Known(D, x) == x[1] = "local" => x[2] \in D \cup Parameters

\* What is true of the names and the text once the items in S are written.
Written(c, S) ==
    /\ Sane(c) /\ Distinct(c)
    /\ DOMAIN c.text = {b.id : b \in ToSet(source.blocks)}
    /\ Defs(c) \subseteq {NoName} \cup {T(k) : k \in 0 .. c.temps - 1}
                                  \cup {V(id) : id \in IdsOf(S)}
    /\ Used(c) \subseteq Defs(c) \cup Parameters
    /\ \A p \in S : HasValue(source, p) =>
          /\ Item(source, p).id \in DOMAIN c.names
          /\ Known(Defs(c), c.names[Item(source, p).id])
    /\ source.form = "cfg" => DOMAIN c.names \subseteq IdsOf(S)

LEMMA BlockInText ==
    ASSUME at \in DOMAIN source.blocks
    PROVE  Block.id \in {b.id : b \in ToSet(source.blocks)}
<1>1. Block \in ToSet(source.blocks)
  BY DEF Block, ToSet
<1> QED BY <1>1

LEMMA NamesApart ==
    /\ \A i, j : V(i) = V(j) => i = j
    /\ \A k, m : T(k) = T(m) => k = m
    /\ \A i, k : V(i) # T(k) /\ V(i) # NoName /\ T(k) # NoName
<1>1. ASSUME NEW i, NEW j, V(i) = V(j) PROVE i = j
  <2>1. V(i)[2] = i /\ V(j)[2] = j
    BY DEF V
  <2> QED BY <2>1, <1>1
<1>2. ASSUME NEW k, NEW m, T(k) = T(m) PROVE k = m
  <2>1. T(k)[2] = k /\ T(m)[2] = m
    BY DEF T
  <2> QED BY <2>1, <1>2
<1>3. ASSUME NEW i, NEW k PROVE V(i) # T(k) /\ V(i) # NoName /\ T(k) # NoName
  <2>1. V(i)[1] = "v" /\ T(k)[1] = "t" /\ NoName[1] = "none"
    BY DEF V, T, NoName
  <2> QED BY <2>1
<1> QED BY <1>1, <1>2, <1>3

LEMMA FreshNames ==
    ASSUME NEW c, NEW S, Written(c, S), NEW id, id \notin IdsOf(S)
    PROVE  V(id) \notin Defs(c) /\ \A k \in Nat : k >= c.temps => T(k) \notin Defs(c)
<1>1. c.temps \in Nat
  BY DEF Written, Sane
<1>2. ASSUME NEW k \in Nat, k >= c.temps PROVE T(k) \notin Defs(c)
  <2>1. T(k) \notin {T(m) : m \in 0 .. c.temps - 1}
    BY <1>1, <1>2, NamesApart
  <2> QED BY <2>1, NamesApart DEF Written
<1>3. V(id) \notin Defs(c)
  BY NamesApart DEF Written
<1> QED BY <1>2, <1>3

\* Naming and numbering say nothing.
LEMMA NamedNames ==
    ASSUME NEW c, Sane(c), NEW id, NEW v
    PROVE  LET d == Named(c, id, v)
           IN /\ Sane(d) /\ d.text = c.text /\ d.temps = c.temps
              /\ DOMAIN d.names = DOMAIN c.names \cup {id}
              /\ d.names[id] = v
              /\ \A j \in DOMAIN c.names \ {id} : d.names[j] = c.names[j]
<1> DEFINE d == Named(c, id, v)
           N == c.names
           K == c.temps
           X == c.text
           M == Put(N, id, v)
<1>1. c = [names |-> N, temps |-> K, text |-> X]
  BY DEF Sane
<1>2. d = [c EXCEPT !.names = M]
  BY DEF Named
<1>3. /\ DOMAIN M = DOMAIN N \cup {id} /\ M[id] = v
      /\ \A j \in DOMAIN N \ {id} : M[j] = N[j]
  BY DEF Put
<1> HIDE DEF M, N, K, X, d
<1>4. [[names |-> N, temps |-> K, text |-> X] EXCEPT !.names = M]
         = [names |-> M, temps |-> K, text |-> X]
  OBVIOUS
<1>5. d = [names |-> M, temps |-> K, text |-> X]
  BY <1>1, <1>2, <1>4
<1>6. d.names = M /\ d.temps = K /\ d.text = X
  BY <1>5
<1>7. Sane(d)
  BY <1>5, <1>6 DEF Sane, K, X
<1> QED BY <1>3, <1>6, <1>7 DEF d, N, K, X

LEMMA NewTmpTemps ==
    ASSUME NEW c, Sane(c)
    PROVE  LET d == NewTmp(c)
           IN Sane(d) /\ d.text = c.text /\ d.names = c.names /\ d.temps = c.temps + 1
<1> DEFINE d == NewTmp(c)
           N == c.names
           K == c.temps
           X == c.text
<1>1. c = [names |-> N, temps |-> K, text |-> X]
  BY DEF Sane
<1>2. d = [c EXCEPT !.temps = K + 1]
  BY DEF NewTmp
<1> HIDE DEF N, K, X, d
<1>4. [[names |-> N, temps |-> K, text |-> X] EXCEPT !.temps = K + 1]
         = [names |-> N, temps |-> K + 1, text |-> X]
  OBVIOUS
<1>5. d = [names |-> N, temps |-> K + 1, text |-> X]
  BY <1>1, <1>2, <1>4
<1>6. d.names = N /\ d.temps = K + 1 /\ d.text = X
  BY <1>5
<1>7. Sane(d)
  BY <1>5, <1>6 DEF Sane, K, X
<1> QED BY <1>6, <1>7 DEF d, N, K, X

LEMMA SameText ==
    ASSUME NEW c, NEW d, d.text = c.text
    PROVE  /\ LinesOf(d) = LinesOf(c) /\ Defs(d) = Defs(c) /\ Used(d) = Used(c)
           /\ Distinct(c) => Distinct(d)
BY DEF LinesOf, LineOf, Defs, Used, Distinct

\* What an operand is written as, if it is not a reference that has a name.
LEMMA TextKnown ==
    ASSUME NEW o, o[1] = "sym" => o \in Parameters, NEW D
    PROVE  Known(D, Text(o))
<1>1. CASE o[1] = "const"
  <2>1. Text(o) = <<"num", o[2]>>
    BY <1>1 DEF Text, Num
  <2> QED BY <2>1 DEF Known
<1>2. CASE o[1] = "sym"
  <2>1. Text(o) = <<"local", o>>
    BY <1>2 DEF Text, Local
  <2> QED BY <2>1, <1>2 DEF Known
<1>3. CASE o[1] # "const" /\ o[1] # "sym"
  <2>1. Text(o) = <<"num", 0>>
    BY <1>3 DEF Text, Num
  <2> QED BY <2>1 DEF Known
<1> QED BY <1>1, <1>2, <1>3

\* An operand of an instruction is a number, a parameter or a name that is
\* defined.
LEMMA OperandKnown ==
    ASSUME NEW S, NEW c, Written(c, S), NEW d,
           \A id \in IdsOf(S) : id \in DOMAIN c.names =>
              id \in DOMAIN d.names /\ d.names[id] = c.names[id],
           NEW o, o[1] = "sym" => o \in Parameters, RefersTo(source, o, S)
    PROVE  /\ Known(Defs(c), ValRef(d, o))
           /\ o[1] = "ref" => o[2] \in DOMAIN d.names /\ Known(Defs(c), d.names[o[2]])
<1>1. CASE o[1] = "ref"
  <2>1. PICK p \in S : HasValue(source, p) /\ Item(source, p).id = o[2]
    BY <1>1 DEF RefersTo
  <2>2. o[2] \in IdsOf(S) /\ o[2] \in DOMAIN c.names /\ Known(Defs(c), c.names[o[2]])
    BY <2>1 DEF Written, IdsOf
  <2>3. o[2] \in DOMAIN d.names /\ d.names[o[2]] = c.names[o[2]]
    BY <2>2
  <2>4. ValRef(d, o) = d.names[o[2]]
    BY <1>1, <2>3 DEF ValRef
  <2> QED BY <2>2, <2>3, <2>4
<1>2. CASE o[1] # "ref"
  <2>1. ValRef(d, o) = Text(o)
    BY <1>2 DEF ValRef
  <2> QED BY <2>1, <1>2, TextKnown
<1> QED BY <1>1, <1>2

\* A phi's operand may be the phi, and 0 if it has no name yet.
LEMMA PhiOperandKnown ==
    ASSUME NEW S, S \subseteq Places(source), WellFormed(source),
           NEW c, Written(c, S), source.form = "cfg", NEW id,
           NEW o, o[1] = "sym" => o \in Parameters, RefersTo(source, o, Places(source))
    PROVE  Known(Defs(c) \cup {V(id)}, ValRef(Named(c, id, Local(V(id))), o))
<1> DEFINE d == Named(c, id, Local(V(id)))
<1>0. /\ DOMAIN d.names = DOMAIN c.names \cup {id} /\ d.names[id] = Local(V(id))
      /\ \A j \in DOMAIN c.names \ {id} : d.names[j] = c.names[j]
  BY NamedNames DEF Written
<1> HIDE DEF d
<1>1. CASE o[1] = "ref" /\ o[2] = id
  <2>1. ValRef(d, o) = <<"local", V(id)>>
    BY <1>0, <1>1 DEF ValRef, Local
  <2> QED BY <2>1 DEF Known, d
<1>2. CASE o[1] = "ref" /\ o[2] # id /\ o[2] \in DOMAIN c.names
  <2>1. PICK q \in S : Item(source, q).id = o[2]
    BY <1>2 DEF Written, IdsOf
  <2>2. PICK p \in Places(source) : HasValue(source, p) /\ Item(source, p).id = o[2]
    BY <1>2 DEF RefersTo
  <2>3. p = q
    BY <2>1, <2>2, ItemsDiffer
  <2>4. Known(Defs(c), c.names[o[2]])
    BY <2>1, <2>2, <2>3 DEF Written
  <2>5. ValRef(d, o) = c.names[o[2]]
    BY <1>0, <1>2 DEF ValRef
  <2> QED BY <2>4, <2>5 DEF Known, d
<1>3. CASE ~(o[1] = "ref" /\ o[2] \in DOMAIN d.names)
  <2>1. ValRef(d, o) = Text(o)
    BY <1>3 DEF ValRef
  <2> QED BY <2>1, TextKnown DEF d
<1> QED BY <1>0, <1>1, <1>2, <1>3

\* Writing one more item, as its lines and its name show.
LEMMA WrittenMore ==
    ASSUME NEW S, NEW c, Written(c, S), NEW p, NEW d,
           Sane(d), Distinct(d), DOMAIN d.text = DOMAIN c.text,
           c.temps \in Nat, d.temps >= c.temps,
           Defs(c) \subseteq Defs(d),
           Defs(d) \subseteq Defs(c) \cup {NoName, V(Item(source, p).id)}
                                    \cup {T(k) : k \in c.temps .. d.temps - 1},
           Used(d) \subseteq Defs(d) \cup Parameters,
           DOMAIN d.names = DOMAIN c.names \cup {Item(source, p).id},
           \A j \in DOMAIN c.names \ {Item(source, p).id} : d.names[j] = c.names[j],
           Item(source, p).id \notin IdsOf(S),
           HasValue(source, p) => Known(Defs(d), d.names[Item(source, p).id])
    PROVE  Written(d, S \cup {p})
<1> DEFINE id == Item(source, p).id
<1>1. IdsOf(S \cup {p}) = IdsOf(S) \cup {id}
  BY DEF IdsOf
<1>2. Defs(d) \subseteq {NoName} \cup {T(k) : k \in 0 .. d.temps - 1}
                               \cup {V(j) : j \in IdsOf(S \cup {p})}
  <2>1. d.temps \in Nat
    BY DEF Sane
  <2>2. {T(k) : k \in c.temps .. d.temps - 1} \subseteq {T(k) : k \in 0 .. d.temps - 1}
        /\ {T(k) : k \in 0 .. c.temps - 1} \subseteq {T(k) : k \in 0 .. d.temps - 1}
    BY <2>1
  <2>3. Defs(c) \subseteq {NoName} \cup {T(k) : k \in 0 .. c.temps - 1}
                                 \cup {V(j) : j \in IdsOf(S)}
    BY DEF Written
  <2>4. V(id) \in {V(j) : j \in IdsOf(S \cup {p})}
        /\ {V(j) : j \in IdsOf(S)} \subseteq {V(j) : j \in IdsOf(S \cup {p})}
    BY <1>1
  <2>5. Defs(d) \subseteq Defs(c) \cup {NoName, V(id)} \cup {T(k) : k \in c.temps .. d.temps - 1}
    OBVIOUS
  <2> HIDE DEF id
  <2> QED BY <2>2, <2>3, <2>4, <2>5
<1>3. ASSUME NEW q \in S \cup {p}, HasValue(source, q)
      PROVE  /\ Item(source, q).id \in DOMAIN d.names
             /\ Known(Defs(d), d.names[Item(source, q).id])
  <2>1. CASE q = p
    BY <1>3, <2>1
  <2>2. CASE q \in S
    <3>1. Item(source, q).id \in DOMAIN c.names /\ Known(Defs(c), c.names[Item(source, q).id])
      BY <1>3, <2>2 DEF Written
    <3>2. Item(source, q).id # id
      BY <2>2 DEF IdsOf
    <3> QED BY <3>1, <3>2 DEF Known
  <2> QED BY <2>1, <2>2
<1>4. source.form = "cfg" => DOMAIN d.names \subseteq IdsOf(S \cup {p})
  BY <1>1 DEF Written
<1>5. DOMAIN d.text = {b.id : b \in ToSet(source.blocks)}
  BY DEF Written
<1> QED BY <1>2, <1>3, <1>4, <1>5 DEF Written

LEMMA LocalsKnown ==
    ASSUME NEW D, NEW args, \A k \in DOMAIN args : Known(D, args[k])
    PROVE  Locals(args) \subseteq D \cup Parameters
BY DEF Locals, Known

\* An item written as one line that defines its name.
LEMMA OneLine ==
    ASSUME NEW S, NEW c, Written(c, S), NEW p, Item(source, p).id \notin IdsOf(S),
           Block.id \in DOMAIN c.text, NEW op, NEW args,
           \A k \in DOMAIN args : Known(Defs(c) \cup {V(Item(source, p).id)}, args[k])
    PROVE  Written(Say(Named(c, Item(source, p).id, Local(V(Item(source, p).id))),
                       V(Item(source, p).id), op, args), S \cup {p})
<1> DEFINE id == Item(source, p).id
           s == Named(c, id, Local(V(id)))
           d == Say(s, V(id), op, args)
<1>1. /\ Sane(s) /\ s.text = c.text /\ s.temps = c.temps
      /\ DOMAIN s.names = DOMAIN c.names \cup {id}
      /\ s.names[id] = Local(V(id))
      /\ \A j \in DOMAIN c.names \ {id} : s.names[j] = c.names[j]
  BY NamedNames DEF Written
<1>2. /\ Distinct(s) /\ Defs(s) = Defs(c) /\ Used(s) = Used(c)
  BY <1>1, SameText DEF Written
<1>3. V(id) \notin Defs(c)
  BY FreshNames
<1> HIDE DEF s
<1>4. Says(s, d, V(id), op, args)
  BY <1>1, SaySays
<1> HIDE DEF d
<1>5. Fresh(s, V(id))
  BY <1>2, <1>3 DEF Fresh
<1>6. /\ Distinct(d) /\ Defs(d) = Defs(c) \cup {V(id)}
      /\ Used(d) = Used(c) \cup Locals(args)
  BY <1>1, <1>2, <1>4, <1>5, SaysFresh
<1>7. Locals(args) \subseteq Defs(d) \cup Parameters
  BY <1>6, LocalsKnown
<1>8. Used(d) \subseteq Defs(d) \cup Parameters
  BY <1>6, <1>7 DEF Written
<1>9. Sane(d) /\ DOMAIN d.text = DOMAIN c.text /\ d.temps = c.temps /\ d.names = s.names
  BY <1>1, <1>4 DEF Says
<1>10. Known(Defs(d), d.names[id])
  <2>1. d.names[id] = <<"local", V(id)>>
    BY <1>1, <1>9 DEF Local
  <2> QED BY <2>1, <1>6 DEF Known
<1>11. c.temps \in Nat /\ d.temps >= c.temps
  BY <1>9 DEF Written, Sane
<1>12. Defs(d) \subseteq Defs(c) \cup {NoName, V(id)} \cup {T(k) : k \in c.temps .. d.temps - 1}
       /\ Defs(c) \subseteq Defs(d)
  BY <1>6
<1>13. /\ DOMAIN d.names = DOMAIN c.names \cup {id}
       /\ \A j \in DOMAIN c.names \ {id} : d.names[j] = c.names[j]
  BY <1>1, <1>9
<1>14. Written(d, S \cup {p})
  BY <1>6, <1>8, <1>9, <1>10, <1>11, <1>12, <1>13, WrittenMore
<1> QED BY <1>14 DEF d, s

\* What is known when EmitInstr has named instruction p, after those in S.
Naming(c, s, S, p) ==
    /\ Written(c, S) /\ Block.id \in DOMAIN c.text
    /\ Item(source, p).id \notin IdsOf(S)
    /\ s = Named(c, Item(source, p).id, Local(V(Item(source, p).id)))
    /\ \A k \in DOMAIN Item(source, p).args :
          Known(Defs(c), ValRef(s, Item(source, p).args[k]))

LEMMA NamingFacts ==
    ASSUME NEW c, NEW s, NEW S, NEW p, Naming(c, s, S, p)
    PROVE  /\ Sane(s) /\ s.text = c.text /\ s.temps = c.temps /\ c.temps \in Nat
           /\ DOMAIN s.names = DOMAIN c.names \cup {Item(source, p).id}
           /\ \A j \in DOMAIN c.names \ {Item(source, p).id} : s.names[j] = c.names[j]
           /\ Distinct(s) /\ Defs(s) = Defs(c) /\ Used(s) = Used(c)
           /\ Used(c) \subseteq Defs(c) \cup Parameters
           /\ V(Item(source, p).id) \notin Defs(c)
           /\ \A k \in Nat : k >= c.temps => T(k) \notin Defs(c)
<1>1. /\ Sane(s) /\ s.text = c.text /\ s.temps = c.temps
      /\ DOMAIN s.names = DOMAIN c.names \cup {Item(source, p).id}
      /\ \A j \in DOMAIN c.names \ {Item(source, p).id} : s.names[j] = c.names[j]
  BY NamedNames DEF Written, Naming
<1>2. /\ Distinct(s) /\ Defs(s) = Defs(c) /\ Used(s) = Used(c)
  BY <1>1, SameText DEF Written, Naming
<1>3. /\ V(Item(source, p).id) \notin Defs(c)
      /\ \A k \in Nat : k >= c.temps => T(k) \notin Defs(c)
  BY FreshNames DEF Naming
<1> QED BY <1>1, <1>2, <1>3 DEF Written, Naming, Sane

LEMMA LoadWritten ==
    ASSUME NEW c, NEW s, NEW S, NEW p, Naming(c, s, S, p), NEW x, Known(Defs(c), x)
    PROVE  Written(EmitLoad(s, Item(source, p).id, x), S \cup {p})
<1> DEFINE id == Item(source, p).id
           t == T(s.temps)
           s0 == NewTmp(s)
           s1 == Say(s0, V(id), "inttoptr", <<x>>)
           s2 == Say(s1, t, "load", <<Local(V(id))>>)
           d == Named(s2, id, Local(t))
<1>0. d = EmitLoad(s, id, x)
  BY DEF EmitLoad
<1>1. /\ Sane(s) /\ s.text = c.text /\ s.temps = c.temps /\ c.temps \in Nat
      /\ DOMAIN s.names = DOMAIN c.names \cup {id}
      /\ \A j \in DOMAIN c.names \ {id} : s.names[j] = c.names[j]
      /\ Distinct(s) /\ Defs(s) = Defs(c) /\ Used(s) = Used(c)
      /\ Used(c) \subseteq Defs(c) \cup Parameters
      /\ V(id) \notin Defs(c) /\ t \notin Defs(c) /\ t # V(id)
  BY NamingFacts, NamesApart
<1>2. /\ Sane(s0) /\ s0.text = s.text /\ s0.names = s.names /\ s0.temps = c.temps + 1
      /\ Distinct(s0) /\ Defs(s0) = Defs(c) /\ Used(s0) = Used(c)
      /\ Block.id \in DOMAIN s0.text
  BY <1>1, NewTmpTemps, SameText DEF Naming
<1> HIDE DEF s0
<1>3. Says(s0, s1, V(id), "inttoptr", <<x>>)
  BY <1>2, SaySays
<1> HIDE DEF s1
<1>4. /\ Distinct(s1) /\ Defs(s1) = Defs(c) \cup {V(id)}
      /\ Used(s1) = Used(c) \cup Locals(<<x>>)
  <2>1. Fresh(s0, V(id))
    BY <1>1, <1>2 DEF Fresh
  <2> QED BY <1>2, <1>3, <2>1, SaysFresh
<1>5. Sane(s1) /\ Block.id \in DOMAIN s1.text
  BY <1>2, <1>3 DEF Says
<1>6. Says(s1, s2, t, "load", <<Local(V(id))>>)
  BY <1>5, SaySays
<1> HIDE DEF s2
<1>7. /\ Distinct(s2) /\ Defs(s2) = Defs(c) \cup {V(id), t}
      /\ Used(s2) = Used(c) \cup Locals(<<x>>) \cup Locals(<<Local(V(id))>>)
  <2>1. Fresh(s1, t)
    BY <1>1, <1>4 DEF Fresh
  <2>2. /\ Distinct(s2) /\ Defs(s2) = Defs(s1) \cup {t}
        /\ Used(s2) = Used(s1) \cup Locals(<<Local(V(id))>>)
    BY <1>4, <1>5, <1>6, <2>1, SaysFresh
  <2> QED BY <1>4, <2>2
<1>8. /\ Sane(s2) /\ DOMAIN s2.text = DOMAIN c.text
      /\ s2.temps = c.temps + 1 /\ s2.names = s.names
  BY <1>1, <1>2, <1>3, <1>6 DEF Says
<1>9. /\ Sane(d) /\ d.text = s2.text /\ d.temps = s2.temps
      /\ DOMAIN d.names = DOMAIN s2.names \cup {id} /\ d.names[id] = Local(t)
      /\ \A j \in DOMAIN s2.names \ {id} : d.names[j] = s2.names[j]
  BY <1>8, NamedNames
<1> HIDE DEF d
<1>10. /\ Distinct(d) /\ Defs(d) = Defs(c) \cup {V(id), t}
       /\ Used(d) = Used(c) \cup Locals(<<x>>) \cup Locals(<<Local(V(id))>>)
  BY <1>7, <1>9, SameText
<1>11. Used(d) \subseteq Defs(d) \cup Parameters
  <2>1. Locals(<<x>>) \subseteq Defs(d) \cup Parameters
    <3>1. Known(Defs(d), x)
      BY <1>10 DEF Known
    <3> QED BY <3>1, LocalsKnown
  <2>2. Locals(<<Local(V(id))>>) \subseteq Defs(d) \cup Parameters
    <3>1. Known(Defs(d), Local(V(id)))
      BY <1>10 DEF Known, Local
    <3> QED BY <3>1, LocalsKnown
  <2> QED BY <1>1, <1>10, <2>1, <2>2
<1>12. Known(Defs(d), d.names[id])
  BY <1>9, <1>10 DEF Known, Local
<1>13. Defs(d) \subseteq Defs(c) \cup {NoName, V(id)} \cup {T(k) : k \in c.temps .. d.temps - 1}
       /\ Defs(c) \subseteq Defs(d) /\ d.temps >= c.temps
  BY <1>1, <1>8, <1>9, <1>10
<1>14. /\ DOMAIN d.names = DOMAIN c.names \cup {id}
       /\ \A j \in DOMAIN c.names \ {id} : d.names[j] = c.names[j]
  BY <1>1, <1>8, <1>9
<1>15. Sane(d) /\ Distinct(d) /\ DOMAIN d.text = DOMAIN c.text /\ c.temps \in Nat
  BY <1>1, <1>8, <1>9, <1>10
<1>16. Written(c, S) /\ id \notin IdsOf(S)
  BY DEF Naming
<1>17. Written(d, S \cup {p})
  BY <1>11, <1>12, <1>13, <1>14, <1>15, <1>16, WrittenMore
<1> QED BY <1>0, <1>17

LEMMA StoreWritten ==
    ASSUME NEW c, NEW s, NEW S, NEW p, Naming(c, s, S, p), ~HasValue(source, p),
           NEW x, Known(Defs(c), x), NEW y, Known(Defs(c), y)
    PROVE  Written(EmitStore(s, x, y), S \cup {p})
<1> DEFINE id == Item(source, p).id
           t == T(s.temps)
           s0 == NewTmp(s)
           s1 == Say(s0, t, "inttoptr", <<x>>)
           d == Say(s1, NoName, "store", <<y, Local(t)>>)
<1>0. d = EmitStore(s, x, y)
  BY DEF EmitStore
<1>1. /\ Sane(s) /\ s.text = c.text /\ s.temps = c.temps /\ c.temps \in Nat
      /\ DOMAIN s.names = DOMAIN c.names \cup {id}
      /\ \A j \in DOMAIN c.names \ {id} : s.names[j] = c.names[j]
      /\ Distinct(s) /\ Defs(s) = Defs(c) /\ Used(s) = Used(c)
      /\ Used(c) \subseteq Defs(c) \cup Parameters
      /\ t \notin Defs(c)
  BY NamingFacts
<1>2. /\ Sane(s0) /\ s0.text = s.text /\ s0.names = s.names /\ s0.temps = c.temps + 1
      /\ Distinct(s0) /\ Defs(s0) = Defs(c) /\ Used(s0) = Used(c)
      /\ Block.id \in DOMAIN s0.text
  BY <1>1, NewTmpTemps, SameText DEF Naming
<1> HIDE DEF s0
<1>3. Says(s0, s1, t, "inttoptr", <<x>>)
  BY <1>2, SaySays
<1> HIDE DEF s1
<1>4. /\ Distinct(s1) /\ Defs(s1) = Defs(c) \cup {t}
      /\ Used(s1) = Used(c) \cup Locals(<<x>>)
  <2>1. Fresh(s0, t)
    BY <1>1, <1>2 DEF Fresh
  <2> QED BY <1>2, <1>3, <2>1, SaysFresh
<1>5. Sane(s1) /\ Block.id \in DOMAIN s1.text
  BY <1>2, <1>3 DEF Says
<1>6. Says(s1, d, NoName, "store", <<y, Local(t)>>)
  BY <1>5, SaySays
<1> HIDE DEF d
<1>7. /\ Distinct(d) /\ Defs(d) = Defs(c) \cup {t, NoName}
      /\ Used(d) = Used(c) \cup Locals(<<x>>) \cup Locals(<<y, Local(t)>>)
  <2>1. Fresh(s1, NoName)
    BY DEF Fresh
  <2>2. /\ Distinct(d) /\ Defs(d) = Defs(s1) \cup {NoName}
        /\ Used(d) = Used(s1) \cup Locals(<<y, Local(t)>>)
    BY <1>4, <1>5, <1>6, <2>1, SaysFresh
  <2> QED BY <1>4, <2>2
<1>8. /\ Sane(d) /\ DOMAIN d.text = DOMAIN c.text
      /\ d.temps = c.temps + 1 /\ d.names = s.names
  BY <1>1, <1>2, <1>3, <1>6 DEF Says
<1>11. Used(d) \subseteq Defs(d) \cup Parameters
  <2>1. Known(Defs(d), x) /\ Known(Defs(d), y) /\ Known(Defs(d), Local(t))
    BY <1>7 DEF Known, Local
  <2>2. Locals(<<x>>) \subseteq Defs(d) \cup Parameters
    BY <2>1, LocalsKnown
  <2>3. Locals(<<y, Local(t)>>) \subseteq Defs(d) \cup Parameters
    BY <2>1, LocalsKnown
  <2> QED BY <1>1, <1>7, <2>2, <2>3
<1>13. Defs(d) \subseteq Defs(c) \cup {NoName, V(id)} \cup {T(k) : k \in c.temps .. d.temps - 1}
       /\ Defs(c) \subseteq Defs(d) /\ d.temps >= c.temps
  BY <1>1, <1>7, <1>8
<1>14. /\ DOMAIN d.names = DOMAIN c.names \cup {id}
       /\ \A j \in DOMAIN c.names \ {id} : d.names[j] = c.names[j]
  BY <1>1, <1>8
<1>15. Sane(d) /\ Distinct(d) /\ DOMAIN d.text = DOMAIN c.text /\ c.temps \in Nat
  BY <1>1, <1>7, <1>8
<1>16. Written(c, S) /\ id \notin IdsOf(S)
  BY DEF Naming
<1>17. Written(d, S \cup {p})
  BY <1>11, <1>13, <1>14, <1>15, <1>16, WrittenMore
<1> QED BY <1>0, <1>17

LEMMA SelectWritten ==
    ASSUME NEW c, NEW s, NEW S, NEW p, Naming(c, s, S, p), NEW x, Known(Defs(c), x),
           NEW y, Known(Defs(c), y), NEW z, Known(Defs(c), z),
           s.names[Item(source, p).id] = Local(V(Item(source, p).id))
    PROVE  Written(EmitSelect(s, Item(source, p).id, x, y, z), S \cup {p})
<1> DEFINE id == Item(source, p).id
           t == T(s.temps)
           s0 == NewTmp(s)
           s1 == Say(s0, t, "icmp ne", <<x, Num(0)>>)
           d == Say(s1, V(id), "select", <<Local(t), y, z>>)
<1>0. d = EmitSelect(s, id, x, y, z)
  BY DEF EmitSelect
<1>1. /\ Sane(s) /\ s.text = c.text /\ s.temps = c.temps /\ c.temps \in Nat
      /\ DOMAIN s.names = DOMAIN c.names \cup {id}
      /\ \A j \in DOMAIN c.names \ {id} : s.names[j] = c.names[j]
      /\ Distinct(s) /\ Defs(s) = Defs(c) /\ Used(s) = Used(c)
      /\ Used(c) \subseteq Defs(c) \cup Parameters
      /\ V(id) \notin Defs(c) /\ t \notin Defs(c) /\ t # V(id)
  BY NamingFacts, NamesApart
<1>2. /\ Sane(s0) /\ s0.text = s.text /\ s0.names = s.names /\ s0.temps = c.temps + 1
      /\ Distinct(s0) /\ Defs(s0) = Defs(c) /\ Used(s0) = Used(c)
      /\ Block.id \in DOMAIN s0.text
  BY <1>1, NewTmpTemps, SameText DEF Naming
<1> HIDE DEF s0
<1>3. Says(s0, s1, t, "icmp ne", <<x, Num(0)>>)
  BY <1>2, SaySays
<1> HIDE DEF s1
<1>4. /\ Distinct(s1) /\ Defs(s1) = Defs(c) \cup {t}
      /\ Used(s1) = Used(c) \cup Locals(<<x, Num(0)>>)
  <2>1. Fresh(s0, t)
    BY <1>1, <1>2 DEF Fresh
  <2>2. Sane(s0) /\ Distinct(s0) /\ Block.id \in DOMAIN s0.text
    BY <1>2
  <2>3. /\ Distinct(s1) /\ Defs(s1) = Defs(s0) \cup {t}
        /\ Used(s1) = Used(s0) \cup Locals(<<x, Num(0)>>)
    BY <1>3, <2>1, <2>2, SaysFresh, ZenonT(60)
  <2> QED BY <1>2, <2>3
<1>5. Sane(s1) /\ Block.id \in DOMAIN s1.text
  BY <1>2, <1>3 DEF Says
<1>6. Says(s1, d, V(id), "select", <<Local(t), y, z>>)
  BY <1>5, SaySays
<1> HIDE DEF d
<1>7. /\ Distinct(d) /\ Defs(d) = Defs(c) \cup {t, V(id)}
      /\ Used(d) = Used(c) \cup Locals(<<x, Num(0)>>) \cup Locals(<<Local(t), y, z>>)
  <2>1. Fresh(s1, V(id))
    BY <1>1, <1>4 DEF Fresh
  <2>2. /\ Distinct(d) /\ Defs(d) = Defs(s1) \cup {V(id)}
        /\ Used(d) = Used(s1) \cup Locals(<<Local(t), y, z>>)
    BY <1>4, <1>5, <1>6, <2>1, SaysFresh
  <2> QED BY <1>4, <2>2
<1>8. /\ Sane(d) /\ DOMAIN d.text = DOMAIN c.text
      /\ d.temps = c.temps + 1 /\ d.names = s.names
  BY <1>1, <1>2, <1>3, <1>6 DEF Says
<1>11. Used(d) \subseteq Defs(d) \cup Parameters
  <2>1. /\ Known(Defs(d), x) /\ Known(Defs(d), y) /\ Known(Defs(d), z)
        /\ Known(Defs(d), Local(t)) /\ Known(Defs(d), Num(0))
    BY <1>7 DEF Known, Local, Num
  <2>2. Locals(<<x, Num(0)>>) \subseteq Defs(d) \cup Parameters
    BY <2>1, LocalsKnown
  <2>3. Locals(<<Local(t), y, z>>) \subseteq Defs(d) \cup Parameters
    BY <2>1, LocalsKnown
  <2> QED BY <1>1, <1>7, <2>2, <2>3
<1>12. Known(Defs(d), d.names[id])
  BY <1>7, <1>8 DEF Known, Local
<1>13. Defs(d) \subseteq Defs(c) \cup {NoName, V(id)} \cup {T(k) : k \in c.temps .. d.temps - 1}
       /\ Defs(c) \subseteq Defs(d) /\ d.temps >= c.temps
  BY <1>1, <1>7, <1>8
<1>14. /\ DOMAIN d.names = DOMAIN c.names \cup {id}
       /\ \A j \in DOMAIN c.names \ {id} : d.names[j] = c.names[j]
  BY <1>1, <1>8
<1>15. Sane(d) /\ Distinct(d) /\ DOMAIN d.text = DOMAIN c.text /\ c.temps \in Nat
  BY <1>1, <1>7, <1>8
<1>16. Written(c, S) /\ id \notin IdsOf(S)
  BY DEF Naming
<1>17. Written(d, S \cup {p})
  BY <1>11, <1>12, <1>13, <1>14, <1>15, <1>16, WrittenMore
<1> QED BY <1>0, <1>17

LEMMA ReturnWritten ==
    ASSUME NEW c, NEW s, NEW S, NEW p, Naming(c, s, S, p), ~HasValue(source, p),
           NEW x, Known(Defs(c), x)
    PROVE  Written(Say(s, NoName, "ret", <<x>>), S \cup {p})
<1> DEFINE id == Item(source, p).id
           d == Say(s, NoName, "ret", <<x>>)
<1>1. /\ Sane(s) /\ s.text = c.text /\ s.temps = c.temps /\ c.temps \in Nat
      /\ DOMAIN s.names = DOMAIN c.names \cup {id}
      /\ \A j \in DOMAIN c.names \ {id} : s.names[j] = c.names[j]
      /\ Distinct(s) /\ Defs(s) = Defs(c) /\ Used(s) = Used(c)
      /\ Used(c) \subseteq Defs(c) \cup Parameters
      /\ Block.id \in DOMAIN s.text
  <2>1. Block.id \in DOMAIN c.text
    BY DEF Naming
  <2> QED BY <2>1, NamingFacts
<1>2. Says(s, d, NoName, "ret", <<x>>)
  BY <1>1, SaySays
<1> HIDE DEF d
<1>3. /\ Distinct(d) /\ Defs(d) = Defs(c) \cup {NoName}
      /\ Used(d) = Used(c) \cup Locals(<<x>>)
  <2>1. Fresh(s, NoName)
    BY DEF Fresh
  <2> QED BY <1>1, <1>2, <2>1, SaysFresh
<1>4. /\ Sane(d) /\ DOMAIN d.text = DOMAIN c.text
      /\ d.temps = c.temps /\ d.names = s.names
  BY <1>1, <1>2 DEF Says
<1>5. Used(d) \subseteq Defs(d) \cup Parameters
  <2>1. Known(Defs(d), x)
    BY <1>3 DEF Known
  <2>2. Locals(<<x>>) \subseteq Defs(d) \cup Parameters
    BY <2>1, LocalsKnown
  <2> QED BY <1>1, <1>3, <2>2
<1>6. Defs(d) \subseteq Defs(c) \cup {NoName, V(id)} \cup {T(k) : k \in c.temps .. d.temps - 1}
       /\ Defs(c) \subseteq Defs(d) /\ d.temps >= c.temps
  BY <1>1, <1>3, <1>4
<1>7. /\ DOMAIN d.names = DOMAIN c.names \cup {id}
       /\ \A j \in DOMAIN c.names \ {id} : d.names[j] = c.names[j]
  BY <1>1, <1>4
<1>8. Written(c, S) /\ id \notin IdsOf(S)
  BY DEF Naming
<1>9. Written(d, S \cup {p})
  BY <1>1, <1>3, <1>4, <1>5, <1>6, <1>7, <1>8, WrittenMore
<1> QED BY <1>9 DEF d

LEMMA AliasWritten ==
    ASSUME NEW c, NEW s, NEW S, NEW p, Naming(c, s, S, p), NEW o,
           o[1] = "sym" => o \in Parameters,
           o[1] = "ref" => o[2] \in DOMAIN s.names /\ Known(Defs(c), s.names[o[2]])
    PROVE  Written(Alias(s, Item(source, p).id, o), S \cup {p})
<1> DEFINE id == Item(source, p).id
           v == IF o[1] # "ref" THEN Text(o)
                ELSE IF o[2] \in DOMAIN s.names THEN s.names[o[2]] ELSE Local(V(o[2]))
           d == Named(s, id, v)
<1>0. d = Alias(s, id, o)
  BY DEF Alias
<1>1. /\ Sane(s) /\ s.text = c.text /\ s.temps = c.temps /\ c.temps \in Nat
      /\ DOMAIN s.names = DOMAIN c.names \cup {id}
      /\ \A j \in DOMAIN c.names \ {id} : s.names[j] = c.names[j]
      /\ Distinct(s) /\ Defs(s) = Defs(c) /\ Used(s) = Used(c)
      /\ Used(c) \subseteq Defs(c) \cup Parameters
  BY NamingFacts DEF Naming
<1>2. Known(Defs(c), v)
  BY TextKnown
<1> HIDE DEF v
<1>3. /\ Sane(d) /\ d.text = s.text /\ d.temps = s.temps
      /\ DOMAIN d.names = DOMAIN s.names \cup {id} /\ d.names[id] = v
      /\ \A j \in DOMAIN s.names \ {id} : d.names[j] = s.names[j]
  BY <1>1, NamedNames
<1> HIDE DEF d
<1>4. Distinct(d) /\ Defs(d) = Defs(c) /\ Used(d) = Used(c)
  BY <1>1, <1>3, SameText
<1>5. Known(Defs(d), d.names[id])
  BY <1>2, <1>3, <1>4
<1>6. d.temps >= c.temps /\ DOMAIN d.text = DOMAIN c.text
  BY <1>1, <1>3
<1>7. /\ DOMAIN d.names = DOMAIN c.names \cup {id}
       /\ \A j \in DOMAIN c.names \ {id} : d.names[j] = c.names[j]
  BY <1>1, <1>3
<1>8. Written(c, S) /\ id \notin IdsOf(S)
  BY DEF Naming
<1>9. Used(d) \subseteq Defs(d) \cup Parameters
  BY <1>1, <1>4
<1>10. Defs(d) \subseteq Defs(c) \cup {NoName, V(id)} \cup {T(k) : k \in c.temps .. d.temps - 1}
       /\ Defs(c) \subseteq Defs(d)
  BY <1>4
<1>11. Written(d, S \cup {p})
  BY <1>1, <1>3, <1>4, <1>5, <1>6, <1>7, <1>8, <1>9, <1>10, WrittenMore
<1> QED BY <1>0, <1>11

\* An instruction of a block, whichever it is.
LEMMA InstrWritten ==
    ASSUME WellFormed(source), NEW p \in Places(source), ~IsPhi(source, p),
           NEW S, S \subseteq Places(source), p \notin S, Before(source, p) \subseteq S,
           NEW c, Written(c, S), Block.id \in DOMAIN c.text
    PROVE  Written(EmitInstr(c, Item(source, p)), S \cup {p})
<1> DEFINE i == Item(source, p)
           id == i.id
           s == Named(c, id, Local(V(id)))
           d == EmitInstr(c, i)
           X(k) == ValRef(s, i.args[k])
<1> SUFFICES Written(d, S \cup {p})
  OBVIOUS
<1>1. id \notin IdsOf(S)
  BY ItemsDiffer DEF IdsOf
<1>2. /\ DOMAIN s.names = DOMAIN c.names \cup {id} /\ s.names[id] = Local(V(id))
      /\ \A j \in DOMAIN c.names \ {id} : s.names[j] = c.names[j]
  BY NamedNames DEF Written
<1>3. DOMAIN i.args = 1 .. Arity(i.op)
  BY DEF WellFormed
<1>4. ASSUME NEW k \in DOMAIN i.args
      PROVE  /\ i.args[k][1] = "sym" => i.args[k] \in Parameters
             /\ RefersTo(source, i.args[k], S)
  <2>1. RefersTo(source, i.args[k], Before(source, p))
    BY DEF WellFormed
  <2>2. RefersTo(source, i.args[k], S)
    BY <2>1 DEF RefersTo
  <2> QED BY <2>2, SymsAreParameters
<1> HIDE DEF s, i
<1>5. ASSUME NEW k \in DOMAIN i.args
      PROVE  /\ Known(Defs(c), X(k))
             /\ i.args[k][1] = "ref" => /\ i.args[k][2] \in DOMAIN s.names
                                        /\ Known(Defs(c), s.names[i.args[k][2]])
  <2>1. \A j \in IdsOf(S) : j \in DOMAIN c.names =>
           j \in DOMAIN s.names /\ s.names[j] = c.names[j]
    BY <1>1, <1>2
  <2> QED BY <1>4, <2>1, OperandKnown
<1>6. Naming(c, s, S, p)
  BY <1>1, <1>5 DEF Naming, i, s
<1>7. HasValue(source, p) <=> i.op \notin {"STORE", "RET", "JMP", "CJMP"}
  BY DEF HasValue, i
<1>8. ASSUME NEW op, NEW args, \A k \in DOMAIN args : Known(Defs(c), args[k]),
             d = Say(s, V(id), op, args)
      PROVE  Written(d, S \cup {p})
  <2>1. \A k \in DOMAIN args : Known(Defs(c) \cup {V(id)}, args[k])
    BY <1>8 DEF Known
  <2> HIDE DEF d
  <2>2. Written(Say(s, V(id), op, args), S \cup {p})
    BY <1>1, <2>1, OneLine DEF i, s
  <2> QED BY <1>8, <2>2
<1>9. DOMAIN LlvmBinop = {"ADD", "SUB", "MUL", "XOR", "AND", "OR", "SHL", "SHR", "SAR"}
  BY DEF LlvmBinop
<1>10. \A w : Known(Defs(c), Num(w))
  BY DEF Known, Num
<1>11. CASE i.op = "CONST"
  <2>1. 1 \in DOMAIN i.args
    BY <1>3, <1>11 DEF Arity, Binary
  <2>2. d = Say(s, V(id), "add", <<X(1), Num(0)>>)
    BY <1>9, <1>11 DEF EmitInstr, s
  <2> HIDE DEF d, X
  <2>3. \A k \in DOMAIN <<X(1), Num(0)>> : Known(Defs(c), <<X(1), Num(0)>>[k])
    BY <1>5, <1>10, <2>1
  <2> QED BY <1>8, <2>2, <2>3
<1>12. CASE i.op \in DOMAIN LlvmBinop
  <2>1. 1 \in DOMAIN i.args /\ 2 \in DOMAIN i.args
    BY <1>3, <1>9, <1>12 DEF Arity, Binary
  <2>2. d = Say(s, V(id), LlvmBinop[i.op], <<X(1), X(2)>>)
    BY <1>9, <1>12 DEF EmitInstr, s
  <2> HIDE DEF d, X
  <2>3. \A k \in DOMAIN <<X(1), X(2)>> : Known(Defs(c), <<X(1), X(2)>>[k])
    BY <1>5, <2>1
  <2> QED BY <1>8, <2>2, <2>3
<1>13. CASE i.op = "NOT"
  <2>1. 1 \in DOMAIN i.args
    BY <1>3, <1>13 DEF Arity, Binary
  <2>2. d = Say(s, V(id), "xor", <<X(1), Num(AllOnes)>>)
    BY <1>9, <1>13 DEF EmitInstr, s
  <2> HIDE DEF d, X
  <2>3. \A k \in DOMAIN <<X(1), Num(AllOnes)>> : Known(Defs(c), <<X(1), Num(AllOnes)>>[k])
    BY <1>5, <1>10, <2>1
  <2> QED BY <1>8, <2>2, <2>3
<1>14. CASE i.op = "NEG"
  <2>1. 1 \in DOMAIN i.args
    BY <1>3, <1>14 DEF Arity, Binary
  <2>2. d = Say(s, V(id), "sub", <<Num(0), X(1)>>)
    BY <1>9, <1>14 DEF EmitInstr, s
  <2> HIDE DEF d, X
  <2>3. \A k \in DOMAIN <<Num(0), X(1)>> : Known(Defs(c), <<Num(0), X(1)>>[k])
    BY <1>5, <1>10, <2>1
  <2> QED BY <1>8, <2>2, <2>3
<1>15. CASE i.op = "LOAD"
  <2>1. 1 \in DOMAIN i.args
    BY <1>3, <1>15 DEF Arity, Binary
  <2>2. d = EmitLoad(s, id, X(1))
    BY <1>9, <1>15 DEF EmitInstr, s
  <2> HIDE DEF d, X
  <2> QED BY <1>5, <1>6, <2>1, <2>2, LoadWritten DEF i
<1>16. CASE i.op = "STORE"
  <2>1. 1 \in DOMAIN i.args /\ 2 \in DOMAIN i.args
    BY <1>3, <1>16 DEF Arity, Binary
  <2>2. d = EmitStore(s, X(1), X(2))
    BY <1>9, <1>16 DEF EmitInstr, s
  <2> HIDE DEF d, X
  <2> QED BY <1>5, <1>6, <1>7, <1>16, <2>1, <2>2, StoreWritten DEF i
<1>17. CASE i.op = "RET"
  <2>1. 1 \in DOMAIN i.args
    BY <1>3, <1>17 DEF Arity, Binary
  <2>2. d = Say(s, NoName, "ret", <<X(1)>>)
    BY <1>9, <1>17 DEF EmitInstr, s
  <2> HIDE DEF d, X
  <2> QED BY <1>5, <1>6, <1>7, <1>17, <2>1, <2>2, ReturnWritten DEF i
<1>18. CASE i.op = "CALL"
  <2>1. 1 \in DOMAIN i.args
    BY <1>3, <1>18 DEF Arity, Binary
  <2>2. d = Say(s, V(id), "call", <<X(1)>>)
    BY <1>9, <1>18 DEF EmitInstr, s
  <2> HIDE DEF d, X
  <2>3. \A k \in DOMAIN <<X(1)>> : Known(Defs(c), <<X(1)>>[k])
    BY <1>5, <2>1
  <2> QED BY <1>8, <2>2, <2>3
<1>19. CASE i.op = "PASSTHROUGH"
  <2>1. 1 \in DOMAIN i.args
    BY <1>3, <1>19 DEF Arity, Binary
  <2>2. d = Alias(s, id, i.args[1])
    BY <1>9, <1>19 DEF EmitInstr, s
  <2> HIDE DEF d, X
  <2> QED BY <1>4, <1>5, <1>6, <2>1, <2>2, AliasWritten DEF i
<1>20. CASE i.op = "SELECT"
  <2>1. 1 \in DOMAIN i.args /\ 2 \in DOMAIN i.args /\ 3 \in DOMAIN i.args
    BY <1>3, <1>20 DEF Arity, Binary
  <2>2. d = EmitSelect(s, id, X(1), X(2), X(3))
    BY <1>9, <1>20 DEF EmitInstr, s
  <2> HIDE DEF d, X
  <2> QED BY <1>2, <1>5, <1>6, <2>1, <2>2, SelectWritten DEF i
<1>21. CASE i.op \notin {"CONST", "NOT", "NEG", "LOAD", "STORE", "RET", "CALL",
                        "PASSTHROUGH", "SELECT"} \cup DOMAIN LlvmBinop
  <2>2. d = Say(s, V(id), "add", <<Num(0), Num(0)>>)
    BY <1>9, <1>21 DEF EmitInstr, s
  <2> HIDE DEF d
  <2>3. \A k \in DOMAIN <<Num(0), Num(0)>> : Known(Defs(c), <<Num(0), Num(0)>>[k])
    BY <1>10
  <2> QED BY <1>8, <2>2, <2>3
<1> QED
  BY <1>11, <1>12, <1>13, <1>14, <1>15, <1>16, <1>17, <1>18, <1>19, <1>20, <1>21

LEMMA PhiWritten ==
    ASSUME WellFormed(source), NEW p \in Places(source), IsPhi(source, p),
           source.form = "cfg", NEW S, S \subseteq Places(source), p \notin S,
           NEW c, Written(c, S), Block.id \in DOMAIN c.text
    PROVE  Written(EmitPhi(c, Item(source, p)), S \cup {p})
<1> DEFINE i == Item(source, p)
           s == Named(c, i.id, Local(V(i.id)))
           args == [b \in DOMAIN i.incoming |-> ValRef(s, i.incoming[b])]
<1>1. i.id \notin IdsOf(S)
  BY ItemsDiffer DEF IdsOf
<1>2. ASSUME NEW b \in DOMAIN i.incoming
      PROVE  Known(Defs(c) \cup {V(i.id)}, ValRef(s, i.incoming[b]))
  <2>1. RefersTo(source, i.incoming[b], Places(source))
    BY DEF WellFormed
  <2>2. i.incoming[b][1] = "sym" => i.incoming[b] \in Parameters
    BY SymsAreParameters
  <2> QED BY <2>1, <2>2, PhiOperandKnown
<1>3. \A k \in DOMAIN args : Known(Defs(c) \cup {V(i.id)}, args[k])
  BY <1>2
<1>4. EmitPhi(c, i) = Say(s, V(i.id), "phi", args)
  BY DEF EmitPhi
<1> HIDE DEF args
<1>5. Written(Say(s, V(i.id), "phi", args), S \cup {p})
  BY <1>1, <1>3, OneLine
<1> QED BY <1>4, <1>5

\* Jumps in the body of a block are left to its terminator.
LEMMA SkipWritten ==
    ASSUME NEW S, NEW c, Written(c, S), NEW p, ~HasValue(source, p)
    PROVE  Written(c, S \cup {p})
<1>1. IdsOf(S) \subseteq IdsOf(S \cup {p})
  BY DEF IdsOf
<1>2. {V(id) : id \in IdsOf(S)} \subseteq {V(id) : id \in IdsOf(S \cup {p})}
  BY <1>1
<1>3. Defs(c) \subseteq {NoName} \cup {T(k) : k \in 0 .. c.temps - 1}
                               \cup {V(id) : id \in IdsOf(S \cup {p})}
  BY <1>2 DEF Written
<1>4. source.form = "cfg" => DOMAIN c.names \subseteq IdsOf(S \cup {p})
  BY <1>1 DEF Written
<1>5. \A q \in S \cup {p} : HasValue(source, q) =>
          /\ Item(source, q).id \in DOMAIN c.names
          /\ Known(Defs(c), c.names[Item(source, q).id])
  BY DEF Written
<1> HIDE DEF Known, IdsOf
<1> QED BY <1>3, <1>4, <1>5 DEF Written

\* A line that defines nothing.
LEMMA PlainLine ==
    ASSUME NEW S, NEW c, Written(c, S), Block.id \in DOMAIN c.text, NEW op, NEW args,
           \A k \in DOMAIN args : Known(Defs(c), args[k])
    PROVE  Written(Say(c, NoName, op, args), S)
<1> DEFINE d == Say(c, NoName, op, args)
<1>1. Sane(c) /\ Distinct(c)
  BY DEF Written
<1>2. Says(c, d, NoName, op, args)
  BY <1>1, SaySays
<1> HIDE DEF d
<1>3. /\ Distinct(d) /\ Defs(d) = Defs(c) \cup {NoName}
      /\ Used(d) = Used(c) \cup Locals(args)
  <2>1. Fresh(c, NoName)
    BY DEF Fresh
  <2> QED BY <1>1, <1>2, <2>1, SaysFresh
<1>4. Sane(d) /\ DOMAIN d.text = DOMAIN c.text /\ d.temps = c.temps /\ d.names = c.names
  BY <1>2 DEF Says
<1>5. Used(d) \subseteq Defs(d) \cup Parameters
  BY <1>3, LocalsKnown DEF Written
<1>6. Defs(d) \subseteq {NoName} \cup {T(k) : k \in 0 .. d.temps - 1}
                               \cup {V(id) : id \in IdsOf(S)}
  BY <1>3, <1>4 DEF Written
<1>7. \A p \in S : HasValue(source, p) =>
          /\ Item(source, p).id \in DOMAIN d.names
          /\ Known(Defs(d), d.names[Item(source, p).id])
  BY <1>3, <1>4 DEF Written, Known
<1>8. /\ DOMAIN d.text = {b.id : b \in ToSet(source.blocks)}
      /\ source.form = "cfg" => DOMAIN d.names \subseteq IdsOf(S)
  BY <1>4 DEF Written
<1> QED BY <1>3, <1>4, <1>5, <1>6, <1>7, <1>8 DEF Written, d

\* The test of a conditional jump.
LEMMA TestLine ==
    ASSUME NEW S, NEW c, Written(c, S), Block.id \in DOMAIN c.text, NEW op, NEW args,
           \A k \in DOMAIN args : Known(Defs(c), args[k])
    PROVE  LET d == Say(NewTmp(c), T(c.temps), op, args)
           IN /\ Written(d, S) /\ DOMAIN d.text = DOMAIN c.text
              /\ Known(Defs(d), Local(T(c.temps)))
<1> DEFINE t == T(c.temps)
           s == NewTmp(c)
           d == Say(s, t, op, args)
<1>1. Sane(c) /\ Distinct(c) /\ c.temps \in Nat
  BY DEF Written, Sane
<1>2. /\ Sane(s) /\ s.text = c.text /\ s.names = c.names /\ s.temps = c.temps + 1
      /\ Distinct(s) /\ Defs(s) = Defs(c) /\ Used(s) = Used(c)
      /\ Block.id \in DOMAIN s.text
  BY <1>1, NewTmpTemps, SameText
<1> HIDE DEF s
<1>3. Says(s, d, t, op, args)
  BY <1>2, SaySays
<1> HIDE DEF d
<1>4. /\ Distinct(d) /\ Defs(d) = Defs(c) \cup {t}
      /\ Used(d) = Used(c) \cup Locals(args)
  <2>1. t \notin Defs(c)
    <3>1. t \notin {T(k) : k \in 0 .. c.temps - 1}
      BY <1>1, NamesApart
    <3> QED BY <3>1, NamesApart DEF Written
  <2>2. Fresh(s, t)
    BY <1>2, <2>1 DEF Fresh
  <2>3. /\ Distinct(d) /\ Defs(d) = Defs(s) \cup {t}
        /\ Used(d) = Used(s) \cup Locals(args)
    BY <1>2, <1>3, <2>2, SaysFresh
  <2> QED BY <1>2, <2>3
<1>5. /\ Sane(d) /\ DOMAIN d.text = DOMAIN c.text
      /\ d.temps = c.temps + 1 /\ d.names = c.names
  BY <1>2, <1>3 DEF Says
<1>6. Used(d) \subseteq Defs(d) \cup Parameters
  BY <1>4, LocalsKnown DEF Written
<1>7. Defs(d) \subseteq {NoName} \cup {T(k) : k \in 0 .. d.temps - 1}
                               \cup {V(id) : id \in IdsOf(S)}
  <2>1. /\ t \in {T(k) : k \in 0 .. d.temps - 1}
        /\ {T(k) : k \in 0 .. c.temps - 1} \subseteq {T(k) : k \in 0 .. d.temps - 1}
    BY <1>1, <1>5
  <2>2. Defs(c) \subseteq {NoName} \cup {T(k) : k \in 0 .. c.temps - 1}
                                 \cup {V(id) : id \in IdsOf(S)}
    BY DEF Written
  <2> HIDE DEF t
  <2> QED BY <1>4, <2>1, <2>2
<1>8. \A p \in S : HasValue(source, p) =>
          /\ Item(source, p).id \in DOMAIN d.names
          /\ Known(Defs(d), d.names[Item(source, p).id])
  BY <1>4, <1>5 DEF Written, Known
<1>9. /\ DOMAIN d.text = {b.id : b \in ToSet(source.blocks)}
      /\ source.form = "cfg" => DOMAIN d.names \subseteq IdsOf(S)
  BY <1>5 DEF Written
<1>10. Written(d, S)
  BY <1>4, <1>5, <1>6, <1>7, <1>8, <1>9 DEF Written
<1>11. Known(Defs(d), Local(t))
  BY <1>4 DEF Known, Local
<1> QED BY <1>5, <1>10, <1>11 DEF d, s

LEMMA TermWritten ==
    ASSUME WellFormed(source), at \in DOMAIN source.blocks,
           NEW S, Before(source, <<at + 1, 1>>) \subseteq S,
           NEW c, Written(c, S), Block.id \in DOMAIN c.text
    PROVE  Written(EmitTerm(c, Block), S)
<1> DEFINE b == Block
           d == EmitTerm(c, b)
<1> SUFFICES Written(d, S)
  OBVIOUS
<1>1. b.term.kind \in TermKind
  BY DEF WellFormed, Block
<1>2. \A D, w : Known(D, Num(w)) /\ Known(D, Label(w))
  BY DEF Known, Num, Label
<1>3. CASE b.term.kind = "JMP"
  <2>1. d = Say(c, NoName, "br", <<Label(b.term.target)>>)
    BY <1>3 DEF EmitTerm
  <2> HIDE DEF d, b
  <2>2. \A k \in DOMAIN <<Label(b.term.target)>> : Known(Defs(c), <<Label(b.term.target)>>[k])
    BY <1>2
  <2> QED BY <2>1, <2>2, PlainLine
<1>4. CASE b.term.kind = "FALLTHROUGH"
  <2>1. d = Say(c, NoName, "br", <<Label(b.term.fallthrough)>>)
    BY <1>4 DEF EmitTerm
  <2> HIDE DEF d, b
  <2>2. \A k \in DOMAIN <<Label(b.term.fallthrough)>> :
           Known(Defs(c), <<Label(b.term.fallthrough)>>[k])
    BY <1>2
  <2> QED BY <2>1, <2>2, PlainLine
<1>5. CASE b.term.kind = "CJMP"
  <2> DEFINE x == ValRef(c, b.term.condition)
             e == Say(NewTmp(c), T(c.temps), "icmp ne", <<x, Num(0)>>)
             args == <<Local(T(c.temps)), Label(b.term.target), Label(b.term.fallthrough)>>
  <2>1. d = Say(e, NoName, "br", args)
    BY <1>5 DEF EmitTerm
  <2>2. Known(Defs(c), x)
    <3>1. RefersTo(source, b.term.condition, Before(source, <<at + 1, 1>>))
      BY <1>5 DEF WellFormed, Block
    <3>2. RefersTo(source, b.term.condition, S)
      BY <3>1 DEF RefersTo
    <3>3. b.term.condition[1] = "sym" => b.term.condition \in Parameters
      BY ConditionIsParameter DEF Block
    <3> QED BY <3>2, <3>3, OperandKnown
  <2> HIDE DEF b, d, x
  <2>3. \A k \in DOMAIN <<x, Num(0)>> : Known(Defs(c), <<x, Num(0)>>[k])
    BY <1>2, <2>2
  <2>4. /\ Written(e, S) /\ DOMAIN e.text = DOMAIN c.text
        /\ Known(Defs(e), Local(T(c.temps)))
    BY <2>3, TestLine
  <2> HIDE DEF e
  <2>5. \A k \in DOMAIN args : Known(Defs(e), args[k])
    BY <1>2, <2>4
  <2> HIDE DEF args
  <2>6. Written(Say(e, NoName, "br", args), S)
    BY <2>4, <2>5, PlainLine
  <2> QED BY <2>1, <2>6
<1>6. CASE b.term.kind = "RET" /\ Returns(b)
  BY <1>6 DEF EmitTerm
<1>7. CASE b.term.kind = "RET" /\ ~Returns(b)
  <2>1. d = Say(c, NoName, "ret", <<Num(0)>>)
    BY <1>7 DEF EmitTerm
  <2> HIDE DEF d, b
  <2>2. \A k \in DOMAIN <<Num(0)>> : Known(Defs(c), <<Num(0)>>[k])
    BY <1>2
  <2> QED BY <2>1, <2>2, PlainLine
<1>8. CASE b.term.kind = "UNREACHABLE"
  <2>1. d = Say(c, NoName, "unreachable", <<>>)
    BY <1>8 DEF EmitTerm
  <2> HIDE DEF d, b
  <2>2. \A k \in DOMAIN <<>> : Known(Defs(c), <<>>[k])
    OBVIOUS
  <2> QED BY <2>1, <2>2, PlainLine
<1> QED BY <1>1, <1>3, <1>4, <1>5, <1>6, <1>7, <1>8 DEF TermKind

-----------------------------------------------------------------------------
(* Single assignment *)

\* Names and text tell what was written so far.
NameInv ==
    /\ source \in Sources
    /\ at \in 1 .. Len(source.blocks) + 1
    /\ n \in Nat \ {0}
    /\ Written(out, Done)

LEMMA Emitted ==
    ASSUME NameInv, Emitting
    PROVE  /\ WellFormed(source) /\ at \in DOMAIN source.blocks /\ at \in Nat
           /\ Block.id \in DOMAIN out.text
<1>1. WellFormed(source)
  BY SourcesAssumption DEF NameInv
<1>2. Len(source.blocks) \in Nat /\ DOMAIN source.blocks = 1 .. Len(source.blocks)
  BY <1>1, Shape
<1>3. at \in DOMAIN source.blocks /\ at \in Nat
  BY <1>2 DEF NameInv, Emitting
<1> QED BY <1>1, <1>3, BlockInText DEF NameInv, Written

\* What is written stays written, whatever else a step changes.
LEMMA WrittenNext ==
    ASSUME source' = source, NEW d, NEW S, Written(d, S), out' = d, Done' = S
    PROVE  Written(out, Done)'
<1>1. /\ Sane(out)' /\ Distinct(out)'
      /\ (DOMAIN out.text = {b.id : b \in ToSet(source.blocks)})'
      /\ Defs(out)' = Defs(d) /\ Used(out)' = Used(d) /\ Parameters' = Parameters
      /\ IdsOf(Done)' = IdsOf(S)
  BY DEF Written, Parameters, IdsOf, Item, Items
<1>2. \A p : /\ HasValue(source, p)' <=> HasValue(source, p)
             /\ Item(source, p)' = Item(source, p)
  BY DEF HasValue, Item, IsPhi, Items
<1>3. (\A p \in Done : HasValue(source, p) =>
          /\ Item(source, p).id \in DOMAIN out.names
          /\ Known(Defs(out), out.names[Item(source, p).id]))'
  BY <1>1, <1>2 DEF Written, Known
<1> QED BY <1>1, <1>3 DEF Written

LEMMA NameInvAtStart == Init => NameInv
<1> SUFFICES ASSUME Init PROVE NameInv
  OBVIOUS
<1>0. WellFormed(source) /\ Len(source.blocks) \in Nat
  BY SourcesAssumption, Shape DEF Init
<1>1. Done = {}
  <2> SUFFICES ASSUME NEW p \in Places(source), Precedes(p, <<1, 1>>) PROVE FALSE
    BY DEF Done, Here, Before, Init
  <2>1. p[1] \in Nat \ {0} /\ p[2] \in Nat \ {0}
    <3>1. p[1] \in DOMAIN source.blocks /\ p[2] \in Nat \ {0}
      BY <1>0, PlaceNumbers
    <3>2. DOMAIN source.blocks = 1 .. Len(source.blocks)
      BY <1>0, Shape
    <3> QED BY <1>0, <3>1, <3>2
  <2> QED BY <2>1 DEF Precedes
<1> DEFINE ids == {x.id : x \in ToSet(source.blocks)}
<1>2. out = [names |-> Preregistered, temps |-> 0, text |-> [b \in ids |-> <<>>]]
  BY DEF Init
<1> HIDE DEF ids
<1>3. /\ out.names = Preregistered /\ out.temps = 0 /\ DOMAIN out.text = ids
      /\ out.text = [b \in DOMAIN out.text |-> out.text[b]]
      /\ \A b \in DOMAIN out.text : out.text[b] = <<>>
  BY <1>2
<1>4. Sane(out)
  <2>1. <<>> \in Seq(Range(<<>>))
    OBVIOUS
  <2> QED BY <1>2, <1>3, <2>1 DEF Sane
<1>5. LinesOf(out) = {}
  BY <1>3, InLines
<1>6. Distinct(out) /\ Defs(out) = {} /\ Used(out) = {}
  BY <1>5 DEF Distinct, Defs, Used
<1>7. source.form = "cfg" => DOMAIN out.names = {}
  BY <1>3 DEF Preregistered
<1>8. Written(out, Done)
  BY <1>1, <1>3, <1>4, <1>6, <1>7 DEF Written, ids
<1> QED BY <1>0, <1>8 DEF NameInv, Init

LEMMA NameInvStep == NameInv /\ [Next]_vars => NameInv'
<1> SUFFICES ASSUME NameInv, [Next]_vars PROVE NameInv'
  OBVIOUS
<1>1. CASE Phi
  <2>1. /\ Emitting /\ n <= Len(Block.phis) /\ out' = EmitPhi(out, Block.phis[n])
        /\ n' = n + 1 /\ source' = source /\ at' = at
    BY <1>1 DEF Phi
  <2>2. /\ WellFormed(source) /\ at \in DOMAIN source.blocks
        /\ Block.id \in DOMAIN out.text /\ n \in Nat \ {0}
    BY <2>1, Emitted DEF NameInv
  <2>3. /\ Here \in Places(source) /\ IsPhi(source, Here)
        /\ Item(source, Here) = Block.phis[n]
    BY <2>1, <2>2, HerePlace
  <2>4. source.form = "cfg"
    <3>1. ASSUME source.form = "function" PROVE FALSE
      <4>1. Len(source.blocks) = 1 /\ source.blocks[1].phis = <<>>
        BY <2>2, <3>1 DEF WellFormed
      <4>2. at = 1
        BY <4>1, <2>1, Emitted DEF Emitting, NameInv
      <4>3. Len(Block.phis) = 0
        BY <4>1, <4>2 DEF Block
      <4> QED BY <4>3, <2>1, <2>2
    <3> QED BY <2>2, <3>1 DEF WellFormed
  <2>5. /\ Before(source, <<at, n + 1>>) = Done \cup {Here}
        /\ Done \subseteq Places(source) /\ Here \notin Done
    BY <2>2, <2>3, DoneGrows
  <2>6. Written(EmitPhi(out, Block.phis[n]), Done \cup {Here})
    BY <2>2, <2>3, <2>4, <2>5, PhiWritten DEF NameInv
  <2>7. Done' = Done \cup {Here}
    BY <2>1, <2>5 DEF Done, Here, Before, Places, Items
  <2>8. Written(out, Done)'
    BY <2>1, <2>6, <2>7, WrittenNext
  <2> QED BY <2>1, <2>2, <2>8 DEF NameInv
<1>2. CASE Instr
  <2> DEFINE i == Block.instrs[n - Len(Block.phis)]
  <2>1. /\ Emitting /\ n - Len(Block.phis) \in DOMAIN Block.instrs
        /\ out' = IF source.form = "cfg" /\ i.op \in {"JMP", "CJMP"} THEN out
                  ELSE EmitInstr(out, i)
        /\ n' = n + 1 /\ source' = source /\ at' = at
    BY <1>2 DEF Instr
  <2>2. /\ WellFormed(source) /\ at \in DOMAIN source.blocks
        /\ Block.id \in DOMAIN out.text /\ n \in Nat \ {0}
    BY <2>1, Emitted DEF NameInv
  <2>3. /\ Here \in Places(source) /\ ~IsPhi(source, Here) /\ Item(source, Here) = i
    BY <2>1, <2>2, HerePlace
  <2> HIDE DEF i
  <2>5. /\ Before(source, <<at, n + 1>>) = Done \cup {Here}
        /\ Done \subseteq Places(source) /\ Here \notin Done
    BY <2>2, <2>3, DoneGrows
  <2>6. Written(EmitInstr(out, i), Done \cup {Here})
    <3>1. Before(source, Here) \subseteq Done
      BY DEF Done
    <3> QED BY <2>2, <2>3, <2>5, <3>1, InstrWritten DEF NameInv
  <2>7. i.op \in {"JMP", "CJMP"} => Written(out, Done \cup {Here})
    <3>1. i.op \in {"JMP", "CJMP"} => ~HasValue(source, Here)
      BY <2>3 DEF HasValue
    <3> QED BY <3>1, SkipWritten DEF NameInv
  <2>8. Done' = Done \cup {Here}
    BY <2>1, <2>5 DEF Done, Here, Before, Places, Items
  <2>9. PICK d : out' = d /\ Written(d, Done \cup {Here})
    BY <2>1, <2>6, <2>7
  <2>10. Written(out, Done)'
    BY <2>1, <2>8, <2>9, WrittenNext
  <2> QED BY <2>1, <2>2, <2>10 DEF NameInv
<1>3. CASE Term
  <2>1. /\ Emitting /\ n > Len(Block.phis) + Len(Block.instrs)
        /\ out' = EmitTerm(out, Block) /\ at' = at + 1 /\ n' = 1 /\ source' = source
    BY <1>3 DEF Term
  <2>2. /\ WellFormed(source) /\ at \in DOMAIN source.blocks /\ at \in Nat
        /\ Block.id \in DOMAIN out.text /\ n \in Nat \ {0}
    BY <2>1, Emitted DEF NameInv
  <2>3. Before(source, <<at + 1, 1>>) = Done
    BY <2>1, <2>2, DoneStays
  <2>4. Written(EmitTerm(out, Block), Done)
    BY <2>2, <2>3, TermWritten DEF NameInv
  <2>5. Done' = Done
    BY <2>1, <2>3 DEF Done, Here, Before, Places, Items
  <2>6. Written(out, Done)'
    BY <2>1, <2>4, <2>5, WrittenNext
  <2>7. at + 1 \in 1 .. Len(source.blocks) + 1
    BY <2>1, <2>2, Shape DEF Emitting
  <2> QED BY <2>1, <2>6, <2>7 DEF NameInv
<1>4. CASE Run \/ UNCHANGED vars
  <2>1. UNCHANGED <<source, at, n, out>>
    BY <1>4 DEF Run, vars
  <2>2. Done' = Done
    BY <2>1 DEF Done, Here, Before, Places, Items
  <2>3. Written(out, Done)'
    BY <2>1, <2>2, WrittenNext DEF NameInv
  <2> QED BY <2>1, <2>3 DEF NameInv
<1> QED BY <1>1, <1>2, <1>3, <1>4 DEF Next

LEMMA NameInvAlways == Spec => []NameInv
BY NameInvAtStart, NameInvStep, PTL DEF Spec

(* The text is in SSA form: whatever a well-formed function is made of,     *)
(* emit_function and emit_cfg_function define no name twice and use none    *)
(* that is not defined or a parameter.                                     *)
THEOREM EmittedTextIsSSA == Spec => []SingleAssignment
<1>1. NameInv => SingleAssignment
  <2> SUFFICES ASSUME NameInv PROVE SingleAssignment
    OBVIOUS
  <2>1. Distinct(out) /\ Used(out) \subseteq Defs(out) \cup Parameters
    BY DEF NameInv, Written
  <2>2. Lines = LinesOf(out) /\ \A p : Line(p) = LineOf(out, p)
    BY DEF Lines, LinesOf, Line, LineOf
  <2>3. ASSUME NEW p \in Lines, NEW x \in Uses(Line(p)), x[1] = "local"
        PROVE  x[2] \in {Line(q).def : q \in Lines} \cup Parameters
    <3>1. PICK k \in DOMAIN Line(p).args : x = Line(p).args[k]
      BY DEF Uses
    <3>2. x[2] \in Locals(LineOf(out, p).args)
      BY <2>2, <2>3, <3>1 DEF Locals
    <3>3. x[2] \in Used(out)
      BY <2>2, <3>2 DEF Used
    <3> QED BY <2>1, <2>2, <3>3 DEF Defs
  <2> QED BY <2>1, <2>2, <2>3 DEF SingleAssignment, Distinct
<1> QED BY <1>1, NameInvAlways, PTL

-----------------------------------------------------------------------------
(* One terminator *)

\* From c to d the block being emitted gets lines but no end, or also an end.
Others(c, d) ==
    /\ Sane(d) /\ DOMAIN d.text = DOMAIN c.text
    /\ \A b \in DOMAIN c.text \ {Block.id} : d.text[b] = c.text[b]
Open(c, d) == Others(c, d) /\ Ends(d, Block.id) = Ends(c, Block.id)
Closed(c, d) ==
    /\ Others(c, d)
    /\ Ends(d, Block.id) = Ends(c, Block.id) \cup {Len(d.text[Block.id])}

LEMMA OpenOpen ==
    ASSUME NEW c, NEW d, NEW e, Open(c, d)
    PROVE  (Open(d, e) => Open(c, e)) /\ (Closed(d, e) => Closed(c, e))
BY DEF Open, Closed, Others

LEMMA OpenNames ==
    ASSUME NEW c, Sane(c), NEW d, Sane(d), d.text = c.text
    PROVE  Open(c, d)
BY DEF Open, Others, Ends

LEMMA OpenSay ==
    ASSUME NEW c, Sane(c), Block.id \in DOMAIN c.text, NEW def, NEW op, NEW args
    PROVE  /\ op \notin {"br", "ret", "unreachable"} => Open(c, Say(c, def, op, args))
           /\ op \in {"br", "ret", "unreachable"} => Closed(c, Say(c, def, op, args))
<1> DEFINE d == Say(c, def, op, args)
<1>1. Says(c, d, def, op, args)
  BY SaySays
<1> HIDE DEF d
<1>2. Others(c, d)
  BY <1>1 DEF Says, Others
<1>3. /\ op \in {"br", "ret", "unreachable"} =>
            Ends(d, Block.id) = Ends(c, Block.id) \cup {Len(d.text[Block.id])}
      /\ op \notin {"br", "ret", "unreachable"} => Ends(d, Block.id) = Ends(c, Block.id)
  BY <1>1, SaysEnds
<1> QED BY <1>2, <1>3 DEF Open, Closed, d

LEMMA OpenTmp ==
    ASSUME NEW c, Sane(c)
    PROVE  Open(c, NewTmp(c)) /\ Sane(NewTmp(c)) /\ NewTmp(c).text = c.text
BY NewTmpTemps, OpenNames

LEMMA InstrEnds ==
    ASSUME NEW c, Sane(c), Block.id \in DOMAIN c.text, NEW i
    PROVE  /\ i.op # "RET" => Open(c, EmitInstr(c, i))
           /\ i.op = "RET" => Closed(c, EmitInstr(c, i))
<1> DEFINE s == Named(c, i.id, Local(V(i.id)))
           d == EmitInstr(c, i)
           X(k) == ValRef(s, i.args[k])
<1>1. Sane(s) /\ s.text = c.text
  BY NamedNames
<1>2. Open(c, s)
  BY <1>1, OpenNames
<1>3. Block.id \in DOMAIN s.text
  BY <1>1
<1>4. DOMAIN LlvmBinop = {"ADD", "SUB", "MUL", "XOR", "AND", "OR", "SHL", "SHR", "SAR"}
  BY DEF LlvmBinop
<1> SUFFICES (i.op # "RET" => Open(s, d)) /\ (i.op = "RET" => Closed(s, d))
  BY <1>2, OpenOpen
<1>6. CASE i.op \in DOMAIN LlvmBinop
  <2>1. d = Say(s, V(i.id), LlvmBinop[i.op], <<X(1), X(2)>>)
    BY <1>4, <1>6 DEF EmitInstr
  <2>2. LlvmBinop[i.op] \notin {"br", "ret", "unreachable"} /\ i.op # "RET"
    BY <1>4, <1>6 DEF LlvmBinop
  <2> HIDE DEF d, s, X
  <2> QED BY <1>1, <1>3, <2>1, <2>2, OpenSay
<1>7. CASE i.op = "LOAD"
  <2> DEFINE s0 == NewTmp(s)
             s1 == Say(s0, V(i.id), "inttoptr", <<X(1)>>)
             s2 == Say(s1, T(s.temps), "load", <<Local(V(i.id))>>)
  <2>1. d = Named(s2, i.id, Local(T(s.temps)))
    BY <1>4, <1>7 DEF EmitInstr, EmitLoad
  <2> HIDE DEF d, s, X
  <2>2. Open(s, s0) /\ Sane(s0) /\ Block.id \in DOMAIN s0.text
    BY <1>1, <1>3, OpenTmp
  <2> HIDE DEF s0
  <2>3. Open(s0, s1)
    BY <2>2, OpenSay
  <2>4. Sane(s1) /\ Block.id \in DOMAIN s1.text
    BY <2>2, <2>3 DEF Open, Others
  <2> HIDE DEF s1
  <2>5. Open(s1, s2)
    BY <2>4, OpenSay
  <2>6. Sane(s2)
    BY <2>5 DEF Open, Others
  <2> HIDE DEF s2
  <2>7. Open(s2, d)
    BY <2>1, <2>6, NamedNames, OpenNames
  <2>8. Open(s, s1)
    BY <2>2, <2>3, OpenOpen
  <2>9. Open(s, s2)
    BY <2>5, <2>8, OpenOpen
  <2>10. Open(s, d)
    BY <2>7, <2>9, OpenOpen
  <2> QED BY <1>7, <2>10
<1>8. CASE i.op = "STORE"
  <2> DEFINE s0 == NewTmp(s)
             s1 == Say(s0, T(s.temps), "inttoptr", <<X(1)>>)
  <2>1. d = Say(s1, NoName, "store", <<X(2), Local(T(s.temps))>>)
    BY <1>4, <1>8 DEF EmitInstr, EmitStore
  <2> HIDE DEF d, s, X
  <2>2. Open(s, s0) /\ Sane(s0) /\ Block.id \in DOMAIN s0.text
    BY <1>1, <1>3, OpenTmp
  <2> HIDE DEF s0
  <2>3. Open(s0, s1)
    BY <2>2, OpenSay
  <2>4. Sane(s1) /\ Block.id \in DOMAIN s1.text
    BY <2>2, <2>3 DEF Open, Others
  <2> HIDE DEF s1
  <2>5. Open(s1, d)
    BY <2>1, <2>4, OpenSay
  <2>6. Open(s, s1)
    BY <2>2, <2>3, OpenOpen
  <2>7. Open(s, d)
    BY <2>5, <2>6, OpenOpen
  <2> QED BY <1>8, <2>7
<1>9. CASE i.op = "SELECT"
  <2> DEFINE s0 == NewTmp(s)
             s1 == Say(s0, T(s.temps), "icmp ne", <<X(1), Num(0)>>)
  <2>1. d = Say(s1, V(i.id), "select", <<Local(T(s.temps)), X(2), X(3)>>)
    BY <1>4, <1>9 DEF EmitInstr, EmitSelect
  <2> HIDE DEF d, s, X
  <2>2. Open(s, s0) /\ Sane(s0) /\ Block.id \in DOMAIN s0.text
    BY <1>1, <1>3, OpenTmp
  <2> HIDE DEF s0
  <2>3. Open(s0, s1)
    BY <2>2, OpenSay
  <2>4. Sane(s1) /\ Block.id \in DOMAIN s1.text
    BY <2>2, <2>3 DEF Open, Others
  <2> HIDE DEF s1
  <2>5. Open(s1, d)
    BY <2>1, <2>4, OpenSay
  <2>6. Open(s, s1)
    BY <2>2, <2>3, OpenOpen
  <2>7. Open(s, d)
    BY <2>5, <2>6, OpenOpen
  <2> QED BY <1>9, <2>7
<1>10. CASE i.op = "RET"
  <2>1. d = Say(s, NoName, "ret", <<X(1)>>)
    BY <1>4, <1>10 DEF EmitInstr
  <2> HIDE DEF d, s, X
  <2> QED BY <1>1, <1>3, <1>10, <2>1, OpenSay
<1>11. CASE i.op = "PASSTHROUGH"
  <2>1. PICK v : d = Named(s, i.id, v)
    BY <1>4, <1>11 DEF EmitInstr, Alias
  <2> HIDE DEF d, s, X
  <2> QED BY <1>1, <1>11, <2>1, NamedNames, OpenNames
<1>12. CASE i.op \in {"CONST", "NOT", "NEG", "CALL"}
  <2>1. PICK op, args : /\ op \in {"add", "xor", "sub", "call"}
                         /\ d = Say(s, V(i.id), op, args)
    BY <1>4, <1>12 DEF EmitInstr
  <2> HIDE DEF d, s, X
  <2> QED BY <1>1, <1>3, <1>12, <2>1, OpenSay
<1>13. CASE i.op \notin {"CONST", "NOT", "NEG", "LOAD", "STORE", "RET", "CALL",
                        "PASSTHROUGH", "SELECT"} \cup DOMAIN LlvmBinop
  <2>1. d = Say(s, V(i.id), "add", <<Num(0), Num(0)>>)
    BY <1>4, <1>13 DEF EmitInstr
  <2> HIDE DEF d, s, X
  <2> QED BY <1>1, <1>3, <1>13, <2>1, OpenSay
<1> HIDE DEF d, s, X
<1> QED BY <1>6, <1>7, <1>8, <1>9, <1>10, <1>11, <1>12, <1>13

LEMMA PhiEnds ==
    ASSUME NEW c, Sane(c), Block.id \in DOMAIN c.text, NEW p
    PROVE  Open(c, EmitPhi(c, p))
<1> DEFINE s == Named(c, p.id, Local(V(p.id)))
           d == EmitPhi(c, p)
<1>1. Sane(s) /\ s.text = c.text /\ Block.id \in DOMAIN s.text
  BY NamedNames
<1>2. Open(c, s)
  BY <1>1, OpenNames
<1>3. PICK args : d = Say(s, V(p.id), "phi", args)
  BY DEF EmitPhi
<1> HIDE DEF d, s
<1>4. Open(s, d)
  BY <1>1, <1>3, OpenSay
<1>5. Open(c, d)
  BY <1>2, <1>4, OpenOpen
<1> QED BY <1>5 DEF d

LEMMA TermEnds ==
    ASSUME NEW c, Sane(c), Block.id \in DOMAIN c.text, NEW b, b.term.kind \in TermKind
    PROVE  IF b.term.kind = "RET" /\ Returns(b) THEN EmitTerm(c, b) = c
           ELSE Closed(c, EmitTerm(c, b))
<1> DEFINE d == EmitTerm(c, b)
<1>1. CASE b.term.kind = "RET" /\ Returns(b)
  BY <1>1 DEF EmitTerm
<1>2. CASE b.term.kind = "CJMP"
  <2> DEFINE s == NewTmp(c)
             e == Say(s, T(c.temps), "icmp ne", <<ValRef(c, b.term.condition), Num(0)>>)
  <2>1. d = Say(e, NoName, "br", <<Local(T(c.temps)), Label(b.term.target),
                                   Label(b.term.fallthrough)>>)
    BY <1>2 DEF EmitTerm
  <2> HIDE DEF d
  <2>2. Open(c, s) /\ Sane(s) /\ Block.id \in DOMAIN s.text
    BY OpenTmp
  <2> HIDE DEF s
  <2>3. Open(s, e)
    BY <2>2, OpenSay
  <2>4. Sane(e) /\ Block.id \in DOMAIN e.text
    BY <2>2, <2>3 DEF Open, Others
  <2> HIDE DEF e
  <2>5. Closed(e, d)
    BY <2>1, <2>4, OpenSay
  <2>6. Open(c, e)
    BY <2>2, <2>3, OpenOpen
  <2>7. Closed(c, d)
    BY <2>5, <2>6, OpenOpen
  <2> QED BY <1>2, <2>7 DEF d
<1>3. CASE b.term.kind \in {"JMP", "FALLTHROUGH", "UNREACHABLE"}
           \/ (b.term.kind = "RET" /\ ~Returns(b))
  <2>1. PICK op, args : /\ op \in {"br", "ret", "unreachable"}
                         /\ d = Say(c, NoName, op, args)
    <3>1. CASE b.term.kind = "JMP"
      BY <3>1 DEF EmitTerm
    <3>2. CASE b.term.kind = "FALLTHROUGH"
      BY <3>2 DEF EmitTerm
    <3>3. CASE b.term.kind = "UNREACHABLE"
      BY <3>3 DEF EmitTerm
    <3>4. CASE b.term.kind = "RET" /\ ~Returns(b)
      BY <3>4 DEF EmitTerm
    <3> QED BY <1>3, <3>1, <3>2, <3>3, <3>4
  <2> HIDE DEF d
  <2>2. Closed(c, d)
    BY <2>1, OpenSay
  <2> QED BY <1>3, <2>2 DEF d
<1> QED BY <1>1, <1>2, <1>3 DEF TermKind

\* Block a has got its end: a RET was its last instruction, or all is written.
Ended(a) ==
    \/ a < at
    \/ /\ a = at
       /\ \E k \in DOMAIN source.blocks[a].instrs :
             /\ source.blocks[a].instrs[k].op = "RET"
             /\ Len(source.blocks[a].phis) + k < n
EndOf(c, a) ==
    Ends(c, source.blocks[a].id)
        = IF Ended(a) THEN {Len(c.text[source.blocks[a].id])} ELSE {}
EndInv ==
    \A a \in DOMAIN source.blocks : ReturnsLast(source.blocks[a]) => EndOf(out, a)

LEMMA EndInvAtStart == Init => EndInv
<1> SUFFICES ASSUME Init, NEW a \in DOMAIN source.blocks PROVE EndOf(out, a)
  BY DEF EndInv
<1>0. WellFormed(source)
  BY SourcesAssumption DEF Init
<1>1. a \in Nat \ {0} /\ Len(source.blocks[a].phis) \in Nat
      /\ DOMAIN source.blocks[a].instrs = 1 .. Len(source.blocks[a].instrs)
      /\ Len(source.blocks[a].instrs) \in Nat
  <2>1. DOMAIN source.blocks = 1 .. Len(source.blocks) /\ Len(source.blocks) \in Nat
    BY <1>0, Shape
  <2>2. a \in Nat \ {0}
    BY <2>1
  <2> QED BY <1>0, <2>2, Shape
<1>2. ~Ended(a)
  BY <1>1 DEF Ended, Init
<1>3. source.blocks[a].id \in {x.id : x \in ToSet(source.blocks)}
  BY DEF ToSet
<1>4. out.text[source.blocks[a].id] = <<>>
  BY <1>3 DEF Init
<1>5. Ends(out, source.blocks[a].id) = {}
  BY <1>4 DEF Ends
<1> QED BY <1>2, <1>5 DEF EndOf

\* The other blocks keep their ends.
LEMMA OthersKeepEnds ==
    ASSUME NameInv, EndInv, Emitting, NEW d, Others(out, d),
           NEW a \in DOMAIN source.blocks, a # at, ReturnsLast(source.blocks[a])
    PROVE  EndOf(d, a)
<1>1. /\ WellFormed(source) /\ at \in DOMAIN source.blocks
  BY Emitted
<1>2. source.blocks[a].id # Block.id
  BY <1>1 DEF WellFormed, Block
<1>3. source.blocks[a].id \in DOMAIN out.text
  <2>1. source.blocks[a].id \in {x.id : x \in ToSet(source.blocks)}
    BY DEF ToSet
  <2> QED BY <2>1 DEF NameInv, Written
<1>4. d.text[source.blocks[a].id] = out.text[source.blocks[a].id]
  BY <1>2, <1>3 DEF Others
<1>5. Ends(d, source.blocks[a].id) = Ends(out, source.blocks[a].id)
  BY <1>4 DEF Ends
<1> QED BY <1>4, <1>5 DEF EndOf, EndInv

LEMMA EndInvStep == NameInv /\ EndInv /\ [Next]_vars => EndInv'
<1> SUFFICES ASSUME NameInv, EndInv, [Next]_vars PROVE EndInv'
  OBVIOUS
<1>0. ASSUME source' = source, NEW a \in DOMAIN source.blocks
      PROVE  EndOf(out, a)' <=>
                Ends(out', source.blocks[a].id)
                   = IF Ended(a)' THEN {Len(out'.text[source.blocks[a].id])} ELSE {}
  BY <1>0 DEF EndOf
<1>1. CASE Phi
  <2>1. /\ Emitting /\ n <= Len(Block.phis) /\ out' = EmitPhi(out, Block.phis[n])
        /\ n' = n + 1 /\ source' = source /\ at' = at
    BY <1>1 DEF Phi
  <2>2. /\ WellFormed(source) /\ at \in DOMAIN source.blocks /\ at \in Nat
        /\ Block.id \in DOMAIN out.text /\ n \in Nat \ {0} /\ Sane(out)
    BY <2>1, Emitted DEF NameInv, Written
  <2>3. Open(out, out')
    BY <2>1, <2>2, PhiEnds
  <2>4. /\ Len(Block.phis) \in Nat /\ Len(Block.instrs) \in Nat
        /\ DOMAIN Block.instrs = 1 .. Len(Block.instrs)
    BY <2>2, Shape DEF Block
  <2>5. ~Ended(at) /\ ~Ended(at)'
    <3> DEFINE P == Len(Block.phis)
    <3>1. ASSUME NEW k \in DOMAIN Block.instrs
          PROVE  ~(P + k < n) /\ ~(P + k < n + 1)
      <4>1. P \in Nat /\ n <= P /\ k \in Nat \ {0}
        BY <2>1, <2>4
      <4> HIDE DEF P
      <4> QED BY <2>2, <4>1
    <3>2. source.blocks[at] = Block
      BY DEF Block
    <3> QED BY <2>1, <2>2, <3>1, <3>2 DEF Ended
  <2>6. ASSUME NEW a \in DOMAIN source.blocks, ReturnsLast(source.blocks[a])
        PROVE  EndOf(out, a)'
    <3>1. CASE a = at
      <4>1. Ends(out, Block.id) = {}
        BY <2>2, <2>5, <2>6, <3>1 DEF EndInv, EndOf, Block
      <4>2. Ends(out', Block.id) = {}
        BY <4>1, <2>3 DEF Open
      <4> QED BY <1>0, <2>1, <2>5, <3>1, <4>2 DEF Block
    <3>2. CASE a # at
      <4>1. EndOf(out', a)
        BY <2>1, <2>3, <2>6, <3>2, OthersKeepEnds DEF Open
      <4>2. Ended(a)' <=> Ended(a)
        BY <2>1, <3>2 DEF Ended
      <4> QED BY <1>0, <2>1, <4>1, <4>2 DEF EndOf
    <3> QED BY <3>1, <3>2
  <2> QED BY <2>1, <2>6 DEF EndInv
<1>2. CASE Instr
  <2> DEFINE i == Block.instrs[n - Len(Block.phis)]
  <2>1. /\ Emitting /\ n - Len(Block.phis) \in DOMAIN Block.instrs
        /\ out' = IF source.form = "cfg" /\ i.op \in {"JMP", "CJMP"} THEN out
                  ELSE EmitInstr(out, i)
        /\ n' = n + 1 /\ source' = source /\ at' = at
    BY <1>2 DEF Instr
  <2>2. /\ WellFormed(source) /\ at \in DOMAIN source.blocks /\ at \in Nat
        /\ Block.id \in DOMAIN out.text /\ n \in Nat \ {0} /\ Sane(out)
    BY <2>1, Emitted DEF NameInv, Written
  <2> HIDE DEF i
  <2>3. /\ i.op # "RET" => Open(out, out')
        /\ i.op = "RET" => Closed(out, out')
    <3>1. Open(out, out)
      BY <2>2, OpenNames
    <3> QED BY <2>1, <2>2, <3>1, InstrEnds
  <2>4. /\ Len(Block.phis) \in Nat /\ Len(Block.instrs) \in Nat
        /\ DOMAIN Block.instrs = 1 .. Len(Block.instrs)
    BY <2>2, Shape DEF Block
  <2>5. ASSUME ReturnsLast(Block) PROVE ~Ended(at) /\ (Ended(at)' <=> i.op = "RET")
    <3> DEFINE P == Len(Block.phis)
               L == Len(Block.instrs)
    <3>1. /\ P \in Nat /\ L \in Nat /\ DOMAIN Block.instrs = 1 .. L /\ n - P \in 1 .. L
      BY <2>1, <2>4
    <3>2. source.blocks[at] = Block
      BY DEF Block
    <3>3. ASSUME NEW k \in DOMAIN Block.instrs, Block.instrs[k].op = "RET"
          PROVE  ~(P + k < n)
      <4>1. k = L
        BY <2>5, <3>3 DEF ReturnsLast
      <4> HIDE DEF P, L
      <4> QED BY <3>1, <4>1, <2>2
    <3>4. ~Ended(at)
      BY <3>2, <3>3, <2>2 DEF Ended
    <3>5. ASSUME i.op = "RET" PROVE Ended(at)'
      <4>1. P + (n - P) < n + 1
        <5> HIDE DEF P
        <5> QED BY <3>1, <2>2
      <4> QED BY <2>1, <2>2, <3>2, <3>5, <4>1 DEF Ended, i
    <3>6. ASSUME Ended(at)' PROVE i.op = "RET"
      <4>1. PICK k \in DOMAIN Block.instrs : Block.instrs[k].op = "RET" /\ P + k < n + 1
        BY <2>1, <2>2, <3>2, <3>6 DEF Ended
      <4>2. k = L
        BY <2>5, <4>1 DEF ReturnsLast
      <4>3. k = n - P
        <5> HIDE DEF P, L
        <5> QED BY <3>1, <4>1, <4>2, <2>2
      <4> QED BY <4>1, <4>3 DEF i
    <3> QED BY <3>4, <3>5, <3>6
  <2>6. ASSUME NEW a \in DOMAIN source.blocks, ReturnsLast(source.blocks[a])
        PROVE  EndOf(out, a)'
    <3>1. CASE a = at
      <4>0. ReturnsLast(Block)
        BY <2>6, <3>1 DEF Block
      <4>1. Ends(out, Block.id) = {}
        BY <2>2, <2>5, <2>6, <4>0, <3>1 DEF EndInv, EndOf, Block
      <4>2. Ends(out', Block.id) = IF i.op = "RET" THEN {Len(out'.text[Block.id])} ELSE {}
        BY <4>1, <2>3 DEF Open, Closed
      <4>3. Ended(at)' <=> i.op = "RET"
        BY <2>5, <4>0
      <4> QED BY <1>0, <2>1, <3>1, <4>2, <4>3 DEF Block
    <3>2. CASE a # at
      <4>0. Others(out, out')
        BY <2>3 DEF Open, Closed
      <4>1. EndOf(out', a)
        BY <2>1, <4>0, <2>6, <3>2, OthersKeepEnds
      <4>2. Ended(a)' <=> Ended(a)
        BY <2>1, <3>2 DEF Ended
      <4> QED BY <1>0, <2>1, <4>1, <4>2 DEF EndOf
    <3> QED BY <3>1, <3>2
  <2> QED BY <2>1, <2>6 DEF EndInv
<1>3. CASE Term
  <2>1. /\ Emitting /\ n > Len(Block.phis) + Len(Block.instrs)
        /\ out' = EmitTerm(out, Block) /\ at' = at + 1 /\ n' = 1 /\ source' = source
    BY <1>3 DEF Term
  <2>2. /\ WellFormed(source) /\ at \in DOMAIN source.blocks /\ at \in Nat
        /\ Block.id \in DOMAIN out.text /\ n \in Nat \ {0} /\ Sane(out)
    BY <2>1, Emitted DEF NameInv, Written
  <2>3. IF Block.term.kind = "RET" /\ Returns(Block) THEN out' = out
        ELSE Closed(out, out')
    <3>1. Block.term.kind \in TermKind
      BY <2>2 DEF WellFormed, Block
    <3> QED BY <2>1, <2>2, <3>1, TermEnds
  <2>4. /\ Len(Block.phis) \in Nat /\ Len(Block.instrs) \in Nat
        /\ DOMAIN Block.instrs = 1 .. Len(Block.instrs)
    BY <2>2, Shape DEF Block
  <2>5. ASSUME ReturnsLast(Block) PROVE Ended(at) <=> Block.term.kind = "RET" /\ Returns(Block)
    <3> DEFINE P == Len(Block.phis)
               L == Len(Block.instrs)
    <3>1. P \in Nat /\ L \in Nat /\ DOMAIN Block.instrs = 1 .. L /\ n > P + L
      BY <2>1, <2>4
    <3>2. \A k \in DOMAIN Block.instrs : P + k < n
      <4> HIDE DEF P, L
      <4> QED BY <3>1, <2>2
    <3>3. Ended(at) <=> \E k \in DOMAIN Block.instrs : Block.instrs[k].op = "RET"
      BY <2>2, <3>2 DEF Ended, Block
    <3>4. Returns(Block) <=> \E k \in DOMAIN Block.instrs : Block.instrs[k].op = "RET"
      BY DEF Returns, ToSet
    <3> QED BY <2>5, <3>3, <3>4 DEF ReturnsLast
  <2>6. ASSUME NEW a \in DOMAIN source.blocks, ReturnsLast(source.blocks[a])
        PROVE  EndOf(out, a)'
    <3>1. CASE a = at
      <4>0. ReturnsLast(Block)
        BY <2>6, <3>1 DEF Block
      <4>1. Ends(out, Block.id) = IF Ended(at) THEN {Len(out.text[Block.id])} ELSE {}
        BY <2>2, <2>6, <3>1 DEF EndInv, EndOf, Block
      <4>2. Ends(out', Block.id) = {Len(out'.text[Block.id])}
        <5>1. CASE Block.term.kind = "RET" /\ Returns(Block)
          BY <2>3, <2>5, <4>0, <4>1, <5>1
        <5>2. CASE ~(Block.term.kind = "RET" /\ Returns(Block))
          BY <2>3, <2>5, <4>0, <4>1, <5>2 DEF Closed
        <5> QED BY <5>1, <5>2
      <4>3. Ended(a)'
        BY <2>1, <2>2, <3>1 DEF Ended
      <4> QED BY <1>0, <2>1, <3>1, <4>2, <4>3 DEF Block
    <3>2. CASE a # at
      <4>0. Others(out, out')
        BY <2>2, <2>3 DEF Closed, Others
      <4>1. EndOf(out', a)
        BY <2>1, <4>0, <2>6, <3>2, OthersKeepEnds
      <4>2. Ended(a)' <=> Ended(a)
        <5>1. a \in Nat
          <6>1. DOMAIN source.blocks = 1 .. Len(source.blocks) /\ Len(source.blocks) \in Nat
            BY <2>2, Shape
          <6> QED BY <6>1
        <5>2. Ended(a) <=> a < at
          BY <3>2 DEF Ended
        <5>3. Ended(a)' <=> a < at + 1
          <6> DEFINE P == Len(source.blocks[a].phis)
                     L == Len(source.blocks[a].instrs)
          <6>1. ASSUME NEW k \in DOMAIN source.blocks[a].instrs
                PROVE  ~(P + k < 1)
            <7>1. P \in Nat /\ L \in Nat /\ k \in 1 .. L
              BY <2>2, Shape
            <7> HIDE DEF P, L
            <7> QED BY <7>1
          <6> QED BY <2>1, <6>1 DEF Ended
        <5> QED BY <2>2, <3>2, <5>1, <5>2, <5>3
      <4> QED BY <1>0, <2>1, <4>1, <4>2 DEF EndOf
    <3> QED BY <3>1, <3>2
  <2> QED BY <2>1, <2>6 DEF EndInv
<1>4. CASE Run \/ UNCHANGED vars
  <2>1. UNCHANGED <<source, at, n, out>>
    BY <1>4 DEF Run, vars
  <2> QED BY <2>1 DEF EndInv, EndOf, Ended
<1> QED BY <1>1, <1>2, <1>3, <1>4 DEF Next

(* Each block whose RETs come last ends with exactly one terminator, and    *)
(* that is its last line, whether the body, the terminator or the end of   *)
(* the function wrote it.                                                  *)
THEOREM BlocksEndOnce == Spec => []OneTerminator
<1>1. NameInv /\ EndInv => OneTerminator
  <2> SUFFICES ASSUME NameInv, EndInv, ~Emitting, NEW b \in ToSet(source.blocks),
                      ReturnsLast(b)
               PROVE  Ends(out, b.id) = {Len(out.text[b.id])}
    BY DEF OneTerminator
  <2>1. PICK a \in DOMAIN source.blocks : b = source.blocks[a]
    BY DEF ToSet
  <2>2. DOMAIN source.blocks = 1 .. Len(source.blocks) /\ Len(source.blocks) \in Nat
    BY SourcesAssumption, Shape DEF NameInv
  <2>3. a < at
    BY <2>2 DEF Emitting, NameInv
  <2> QED BY <2>1, <2>3 DEF EndInv, EndOf, Ended
<1> QED BY <1>1, NameInvAlways, EndInvAtStart, EndInvStep, NameInvAtStart, NameInvStep,
           PTL DEF Spec

-----------------------------------------------------------------------------
(* Dominance *)

\* Without(s, d) is the least set of blocks that is closed without d.
LEMMA LeastWithout ==
    ASSUME NEW s, 1 \in DOMAIN s.blocks, NEW d
    PROVE  /\ Without(s, d) \subseteq DOMAIN s.blocks \ {d}
           /\ 1 # d => 1 \in Without(s, d)
           /\ \A a \in Without(s, d) : \A b \in DOMAIN s.blocks \ {d} :
                 Follows(s, a, b) => b \in Without(s, d)
           /\ \A S \in SUBSET DOMAIN s.blocks :
                 ClosedWithout(s, d, S) => Without(s, d) \subseteq S
<1>1. ClosedWithout(s, d, DOMAIN s.blocks \ {d})
  BY DEF ClosedWithout
<1>2. d \notin Without(s, d)
  BY <1>1 DEF Without
<1> QED BY <1>2 DEF Without, ClosedWithout

\* In every run that comes to d, control was in a.
Reached(s) == Without(s, 0)

LEMMA DominatesItself ==
    ASSUME NEW s, 1 \in DOMAIN s.blocks, NEW a
    PROVE  Dominates(s, a, a)
BY LeastWithout DEF Dominates

LEMMA DominatesThrough ==
    ASSUME NEW s, 1 \in DOMAIN s.blocks, NEW a, NEW b, NEW d,
           Dominates(s, a, b), Dominates(s, b, d)
    PROVE  Dominates(s, a, d)
<1> DEFINE S == Without(s, a) \cap Without(s, b)
<1>1. b \notin Without(s, a) /\ d \notin Without(s, b)
  BY DEF Dominates
<1>2. 1 # a => 1 \in S
  BY <1>1, LeastWithout
<1>3. ASSUME NEW x \in S, NEW y \in DOMAIN s.blocks \ {a}, Follows(s, x, y)
      PROVE  y \in S
  <2>1. y \in Without(s, a)
    BY <1>3, LeastWithout
  <2>2. y # b
    BY <1>1, <2>1
  <2> QED BY <1>3, <2>1, <2>2, LeastWithout
<1>4. ClosedWithout(s, a, S) /\ S \in SUBSET DOMAIN s.blocks
  <2>1. S \in SUBSET DOMAIN s.blocks
    BY DEF Without
  <2> HIDE DEF S
  <2> QED BY <1>2, <1>3, <2>1 DEF ClosedWithout
<1>5. Without(s, a) \subseteq S
  BY <1>4, LeastWithout
<1> QED BY <1>1, <1>5 DEF Dominates

\* Two blocks that control can be in do not dominate each other.
LEMMA DominatesOneWay ==
    ASSUME NEW s, 1 \in DOMAIN s.blocks, 0 \notin DOMAIN s.blocks,
           NEW a \in Reached(s), NEW b, a # b, Dominates(s, a, b)
    PROVE  ~Dominates(s, b, a)
<1> SUFFICES ASSUME Dominates(s, b, a) PROVE FALSE
  OBVIOUS
<1> DEFINE S == Without(s, a) \cap Without(s, b)
<1>1. b \notin Without(s, a) /\ a \notin Without(s, b)
  BY DEF Dominates
<1>2. 1 \in S
  BY <1>1, LeastWithout
<1>3. ASSUME NEW x \in S, NEW y \in DOMAIN s.blocks, Follows(s, x, y)
      PROVE  y \in S
  <2>1. y # a
    <3> SUFFICES ASSUME y = a PROVE FALSE
      OBVIOUS
    <3>1. a \in Without(s, b)
      BY <1>3, LeastWithout
    <3> QED BY <1>1, <3>1
  <2>2. y \in Without(s, a)
    BY <1>3, <2>1, LeastWithout
  <2>3. y # b
    BY <1>1, <2>2
  <2> QED BY <1>3, <2>2, <2>3, LeastWithout
<1>4. ClosedWithout(s, 0, S) /\ S \in SUBSET DOMAIN s.blocks
  <2>1. S \in SUBSET DOMAIN s.blocks
    BY DEF Without
  <2> HIDE DEF S
  <2> QED BY <1>2, <1>3, <2>1 DEF ClosedWithout
<1>5. Without(s, 0) \subseteq S
  BY <1>4, LeastWithout
<1>6. a \in S /\ a \notin Without(s, a)
  BY <1>5, LeastWithout DEF Reached
<1> QED BY <1>6

\* What dominates a block dominates those it is entered from.
LEMMA DominatesBefore ==
    ASSUME NEW s, 1 \in DOMAIN s.blocks, NEW a, NEW b \in DOMAIN s.blocks, NEW d,
           Follows(s, d, b), a # b, Dominates(s, a, b)
    PROVE  Dominates(s, a, d)
BY LeastWithout DEF Dominates

LEMMA NoneDominatesFirst ==
    ASSUME NEW s, 1 \in DOMAIN s.blocks, NEW a, Dominates(s, a, 1)
    PROVE  a = 1
BY LeastWithout DEF Dominates

LEMMA ReachedNext ==
    ASSUME NEW s, 1 \in DOMAIN s.blocks, 0 \notin DOMAIN s.blocks
    PROVE  /\ 1 \in Reached(s) /\ Reached(s) \subseteq DOMAIN s.blocks
           /\ \A a \in Reached(s) : \A b \in DOMAIN s.blocks :
                 Follows(s, a, b) => b \in Reached(s)
BY LeastWithout DEF Reached

-----------------------------------------------------------------------------
(* Runs of lines and of instructions *)

\* The lines take l to m.
Runs(l, lines, m) ==
    \E r : /\ r[0] = l /\ r[Len(lines)] = m
           /\ \A k \in 1 .. Len(lines) : r[k] = LlStep(r[k - 1], lines[k])

\* The first n instructions of is take e to f.
IrRuns(e, is, k, f) ==
    \E r : /\ r[0] = e /\ r[k] = f
           /\ \A j \in 1 .. k : r[j] = IrStep(r[j - 1], is[j])

LEMMA RunsMore ==
    ASSUME NEW l, NEW lines, lines \in Seq(Range(lines)), NEW m, Runs(l, lines, m), NEW line
    PROVE  Runs(l, Append(lines, line), LlStep(m, line))
<1> DEFINE N == Len(lines)
           s == Append(lines, line)
<1>1. /\ N \in Nat /\ Len(s) = N + 1 /\ s[N + 1] = line
      /\ \A k \in 1 .. N : s[k] = lines[k]
  BY AppendLine
<1>2. PICK r : /\ r[0] = l /\ r[N] = m
               /\ \A k \in 1 .. N : r[k] = LlStep(r[k - 1], lines[k])
  BY DEF Runs
<1> HIDE DEF N, s
<1> DEFINE q == [k \in 0 .. N + 1 |-> IF k = N + 1 THEN LlStep(m, line) ELSE r[k]]
<1>3. q[0] = l /\ q[N + 1] = LlStep(m, line) /\ \A k \in 0 .. N : q[k] = r[k]
  BY <1>1, <1>2
<1> HIDE DEF q
<1>4. ASSUME NEW k \in 1 .. N + 1
      PROVE  q[k] = LlStep(q[k - 1], s[k])
  <2>1. CASE k = N + 1
    <3>1. k - 1 = N /\ N \in 0 .. N
      BY <1>1, <2>1
    <3>2. q[k - 1] = m
      BY <1>2, <1>3, <3>1
    <3> QED BY <1>1, <1>3, <2>1, <3>2
  <2>2. CASE k # N + 1
    <3>1. k \in 1 .. N /\ k \in 0 .. N /\ k - 1 \in 0 .. N
      BY <1>1, <2>2
    <3> QED BY <1>1, <1>2, <1>3, <3>1
  <2> QED BY <2>1, <2>2
<1>5. Runs(l, s, LlStep(m, line))
  BY <1>1, <1>3, <1>4 DEF Runs
<1> QED BY <1>5 DEF s

LEMMA RunsNothing == \A l : Runs(l, <<>>, l)
<1> SUFFICES ASSUME NEW l PROVE Runs(l, <<>>, l)
  OBVIOUS
<1> DEFINE r == [k \in {0} |-> l]
<1>1. r[0] = l /\ Len(<<>>) = 0 /\ 1 .. 0 = {}
  OBVIOUS
<1> QED BY <1>1 DEF Runs

\* LlSteps follows the lines.
LEMMA RunsAreSteps ==
    ASSUME NEW l, NEW lines, Len(lines) \in Nat, NEW m, Runs(l, lines, m)
    PROVE  LlSteps(l, lines)[Len(lines)] = m
<1> DEFINE N == Len(lines)
           f == LlSteps(l, lines)
<1>1. PICK r : /\ r[0] = l /\ r[N] = m
               /\ \A k \in 1 .. N : r[k] = LlStep(r[k - 1], lines[k])
  BY DEF Runs
<1> DEFINE g == [k \in 0 .. N |-> r[k]]
<1>2. g = [k \in 0 .. N |-> IF k = 0 THEN l ELSE LlStep(g[k - 1], lines[k])]
  <2> HIDE DEF N
  <2>1. ASSUME NEW k \in 0 .. N
        PROVE  r[k] = IF k = 0 THEN l ELSE LlStep(g[k - 1], lines[k])
    <3>1. CASE k = 0
      BY <1>1, <3>1
    <3>2. CASE k # 0
      <4>1. k \in 1 .. N /\ k - 1 \in 0 .. N
        BY <3>2 DEF N
      <4>2. g[k - 1] = r[k - 1]
        BY <4>1
      <4> QED BY <1>1, <3>2, <4>1, <4>2
    <3> QED BY <3>1, <3>2
  <2> QED BY <2>1
<1>3. f = CHOOSE h : h = [k \in 0 .. N |-> IF k = 0 THEN l ELSE LlStep(h[k - 1], lines[k])]
  BY DEF LlSteps
<1> HIDE DEF f, g
<1>4. f = [k \in 0 .. N |-> IF k = 0 THEN l ELSE LlStep(f[k - 1], lines[k])]
  BY <1>2, <1>3
<1> HIDE DEF N
<1>5. N \in Nat
  BY DEF N
<1> DEFINE Bad == {k \in 0 .. N : f[k] # r[k]}
<1>6. Bad = {}
  <2> SUFFICES ASSUME Bad # {} PROVE FALSE
    OBVIOUS
  <2>1. Bad \in SUBSET Nat
    BY <1>5
  <2>2. PICK k \in Bad : \A j \in Bad : k <= j
    BY <2>1, Least
  <2>3. k \in 0 .. N /\ f[k] # r[k]
    OBVIOUS
  <2>4. k # 0
    BY <1>1, <1>4, <1>5, <2>3
  <2>5. k \in 1 .. N /\ k - 1 \in 0 .. N /\ ~(k <= k - 1)
    BY <1>5, <2>3, <2>4
  <2>6. f[k - 1] = r[k - 1]
    BY <2>2, <2>5
  <2>7. f[k] = LlStep(f[k - 1], lines[k])
    BY <1>4, <2>3, <2>4
  <2> QED BY <1>1, <2>3, <2>5, <2>6, <2>7
<1>7. N \in 0 .. N
  BY <1>5
<1> QED BY <1>1, <1>6, <1>7 DEF f, N

LEMMA IrRunsMore ==
    ASSUME NEW e, NEW is, NEW k \in Nat, NEW f, IrRuns(e, is, k, f)
    PROVE  IrRuns(e, is, k + 1, IrStep(f, is[k + 1]))
<1>1. PICK r : /\ r[0] = e /\ r[k] = f
               /\ \A j \in 1 .. k : r[j] = IrStep(r[j - 1], is[j])
  BY DEF IrRuns
<1> DEFINE q == [j \in 0 .. k + 1 |-> IF j = k + 1 THEN IrStep(f, is[k + 1]) ELSE r[j]]
<1>2. q[0] = e /\ q[k + 1] = IrStep(f, is[k + 1]) /\ \A j \in 0 .. k : q[j] = r[j]
  BY <1>1
<1> HIDE DEF q
<1>3. ASSUME NEW j \in 1 .. k + 1
      PROVE  q[j] = IrStep(q[j - 1], is[j])
  <2>1. CASE j = k + 1
    <3>1. j - 1 = k /\ k \in 0 .. k
      BY <2>1
    <3>2. q[j - 1] = f
      BY <1>1, <1>2, <3>1
    <3> QED BY <1>2, <2>1, <3>2
  <2>2. CASE j # k + 1
    <3>1. j \in 1 .. k /\ j \in 0 .. k /\ j - 1 \in 0 .. k
      BY <2>2
    <3> QED BY <1>1, <1>2, <3>1
  <2> QED BY <2>1, <2>2
<1> QED BY <1>2, <1>3 DEF IrRuns

LEMMA IrRunsNothing == \A e, is : IrRuns(e, is, 0, e)
<1> SUFFICES ASSUME NEW e, NEW is PROVE IrRuns(e, is, 0, e)
  OBVIOUS
<1> DEFINE r == [k \in {0} |-> e]
<1>1. r[0] = e /\ 1 .. 0 = {}
  OBVIOUS
<1> QED BY <1>1 DEF IrRuns

LEMMA IrRunsAreSteps ==
    ASSUME NEW e, NEW is, Len(is) \in Nat, NEW m, IrRuns(e, is, Len(is), m)
    PROVE  IrSteps(e, is)[Len(is)] = m
<1> DEFINE N == Len(is)
           f == IrSteps(e, is)
<1>1. PICK r : /\ r[0] = e /\ r[N] = m
               /\ \A k \in 1 .. N : r[k] = IrStep(r[k - 1], is[k])
  BY DEF IrRuns
<1> DEFINE g == [k \in 0 .. N |-> r[k]]
<1>2. g = [k \in 0 .. N |-> IF k = 0 THEN e ELSE IrStep(g[k - 1], is[k])]
  <2> HIDE DEF N
  <2>1. ASSUME NEW k \in 0 .. N
        PROVE  r[k] = IF k = 0 THEN e ELSE IrStep(g[k - 1], is[k])
    <3>1. CASE k = 0
      BY <1>1, <3>1
    <3>2. CASE k # 0
      <4>1. k \in 1 .. N /\ k - 1 \in 0 .. N
        BY <3>2 DEF N
      <4>2. g[k - 1] = r[k - 1]
        BY <4>1
      <4> QED BY <1>1, <3>2, <4>1, <4>2
    <3> QED BY <3>1, <3>2
  <2> QED BY <2>1
<1>3. f = CHOOSE h : h = [k \in 0 .. N |-> IF k = 0 THEN e ELSE IrStep(h[k - 1], is[k])]
  BY DEF IrSteps
<1> HIDE DEF f, g
<1>4. f = [k \in 0 .. N |-> IF k = 0 THEN e ELSE IrStep(f[k - 1], is[k])]
  BY <1>2, <1>3
<1> HIDE DEF N
<1>5. N \in Nat
  BY DEF N
<1> DEFINE Bad == {k \in 0 .. N : f[k] # r[k]}
<1>6. Bad = {}
  <2> SUFFICES ASSUME Bad # {} PROVE FALSE
    OBVIOUS
  <2>1. Bad \in SUBSET Nat
    BY <1>5
  <2>2. PICK k \in Bad : \A j \in Bad : k <= j
    BY <2>1, Least
  <2>3. k \in 0 .. N /\ f[k] # r[k]
    OBVIOUS
  <2>4. k # 0
    BY <1>1, <1>4, <1>5, <2>3
  <2>5. k \in 1 .. N /\ k - 1 \in 0 .. N /\ ~(k <= k - 1)
    BY <1>5, <2>3, <2>4
  <2>6. f[k - 1] = r[k - 1]
    BY <2>2, <2>5
  <2>7. f[k] = IrStep(f[k - 1], is[k])
    BY <1>4, <2>3, <2>4
  <2> QED BY <1>1, <2>3, <2>5, <2>6, <2>7
<1>7. N \in 0 .. N
  BY <1>5
<1> QED BY <1>1, <1>6, <1>7 DEF f, N

-----------------------------------------------------------------------------
(* Steps of the two runs *)

RunFields == {"sym", "val", "mem", "from", "here", "result"}
Running(e) == DOMAIN e = RunFields /\ e.sym \in Inputs /\ e.mem \in [Word -> Word]

\* From e to f nothing changed but the values of X, memory and where to go.
Kept(e, f, X) ==
    /\ DOMAIN f = RunFields /\ f.sym = e.sym /\ f.from = e.from
    /\ \A x : x \notin X => /\ x \in DOMAIN f.val <=> x \in DOMAIN e.val
                            /\ x \in DOMAIN e.val => f.val[x] = e.val[x]

LEMMA KeptFields ==
    ASSUME NEW e, DOMAIN e = RunFields, NEW v
    PROVE  /\ LET f == [e EXCEPT !.val = v]
              IN /\ DOMAIN f = RunFields /\ f.val = v /\ f.sym = e.sym /\ f.mem = e.mem
                 /\ f.from = e.from /\ f.here = e.here /\ f.result = e.result
           /\ LET f == [e EXCEPT !.mem = v]
              IN /\ DOMAIN f = RunFields /\ f.val = e.val /\ f.sym = e.sym /\ f.mem = v
                 /\ f.from = e.from /\ f.here = e.here /\ f.result = e.result
           /\ LET f == [e EXCEPT !.result = v]
              IN /\ DOMAIN f = RunFields /\ f.val = e.val /\ f.sym = e.sym /\ f.mem = e.mem
                 /\ f.from = e.from /\ f.here = e.here /\ f.result = v
           /\ LET f == [e EXCEPT !.here = v]
              IN /\ DOMAIN f = RunFields /\ f.val = e.val /\ f.sym = e.sym /\ f.mem = e.mem
                 /\ f.from = e.from /\ f.here = v /\ f.result = e.result
           /\ LET f == [e EXCEPT !.from = v]
              IN /\ DOMAIN f = RunFields /\ f.val = e.val /\ f.sym = e.sym /\ f.mem = e.mem
                 /\ f.from = v /\ f.here = e.here /\ f.result = e.result
BY DEF RunFields

LEMMA PutKept ==
    ASSUME NEW f, NEW k, NEW v
    PROVE  /\ k \in DOMAIN Put(f, k, v) /\ Put(f, k, v)[k] = v
           /\ \A x : x # k => /\ x \in DOMAIN Put(f, k, v) <=> x \in DOMAIN f
                              /\ x \in DOMAIN f => Put(f, k, v)[x] = f[x]
BY DEF Put

LEMMA KeptThrough ==
    ASSUME NEW e, NEW f, NEW g, NEW X, NEW Y, Kept(e, f, X), Kept(f, g, Y)
    PROVE  Kept(e, g, X \cup Y)
BY DEF Kept

\* A number, a symbol and a name that was not written are worth what they were.
LEMMA KeptWorth ==
    ASSUME NEW e, NEW f, NEW X, Kept(e, f, X), NEW x,
           x[1] = "num" \/ x[2][1] = "sym" \/ x[2] \notin X
    PROVE  Worth(f, x) = Worth(e, x)
<1>1. CASE x[1] = "num"
  BY <1>1 DEF Worth
<1>2. CASE x[1] # "num" /\ x[2][1] = "sym"
  BY <1>2 DEF Worth, Kept
<1>3. CASE x[1] # "num" /\ x[2][1] # "sym"
  <2>1. x[2] \notin X
    BY <1>3
  <2>2. /\ Worth(f, x) = IF x[2] \in DOMAIN f.val THEN f.val[x[2]] ELSE 0
        /\ Worth(e, x) = IF x[2] \in DOMAIN e.val THEN e.val[x[2]] ELSE 0
    BY <1>3 DEF Worth
  <2> QED BY <2>1, <2>2 DEF Kept
<1> QED BY <1>1, <1>2, <1>3

\* A line that defines def.
LEMMA DefiningStep ==
    ASSUME NEW m, DOMAIN m = RunFields, NEW def, NEW op, NEW args,
           op \notin {"store", "ret", "unreachable", "br", "phi"}
    PROVE  LET line == [def |-> def, op |-> op, args |-> args]
               t == LlStep(m, line)
           IN /\ Kept(m, t, {def})
              /\ t.mem = m.mem /\ t.here = m.here /\ t.result = m.result
              /\ def \in DOMAIN t.val /\ t.val[def] = Value(m, line)
<1> DEFINE line == [def |-> def, op |-> op, args |-> args]
           t == LlStep(m, line)
           v == Put(m.val, def, Value(m, line))
<1>1. line.op = op /\ line.def = def
  OBVIOUS
<1>2. t = [m EXCEPT !.val = v]
  BY <1>1 DEF LlStep
<1> HIDE DEF t, v
<1>3. /\ DOMAIN t = RunFields /\ t.val = v /\ t.sym = m.sym /\ t.mem = m.mem
      /\ t.from = m.from /\ t.here = m.here /\ t.result = m.result
  BY <1>2, KeptFields
<1>4. /\ def \in DOMAIN v /\ v[def] = Value(m, line)
      /\ \A x : x # def => /\ x \in DOMAIN v <=> x \in DOMAIN m.val
                           /\ x \in DOMAIN m.val => v[x] = m.val[x]
  BY PutKept DEF v
<1> HIDE DEF line
<1>5. Kept(m, t, {def})
  BY <1>3, <1>4 DEF Kept
<1> QED BY <1>3, <1>4, <1>5 DEF t, line

\* Whatever a line does, it writes no name but the one it defines.
LEMMA LineKeeps ==
    ASSUME NEW m, DOMAIN m = RunFields, NEW line
    PROVE  Kept(m, LlStep(m, line), {line.def})
<1> DEFINE t == LlStep(m, line)
<1>1. ASSUME NEW f, DOMAIN f = RunFields, f.val = m.val, f.sym = m.sym, f.from = m.from
      PROVE  Kept(m, f, {line.def})
  BY <1>1 DEF Kept
<1>2. CASE line.op = "store"
  <2> DEFINE M == [m.mem EXCEPT ![Worth(m, line.args[2])] = Worth(m, line.args[1])]
  <2>1. t = [m EXCEPT !.mem = M]
    BY <1>2 DEF LlStep
  <2> HIDE DEF t, M
  <2>2. DOMAIN t = RunFields /\ t.val = m.val /\ t.sym = m.sym /\ t.from = m.from
    BY <2>1, KeptFields
  <2> QED BY <1>1, <2>2 DEF t
<1>3. CASE line.op = "ret"
  <2> DEFINE f == [m EXCEPT !.result = Worth(m, line.args[1])]
  <2>1. t = [f EXCEPT !.here = Returned]
    BY <1>3 DEF LlStep, RunFields
  <2> HIDE DEF t
  <2>2. DOMAIN f = RunFields /\ f.val = m.val /\ f.sym = m.sym /\ f.from = m.from
    BY KeptFields
  <2> HIDE DEF f
  <2>3. DOMAIN t = RunFields /\ t.val = f.val /\ t.sym = f.sym /\ t.from = f.from
    BY <2>1, <2>2, KeptFields
  <2>4. DOMAIN t = RunFields /\ t.val = m.val /\ t.sym = m.sym /\ t.from = m.from
    BY <2>2, <2>3
  <2> QED BY <1>1, <2>4 DEF t
<1>4. CASE line.op \in {"unreachable", "br"}
  <2>1. PICK h : t = [m EXCEPT !.here = h]
    BY <1>4 DEF LlStep
  <2> HIDE DEF t
  <2>2. DOMAIN t = RunFields /\ t.val = m.val /\ t.sym = m.sym /\ t.from = m.from
    BY <2>1, KeptFields
  <2> QED BY <1>1, <2>2 DEF t
<1>5. CASE line.op = "phi"
  <2>1. t = m
    BY <1>5 DEF LlStep
  <2> QED BY <1>1, <2>1
<1>6. CASE line.op \notin {"store", "ret", "unreachable", "br", "phi"}
  <2> DEFINE v == Put(m.val, line.def, Value(m, line))
  <2>1. t = [m EXCEPT !.val = v]
    BY <1>6 DEF LlStep
  <2> HIDE DEF t, v
  <2>2. DOMAIN t = RunFields /\ t.val = v /\ t.sym = m.sym /\ t.from = m.from
    BY <2>1, KeptFields
  <2>3. \A x : x # line.def => /\ x \in DOMAIN v <=> x \in DOMAIN m.val
                               /\ x \in DOMAIN m.val => v[x] = m.val[x]
    BY PutKept DEF v
  <2> QED BY <2>2, <2>3 DEF Kept, t
<1> QED BY <1>2, <1>3, <1>4, <1>5, <1>6

LEMMA RunsKeep ==
    ASSUME NEW l, DOMAIN l = RunFields, NEW lines, Len(lines) \in Nat,
           NEW m, Runs(l, lines, m)
    PROVE  Kept(l, m, {lines[k].def : k \in 1 .. Len(lines)})
<1> DEFINE N == Len(lines)
           X == {lines[k].def : k \in 1 .. N}
<1>1. PICK r : /\ r[0] = l /\ r[N] = m
               /\ \A k \in 1 .. N : r[k] = LlStep(r[k - 1], lines[k])
  BY DEF Runs
<1> HIDE DEF N
<1>2. N \in Nat
  BY DEF N
<1> DEFINE Bad == {k \in 0 .. N : ~Kept(l, r[k], X)}
<1>3. Bad = {}
  <2> SUFFICES ASSUME Bad # {} PROVE FALSE
    OBVIOUS
  <2>1. Bad \in SUBSET Nat
    BY <1>2
  <2>2. PICK k \in Bad : \A j \in Bad : k <= j
    BY <2>1, Least
  <2>3. k \in 0 .. N /\ ~Kept(l, r[k], X)
    OBVIOUS
  <2>4. k # 0
    <3>1. Kept(l, l, X)
      BY DEF Kept
    <3> QED BY <1>1, <2>3, <3>1
  <2>5. k \in 1 .. N /\ k - 1 \in 0 .. N /\ ~(k <= k - 1)
    BY <1>2, <2>3, <2>4
  <2>6. Kept(l, r[k - 1], X)
    BY <2>2, <2>5
  <2> DEFINE e == r[k - 1]
             line == lines[k]
  <2>7. r[k] = LlStep(e, line) /\ line.def \in X /\ Kept(l, e, X)
    BY <1>1, <2>5, <2>6
  <2> HIDE DEF e, line, X
  <2>8. DOMAIN e = RunFields
    BY <2>7 DEF Kept
  <2>9. Kept(e, r[k], {line.def})
    BY <2>7, <2>8, LineKeeps
  <2>10. Kept(l, r[k], X \cup {line.def})
    BY <2>7, <2>9, KeptThrough
  <2>11. X \cup {line.def} = X
    BY <2>7
  <2> QED BY <2>3, <2>10, <2>11
<1>4. N \in 0 .. N
  BY <1>2
<1> HIDE DEF X
<1>5. Kept(l, m, X)
  BY <1>1, <1>3, <1>4
<1> QED BY <1>5 DEF N, X

\* What an instruction of the source does.
LEMMA IrKeeps ==
    ASSUME NEW e, DOMAIN e = RunFields, NEW i
    PROVE  /\ Kept(e, IrStep(e, i), {i.id}) /\ IrStep(e, i).here = e.here
           /\ i.op \notin Valued \cup {"CALL"} => Kept(e, IrStep(e, i), {})
<1> DEFINE f == IrStep(e, i)
<1>1. CASE i.op = "STORE"
  <2> DEFINE M == [e.mem EXCEPT ![OperandValue(e, i.args[1])] = OperandValue(e, i.args[2])]
  <2>1. f = [e EXCEPT !.mem = M]
    BY <1>1 DEF IrStep, Valued, Binary, Unary
  <2> HIDE DEF f, M
  <2>2. f.here = e.here /\ \A X : Kept(e, f, X)
    BY <2>1, KeptFields DEF Kept
  <2> QED BY <2>2 DEF f
<1>2. CASE i.op = "RET"
  <2>1. f = [e EXCEPT !.result = OperandValue(e, i.args[1])]
    BY <1>2 DEF IrStep, Valued, Binary, Unary
  <2> HIDE DEF f
  <2>2. f.here = e.here /\ \A X : Kept(e, f, X)
    BY <2>1, KeptFields DEF Kept
  <2> QED BY <2>2 DEF f
<1>3. CASE i.op \in Valued \cup {"CALL"}
  <2> DEFINE v == Put(e.val, i.id, Computed(e, i))
  <2>1. f = [e EXCEPT !.val = v]
    BY <1>3 DEF IrStep, Valued, Binary, Unary
  <2> HIDE DEF f, v
  <2>2. DOMAIN f = RunFields /\ f.val = v /\ f.sym = e.sym /\ f.from = e.from /\ f.here = e.here
    BY <2>1, KeptFields
  <2>3. \A x : x # i.id => /\ x \in DOMAIN v <=> x \in DOMAIN e.val
                           /\ x \in DOMAIN e.val => v[x] = e.val[x]
    BY PutKept DEF v
  <2> QED BY <1>3, <2>2, <2>3 DEF Kept, f
<1>4. CASE i.op \notin Valued \cup {"CALL", "STORE", "RET"}
  <2>1. f = e
    BY <1>4 DEF IrStep
  <2> QED BY <2>1 DEF Kept
<1> QED BY <1>1, <1>2, <1>3, <1>4

\* The instructions that give their id a value.
Writers(is, k) == {j \in 1 .. k : is[j].op \in Valued \cup {"CALL"}}

LEMMA IrRunsKeep ==
    ASSUME NEW e, DOMAIN e = RunFields, NEW is, NEW z \in Nat, NEW f, IrRuns(e, is, z, f)
    PROVE  Kept(e, f, {is[k].id : k \in Writers(is, z)}) /\ f.here = e.here
<1> DEFINE X == {is[k].id : k \in Writers(is, z)}
           Fine(g) == Kept(e, g, X) /\ g.here = e.here
<1>1. PICK r : /\ r[0] = e /\ r[z] = f
               /\ \A k \in 1 .. z : r[k] = IrStep(r[k - 1], is[k])
  BY DEF IrRuns
<1> DEFINE Bad == {k \in 0 .. z : ~Fine(r[k])}
<1>3. Bad = {}
  <2> SUFFICES ASSUME Bad # {} PROVE FALSE
    OBVIOUS
  <2>1. Bad \in SUBSET Nat
    OBVIOUS
  <2>2. PICK k \in Bad : \A j \in Bad : k <= j
    BY <2>1, Least
  <2>3. k \in 0 .. z /\ ~Fine(r[k])
    OBVIOUS
  <2>4. k # 0
    <3>1. Fine(e)
      BY DEF Kept
    <3> QED BY <1>1, <2>3, <3>1
  <2>5. k \in 1 .. z /\ k - 1 \in 0 .. z /\ ~(k <= k - 1)
    BY <2>3, <2>4
  <2>6. Fine(r[k - 1])
    BY <2>2, <2>5
  <2> DEFINE g == r[k - 1]
             i == is[k]
             Y == IF i.op \in Valued \cup {"CALL"} THEN {i.id} ELSE {}
  <2>7. r[k] = IrStep(g, i) /\ Y \subseteq X /\ Kept(e, g, X) /\ g.here = e.here
    BY <1>1, <2>5, <2>6 DEF Writers
  <2> HIDE DEF g, X
  <2>8. DOMAIN g = RunFields
    BY <2>7 DEF Kept
  <2>9. Kept(g, r[k], Y) /\ r[k].here = e.here
    <3>1. /\ Kept(g, IrStep(g, i), {i.id}) /\ IrStep(g, i).here = g.here
          /\ i.op \notin Valued \cup {"CALL"} => Kept(g, IrStep(g, i), {})
      <4> HIDE DEF i
      <4> QED BY <2>8, IrKeeps
    <3>2. Kept(g, IrStep(g, i), Y)
      BY <3>1
    <3> HIDE DEF i, Y
    <3> QED BY <2>7, <3>1, <3>2
  <2> HIDE DEF i, Y
  <2>10. Kept(e, r[k], X \cup Y)
    BY <2>7, <2>9, KeptThrough
  <2>11. X \cup Y = X
    BY <2>7
  <2> QED BY <2>3, <2>9, <2>10, <2>11
<1>4. z \in 0 .. z
  OBVIOUS
<1> HIDE DEF X
<1>5. Fine(f)
  BY <1>1, <1>3, <1>4
<1> QED BY <1>5 DEF X

-----------------------------------------------------------------------------
(* Two runs side by side *)

Beside(e, m) ==
    Running(e) /\ Running(m) /\ m.sym = e.sym /\ m.mem = e.mem /\ m.from = e.from

\* The values of the places P are what their names are worth.
Agree(c, P, e, m) ==
    \A p \in P :
        /\ Item(source, p).id \in DOMAIN c.names
        /\ Item(source, p).id \in DOMAIN e.val
        /\ e.val[Item(source, p).id] \in Word
        /\ Worth(m, c.names[Item(source, p).id]) = e.val[Item(source, p).id]

\* o is a word, a symbol or the value of one of P.
Given(o, P) ==
    \/ o[1] = "const" /\ o[2] \in Word
    \/ o[1] = "sym" /\ \A sym \in Inputs : o[2] \in DOMAIN sym
    \/ o[1] = "ref" /\ \E p \in P : Item(source, p).id = o[2]

\* x is a number, a symbol or a name of D.
Steady(x, D) == x[1] = "num" \/ x[2][1] = "sym" \/ x[2] \in D

LEMMA TextIs ==
    ASSUME NEW o
    PROVE  /\ o[1] = "const" => Text(o) = Num(o[2])
           /\ o[1] = "sym" => Text(o) = Local(o)
BY DEF Text

LEMMA TextWorth ==
    ASSUME NEW e, NEW m, Beside(e, m), NEW P, NEW o, Given(o, P), o[1] # "ref", NEW D
    PROVE  /\ Worth(m, Text(o)) = OperandValue(e, o)
           /\ OperandValue(e, o) \in Word
           /\ Steady(Text(o), D)
<1>1. CASE o[1] = "const"
  <2>1. Text(o) = <<"num", o[2]>> /\ o[2] \in Word
    BY <1>1, TextIs DEF Num, Given
  <2>2. Worth(m, Text(o)) = o[2]
    BY <2>1 DEF Worth
  <2>3. OperandValue(e, o) = o[2]
    BY <1>1 DEF OperandValue
  <2> QED BY <2>1, <2>2, <2>3 DEF Steady
<1>2. CASE o[1] = "sym"
  <2>1. Text(o) = <<"local", o>>
    BY <1>2, TextIs DEF Local
  <2>2. Worth(m, Text(o)) = m.sym[o[2]]
    BY <1>2, <2>1 DEF Worth
  <2>3. OperandValue(e, o) = e.sym[o[2]]
    BY <1>2 DEF OperandValue
  <2>4. e.sym \in Inputs /\ m.sym = e.sym
    BY DEF Beside, Running
  <2>5. e.sym[o[2]] \in Word
    <3>1. o[2] \in DOMAIN e.sym
      BY <1>2, <2>4 DEF Given
    <3>2. e.sym \in [DOMAIN e.sym -> Word]
      BY <2>4, RunsAssumption
    <3> QED BY <3>1, <3>2
  <2> QED BY <1>2, <2>1, <2>2, <2>3, <2>4, <2>5 DEF Steady
<1> QED BY <1>1, <1>2 DEF Given

\* An operand is written as something that is worth what the operand is.
LEMMA OperandWorth ==
    ASSUME NEW e, NEW m, Beside(e, m), NEW c, NEW P, Agree(c, P, e, m),
           NEW s, \A p \in P : /\ Item(source, p).id \in DOMAIN s.names
                               /\ s.names[Item(source, p).id] = c.names[Item(source, p).id],
           NEW D, \A p \in P : Steady(c.names[Item(source, p).id], D),
           NEW o, Given(o, P)
    PROVE  /\ Worth(m, ValRef(s, o)) = OperandValue(e, o)
           /\ OperandValue(e, o) \in Word
           /\ Steady(ValRef(s, o), D)
<1>1. CASE o[1] = "ref"
  <2>1. PICK p \in P : Item(source, p).id = o[2]
    BY <1>1 DEF Given
  <2>2. ValRef(s, o) = c.names[o[2]]
    BY <1>1, <2>1 DEF ValRef
  <2>3. OperandValue(e, o) = e.val[o[2]]
    BY <1>1 DEF OperandValue
  <2> QED BY <2>1, <2>2, <2>3 DEF Agree
<1>2. CASE o[1] # "ref"
  <2>1. ValRef(s, o) = Text(o)
    BY <1>2 DEF ValRef
  <2> QED BY <1>2, <2>1, TextWorth
<1> QED BY <1>1, <1>2

\* From context c to d the text takes a run on from m to t.
Continues(c, d, m, t) ==
    \A l : Runs(l, c.text[Block.id], m) => Runs(l, d.text[Block.id], t)

LEMMA SayContinues ==
    ASSUME NEW c, Sane(c), Block.id \in DOMAIN c.text, NEW d, NEW def, NEW op, NEW args,
           Says(c, d, def, op, args), NEW m
    PROVE  Continues(c, d, m, LlStep(m, [def |-> def, op |-> op, args |-> args]))
<1> DEFINE line == [def |-> def, op |-> op, args |-> args]
<1>1. d.text[Block.id] = Append(c.text[Block.id], line)
  BY DEF Says
<1>2. c.text[Block.id] \in Seq(Range(c.text[Block.id]))
  BY DEF Sane
<1> HIDE DEF line
<1>3. Continues(c, d, m, LlStep(m, line))
  BY <1>1, <1>2, RunsMore DEF Continues
<1> QED BY <1>3 DEF line

LEMMA SameContinues ==
    ASSUME NEW c, NEW d, d.text = c.text, NEW m
    PROVE  Continues(c, d, m, m)
BY DEF Continues

LEMMA ContinuesThrough ==
    ASSUME NEW c, NEW d, NEW f, NEW m, NEW t, NEW u,
           Continues(c, d, m, t), Continues(d, f, t, u)
    PROVE  Continues(c, f, m, u)
BY DEF Continues

-----------------------------------------------------------------------------
(* What lines compute *)

LEMMA BinopNames ==
    /\ DOMAIN LlvmBinop = {"ADD", "SUB", "MUL", "XOR", "AND", "OR", "SHL", "SHR", "SAR"}
    /\ \A op \in DOMAIN LlvmBinop :
          LlvmBinop[op] \notin {"icmp ne", "select", "inttoptr", "load", "call",
                                "store", "ret", "unreachable", "br", "phi"}
    /\ \A a, b \in DOMAIN LlvmBinop : LlvmBinop[a] = LlvmBinop[b] => a = b
    /\ DOMAIN LlvmBinop \subseteq Binary
<1>1. DOMAIN LlvmBinop = {"ADD", "SUB", "MUL", "XOR", "AND", "OR", "SHL", "SHR", "SAR"}
  BY DEF LlvmBinop
<1>2. /\ LlvmBinop["ADD"] = "add" /\ LlvmBinop["SUB"] = "sub" /\ LlvmBinop["MUL"] = "mul"
      /\ LlvmBinop["XOR"] = "xor" /\ LlvmBinop["AND"] = "and" /\ LlvmBinop["OR"] = "or"
      /\ LlvmBinop["SHL"] = "shl" /\ LlvmBinop["SHR"] = "lshr" /\ LlvmBinop["SAR"] = "ashr"
  BY DEF LlvmBinop
<1>3. \A a, b \in DOMAIN LlvmBinop : LlvmBinop[a] = LlvmBinop[b] => a = b
  BY <1>1, <1>2
<1>4. \A op \in DOMAIN LlvmBinop :
          LlvmBinop[op] \notin {"icmp ne", "select", "inttoptr", "load", "call",
                                "store", "ret", "unreachable", "br", "phi"}
  BY <1>1, <1>2
<1>5. DOMAIN LlvmBinop \subseteq Binary
  BY <1>1 DEF Binary
<1> QED BY <1>1, <1>3, <1>4, <1>5

LEMMA BinopValue ==
    ASSUME NEW e, NEW line, NEW op \in DOMAIN LlvmBinop, line.op = LlvmBinop[op]
    PROVE  Value(e, line) = BinaryValue(op, Worth(e, line.args[1]), Worth(e, line.args[2]))
<1>1. \E o \in DOMAIN LlvmBinop : LlvmBinop[o] = line.op
  OBVIOUS
<1>2. OpOf(line) = op
  BY BinopNames DEF OpOf
<1>3. line.op \notin {"icmp ne", "select", "inttoptr", "load", "call"}
  BY BinopNames
<1>4. Value(e, line) = BinaryValue(OpOf(line), Worth(e, line.args[1]), Worth(e, line.args[2]))
  BY <1>1, <1>3 DEF Value
<1> QED BY <1>2, <1>4

LEMMA OtherValue ==
    ASSUME NEW e, NEW line
    PROVE  /\ line.op = "icmp ne" =>
                 Value(e, line) = IF Worth(e, line.args[1]) # Worth(e, line.args[2])
                                  THEN 1 ELSE 0
           /\ line.op = "select" =>
                 Value(e, line) = IF Worth(e, line.args[1]) # 0
                                  THEN Worth(e, line.args[2]) ELSE Worth(e, line.args[3])
           /\ line.op = "inttoptr" => Value(e, line) = Worth(e, line.args[1])
           /\ line.op = "load" => Value(e, line) = e.mem[Worth(e, line.args[1])]
           /\ line.op = "call" => Value(e, line) = e.sym["call"]
<1>1. line.op \in {"icmp ne", "select", "inttoptr", "load", "call"} =>
         ~ \E o \in DOMAIN LlvmBinop : LlvmBinop[o] = line.op
  BY BinopNames
<1> DEFINE binop == \E o \in DOMAIN LlvmBinop : LlvmBinop[o] = line.op
<1>2. line.op = "icmp ne" =>
         Value(e, line) = IF Worth(e, line.args[1]) # Worth(e, line.args[2]) THEN 1 ELSE 0
  BY <1>1 DEF Value
<1>3. line.op = "select" =>
         Value(e, line) = IF Worth(e, line.args[1]) # 0
                          THEN Worth(e, line.args[2]) ELSE Worth(e, line.args[3])
  BY <1>1 DEF Value
<1>4. line.op = "inttoptr" => Value(e, line) = Worth(e, line.args[1])
  BY <1>1 DEF Value
<1>5. line.op = "load" => Value(e, line) = e.mem[Worth(e, line.args[1])]
  BY <1>1 DEF Value
<1>6. line.op = "call" => Value(e, line) = e.sym["call"]
  BY <1>1 DEF Value
<1> QED BY <1>2, <1>3, <1>4, <1>5, <1>6

LEMMA NumWorth == \A e, w : Worth(e, Num(w)) = w
BY DEF Worth, Num

\* A name that is not a symbol is worth its value.
LEMMA LocalWorth ==
    ASSUME NEW e, NEW x, x[1] # "sym", x \in DOMAIN e.val
    PROVE  Worth(e, Local(x)) = e.val[x]
BY DEF Worth, Local

LEMMA NamesAreNoSymbols == \A k : V(k)[1] # "sym" /\ T(k)[1] # "sym" /\ NoName[1] # "sym"
BY DEF V, T, NoName

\* The helpers of the text do what the operations of the IR do: to add 0 changes
\* nothing, and negation is a subtraction.
LEMMA AddZero ==
    ASSUME NEW a \in Word
    PROVE  BinaryValue("ADD", a, 0) = a
<1>1. a \in Int /\ a + 0 = a
  BY WidthType
<1>2. BinaryValue("ADD", a, 0) = (a + 0) % Size
  BY DEF BinaryValue
<1> QED BY <1>1, <1>2, ModSize

LEMMA NegationSubtracts ==
    ASSUME NEW a \in Word
    PROVE  BinaryValue("SUB", 0, a) = UnaryValue("NEG", a)
<1>1. a \in Int /\ Size \in Nat /\ 0 < Size
  BY WidthType
<1> DEFINE z == 0 - a
<1>2. BinaryValue("SUB", 0, a) = z % Size
  BY DEF BinaryValue
<1>3. UnaryValue("NEG", a) = (Size - a) % Size
  BY DEF UnaryValue
<1>4. Size - a = z + 1 * Size /\ z \in Int /\ 1 \in Int
  BY <1>1
<1> HIDE DEF z
<1>5. (z + 1 * Size) % Size = z % Size
  BY <1>1, <1>4, DivideSum
<1> QED BY <1>2, <1>3, <1>4, <1>5

\* The complement of a number has the other bits.
LEMMA ComplementBits ==
    ASSUME NEW a \in Int, NEW k \in Nat
    PROVE  Bit(-1 - a, k) = 1 - Bit(a, k)
<1> DEFINE p == Pow2[k]
           q == a \div p
           r == a % p
<1>1. p \in Nat /\ 0 < p
  BY Powers
<1>2. q \in Int /\ r \in Nat /\ r < p /\ a = q * p + r
  BY <1>1, Division
<1> HIDE DEF p, q, r
<1> DEFINE u == -1 - q
           v == p - 1 - r
           z == -1 - a
<1>3. u \in Int /\ v \in Nat /\ v < p /\ z \in Int
  BY <1>1, <1>2
<1>4. z = u * p + v
  BY <1>1, <1>2
<1> HIDE DEF z, v
<1>5. z \div p = u
  BY <1>1, <1>3, <1>4, DivisionUnique
<1> DEFINE h == q \div 2
           b == q % 2
           two == 2
<1>6. h \in Int /\ b \in {0, 1} /\ q = 2 * h + b
  <2>1. two \in Nat /\ 0 < two
    OBVIOUS
  <2> HIDE DEF two
  <2>2. q \div two \in Int /\ q % two \in Nat /\ q % two < two /\ q = (q \div two) * two + (q % two)
    BY <1>2, <2>1, Division
  <2>3. h \in Int /\ b \in Nat /\ b < 2 /\ q = h * 2 + b
    BY <2>2 DEF two
  <2> HIDE DEF h, b
  <2> QED BY <2>3
<1> HIDE DEF h
<1>7. u = 2 * (-1 - h) + (1 - b) /\ -1 - h \in Int /\ 1 - b \in {0, 1}
  <2> HIDE DEF b
  <2> QED BY <1>2, <1>6
<1> HIDE DEF u
<1>8. u % 2 = 1 - b
  <2> HIDE DEF b
  <2> DEFINE g == -1 - h
             d == 1 - b
  <2>1. u = 2 * g + d /\ g \in Int /\ d \in {0, 1}
    BY <1>7
  <2> HIDE DEF g, d
  <2>2. u % 2 = d
    BY <1>3, <2>1, HalfIs
  <2> QED BY <2>2 DEF d
<1>9. Bit(a, k) = b
  BY DEF Bit, q, p
<1>10. Bit(z, k) = u % 2
  BY <1>5 DEF Bit, p
<1> QED BY <1>8, <1>9, <1>10 DEF z

LEMMA NotIsXor ==
    ASSUME NEW a \in Word
    PROVE  BinaryValue("XOR", a, AllOnes) = UnaryValue("NOT", a)
<1> DEFINE x == BinaryValue("XOR", a, AllOnes)
           y == UnaryValue("NOT", a)
           z == -1 - a
<1>1. AllOnes \in Word /\ a \in Int /\ z \in Int /\ 1 \in Int
      /\ Bits \in Nat /\ Place = 0 .. Bits - 1
  BY WidthType
<1>2. x \in Word /\ y \in Word
  BY <1>1, BinaryIsWord, UnaryIsWord DEF Binary, Unary
<1>3. y = z + 1 * Pow2[Bits]
  BY WidthType DEF UnaryValue, AllOnes, Size
<1> HIDE DEF x, y
<1>4. ASSUME NEW k \in Place
      PROVE  Bit(x, k) = Bit(y, k)
  <2>1. k \in Nat /\ k < Bits
    BY <1>1
  <2>2. Bit(z + 1 * Pow2[Bits], k) = Bit(z, k)
    <3> HIDE DEF z
    <3> QED BY <1>1, <2>1, BitOfSum
  <2>3. Bit(z, k) = 1 - Bit(a, k)
    BY <1>1, <2>1, ComplementBits
  <2>4. Bit(AllOnes, k) = 1 /\ Bit(a, k) \in {0, 1}
    BY AllOnesBits, BitOfWord
  <2>5. Bit(x, k) = (Bit(a, k) + Bit(AllOnes, k)) % 2
    BY <1>1, ResultBits DEF x, BitOps, ResultBit
  <2>6. (Bit(a, k) + 1) % 2 = 1 - Bit(a, k)
    BY <2>4
  <2> QED BY <1>3, <2>2, <2>3, <2>4, <2>5, <2>6
<1> QED BY <1>2, <1>4, SameBits DEF x, y

-----------------------------------------------------------------------------
(* An instruction and its lines *)

\* Context c is about to get instruction i, and s is c where i has its name.
Ready(c, s, i, e, m) ==
    /\ Sane(s) /\ s.text = c.text /\ s.temps = c.temps
    /\ Block.id \in DOMAIN s.text
    /\ i.id \in DOMAIN s.names /\ s.names[i.id] = Local(V(i.id))
    /\ V(i.id) \notin Defs(c) /\ T(c.temps) \notin Defs(c)
    /\ Beside(e, m)

\* The lines from c to d do to run m, which becomes t, what i does to e, which
\* becomes f.
Mirrors(c, d, i, e, m, f, t) ==
    /\ Continues(c, d, m, t) /\ Beside(f, t)
    /\ \E X : Kept(m, t, X) /\ X \cap Defs(c) = {}
    /\ i.op \in Translated =>
          /\ i.id \in DOMAIN d.names
          /\ i.id \in DOMAIN f.val /\ f.val[i.id] \in Word
          /\ Worth(t, d.names[i.id]) = f.val[i.id]
    /\ IF i.op = "RET" THEN t.here = Returned /\ t.result = f.result
       ELSE t.here = m.here /\ t.result = m.result /\ f.result = e.result

\* x is an operand of i in the text.
Operand(c, e, m, x, o) ==
    /\ Worth(m, x) = OperandValue(e, o)
    /\ OperandValue(e, o) \in Word
    /\ Steady(x, Defs(c))

LEMMA TranslatedValued == Translated \subseteq Valued \cup {"CALL"}
BY BinopNames DEF Translated, Valued, Unary

LEMMA ValuedStep ==
    ASSUME NEW e, Running(e), NEW i, i.op \in Translated
    PROVE  LET f == IrStep(e, i)
           IN /\ Running(f) /\ f.sym = e.sym /\ f.mem = e.mem /\ f.from = e.from
              /\ f.result = e.result /\ i.id \in DOMAIN f.val
              /\ f.val[i.id] = Computed(e, i)
<1> DEFINE f == IrStep(e, i)
           v == Put(e.val, i.id, Computed(e, i))
<1>1. i.op \in Valued \cup {"CALL"}
  BY TranslatedValued
<1>2. f = [e EXCEPT !.val = v]
  BY <1>1 DEF IrStep, Valued, Binary, Unary
<1> HIDE DEF f, v
<1>3. /\ DOMAIN f = RunFields /\ f.val = v /\ f.sym = e.sym /\ f.mem = e.mem
      /\ f.from = e.from /\ f.result = e.result
  BY <1>2, KeptFields DEF Running
<1>4. i.id \in DOMAIN v /\ v[i.id] = Computed(e, i)
  BY PutKept DEF v
<1> QED BY <1>3, <1>4 DEF Running, f

\* An instruction has a value, and its name got it.
LEMMA MirrorsValue ==
    ASSUME NEW c, NEW s, NEW i, NEW e, NEW m, Ready(c, s, i, e, m),
           i.op \in Translated, Computed(e, i) \in Word,
           NEW d, NEW t, Continues(c, d, m, t),
           NEW X, Kept(m, t, X), X \cap Defs(c) = {},
           t.mem = m.mem, t.here = m.here, t.result = m.result,
           i.id \in DOMAIN d.names, Worth(t, d.names[i.id]) = Computed(e, i)
    PROVE  Mirrors(c, d, i, e, m, IrStep(e, i), t)
<1> DEFINE f == IrStep(e, i)
<1>1. /\ Running(f) /\ f.sym = e.sym /\ f.mem = e.mem /\ f.from = e.from
      /\ f.result = e.result /\ i.id \in DOMAIN f.val
      /\ f.val[i.id] = Computed(e, i)
  BY ValuedStep DEF Ready, Beside
<1> HIDE DEF f
<1>2. Running(t) /\ t.sym = m.sym /\ t.from = m.from
  BY DEF Kept, Running, Ready, Beside
<1>3. Beside(f, t)
  BY <1>1, <1>2 DEF Beside, Ready
<1>4. i.op # "RET"
  BY TranslatedValued DEF Valued, Binary, Unary
<1> QED BY <1>1, <1>3, <1>4 DEF Mirrors, f

\* One line that defines the name.
LEMMA MirrorsLine ==
    ASSUME NEW c, NEW s, NEW i, NEW e, NEW m, Ready(c, s, i, e, m),
           i.op \in Translated, Computed(e, i) \in Word,
           NEW op, op \notin {"store", "ret", "unreachable", "br", "phi"}, NEW args,
           Value(m, [def |-> V(i.id), op |-> op, args |-> args]) = Computed(e, i)
    PROVE  \E t : Mirrors(c, Say(s, V(i.id), op, args), i, e, m, IrStep(e, i), t)
<1> DEFINE d == Say(s, V(i.id), op, args)
           line == [def |-> V(i.id), op |-> op, args |-> args]
           t == LlStep(m, line)
           x == V(i.id)
<1>1. Says(s, d, x, op, args)
  BY SaySays DEF Ready
<1>2. Continues(s, d, m, t)
  BY <1>1, SayContinues DEF Ready
<1>3. Continues(c, d, m, t)
  <2> HIDE DEF d, t
  <2>1. Continues(c, s, m, m)
    BY SameContinues DEF Ready
  <2> QED BY <1>2, <2>1, ContinuesThrough
<1>4. /\ Kept(m, t, {x})
      /\ t.mem = m.mem /\ t.here = m.here /\ t.result = m.result
      /\ x \in DOMAIN t.val /\ t.val[x] = Computed(e, i)
  <2>1. DOMAIN m = RunFields
    BY DEF Ready, Beside, Running
  <2> QED BY <2>1, DefiningStep
<1>5. d.names = s.names
  BY <1>1 DEF Says
<1> HIDE DEF d, t
<1>6. x \notin Defs(c) /\ i.id \in DOMAIN d.names /\ d.names[i.id] = Local(x)
  BY <1>5 DEF Ready
<1>7. Worth(t, d.names[i.id]) = Computed(e, i)
  BY <1>4, <1>6, LocalWorth, NamesAreNoSymbols
<1>8. {x} \cap Defs(c) = {}
  BY <1>6
<1> HIDE DEF x
<1>9. Mirrors(c, d, i, e, m, IrStep(e, i), t)
  BY <1>3, <1>4, <1>6, <1>7, <1>8, MirrorsValue
<1> QED BY <1>9 DEF d

\* A binary operation of the text, whichever operation of the IR it is for.
LEMMA MirrorsBinop ==
    ASSUME NEW c, NEW s, NEW i, NEW e, NEW m, Ready(c, s, i, e, m),
           i.op \in Translated, NEW op \in DOMAIN LlvmBinop, NEW x, NEW y,
           Computed(e, i) = BinaryValue(op, Worth(m, x), Worth(m, y)),
           Computed(e, i) \in Word
    PROVE  \E t : Mirrors(c, Say(s, V(i.id), LlvmBinop[op], <<x, y>>), i, e, m,
                          IrStep(e, i), t)
<1> DEFINE line == [def |-> V(i.id), op |-> LlvmBinop[op], args |-> <<x, y>>]
<1>1. line.op = LlvmBinop[op] /\ line.args[1] = x /\ line.args[2] = y
  OBVIOUS
<1> HIDE DEF line
<1>2. Value(m, line) = Computed(e, i)
  BY <1>1, BinopValue
<1>3. LlvmBinop[op] \notin {"store", "ret", "unreachable", "br", "phi"}
  BY BinopNames
<1> QED BY <1>2, <1>3, MirrorsLine DEF line

LEMMA ComputedIs ==
    ASSUME NEW e, NEW i
    PROVE  /\ i.op \in DOMAIN LlvmBinop =>
                 Computed(e, i) = BinaryValue(i.op, OperandValue(e, i.args[1]),
                                                    OperandValue(e, i.args[2]))
           /\ i.op \in {"NOT", "NEG"} =>
                 Computed(e, i) = UnaryValue(i.op, OperandValue(e, i.args[1]))
           /\ i.op \in {"CONST", "PASSTHROUGH"} =>
                 Computed(e, i) = OperandValue(e, i.args[1])
           /\ i.op = "SELECT" =>
                 Computed(e, i) = IF OperandValue(e, i.args[1]) # 0
                                  THEN OperandValue(e, i.args[2])
                                  ELSE OperandValue(e, i.args[3])
           /\ i.op = "LOAD" => Computed(e, i) = e.mem[OperandValue(e, i.args[1])]
           /\ i.op = "CALL" => Computed(e, i) = e.sym["call"]
<1>1. i.op \in DOMAIN LlvmBinop =>
         Computed(e, i) = BinaryValue(i.op, OperandValue(e, i.args[1]),
                                            OperandValue(e, i.args[2]))
  <2>1. i.op \in DOMAIN LlvmBinop =>
           i.op \in Binary /\ i.op \notin Unary \cup {"CONST", "PASSTHROUGH", "SELECT", "LOAD", "CALL"}
    BY BinopNames DEF Unary
  <2> QED BY <2>1 DEF Computed
<1>2. i.op \in {"NOT", "NEG"} =>
         Computed(e, i) = UnaryValue(i.op, OperandValue(e, i.args[1]))
  BY DEF Computed, Binary, Unary
<1>3. i.op \in {"CONST", "PASSTHROUGH"} => Computed(e, i) = OperandValue(e, i.args[1])
  BY DEF Computed, Binary, Unary
<1>4. i.op = "SELECT" =>
         Computed(e, i) = IF OperandValue(e, i.args[1]) # 0
                          THEN OperandValue(e, i.args[2])
                          ELSE OperandValue(e, i.args[3])
  BY DEF Computed, Binary, Unary
<1>5. i.op = "LOAD" => Computed(e, i) = e.mem[OperandValue(e, i.args[1])]
  BY DEF Computed, Binary, Unary
<1>6. i.op = "CALL" => Computed(e, i) = e.sym["call"]
  BY DEF Computed, Binary, Unary
<1> QED BY <1>1, <1>2, <1>3, <1>4, <1>5, <1>6

LEMMA LoadMirrors ==
    ASSUME NEW c, NEW s, NEW i, NEW e, NEW m, Ready(c, s, i, e, m), i.op = "LOAD",
           NEW x, Operand(c, e, m, x, i.args[1])
    PROVE  \E t : Mirrors(c, EmitLoad(s, i.id, x), i, e, m, IrStep(e, i), t)
<1> DEFINE v == V(i.id)
           u == T(s.temps)
           s0 == NewTmp(s)
           s1 == Say(s0, v, "inttoptr", <<x>>)
           s2 == Say(s1, u, "load", <<Local(v)>>)
           d == Named(s2, i.id, Local(u))
           line1 == [def |-> v, op |-> "inttoptr", args |-> <<x>>]
           line2 == [def |-> u, op |-> "load", args |-> <<Local(v)>>]
           t1 == LlStep(m, line1)
           t == LlStep(t1, line2)
           a == OperandValue(e, i.args[1])
<1>1. d = EmitLoad(s, i.id, x)
  BY DEF EmitLoad
<1>2. Sane(s0) /\ s0.text = c.text /\ Block.id \in DOMAIN s0.text
  BY NewTmpTemps DEF Ready
<1> HIDE DEF s0
<1>3. Says(s0, s1, v, "inttoptr", <<x>>)
  BY <1>2, SaySays
<1>4. Continues(s0, s1, m, t1)
  BY <1>2, <1>3, SayContinues
<1>5. Sane(s1) /\ Block.id \in DOMAIN s1.text
  BY <1>2, <1>3 DEF Says
<1> HIDE DEF s1
<1>6. Says(s1, s2, u, "load", <<Local(v)>>)
  BY <1>5, SaySays
<1> HIDE DEF s2
<1>7. Continues(s1, s2, t1, t)
  BY <1>5, <1>6, SayContinues
<1>8. Sane(s2)
  BY <1>6 DEF Says
<1>9. d.text = s2.text /\ i.id \in DOMAIN d.names /\ d.names[i.id] = Local(u)
  BY <1>8, NamedNames
<1>10. /\ Kept(m, t1, {v}) /\ t1.mem = m.mem /\ t1.here = m.here /\ t1.result = m.result
       /\ v \in DOMAIN t1.val /\ t1.val[v] = Value(m, line1)
  <2>1. DOMAIN m = RunFields
    BY DEF Ready, Beside, Running
  <2> QED BY <2>1, DefiningStep
<1>11. Value(m, line1) = a
  <2>1. line1.op = "inttoptr" /\ line1.args[1] = x
    OBVIOUS
  <2> HIDE DEF line1
  <2> QED BY <2>1, OtherValue DEF Operand
<1> HIDE DEF d, t1
<1>12. /\ Kept(t1, t, {u}) /\ t.mem = t1.mem /\ t.here = t1.here /\ t.result = t1.result
       /\ u \in DOMAIN t.val /\ t.val[u] = Value(t1, line2)
  <2>1. DOMAIN t1 = RunFields
    BY <1>10 DEF Kept
  <2> QED BY <2>1, DefiningStep
<1>13. Value(t1, line2) = m.mem[a]
  <2>1. line2.op = "load" /\ line2.args[1] = Local(v)
    OBVIOUS
  <2> HIDE DEF line2, line1
  <2>2. Worth(t1, Local(v)) = a
    BY <1>10, <1>11, LocalWorth, NamesAreNoSymbols
  <2>3. Value(t1, line2) = t1.mem[Worth(t1, line2.args[1])]
    BY <2>1, OtherValue
  <2> HIDE DEF a, v, u
  <2> QED BY <1>10, <2>1, <2>2, <2>3
<1> HIDE DEF t, line1, line2
<1>14. Computed(e, i) = m.mem[a] /\ m.mem[a] \in Word
  <2>1. Computed(e, i) = e.mem[a]
    BY ComputedIs
  <2>2. e.mem \in [Word -> Word] /\ m.mem = e.mem /\ a \in Word
    BY DEF Ready, Beside, Running, Operand
  <2> HIDE DEF a
  <2> QED BY <2>1, <2>2
<1>15. Continues(c, d, m, t)
  <2>1. Continues(c, s0, m, m) /\ Continues(s2, d, t, t)
    BY <1>2, <1>9, SameContinues
  <2>2. Continues(c, s1, m, t1)
    BY <1>4, <2>1, ContinuesThrough
  <2>3. Continues(c, s2, m, t)
    BY <1>7, <2>2, ContinuesThrough
  <2> QED BY <2>1, <2>3, ContinuesThrough
<1>16. Kept(m, t, {v} \cup {u})
  BY <1>10, <1>12, KeptThrough
<1>17. ({v} \cup {u}) \cap Defs(c) = {}
  BY DEF Ready
<1>18. Worth(t, d.names[i.id]) = Computed(e, i)
  BY <1>9, <1>12, <1>13, <1>14, LocalWorth, NamesAreNoSymbols
<1>19. i.op \in Translated /\ t.mem = m.mem /\ t.here = m.here /\ t.result = m.result
  BY <1>10, <1>12 DEF Translated
<1> DEFINE X == {v} \cup {u}
<1>20. Kept(m, t, X) /\ X \cap Defs(c) = {}
  BY <1>16, <1>17
<1> HIDE DEF X, v, u, a
<1>21. Computed(e, i) \in Word /\ i.id \in DOMAIN d.names
  BY <1>9, <1>14
<1>22. Mirrors(c, d, i, e, m, IrStep(e, i), t)
  BY <1>15, <1>18, <1>19, <1>20, <1>21, MirrorsValue
<1> QED BY <1>1, <1>22

LEMMA SelectMirrors ==
    ASSUME NEW c, NEW s, NEW i, NEW e, NEW m, Ready(c, s, i, e, m), i.op = "SELECT",
           NEW x, Operand(c, e, m, x, i.args[1]),
           NEW y, Operand(c, e, m, y, i.args[2]),
           NEW z, Operand(c, e, m, z, i.args[3])
    PROVE  \E t : Mirrors(c, EmitSelect(s, i.id, x, y, z), i, e, m, IrStep(e, i), t)
<1> DEFINE v == V(i.id)
           u == T(s.temps)
           s0 == NewTmp(s)
           s1 == Say(s0, u, "icmp ne", <<x, Num(0)>>)
           d == Say(s1, v, "select", <<Local(u), y, z>>)
           line1 == [def |-> u, op |-> "icmp ne", args |-> <<x, Num(0)>>]
           line2 == [def |-> v, op |-> "select", args |-> <<Local(u), y, z>>]
           t1 == LlStep(m, line1)
           t == LlStep(t1, line2)
           a == OperandValue(e, i.args[1])
           b == IF a # 0 THEN 1 ELSE 0
<1>1. d = EmitSelect(s, i.id, x, y, z)
  BY DEF EmitSelect
<1>2. /\ Sane(s0) /\ s0.text = c.text /\ s0.names = s.names
      /\ Block.id \in DOMAIN s0.text
  BY NewTmpTemps DEF Ready
<1> HIDE DEF s0
<1>3. Says(s0, s1, u, "icmp ne", <<x, Num(0)>>)
  BY <1>2, SaySays
<1>4. Continues(s0, s1, m, t1)
  BY <1>2, <1>3, SayContinues
<1>5. Sane(s1) /\ Block.id \in DOMAIN s1.text /\ s1.names = s.names
  BY <1>2, <1>3 DEF Says
<1> HIDE DEF s1
<1>6. Says(s1, d, v, "select", <<Local(u), y, z>>)
  BY <1>5, SaySays
<1> HIDE DEF d
<1>7. Continues(s1, d, t1, t)
  BY <1>5, <1>6, SayContinues
<1>8. i.id \in DOMAIN d.names /\ d.names[i.id] = Local(v)
  BY <1>5, <1>6 DEF Says, Ready
<1>9. v \notin Defs(c) /\ u \notin Defs(c)
  BY DEF Ready
<1>10. /\ Kept(m, t1, {u}) /\ t1.mem = m.mem /\ t1.here = m.here /\ t1.result = m.result
       /\ u \in DOMAIN t1.val /\ t1.val[u] = Value(m, line1)
  <2>1. DOMAIN m = RunFields
    BY DEF Ready, Beside, Running
  <2> HIDE DEF u
  <2> DEFINE args == <<x, Num(0)>>
             op == "icmp ne"
             line == [def |-> u, op |-> op, args |-> args]
  <2>2. line1 = line
    OBVIOUS
  <2>3. op \notin {"store", "ret", "unreachable", "br", "phi"}
    OBVIOUS
  <2> HIDE DEF args, op, line1
  <2>4. /\ Kept(m, LlStep(m, line), {u}) /\ LlStep(m, line).mem = m.mem
        /\ LlStep(m, line).here = m.here /\ LlStep(m, line).result = m.result
        /\ u \in DOMAIN LlStep(m, line).val
        /\ LlStep(m, line).val[u] = Value(m, line)
    BY <2>1, <2>3, DefiningStep
  <2> HIDE DEF line
  <2> QED BY <2>2, <2>4
<1>11. Value(m, line1) = b
  <2>1. line1.op = "icmp ne" /\ line1.args[1] = x /\ line1.args[2] = Num(0)
    OBVIOUS
  <2> HIDE DEF line1
  <2>2. Worth(m, x) = a /\ Worth(m, Num(0)) = 0
    BY NumWorth DEF Operand
  <2> HIDE DEF a
  <2> QED BY <2>1, <2>2, OtherValue
<1> HIDE DEF t1
<1>12. /\ Kept(t1, t, {v}) /\ t.mem = t1.mem /\ t.here = t1.here /\ t.result = t1.result
       /\ v \in DOMAIN t.val /\ t.val[v] = Value(t1, line2)
  <2>1. DOMAIN t1 = RunFields
    BY <1>10 DEF Kept
  <2> QED BY <2>1, DefiningStep
<1>13. Value(t1, line2) = Computed(e, i)
  <2>1. line2.op = "select" /\ line2.args[1] = Local(u) /\ line2.args[2] = y
        /\ line2.args[3] = z
    OBVIOUS
  <2> HIDE DEF line2, line1
  <2>2. Worth(t1, Local(u)) = b
    BY <1>10, <1>11, LocalWorth, NamesAreNoSymbols
  <2>3. y[1] = "num" \/ y[2][1] = "sym" \/ y[2] \notin {u}
    BY <1>9 DEF Operand, Steady
  <2>4. z[1] = "num" \/ z[2][1] = "sym" \/ z[2] \notin {u}
    BY <1>9 DEF Operand, Steady
  <2>5. Worth(t1, y) = OperandValue(e, i.args[2]) /\ Worth(t1, z) = OperandValue(e, i.args[3])
    <3>1. Worth(t1, y) = Worth(m, y)
      BY <1>10, <2>3, KeptWorth
    <3>2. Worth(t1, z) = Worth(m, z)
      BY <1>10, <2>4, KeptWorth
    <3> QED BY <3>1, <3>2 DEF Operand
  <2>6. Computed(e, i) = IF a # 0 THEN OperandValue(e, i.args[2])
                         ELSE OperandValue(e, i.args[3])
    BY ComputedIs
  <2>7. b # 0 <=> a # 0
    OBVIOUS
  <2> HIDE DEF a, b
  <2>8. Value(t1, line2) = IF Worth(t1, line2.args[1]) # 0
                           THEN Worth(t1, line2.args[2]) ELSE Worth(t1, line2.args[3])
    BY <2>1, OtherValue
  <2> QED BY <2>1, <2>2, <2>5, <2>6, <2>7, <2>8
<1> HIDE DEF t, line1, line2
<1>14. Computed(e, i) \in Word
  <2>1. Computed(e, i) = IF a # 0 THEN OperandValue(e, i.args[2])
                         ELSE OperandValue(e, i.args[3])
    BY ComputedIs
  <2> HIDE DEF a
  <2> QED BY <2>1 DEF Operand
<1>15. Continues(c, d, m, t)
  <2>1. Continues(c, s0, m, m)
    BY <1>2, SameContinues
  <2>2. Continues(c, s1, m, t1)
    BY <1>4, <2>1, ContinuesThrough
  <2> QED BY <1>7, <2>2, ContinuesThrough
<1> DEFINE X == {u} \cup {v}
<1>16. Kept(m, t, X)
  BY <1>10, <1>12, KeptThrough
<1>17. X \cap Defs(c) = {}
  BY <1>9
<1>18. Worth(t, d.names[i.id]) = Computed(e, i)
  BY <1>8, <1>12, <1>13, LocalWorth, NamesAreNoSymbols
<1>19. i.op \in Translated /\ t.mem = m.mem /\ t.here = m.here /\ t.result = m.result
  BY <1>10, <1>12 DEF Translated
<1> HIDE DEF X, v, u, a, b
<1>22. Mirrors(c, d, i, e, m, IrStep(e, i), t)
  BY <1>8, <1>14, <1>15, <1>16, <1>17, <1>18, <1>19, MirrorsValue
<1> QED BY <1>1, <1>22

LEMMA StoreMirrors ==
    ASSUME NEW c, NEW s, NEW i, NEW e, NEW m, Ready(c, s, i, e, m), i.op = "STORE",
           NEW x, Operand(c, e, m, x, i.args[1]),
           NEW y, Operand(c, e, m, y, i.args[2])
    PROVE  \E t : Mirrors(c, EmitStore(s, x, y), i, e, m, IrStep(e, i), t)
<1> DEFINE u == T(s.temps)
           s0 == NewTmp(s)
           s1 == Say(s0, u, "inttoptr", <<x>>)
           d == Say(s1, NoName, "store", <<y, Local(u)>>)
           line1 == [def |-> u, op |-> "inttoptr", args |-> <<x>>]
           line2 == [def |-> NoName, op |-> "store", args |-> <<y, Local(u)>>]
           t1 == LlStep(m, line1)
           t == LlStep(t1, line2)
           a == OperandValue(e, i.args[1])
           w == OperandValue(e, i.args[2])
           f == IrStep(e, i)
<1>1. d = EmitStore(s, x, y)
  BY DEF EmitStore
<1>2. Sane(s0) /\ s0.text = c.text /\ Block.id \in DOMAIN s0.text
  BY NewTmpTemps DEF Ready
<1> HIDE DEF s0
<1>3. Says(s0, s1, u, "inttoptr", <<x>>)
  BY <1>2, SaySays
<1>4. Continues(s0, s1, m, t1)
  BY <1>2, <1>3, SayContinues
<1>5. Sane(s1) /\ Block.id \in DOMAIN s1.text
  BY <1>2, <1>3 DEF Says
<1> HIDE DEF s1
<1>6. Says(s1, d, NoName, "store", <<y, Local(u)>>)
  BY <1>5, SaySays
<1> HIDE DEF d
<1>7. Continues(s1, d, t1, t)
  BY <1>5, <1>6, SayContinues
<1>9. u \notin Defs(c)
  BY DEF Ready
<1>10. /\ Kept(m, t1, {u}) /\ t1.mem = m.mem /\ t1.here = m.here /\ t1.result = m.result
       /\ u \in DOMAIN t1.val /\ t1.val[u] = Value(m, line1)
  <2>1. DOMAIN m = RunFields
    BY DEF Ready, Beside, Running
  <2> QED BY <2>1, DefiningStep
<1>11. Value(m, line1) = a
  <2>1. line1.op = "inttoptr" /\ line1.args[1] = x
    OBVIOUS
  <2> HIDE DEF line1
  <2> QED BY <2>1, OtherValue DEF Operand
<1> HIDE DEF t1
<1>12. Worth(t1, Local(u)) = a /\ Worth(t1, y) = w
  <2>1. Worth(t1, Local(u)) = a
    <3> HIDE DEF line1
    <3> QED BY <1>10, <1>11, LocalWorth, NamesAreNoSymbols
  <2>2. y[1] = "num" \/ y[2][1] = "sym" \/ y[2] \notin {u}
    BY <1>9 DEF Operand, Steady
  <2>3. Worth(t1, y) = Worth(m, y)
    BY <1>10, <2>2, KeptWorth
  <2> QED BY <2>1, <2>3 DEF Operand
<1> DEFINE M == [m.mem EXCEPT ![a] = w]
<1>13. t = [t1 EXCEPT !.mem = M]
  <2>1. line2.op = "store" /\ line2.args[1] = y /\ line2.args[2] = Local(u)
    OBVIOUS
  <2> HIDE DEF line2, a, w
  <2>2. t = [t1 EXCEPT !.mem[Worth(t1, line2.args[2])] = Worth(t1, line2.args[1])]
    BY <2>1 DEF LlStep
  <2> HIDE DEF t
  <2> QED BY <1>10, <1>12, <2>1, <2>2
<1>14. f = [e EXCEPT !.mem = M]
  <2>1. m.mem = e.mem
    BY DEF Ready, Beside
  <2> QED BY <2>1 DEF IrStep, Valued, Binary, Unary
<1>15. M \in [Word -> Word]
  <2>1. m.mem \in [Word -> Word] /\ w \in Word
    BY DEF Ready, Beside, Running, Operand
  <2> HIDE DEF w, a
  <2> QED BY <2>1
<1> HIDE DEF t, f, M, line1, line2
<1>16. /\ DOMAIN t = RunFields /\ t.val = t1.val /\ t.sym = t1.sym /\ t.mem = M
       /\ t.from = t1.from /\ t.here = t1.here /\ t.result = t1.result
  <2>1. DOMAIN t1 = RunFields
    BY <1>10 DEF Kept
  <2> QED BY <1>13, <2>1, KeptFields
<1>17. /\ DOMAIN f = RunFields /\ f.val = e.val /\ f.sym = e.sym /\ f.mem = M
       /\ f.from = e.from /\ f.here = e.here /\ f.result = e.result
  <2>1. DOMAIN e = RunFields
    BY DEF Ready, Beside, Running
  <2> QED BY <1>14, <2>1, KeptFields
<1>18. Kept(m, t, {u}) /\ {u} \cap Defs(c) = {}
  BY <1>9, <1>10, <1>16 DEF Kept
<1>19. Beside(f, t)
  BY <1>10, <1>15, <1>16, <1>17 DEF Beside, Running, Ready, Kept
<1>20. Continues(c, d, m, t)
  <2>1. Continues(c, s0, m, m)
    BY <1>2, SameContinues
  <2>2. Continues(c, s1, m, t1)
    BY <1>4, <2>1, ContinuesThrough
  <2> QED BY <1>7, <2>2, ContinuesThrough
<1>21. i.op \notin Translated /\ i.op # "RET"
  BY BinopNames DEF Translated
<1>22. t.here = m.here /\ t.result = m.result /\ f.result = e.result
  BY <1>10, <1>16, <1>17
<1> HIDE DEF u
<1>23. Mirrors(c, d, i, e, m, f, t)
  BY <1>18, <1>19, <1>20, <1>21, <1>22 DEF Mirrors
<1> QED BY <1>1, <1>23 DEF f

LEMMA RetMirrors ==
    ASSUME NEW c, NEW s, NEW i, NEW e, NEW m, Ready(c, s, i, e, m), i.op = "RET",
           NEW x, Operand(c, e, m, x, i.args[1])
    PROVE  \E t : Mirrors(c, Say(s, NoName, "ret", <<x>>), i, e, m, IrStep(e, i), t)
<1> DEFINE d == Say(s, NoName, "ret", <<x>>)
           line == [def |-> NoName, op |-> "ret", args |-> <<x>>]
           t == LlStep(m, line)
           f == IrStep(e, i)
           w == OperandValue(e, i.args[1])
           u == [m EXCEPT !.result = w]
<1>1. Says(s, d, NoName, "ret", <<x>>)
  BY SaySays DEF Ready
<1>2. Continues(s, d, m, t)
  BY <1>1, SayContinues DEF Ready
<1>3. line.op = "ret" /\ line.args[1] = x
  OBVIOUS
<1> HIDE DEF d, line, w
<1>4. t = [u EXCEPT !.here = Returned]
  <2>1. t = [m EXCEPT !.result = Worth(m, line.args[1]), !.here = Returned]
    BY <1>3 DEF LlStep
  <2> QED BY <1>3, <2>1 DEF Operand, w
<1>5. f = [e EXCEPT !.result = w]
  BY DEF IrStep, Valued, Binary, Unary, w
<1>6. DOMAIN m = RunFields /\ DOMAIN e = RunFields
  BY DEF Ready, Beside, Running
<1> HIDE DEF t, f, u
<1>7. /\ DOMAIN u = RunFields /\ u.val = m.val /\ u.sym = m.sym /\ u.mem = m.mem
      /\ u.from = m.from /\ u.here = m.here /\ u.result = w
  BY <1>6, KeptFields DEF u
<1>8. /\ DOMAIN t = RunFields /\ t.val = m.val /\ t.sym = m.sym /\ t.mem = m.mem
      /\ t.from = m.from /\ t.here = Returned /\ t.result = w
  BY <1>4, <1>7, KeptFields
<1>9. /\ DOMAIN f = RunFields /\ f.val = e.val /\ f.sym = e.sym /\ f.mem = e.mem
      /\ f.from = e.from /\ f.here = e.here /\ f.result = w
  BY <1>5, <1>6, KeptFields
<1>10. Beside(f, t)
  BY <1>8, <1>9 DEF Beside, Running, Ready
<1>11. Kept(m, t, {}) /\ {} \cap Defs(c) = {}
  BY <1>8 DEF Kept
<1>12. Continues(c, d, m, t)
  <2>1. Continues(c, s, m, m)
    BY SameContinues DEF Ready
  <2> QED BY <1>2, <2>1, ContinuesThrough
<1>13. i.op \notin Translated
  BY BinopNames DEF Translated
<1>14. Mirrors(c, d, i, e, m, f, t)
  BY <1>8, <1>9, <1>10, <1>11, <1>12, <1>13 DEF Mirrors
<1> QED BY <1>14 DEF d, f

\* A name for what has one, or needs none.
LEMMA AliasMirrors ==
    ASSUME NEW c, NEW s, NEW i, NEW e, NEW m, Ready(c, s, i, e, m), i.op = "PASSTHROUGH",
           NEW x, Operand(c, e, m, x, i.args[1])
    PROVE  \E t : Mirrors(c, Named(s, i.id, x), i, e, m, IrStep(e, i), t)
<1> DEFINE d == Named(s, i.id, x)
<1>1. d.text = s.text /\ i.id \in DOMAIN d.names /\ d.names[i.id] = x
  BY NamedNames DEF Ready
<1> HIDE DEF d
<1>2. Continues(c, d, m, m)
  BY <1>1, SameContinues DEF Ready
<1>3. Computed(e, i) = OperandValue(e, i.args[1])
  BY ComputedIs
<1>4. Computed(e, i) \in Word /\ Worth(m, x) = Computed(e, i)
  BY <1>3 DEF Operand
<1>5. i.op \in Translated
  BY DEF Translated
<1>6. DOMAIN m = RunFields
  BY DEF Ready, Beside, Running
<1> DEFINE X == {}
<1>7. Kept(m, m, X) /\ X \cap Defs(c) = {}
  BY <1>6 DEF Kept
<1> HIDE DEF X
<1>8. Worth(m, d.names[i.id]) = Computed(e, i)
  BY <1>1, <1>4
<1>9. Mirrors(c, d, i, e, m, IrStep(e, i), m)
  BY <1>1, <1>2, <1>4, <1>5, <1>7, <1>8, MirrorsValue
<1> QED BY <1>9 DEF d

\* What has no effect is written as a line that has none.
LEMMA NoneMirrors ==
    ASSUME NEW c, NEW s, NEW i, NEW e, NEW m, Ready(c, s, i, e, m),
           i.op \in {"JMP", "CJMP", "NOP"}
    PROVE  \E t : Mirrors(c, Say(s, V(i.id), "add", <<Num(0), Num(0)>>), i, e, m,
                          IrStep(e, i), t)
<1> DEFINE args == <<Num(0), Num(0)>>
           x == V(i.id)
           op == "add"
           d == Say(s, x, op, args)
           line == [def |-> x, op |-> op, args |-> args]
           t == LlStep(m, line)
<1>1. op \notin {"store", "ret", "unreachable", "br", "phi"}
  OBVIOUS
<1> HIDE DEF args, op
<1>2. Says(s, d, x, op, args)
  BY SaySays DEF Ready
<1>3. Continues(s, d, m, t)
  BY <1>2, SayContinues DEF Ready
<1>4. DOMAIN m = RunFields
  BY DEF Ready, Beside, Running
<1>5. /\ Kept(m, t, {x}) /\ t.mem = m.mem /\ t.here = m.here /\ t.result = m.result
  BY <1>1, <1>4, DefiningStep
<1>6. IrStep(e, i) = e
  BY DEF IrStep, Valued, Binary, Unary
<1>7. {x} \cap Defs(c) = {}
  BY DEF Ready
<1> HIDE DEF d, t, x
<1>8. Beside(e, t)
  BY <1>5 DEF Beside, Running, Ready, Kept
<1>9. Continues(c, d, m, t)
  <2>1. Continues(c, s, m, m)
    BY SameContinues DEF Ready
  <2> QED BY <1>3, <2>1, ContinuesThrough
<1>10. i.op \notin Translated /\ i.op # "RET"
  BY BinopNames DEF Translated
<1>11. Mirrors(c, d, i, e, m, e, t)
  BY <1>5, <1>7, <1>8, <1>9, <1>10 DEF Mirrors
<1> QED BY <1>6, <1>11 DEF d, x, op, args

\* Jumps that are left to the terminator.
LEMMA SkipMirrors ==
    ASSUME NEW c, NEW i, NEW e, NEW m, Beside(e, m), i.op \in {"JMP", "CJMP"}
    PROVE  \E t : Mirrors(c, c, i, e, m, IrStep(e, i), t)
<1>1. IrStep(e, i) = e
  BY DEF IrStep, Valued, Binary, Unary
<1>2. Continues(c, c, m, m)
  BY SameContinues
<1>3. i.op \notin Translated /\ i.op # "RET"
  BY BinopNames DEF Translated
<1>4. Kept(m, m, {}) /\ {} \cap Defs(c) = {}
  BY DEF Beside, Running, Kept
<1>5. Mirrors(c, c, i, e, m, e, m)
  BY <1>2, <1>3, <1>4 DEF Mirrors
<1> QED BY <1>1, <1>5

\* Whichever instruction it is, what EmitInstr writes does what it does.
LEMMA InstrMirrors ==
    ASSUME NEW c, Sane(c), Block.id \in DOMAIN c.text,
           NEW i, V(i.id) \notin Defs(c), T(c.temps) \notin Defs(c),
           i.op \in Translated \cup {"STORE", "RET", "JMP", "CJMP", "NOP"},
           NEW e, NEW m, Beside(e, m),
           NEW P, Agree(c, P, e, m),
           \A p \in P : /\ Item(source, p).id # i.id
                        /\ Steady(c.names[Item(source, p).id], Defs(c)),
           \A k \in 1 .. Arity(i.op) : Given(i.args[k], P)
    PROVE  \E t : Mirrors(c, EmitInstr(c, i), i, e, m, IrStep(e, i), t)
<1> DEFINE s == Named(c, i.id, Local(V(i.id)))
           d == EmitInstr(c, i)
           X(k) == ValRef(s, i.args[k])
           f == IrStep(e, i)
<1>1. Ready(c, s, i, e, m)
  <2>1. /\ Sane(s) /\ s.text = c.text /\ s.temps = c.temps
        /\ i.id \in DOMAIN s.names /\ s.names[i.id] = Local(V(i.id))
    BY NamedNames
  <2> HIDE DEF s
  <2> QED BY <2>1 DEF Ready
<1>2. \A p \in P : /\ Item(source, p).id \in DOMAIN s.names
                   /\ s.names[Item(source, p).id] = c.names[Item(source, p).id]
  <2>1. ASSUME NEW p \in P
        PROVE  Item(source, p).id \in DOMAIN c.names \ {i.id}
    BY DEF Agree
  <2> QED BY <2>1, NamedNames
<1>3. DOMAIN LlvmBinop = {"ADD", "SUB", "MUL", "XOR", "AND", "OR", "SHL", "SHR", "SAR"}
  BY BinopNames
<1>4. ASSUME NEW k \in 1 .. Arity(i.op)
      PROVE  Operand(c, e, m, X(k), i.args[k])
  <2> HIDE DEF s
  <2> DEFINE o == i.args[k]
  <2>1. Given(o, P)
    OBVIOUS
  <2> HIDE DEF o
  <2>2. Operand(c, e, m, ValRef(s, o), o)
    BY <1>2, <2>1, OperandWorth DEF Operand
  <2> QED BY <2>2 DEF o
<1> SUFFICES \E t : Mirrors(c, d, i, e, m, f, t)
  OBVIOUS
<1> HIDE DEF s, f
<1>6. CASE i.op \in DOMAIN LlvmBinop
  <2>1. d = Say(s, V(i.id), LlvmBinop[i.op], <<X(1), X(2)>>)
    BY <1>3, <1>6 DEF EmitInstr, s
  <2>2. Arity(i.op) = 2 /\ i.op \in Binary /\ i.op \in Translated
    BY <1>6, BinopNames DEF Arity, Translated
  <2> HIDE DEF d, X
  <2>3. Operand(c, e, m, X(1), i.args[1]) /\ Operand(c, e, m, X(2), i.args[2])
    BY <1>4, <2>2
  <2>4. Computed(e, i) = BinaryValue(i.op, Worth(m, X(1)), Worth(m, X(2)))
    BY <1>6, <2>3, ComputedIs DEF Operand
  <2>5. Worth(m, X(1)) \in Word /\ Worth(m, X(2)) \in Word
    BY <2>3 DEF Operand
  <2>6. Computed(e, i) \in Word
    BY <2>2, <2>4, <2>5, BinaryIsWord
  <2> QED BY <1>1, <1>6, <2>1, <2>2, <2>4, <2>6, MirrorsBinop DEF f
<1>7. CASE i.op = "LOAD"
  <2>1. d = EmitLoad(s, i.id, X(1))
    BY <1>3, <1>7 DEF EmitInstr, s
  <2>2. Arity(i.op) = 1
    BY <1>7 DEF Arity, Binary
  <2> HIDE DEF d, X
  <2>3. Operand(c, e, m, X(1), i.args[1])
    BY <1>4, <2>2
  <2> QED BY <1>1, <1>7, <2>1, <2>3, LoadMirrors DEF f
<1>8. CASE i.op = "STORE"
  <2>1. d = EmitStore(s, X(1), X(2))
    BY <1>3, <1>8 DEF EmitInstr, s
  <2>2. Arity(i.op) = 2
    BY <1>8 DEF Arity, Binary
  <2> HIDE DEF d, X
  <2>3. Operand(c, e, m, X(1), i.args[1]) /\ Operand(c, e, m, X(2), i.args[2])
    BY <1>4, <2>2
  <2> QED BY <1>1, <1>8, <2>1, <2>3, StoreMirrors DEF f
<1>9. CASE i.op = "SELECT"
  <2>1. d = EmitSelect(s, i.id, X(1), X(2), X(3))
    BY <1>3, <1>9 DEF EmitInstr, s
  <2>2. Arity(i.op) = 3
    BY <1>9 DEF Arity, Binary
  <2> HIDE DEF d, X
  <2>3. Operand(c, e, m, X(1), i.args[1]) /\ Operand(c, e, m, X(2), i.args[2])
        /\ Operand(c, e, m, X(3), i.args[3])
    BY <1>4, <2>2
  <2> QED BY <1>1, <1>9, <2>1, <2>3, SelectMirrors DEF f
<1>10. CASE i.op = "RET"
  <2>1. d = Say(s, NoName, "ret", <<X(1)>>)
    BY <1>3, <1>10 DEF EmitInstr, s
  <2>2. Arity(i.op) = 1
    BY <1>10 DEF Arity, Binary
  <2> HIDE DEF d, X
  <2>3. Operand(c, e, m, X(1), i.args[1])
    BY <1>4, <2>2
  <2> QED BY <1>1, <1>10, <2>1, <2>3, RetMirrors DEF f
<1>11. CASE i.op = "PASSTHROUGH"
  <2>1. d = Alias(s, i.id, i.args[1])
    BY <1>3, <1>11 DEF EmitInstr, s
  <2>2. Arity(i.op) = 1
    BY <1>11 DEF Arity, Binary
  <2> HIDE DEF d
  <2>3. Operand(c, e, m, X(1), i.args[1])
    BY <1>4, <2>2
  <2>4. Given(i.args[1], P)
    BY <2>2
  <2>5. i.args[1][1] = "ref" => i.args[1][2] \in DOMAIN s.names
    BY <1>2, <2>4 DEF Given
  <2>6. d = Named(s, i.id, X(1))
    BY <2>1, <2>5, <2>4 DEF Alias, ValRef, Given
  <2> HIDE DEF X
  <2> QED BY <1>1, <1>11, <2>3, <2>6, AliasMirrors DEF f
<1>12. CASE i.op = "CONST"
  <2>1. d = Say(s, V(i.id), "add", <<X(1), Num(0)>>)
    BY <1>3, <1>12 DEF EmitInstr, s
  <2>2. Arity(i.op) = 1 /\ LlvmBinop["ADD"] = "add" /\ "ADD" \in DOMAIN LlvmBinop
    BY <1>12 DEF Arity, Binary, LlvmBinop
  <2> HIDE DEF d, X
  <2>3. Operand(c, e, m, X(1), i.args[1])
    BY <1>4, <2>2
  <2>4. Computed(e, i) = Worth(m, X(1)) /\ Computed(e, i) \in Word
    BY <1>12, <2>3, ComputedIs DEF Operand
  <2>5. Computed(e, i) = BinaryValue("ADD", Worth(m, X(1)), Worth(m, Num(0)))
    BY <2>4, NumWorth, AddZero
  <2>6. i.op \in Translated
    BY <1>12 DEF Translated
  <2> QED BY <1>1, <2>1, <2>2, <2>4, <2>5, <2>6, MirrorsBinop DEF f
<1>13. CASE i.op = "NOT"
  <2>1. d = Say(s, V(i.id), "xor", <<X(1), Num(AllOnes)>>)
    BY <1>3, <1>13 DEF EmitInstr, s
  <2>2. Arity(i.op) = 1 /\ LlvmBinop["XOR"] = "xor" /\ "XOR" \in DOMAIN LlvmBinop
    BY <1>13 DEF Arity, Binary, LlvmBinop
  <2> HIDE DEF d, X
  <2>3. Operand(c, e, m, X(1), i.args[1])
    BY <1>4, <2>2
  <2>4. Computed(e, i) = UnaryValue("NOT", Worth(m, X(1))) /\ Worth(m, X(1)) \in Word
    BY <1>13, <2>3, ComputedIs DEF Operand
  <2>5. Computed(e, i) \in Word
    BY <2>4, UnaryIsWord DEF Unary
  <2>6. Computed(e, i) = BinaryValue("XOR", Worth(m, X(1)), Worth(m, Num(AllOnes)))
    BY <2>4, NumWorth, NotIsXor
  <2>7. i.op \in Translated
    BY <1>13 DEF Translated
  <2> QED BY <1>1, <2>1, <2>2, <2>5, <2>6, <2>7, MirrorsBinop DEF f
<1>14. CASE i.op = "NEG"
  <2>1. d = Say(s, V(i.id), "sub", <<Num(0), X(1)>>)
    BY <1>3, <1>14 DEF EmitInstr, s
  <2>2. Arity(i.op) = 1 /\ LlvmBinop["SUB"] = "sub" /\ "SUB" \in DOMAIN LlvmBinop
    BY <1>14 DEF Arity, Binary, LlvmBinop
  <2> HIDE DEF d, X
  <2>3. Operand(c, e, m, X(1), i.args[1])
    BY <1>4, <2>2
  <2>4. Computed(e, i) = UnaryValue("NEG", Worth(m, X(1))) /\ Worth(m, X(1)) \in Word
    BY <1>14, <2>3, ComputedIs DEF Operand
  <2>5. Computed(e, i) \in Word
    BY <2>4, UnaryIsWord DEF Unary
  <2>6. Computed(e, i) = BinaryValue("SUB", Worth(m, Num(0)), Worth(m, X(1)))
    BY <2>4, NumWorth, NegationSubtracts
  <2>7. i.op \in Translated
    BY <1>14 DEF Translated
  <2> QED BY <1>1, <2>1, <2>2, <2>5, <2>6, <2>7, MirrorsBinop DEF f
<1>15. CASE i.op = "CALL"
  <2> DEFINE args == <<X(1)>>
             op == "call"
             line == [def |-> V(i.id), op |-> op, args |-> args]
  <2>1. d = Say(s, V(i.id), op, args)
    BY <1>3, <1>15 DEF EmitInstr, s
  <2>2. line.op = "call" /\ op \notin {"store", "ret", "unreachable", "br", "phi"}
    OBVIOUS
  <2> HIDE DEF d, X, args, line, op
  <2>3. Value(m, line) = m.sym["call"]
    BY <2>2, OtherValue
  <2>4. Computed(e, i) = e.sym["call"]
    BY <1>15, ComputedIs
  <2>5. m.sym = e.sym /\ e.sym \in Inputs
    BY DEF Beside, Running
  <2>6. Computed(e, i) \in Word /\ Value(m, line) = Computed(e, i)
    BY <2>3, <2>4, <2>5, RunsAssumption
  <2>7. i.op \in Translated
    BY <1>15 DEF Translated
  <2> QED BY <1>1, <2>1, <2>2, <2>6, <2>7, MirrorsLine DEF f, line
<1>16. CASE i.op \in {"JMP", "CJMP", "NOP"}
  <2>1. d = Say(s, V(i.id), "add", <<Num(0), Num(0)>>)
    BY <1>3, <1>16 DEF EmitInstr, s
  <2> HIDE DEF d
  <2> QED BY <1>1, <1>16, <2>1, NoneMirrors DEF f
<1> HIDE DEF d
<1> QED
  BY <1>6, <1>7, <1>8, <1>9, <1>10, <1>11, <1>12, <1>13, <1>14, <1>15, <1>16
     DEF Translated, d, f

-----------------------------------------------------------------------------
(* How names and text grow *)

Defines(c, b, name) == \E k \in DOMAIN c.text[b] : c.text[b][k].def = name

\* From c to d the block being emitted got lines, none of which is a phi, and no
\* name changed but that of I.
Grows(c, d, I) ==
    /\ Sane(d) /\ DOMAIN d.text = DOMAIN c.text
    /\ \A b \in DOMAIN c.text \ {Block.id} : d.text[b] = c.text[b]
    /\ \A k \in DOMAIN c.text[Block.id] :
          k \in DOMAIN d.text[Block.id] /\ d.text[Block.id][k] = c.text[Block.id][k]
    /\ \A k \in DOMAIN d.text[Block.id] :
          d.text[Block.id][k].op = "phi" => k \in DOMAIN c.text[Block.id]
    /\ \A j \in DOMAIN c.names :
          j \in DOMAIN d.names /\ (j \notin I => d.names[j] = c.names[j])

LEMMA GrowsThrough ==
    ASSUME NEW c, NEW d, NEW e, NEW I, NEW J, Block.id \in DOMAIN c.text,
           Grows(c, d, I), Grows(d, e, J)
    PROVE  Grows(c, e, I \cup J)
<1>1. DOMAIN e.text = DOMAIN c.text /\ Sane(e)
  BY DEF Grows
<1>2. \A b \in DOMAIN c.text \ {Block.id} : e.text[b] = c.text[b]
  BY DEF Grows
<1>3. \A k \in DOMAIN c.text[Block.id] :
         k \in DOMAIN e.text[Block.id] /\ e.text[Block.id][k] = c.text[Block.id][k]
  BY DEF Grows
<1>4. \A k \in DOMAIN e.text[Block.id] :
         e.text[Block.id][k].op = "phi" => k \in DOMAIN c.text[Block.id]
  <2> TAKE k \in DOMAIN e.text[Block.id]
  <2> HAVE e.text[Block.id][k].op = "phi"
  <2>1. k \in DOMAIN d.text[Block.id]
    BY DEF Grows
  <2>2. e.text[Block.id][k] = d.text[Block.id][k]
    BY <2>1 DEF Grows
  <2> QED BY <2>1, <2>2 DEF Grows
<1>5. \A j \in DOMAIN c.names :
         j \in DOMAIN e.names /\ (j \notin I \cup J => e.names[j] = c.names[j])
  BY DEF Grows
<1> QED BY <1>1, <1>2, <1>3, <1>4, <1>5 DEF Grows

LEMMA GrowsNot ==
    ASSUME NEW c, NEW d, Sane(d), d.text = c.text, d.names = c.names, NEW I
    PROVE  Grows(c, d, I)
BY DEF Grows

LEMMA GrowsMore ==
    ASSUME NEW c, NEW d, NEW I, Grows(c, d, I), NEW J, I \subseteq J
    PROVE  Grows(c, d, J)
BY DEF Grows

LEMMA GrowsNamed ==
    ASSUME NEW c, Sane(c), NEW id, NEW v
    PROVE  Grows(c, Named(c, id, v), {id})
<1> DEFINE d == Named(c, id, v)
<1>1. /\ Sane(d) /\ d.text = c.text
      /\ DOMAIN d.names = DOMAIN c.names \cup {id}
      /\ \A j \in DOMAIN c.names \ {id} : d.names[j] = c.names[j]
  BY NamedNames
<1> HIDE DEF d
<1> QED BY <1>1 DEF Grows, d

LEMMA GrowsTmp ==
    ASSUME NEW c, Sane(c)
    PROVE  Grows(c, NewTmp(c), {})
<1> DEFINE d == NewTmp(c)
<1>1. Sane(d) /\ d.text = c.text /\ d.names = c.names
  BY NewTmpTemps
<1> HIDE DEF d
<1> QED BY <1>1, GrowsNot DEF d

LEMMA GrowsSay ==
    ASSUME NEW c, Sane(c), Block.id \in DOMAIN c.text, NEW def, NEW op, NEW args,
           op # "phi"
    PROVE  LET d == Say(c, def, op, args)
           IN Grows(c, d, {}) /\ d.names = c.names /\ Defines(d, Block.id, def)
<1> DEFINE d == Say(c, def, op, args)
           line == [def |-> def, op |-> op, args |-> args]
           id == Block.id
<1>1. Says(c, d, def, op, args)
  BY SaySays
<1>2. line.op # "phi" /\ line.def = def
  OBVIOUS
<1> HIDE DEF d, line
<1>3. /\ Len(c.text[id]) \in Nat /\ DOMAIN c.text[id] = 1 .. Len(c.text[id])
      /\ DOMAIN d.text[id] = 1 .. Len(c.text[id]) + 1
      /\ \A k \in 1 .. Len(c.text[id]) : d.text[id][k] = c.text[id][k]
      /\ d.text[id][Len(c.text[id]) + 1] = line
  BY <1>1, AppendLine DEF Sane, Says, line
<1> HIDE DEF id
<1>4. \A k \in DOMAIN c.text[id] : k \in DOMAIN d.text[id] /\ d.text[id][k] = c.text[id][k]
  BY <1>3
<1>5. \A k \in DOMAIN d.text[id] : d.text[id][k].op = "phi" => k \in DOMAIN c.text[id]
  BY <1>2, <1>3
<1>6. \E k \in DOMAIN d.text[id] : d.text[id][k].def = def
  BY <1>2, <1>3
<1>7. Grows(c, d, {})
  BY <1>1, <1>4, <1>5 DEF Grows, Says, id
<1> QED BY <1>1, <1>6, <1>7 DEF Defines, Says, id, d

\* The name of id is that of a line of the block being emitted.
Homed(d, id) ==
    /\ id \in DOMAIN d.names /\ d.names[id][2] # NoName
    /\ Defines(d, Block.id, d.names[id][2])

LEMMA OneLineGrows ==
    ASSUME NEW c, Sane(c), Block.id \in DOMAIN c.text, NEW id, NEW op, op # "phi", NEW args
    PROVE  LET s == Named(c, id, Local(V(id)))
               d == Say(s, V(id), op, args)
           IN Grows(c, d, {id}) /\ Homed(d, id)
<1> DEFINE s == Named(c, id, Local(V(id)))
           d == Say(s, V(id), op, args)
<1>1. /\ Sane(s) /\ s.text = c.text /\ id \in DOMAIN s.names
      /\ s.names[id] = Local(V(id))
  BY NamedNames
<1>2. Grows(c, s, {id})
  BY GrowsNamed
<1> HIDE DEF s
<1>3. Grows(s, d, {}) /\ d.names = s.names /\ Defines(d, Block.id, V(id))
  BY <1>1, GrowsSay
<1> HIDE DEF d
<1>4. Grows(c, d, {id} \cup {})
  BY <1>2, <1>3, GrowsThrough
<1>5. d.names[id][2] = V(id) /\ V(id) # NoName
  BY <1>1, <1>3, NamesApart DEF Local
<1> HIDE DEF Local, NoName
<1>6. Homed(d, id)
  BY <1>1, <1>3, <1>5 DEF Homed
<1> QED BY <1>4, <1>6 DEF d, s

\* An instruction adds its lines and its name.
LEMMA InstrGrows ==
    ASSUME NEW c, Sane(c), Block.id \in DOMAIN c.text, NEW i
    PROVE  LET d == EmitInstr(c, i)
           IN /\ Grows(c, d, {i.id})
              /\ i.op \in Translated \ {"PASSTHROUGH"} => Homed(d, i.id)
<1> DEFINE s == Named(c, i.id, Local(V(i.id)))
           d == EmitInstr(c, i)
           X(k) == ValRef(s, i.args[k])
           v == V(i.id)
           I == {i.id}
           J == {}
<1>1. /\ Sane(s) /\ s.text = c.text /\ Block.id \in DOMAIN s.text
      /\ i.id \in DOMAIN s.names /\ s.names[i.id] = Local(v)
  BY NamedNames
<1>2. Grows(c, s, I)
  BY GrowsNamed
<1>3. DOMAIN LlvmBinop = {"ADD", "SUB", "MUL", "XOR", "AND", "OR", "SHL", "SHR", "SAR"}
  BY BinopNames
<1>4. I \cup J = I /\ I \cup I = I /\ J \cup J = J /\ J \cup I = I
  OBVIOUS
<1> SUFFICES Grows(c, d, I) /\ (i.op \in Translated \ {"PASSTHROUGH"} => Homed(d, i.id))
  OBVIOUS
<1>5. CASE i.op \in DOMAIN LlvmBinop \cup {"CONST", "NOT", "NEG", "CALL"}
           \/ i.op \notin {"LOAD", "STORE", "RET", "PASSTHROUGH", "SELECT"}
  <2>1. PICK op, args : op # "phi" /\ d = Say(s, V(i.id), op, args)
    <3>1. CASE i.op \in DOMAIN LlvmBinop
      <4>1. d = Say(s, V(i.id), LlvmBinop[i.op], <<X(1), X(2)>>)
        BY <1>3, <3>1 DEF EmitInstr
      <4>2. LlvmBinop[i.op] # "phi"
        BY <3>1, BinopNames
      <4> HIDE DEF d
      <4> QED BY <4>1, <4>2
    <3>2. CASE i.op \in {"CONST", "NOT", "NEG", "CALL"}
      BY <1>3, <3>2 DEF EmitInstr
    <3>3. CASE i.op \notin {"CONST", "NOT", "NEG", "LOAD", "STORE", "RET", "CALL",
                            "PASSTHROUGH", "SELECT"} \cup DOMAIN LlvmBinop
      BY <1>3, <3>3 DEF EmitInstr
    <3> QED BY <1>3, <1>5, <3>1, <3>2, <3>3
  <2>2. Grows(c, Say(s, V(i.id), op, args), I) /\ Homed(Say(s, V(i.id), op, args), i.id)
    BY <2>1, OneLineGrows
  <2> HIDE DEF d
  <2> QED BY <2>1, <2>2
<1>6. CASE i.op = "LOAD"
  <2> DEFINE u == T(s.temps)
             s0 == NewTmp(s)
             s1 == Say(s0, v, "inttoptr", <<X(1)>>)
             s2 == Say(s1, u, "load", <<Local(v)>>)
  <2>1. d = Named(s2, i.id, Local(u))
    BY <1>3, <1>6 DEF EmitInstr, EmitLoad
  <2> HIDE DEF d, s, X
  <2>2. Grows(s, s0, J) /\ Sane(s0) /\ s0.text = s.text
    BY <1>1, GrowsTmp, NewTmpTemps
  <2> HIDE DEF s0
  <2>3. Block.id \in DOMAIN s0.text /\ Block.id \in DOMAIN c.text
    BY <1>1, <2>2
  <2>4. Grows(s0, s1, J)
    BY <2>2, <2>3, GrowsSay
  <2>5. Sane(s1) /\ Block.id \in DOMAIN s1.text
    BY <2>3, <2>4 DEF Grows
  <2> HIDE DEF s1
  <2>6. Grows(s1, s2, J) /\ Defines(s2, Block.id, u)
    BY <2>5, GrowsSay
  <2>7. Sane(s2) /\ Block.id \in DOMAIN s2.text
    BY <2>5, <2>6 DEF Grows
  <2> HIDE DEF s2, u
  <2>8. Grows(s2, d, I)
    BY <2>1, <2>7, GrowsNamed
  <2>9. Sane(d) /\ d.text = s2.text /\ i.id \in DOMAIN d.names /\ d.names[i.id] = Local(u)
    BY <2>1, <2>7, NamedNames
  <2> HIDE DEF I, J, v
  <2>10. Grows(c, s0, I)
    BY <1>2, <1>4, <2>2, <2>3, GrowsThrough
  <2>11. Grows(c, s1, I)
    BY <1>4, <2>3, <2>4, <2>10, GrowsThrough
  <2>12. Grows(c, s2, I)
    BY <1>4, <2>3, <2>6, <2>11, GrowsThrough
  <2>13. Grows(c, d, I)
    BY <1>4, <2>3, <2>8, <2>12, GrowsThrough
  <2>14. d.names[i.id][2] = u /\ u # NoName
    BY <2>9, NamesApart DEF Local, u
  <2>15. Defines(d, Block.id, u)
    BY <2>6, <2>9 DEF Defines
  <2> QED BY <2>9, <2>13, <2>14, <2>15 DEF Homed
<1>7. CASE i.op = "STORE"
  <2> DEFINE u == T(s.temps)
             s0 == NewTmp(s)
             s1 == Say(s0, u, "inttoptr", <<X(1)>>)
  <2>1. d = Say(s1, NoName, "store", <<X(2), Local(u)>>)
    BY <1>3, <1>7 DEF EmitInstr, EmitStore
  <2> HIDE DEF d, s, X
  <2>2. Grows(s, s0, J) /\ Sane(s0) /\ s0.text = s.text
    BY <1>1, GrowsTmp, NewTmpTemps
  <2> HIDE DEF s0
  <2>3. Block.id \in DOMAIN s0.text /\ Block.id \in DOMAIN c.text
    BY <1>1, <2>2
  <2>4. Grows(s0, s1, J)
    BY <2>2, <2>3, GrowsSay
  <2>5. Sane(s1) /\ Block.id \in DOMAIN s1.text
    BY <2>3, <2>4 DEF Grows
  <2> HIDE DEF s1
  <2>6. Grows(s1, d, J)
    BY <2>1, <2>5, GrowsSay
  <2> HIDE DEF I, J, v
  <2>10. Grows(c, s0, I)
    BY <1>2, <1>4, <2>2, <2>3, GrowsThrough
  <2>11. Grows(c, s1, I)
    BY <1>4, <2>3, <2>4, <2>10, GrowsThrough
  <2>12. Grows(c, d, I)
    BY <1>4, <2>3, <2>6, <2>11, GrowsThrough
  <2>13. i.op \notin Translated
    BY <1>3, <1>7 DEF Translated
  <2> QED BY <2>12, <2>13
<1>8. CASE i.op = "SELECT"
  <2> DEFINE u == T(s.temps)
             s0 == NewTmp(s)
             op == "icmp ne"
             args == <<X(1), Num(0)>>
             s1 == Say(s0, u, op, args)
  <2>1. d = Say(s1, v, "select", <<Local(u), X(2), X(3)>>)
    BY <1>3, <1>8 DEF EmitInstr, EmitSelect
  <2> HIDE DEF d, s, X
  <2>2. Grows(s, s0, J) /\ Sane(s0) /\ s0.text = s.text /\ s0.names = s.names
    BY <1>1, GrowsTmp, NewTmpTemps
  <2> HIDE DEF s0
  <2>3. Block.id \in DOMAIN s0.text /\ Block.id \in DOMAIN c.text
    BY <1>1, <2>2
  <2>4. Grows(s0, s1, J) /\ s1.names = s0.names
    <3>1. op # "phi"
      OBVIOUS
    <3> HIDE DEF op, args
    <3> QED BY <2>2, <2>3, <3>1, GrowsSay
  <2>5. Sane(s1) /\ Block.id \in DOMAIN s1.text
    BY <2>3, <2>4 DEF Grows
  <2> HIDE DEF s1
  <2>6. Grows(s1, d, J) /\ d.names = s1.names /\ Defines(d, Block.id, v)
    BY <2>1, <2>5, GrowsSay
  <2>7. v # NoName
    BY NamesApart
  <2> HIDE DEF I, J, v
  <2>10. Grows(c, s0, I)
    BY <1>2, <1>4, <2>2, <2>3, GrowsThrough
  <2>11. Grows(c, s1, I)
    BY <1>4, <2>3, <2>4, <2>10, GrowsThrough
  <2>12. Grows(c, d, I)
    BY <1>4, <2>3, <2>6, <2>11, GrowsThrough
  <2>13. i.id \in DOMAIN d.names /\ d.names[i.id] = Local(v)
    BY <1>1, <2>2, <2>4, <2>6
  <2>14. d.names[i.id][2] = v
    BY <2>13 DEF Local
  <2> QED BY <2>6, <2>7, <2>12, <2>13, <2>14 DEF Homed
<1>9. CASE i.op = "RET"
  <2>1. d = Say(s, NoName, "ret", <<X(1)>>)
    BY <1>3, <1>9 DEF EmitInstr
  <2> HIDE DEF d, s, X
  <2>2. Grows(s, d, J)
    BY <1>1, <2>1, GrowsSay
  <2> HIDE DEF I, J
  <2>3. Grows(c, d, I)
    BY <1>1, <1>2, <1>4, <2>2, GrowsThrough
  <2>4. i.op \notin Translated
    BY <1>3, <1>9 DEF Translated
  <2> QED BY <2>3, <2>4
<1>10. CASE i.op = "PASSTHROUGH"
  <2>1. PICK w : d = Named(s, i.id, w)
    BY <1>3, <1>10 DEF EmitInstr, Alias
  <2> HIDE DEF d, s, X
  <2>2. Grows(s, d, I)
    BY <1>1, <2>1, GrowsNamed
  <2> HIDE DEF I, J
  <2>3. Grows(c, d, I)
    BY <1>1, <1>2, <1>4, <2>2, GrowsThrough
  <2> QED BY <1>10, <2>3
<1> QED BY <1>3, <1>5, <1>6, <1>7, <1>8, <1>9, <1>10

LEMMA TermGrows ==
    ASSUME NEW c, Sane(c), Block.id \in DOMAIN c.text, NEW b, b.term.kind \in TermKind
    PROVE  Grows(c, EmitTerm(c, b), {})
<1> DEFINE d == EmitTerm(c, b)
           J == {}
<1>1. J \cup J = J
  OBVIOUS
<1> SUFFICES Grows(c, d, J)
  OBVIOUS
<1>2. CASE b.term.kind = "RET" /\ Returns(b)
  <2>1. d = c
    BY <1>2 DEF EmitTerm
  <2> HIDE DEF d, J
  <2> QED BY <2>1, GrowsNot
<1>3. CASE b.term.kind = "CJMP"
  <2> DEFINE s == NewTmp(c)
             e == Say(s, T(c.temps), "icmp ne", <<ValRef(c, b.term.condition), Num(0)>>)
  <2>1. d = Say(e, NoName, "br", <<Local(T(c.temps)), Label(b.term.target),
                                   Label(b.term.fallthrough)>>)
    BY <1>3 DEF EmitTerm
  <2> HIDE DEF d
  <2>2. Grows(c, s, J) /\ Sane(s) /\ Block.id \in DOMAIN s.text
    BY GrowsTmp, NewTmpTemps
  <2> HIDE DEF s
  <2>3. Grows(s, e, J)
    BY <2>2, GrowsSay
  <2>4. Sane(e) /\ Block.id \in DOMAIN e.text
    BY <2>2, <2>3 DEF Grows
  <2> HIDE DEF e
  <2>5. Grows(e, d, J)
    BY <2>1, <2>4, GrowsSay
  <2> HIDE DEF J
  <2>6. Grows(c, e, J)
    BY <1>1, <2>2, <2>3, GrowsThrough
  <2> QED BY <1>1, <2>5, <2>6, GrowsThrough
<1>4. CASE b.term.kind \in {"JMP", "FALLTHROUGH", "UNREACHABLE"}
           \/ (b.term.kind = "RET" /\ ~Returns(b))
  <2>1. PICK op, args : op # "phi" /\ d = Say(c, NoName, op, args)
    <3>1. CASE b.term.kind = "JMP"
      BY <3>1 DEF EmitTerm
    <3>2. CASE b.term.kind = "FALLTHROUGH"
      BY <3>2 DEF EmitTerm
    <3>3. CASE b.term.kind = "UNREACHABLE"
      BY <3>3 DEF EmitTerm
    <3>4. CASE b.term.kind = "RET" /\ ~Returns(b)
      BY <3>4 DEF EmitTerm
    <3> QED BY <1>4, <3>1, <3>2, <3>3, <3>4
  <2> HIDE DEF d
  <2> QED BY <2>1, GrowsSay
<1> HIDE DEF d, J
<1> QED BY <1>2, <1>3, <1>4 DEF TermKind

\* A phi adds one line.
PhiAdds(c, d, p) ==
    /\ Sane(d) /\ DOMAIN d.text = DOMAIN c.text
    /\ \A b \in DOMAIN c.text \ {Block.id} : d.text[b] = c.text[b]
    /\ d.text[Block.id] = Append(c.text[Block.id],
          [def |-> V(p.id), op |-> "phi",
           args |-> [b \in DOMAIN p.incoming |-> ValRef(d, p.incoming[b])]])
    /\ \A j \in DOMAIN c.names :
          j \in DOMAIN d.names /\ (j # p.id => d.names[j] = c.names[j])
    /\ p.id \in DOMAIN d.names /\ d.names[p.id] = Local(V(p.id))

LEMMA PhiGrows ==
    ASSUME NEW c, Sane(c), Block.id \in DOMAIN c.text, NEW p
    PROVE  PhiAdds(c, EmitPhi(c, p), p)
<1> DEFINE s == Named(c, p.id, Local(V(p.id)))
           args == [b \in DOMAIN p.incoming |-> ValRef(s, p.incoming[b])]
           d == EmitPhi(c, p)
<1>1. /\ Sane(s) /\ s.text = c.text /\ DOMAIN s.names = DOMAIN c.names \cup {p.id}
      /\ s.names[p.id] = Local(V(p.id))
      /\ \A j \in DOMAIN c.names \ {p.id} : s.names[j] = c.names[j]
  BY NamedNames
<1>2. d = Say(s, V(p.id), "phi", args)
  BY DEF EmitPhi
<1> HIDE DEF args
<1>3. Says(s, d, V(p.id), "phi", args)
  BY <1>1, <1>2, SaySays
<1> HIDE DEF d, s
<1>4. \A o : ValRef(s, o) = ValRef(d, o)
  BY <1>3 DEF ValRef, Says
<1>5. args = [b \in DOMAIN p.incoming |-> ValRef(d, p.incoming[b])]
  BY <1>4 DEF args
<1> QED BY <1>1, <1>3, <1>5 DEF PhiAdds, Says, d

-----------------------------------------------------------------------------
(* What has been written does what the source does *)

\* The values that are there, wherever control came from, at place q.
Avail(q) == {p \in Before(source, q) : Computes(source, p) /\ Dominates(source, p[1], q[1])}
PhiCount(a) == Len(source.blocks[a].phis)

\* Two runs that are about to do the instructions of block a.
Start(c, a, e, l) ==
    /\ Beside(e, l) /\ e.result = 0 /\ l.result = 0
    /\ Agree(c, Avail(<<a, PhiCount(a) + 1>>), e, l)

HasReturned(a, k) == \E j \in 1 .. k : source.blocks[a].instrs[j].op = "RET"

\* The text of block a does what the first k instructions do.
Sim(c, a, k) ==
    \A e, l : Start(c, a, e, l) =>
       \E f, m :
          /\ IrRuns(e, source.blocks[a].instrs, k, f)
          /\ Runs(l, c.text[source.blocks[a].id], m)
          /\ Beside(f, m) /\ Agree(c, Avail(<<a, PhiCount(a) + k + 1>>), f, m)
          /\ m.result = f.result
          /\ IF HasReturned(a, k) THEN m.here = Returned
             ELSE m.here = l.here /\ f.result = 0

Leads(b, e) ==
    CASE b.term.kind = "JMP" -> b.term.target
      [] b.term.kind = "FALLTHROUGH" -> b.term.fallthrough
      [] b.term.kind = "CJMP" ->
            IF OperandValue(e, b.term.condition) # 0 THEN b.term.target
            ELSE b.term.fallthrough
      [] b.term.kind = "RET" -> Returned
      [] b.term.kind = "UNREACHABLE" -> Trapped

\* The text of block a does what the block does, and leads where it leads.
BlockSim(c, a) ==
    \A e, l : Start(c, a, e, l) =>
       \E f, m :
          /\ IrRuns(e, source.blocks[a].instrs, Len(source.blocks[a].instrs), f)
          /\ Runs(l, c.text[source.blocks[a].id], m)
          /\ Beside(f, m) /\ Agree(c, Avail(AtEnd(source, a)), f, m)
          /\ m.result = f.result /\ m.here = Leads(source.blocks[a], f)
          /\ m.here \in {Returned, Trapped} \/ f.result = 0

\* x needs no line, or has it in a block that dominates block a.
HomeOf(c, x, a) ==
    \/ x[1] = "num" \/ x[2][1] = "sym"
    \/ /\ x[2] # NoName
       /\ \E h \in DOMAIN source.blocks :
             Dominates(source, h, a) /\ Defines(c, source.blocks[h].id, x[2])
Homes(c, S) ==
    \A p \in S : Computes(source, p) =>
       /\ Item(source, p).id \in DOMAIN c.names
       /\ HomeOf(c, c.names[Item(source, p).id], p[1])

\* What block b hands over to phi p.
Incoming(p, b) == Item(source, p).incoming[source.blocks[b].id]
PhiLine(c, p, line) ==
    /\ line.op = "phi" /\ line.def = V(Item(source, p).id)
    /\ \A b \in DOMAIN source.blocks : Follows(source, b, p[1]) =>
          line.args[source.blocks[b].id]
             = IF Incoming(p, b)[1] = "ref" THEN c.names[Incoming(p, b)[2]]
               ELSE Text(Incoming(p, b))
PhiTexts(c, S) ==
    \A p \in S : IsPhi(source, p) =>
       /\ p[2] \in DOMAIN c.text[source.blocks[p[1]].id]
       /\ PhiLine(c, p, c.text[source.blocks[p[1]].id][p[2]])
       /\ Item(source, p).id \in DOMAIN c.names
       /\ c.names[Item(source, p).id] = Local(V(Item(source, p).id))
PhisFirst(c) ==
    \A a \in DOMAIN source.blocks : \A k \in DOMAIN c.text[source.blocks[a].id] :
       c.text[source.blocks[a].id][k].op = "phi" => k <= PhiCount(a)

\* c extends to d in the block being emitted, and the names of S stay.
Extended(c, d, S) ==
    /\ DOMAIN d.text = DOMAIN c.text
    /\ \A b \in DOMAIN c.text \ {Block.id} : d.text[b] = c.text[b]
    /\ \A k \in DOMAIN c.text[Block.id] :
          k \in DOMAIN d.text[Block.id] /\ d.text[Block.id][k] = c.text[Block.id][k]
    /\ \A p \in S : Item(source, p).id \in DOMAIN c.names =>
          /\ Item(source, p).id \in DOMAIN d.names
          /\ d.names[Item(source, p).id] = c.names[Item(source, p).id]

LEMMA AgreeSame ==
    ASSUME NEW c, NEW d, NEW P,
           \A p \in P : /\ Item(source, p).id \in DOMAIN c.names
                        /\ Item(source, p).id \in DOMAIN d.names
                        /\ d.names[Item(source, p).id] = c.names[Item(source, p).id],
           NEW e, NEW m
    PROVE  Agree(c, P, e, m) <=> Agree(d, P, e, m)
BY DEF Agree

LEMMA ComputesHasValue ==
    ASSUME NEW s, NEW p, Computes(s, p)
    PROVE  HasValue(s, p)
BY BinopNames DEF Computes, HasValue, Translated

LEMMA ExtendedDefines ==
    ASSUME NEW c, NEW d, NEW S, Extended(c, d, S), NEW b \in DOMAIN c.text, NEW x,
           Defines(c, b, x)
    PROVE  Defines(d, b, x)
<1>1. CASE b = Block.id
  BY <1>1 DEF Extended, Defines
<1>2. CASE b # Block.id
  BY <1>2 DEF Extended, Defines
<1> QED BY <1>1, <1>2

LEMMA ExtendedHomes ==
    ASSUME NEW c, NEW d, NEW S, Extended(c, d, S), Homes(c, S),
           \A a \in DOMAIN source.blocks : source.blocks[a].id \in DOMAIN c.text
    PROVE  Homes(d, S)
<1> SUFFICES ASSUME NEW p \in S, Computes(source, p)
             PROVE  /\ Item(source, p).id \in DOMAIN d.names
                    /\ HomeOf(d, d.names[Item(source, p).id], p[1])
  BY DEF Homes
<1>1. /\ Item(source, p).id \in DOMAIN c.names
      /\ HomeOf(c, c.names[Item(source, p).id], p[1])
  BY DEF Homes
<1>2. /\ Item(source, p).id \in DOMAIN d.names
      /\ d.names[Item(source, p).id] = c.names[Item(source, p).id]
  BY <1>1 DEF Extended
<1> DEFINE x == c.names[Item(source, p).id]
<1>3. HomeOf(d, x, p[1])
  <2> HIDE DEF x
  <2>1. CASE x[1] = "num" \/ x[2][1] = "sym"
    BY <2>1 DEF HomeOf
  <2>2. CASE ~(x[1] = "num" \/ x[2][1] = "sym")
    <3>1. /\ x[2] # NoName
          /\ \E h \in DOMAIN source.blocks :
                Dominates(source, h, p[1]) /\ Defines(c, source.blocks[h].id, x[2])
      BY <1>1, <2>2 DEF HomeOf, x
    <3> QED BY <3>1, ExtendedDefines DEF HomeOf
  <2> QED BY <2>1, <2>2
<1> QED BY <1>2, <1>3

\* A phi refers to what has a name, or to nothing that needs one.
LEMMA ExtendedPhis ==
    ASSUME WellFormed(source), PhisLookBack(source),
           NEW S, \A p \in S : p \in Places(source) /\ Before(source, p) \subseteq S,
           NEW c, NEW d, Extended(c, d, S), PhiTexts(c, S),
           \A p \in S : HasValue(source, p) => Item(source, p).id \in DOMAIN c.names,
           \A a \in DOMAIN source.blocks : source.blocks[a].id \in DOMAIN c.text
    PROVE  PhiTexts(d, S)
<1> SUFFICES ASSUME NEW p \in S, IsPhi(source, p)
             PROVE  /\ p[2] \in DOMAIN d.text[source.blocks[p[1]].id]
                    /\ PhiLine(d, p, d.text[source.blocks[p[1]].id][p[2]])
                    /\ Item(source, p).id \in DOMAIN d.names
                    /\ d.names[Item(source, p).id] = Local(V(Item(source, p).id))
  BY DEF PhiTexts
<1> DEFINE id == source.blocks[p[1]].id
           line == c.text[id][p[2]]
<1>1. /\ p[2] \in DOMAIN c.text[id] /\ PhiLine(c, p, line)
      /\ Item(source, p).id \in DOMAIN c.names
      /\ c.names[Item(source, p).id] = Local(V(Item(source, p).id))
  BY DEF PhiTexts
<1>2. id \in DOMAIN c.text
  BY PlaceNumbers
<1>3. p[2] \in DOMAIN d.text[id] /\ d.text[id][p[2]] = line
  <2>1. CASE id = Block.id
    BY <2>1, <1>1 DEF Extended
  <2>2. CASE id # Block.id
    BY <2>2, <1>1, <1>2 DEF Extended
  <2> QED BY <2>1, <2>2
<1>4. /\ Item(source, p).id \in DOMAIN d.names
      /\ d.names[Item(source, p).id] = Local(V(Item(source, p).id))
  BY <1>1 DEF Extended
<1>5. PhiLine(d, p, line)
  <2> HIDE DEF line
  <2> SUFFICES ASSUME NEW b \in DOMAIN source.blocks, Follows(source, b, p[1]),
                      Incoming(p, b)[1] = "ref"
               PROVE  d.names[Incoming(p, b)[2]] = c.names[Incoming(p, b)[2]]
    BY <1>1 DEF PhiLine
  <2>1. RefersTo(source, Incoming(p, b), Before(source, p) \cup {p})
    BY DEF PhisLookBack, Incoming
  <2>2. PICK q \in Before(source, p) \cup {p} :
           HasValue(source, q) /\ Item(source, q).id = Incoming(p, b)[2]
    BY <2>1 DEF RefersTo
  <2>3. q \in S
    BY <2>2
  <2> QED BY <2>2, <2>3 DEF Extended
<1> QED BY <1>3, <1>4, <1>5

LEMMA ExtendedBlock ==
    ASSUME NEW S, NEW c, NEW d, Extended(c, d, S), Homes(c, S),
           NEW a, source.blocks[a].id \in DOMAIN c.text \ {Block.id},
           Avail(<<a, PhiCount(a) + 1>>) \subseteq S, Avail(AtEnd(source, a)) \subseteq S,
           BlockSim(c, a)
    PROVE  BlockSim(d, a)
<1>1. d.text[source.blocks[a].id] = c.text[source.blocks[a].id]
  BY DEF Extended
<1>2. ASSUME NEW q, Avail(q) \subseteq S, NEW e, NEW m
      PROVE  Agree(c, Avail(q), e, m) <=> Agree(d, Avail(q), e, m)
  <2>1. ASSUME NEW p \in Avail(q)
        PROVE  /\ Item(source, p).id \in DOMAIN c.names
               /\ Item(source, p).id \in DOMAIN d.names
               /\ d.names[Item(source, p).id] = c.names[Item(source, p).id]
    <3>1. p \in S /\ Computes(source, p)
      BY <1>2 DEF Avail
    <3> QED BY <3>1 DEF Homes, Extended
  <2> QED BY <2>1, AgreeSame
<1> SUFFICES ASSUME NEW e, NEW l, Start(d, a, e, l)
             PROVE  \E f, m :
                /\ IrRuns(e, source.blocks[a].instrs, Len(source.blocks[a].instrs), f)
                /\ Runs(l, d.text[source.blocks[a].id], m)
                /\ Beside(f, m) /\ Agree(d, Avail(AtEnd(source, a)), f, m)
                /\ m.result = f.result /\ m.here = Leads(source.blocks[a], f)
                /\ m.here \in {Returned, Trapped} \/ f.result = 0
  BY DEF BlockSim
<1>3. Start(c, a, e, l)
  BY <1>2 DEF Start
<1>4. PICK f, m :
         /\ IrRuns(e, source.blocks[a].instrs, Len(source.blocks[a].instrs), f)
         /\ Runs(l, c.text[source.blocks[a].id], m)
         /\ Beside(f, m) /\ Agree(c, Avail(AtEnd(source, a)), f, m)
         /\ m.result = f.result /\ m.here = Leads(source.blocks[a], f)
         /\ m.here \in {Returned, Trapped} \/ f.result = 0
  BY <1>3 DEF BlockSim
<1>5. Agree(d, Avail(AtEnd(source, a)), f, m)
  BY <1>2, <1>4
<1> QED BY <1>1, <1>4, <1>5

\* What an instruction or a condition refers to is there.
LEMMA GivenAt ==
    ASSUME WellFormed(source), 1 \in DOMAIN source.blocks,
           NEW q, NEW o, Available(source, o, q),
           RefersTo(source, o, Before(source, q))
    PROVE  Given(o, Avail(q))
<1>1. CASE o[1] # "ref"
  BY <1>1 DEF Available, Given
<1>2. CASE o[1] = "ref"
  <2>1. PICK p \in Places(source) :
           /\ Computes(source, p) /\ Item(source, p).id = o[2]
           /\ IF p[1] = q[1] THEN p[2] < q[2] ELSE Dominates(source, p[1], q[1])
    BY <1>2 DEF Available
  <2>2. PICK r \in Before(source, q) : Item(source, r).id = o[2]
    BY <1>2 DEF RefersTo
  <2>3. p = r
    <3>1. r \in Places(source)
      BY DEF Before
    <3> QED BY <3>1, <2>1, <2>2, ItemsDiffer
  <2>4. Dominates(source, p[1], q[1])
    BY <2>1, DominatesItself
  <2>5. p \in Avail(q)
    BY <2>1, <2>3, <2>4 DEF Avail
  <2> QED BY <1>2, <2>1, <2>5 DEF Given
<1> QED BY <1>1, <1>2

LEMMA HomesSteady ==
    ASSUME NEW c, NEW S, Homes(c, S), NEW p \in S, Computes(source, p),
           \A a \in DOMAIN source.blocks : source.blocks[a].id \in DOMAIN c.text
    PROVE  Steady(c.names[Item(source, p).id], Defs(c))
<1> DEFINE x == c.names[Item(source, p).id]
<1>1. HomeOf(c, x, p[1])
  BY DEF Homes
<1> HIDE DEF x
<1>2. CASE x[1] = "num" \/ x[2][1] = "sym"
  BY <1>2 DEF Steady, x
<1>3. CASE ~(x[1] = "num" \/ x[2][1] = "sym")
  <2>1. PICK h \in DOMAIN source.blocks : Defines(c, source.blocks[h].id, x[2])
    BY <1>1, <1>3 DEF HomeOf
  <2> DEFINE b == source.blocks[h].id
  <2>2. PICK k \in DOMAIN c.text[b] : c.text[b][k].def = x[2]
    BY <2>1 DEF Defines
  <2>3. b \in DOMAIN c.text
    OBVIOUS
  <2> HIDE DEF b
  <2> DEFINE r == <<b, k>>
  <2>4. r \in LinesOf(c) /\ LineOf(c, r).def = x[2]
    BY <2>2, <2>3, InLines DEF LineOf
  <2> HIDE DEF r
  <2>5. x[2] \in Defs(c)
    BY <2>4 DEF Defs
  <2> QED BY <2>5 DEF Steady, x
<1> QED BY <1>2, <1>3

\* Phis do nothing when control comes to them.
LEMMA RunsPhis ==
    ASSUME NEW lines, Len(lines) \in Nat, \A k \in 1 .. Len(lines) : lines[k].op = "phi",
           NEW l
    PROVE  Runs(l, lines, l)
<1> DEFINE r == [k \in 0 .. Len(lines) |-> l]
<1>1. r[0] = l /\ r[Len(lines)] = l
  OBVIOUS
<1>2. ASSUME NEW k \in 1 .. Len(lines)
      PROVE  r[k] = LlStep(r[k - 1], lines[k])
  <2>1. k \in 0 .. Len(lines) /\ k - 1 \in 0 .. Len(lines)
    OBVIOUS
  <2>2. r[k] = l /\ r[k - 1] = l
    BY <2>1
  <2>3. LlStep(l, lines[k]) = l
    BY DEF LlStep
  <2> QED BY <2>2, <2>3
<1> HIDE DEF r
<1> QED BY <1>1, <1>2 DEF Runs

LEMMA SimStart ==
    ASSUME WellFormed(source), NEW a \in DOMAIN source.blocks,
           NEW c, Len(c.text[source.blocks[a].id]) = PhiCount(a),
           NEW S, \A k \in 1 .. PhiCount(a) : <<a, k>> \in S, PhiTexts(c, S)
    PROVE  Sim(c, a, 0)
<1> DEFINE lines == c.text[source.blocks[a].id]
<1>1. PhiCount(a) \in Nat
  BY Shape DEF PhiCount
<1>2. ASSUME NEW k \in 1 .. PhiCount(a)
      PROVE  lines[k].op = "phi"
  <2> DEFINE p == <<a, k>>
  <2>1. p \in S /\ p[1] = a /\ p[2] = k
    OBVIOUS
  <2> HIDE DEF p, lines
  <2>2. IsPhi(source, p)
    BY <2>1 DEF IsPhi, PhiCount
  <2> QED BY <2>1, <2>2 DEF PhiTexts, PhiLine, lines
<1>3. Len(lines) = PhiCount(a)
  OBVIOUS
<1> HIDE DEF lines
<1>4. PhiCount(a) + 0 + 1 = PhiCount(a) + 1
  BY <1>1
<1>5. ~HasReturned(a, 0)
  BY DEF HasReturned
<1>6. \A l : Runs(l, lines, l)
  BY <1>1, <1>2, <1>3, RunsPhis
<1> SUFFICES ASSUME NEW e, NEW l, Start(c, a, e, l)
             PROVE  \E f, m :
                /\ IrRuns(e, source.blocks[a].instrs, 0, f)
                /\ Runs(l, c.text[source.blocks[a].id], m)
                /\ Beside(f, m) /\ Agree(c, Avail(<<a, PhiCount(a) + 0 + 1>>), f, m)
                /\ m.result = f.result
                /\ IF HasReturned(a, 0) THEN m.here = Returned
                   ELSE m.here = l.here /\ f.result = 0
  BY DEF Sim
<1>7. Agree(c, Avail(<<a, PhiCount(a) + 0 + 1>>), e, l)
  BY <1>4 DEF Start
<1>8. IrRuns(e, source.blocks[a].instrs, 0, e)
  BY IrRunsNothing
<1>9. Runs(l, c.text[source.blocks[a].id], l)
  BY <1>6 DEF lines
<1> QED BY <1>5, <1>7, <1>8, <1>9 DEF Start

LEMMA FirstBlock ==
    ASSUME WellFormed(source), NEW a \in DOMAIN source.blocks
    PROVE  1 \in DOMAIN source.blocks
<1>1. Len(source.blocks) \in Nat /\ DOMAIN source.blocks = 1 .. Len(source.blocks)
  BY Shape
<1> QED BY <1>1

\* The values after an item: it may be one more.
LEMMA AvailGrows ==
    ASSUME WellFormed(source), at \in DOMAIN source.blocks, n \in Nat \ {0},
           Here \in Places(source)
    PROVE  /\ Avail(Here) \subseteq Done /\ Here \notin Avail(Here)
           /\ Avail(<<at, n + 1>>)
                 = IF Computes(source, Here) THEN Avail(Here) \cup {Here} ELSE Avail(Here)
<1>1. /\ Before(source, <<at, n + 1>>) = Done \cup {Here}
      /\ Done \subseteq Places(source) /\ Here \notin Done
  BY DoneGrows
<1>2. Here[1] = at
  BY DEF Here
<1>3. 1 \in DOMAIN source.blocks
  BY FirstBlock
<1>4. Dominates(source, at, at)
  BY <1>3, DominatesItself
<1> DEFINE q == <<at, n + 1>>
<1>5. q[1] = at /\ Before(source, q) = Done \cup {Here}
  BY <1>1
<1> HIDE DEF q
<1>6. Avail(Here) = {p \in Done : Computes(source, p) /\ Dominates(source, p[1], at)}
  BY <1>2 DEF Avail, Done
<1>7. Avail(q) = {p \in Done \cup {Here} : Computes(source, p) /\ Dominates(source, p[1], at)}
  BY <1>5 DEF Avail
<1> HIDE DEF Here, Done
<1>8. Avail(q) = IF Computes(source, Here) THEN Avail(Here) \cup {Here} ELSE Avail(Here)
  BY <1>2, <1>4, <1>6, <1>7
<1> QED BY <1>1, <1>6, <1>8 DEF q

\* The values a step leaves alone go on agreeing.
LEMMA AgreeKept ==
    ASSUME NEW c, NEW d, NEW P, NEW i,
           \A p \in P : /\ Item(source, p).id # i.id
                        /\ Steady(c.names[Item(source, p).id], Defs(c))
                        /\ Item(source, p).id \in DOMAIN d.names
                        /\ d.names[Item(source, p).id] = c.names[Item(source, p).id],
           NEW f, DOMAIN f = RunFields, NEW m, Agree(c, P, f, m),
           NEW t, NEW X, Kept(m, t, X), X \cap Defs(c) = {}
    PROVE  Agree(d, P, IrStep(f, i), t)
<1> DEFINE g == IrStep(f, i)
<1>1. Kept(f, g, {i.id})
  BY IrKeeps
<1> HIDE DEF g
<1> SUFFICES ASSUME NEW p \in P
             PROVE  /\ Item(source, p).id \in DOMAIN d.names
                    /\ Item(source, p).id \in DOMAIN g.val
                    /\ g.val[Item(source, p).id] \in Word
                    /\ Worth(t, d.names[Item(source, p).id]) = g.val[Item(source, p).id]
  BY DEF Agree, g
<1> DEFINE id == Item(source, p).id
           x == c.names[id]
<1>2. /\ id \in DOMAIN f.val /\ f.val[id] \in Word /\ Worth(m, x) = f.val[id]
  BY DEF Agree
<1>3. id # i.id /\ Steady(x, Defs(c)) /\ id \in DOMAIN d.names /\ d.names[id] = x
  OBVIOUS
<1> HIDE DEF id, x
<1>4. id \in DOMAIN g.val /\ g.val[id] = f.val[id]
  BY <1>1, <1>2, <1>3 DEF Kept
<1>5. x[1] = "num" \/ x[2][1] = "sym" \/ x[2] \notin X
  BY <1>3 DEF Steady
<1>6. Worth(t, x) = Worth(m, x)
  BY <1>5, KeptWorth
<1> QED BY <1>2, <1>3, <1>4, <1>6 DEF id

\* The instruction that is written next has what it needs.
NextInstr(c, S, k) ==
    /\ WellFormed(source) /\ Meaningful(source) /\ at \in DOMAIN source.blocks
    /\ n \in Nat \ {0} /\ k = n - PhiCount(at) /\ k \in DOMAIN Block.instrs
    /\ S = Done /\ Written(c, S) /\ Homes(c, S)

LEMMA NextInstrFacts ==
    ASSUME NEW c, NEW S, NEW k, NextInstr(c, S, k)
    PROVE  LET i == Block.instrs[k]
               P == Avail(Here)
           IN /\ Here \in Places(source) /\ Item(source, Here) = i /\ ~IsPhi(source, Here)
              /\ k \in Nat \ {0} /\ k <= Len(Block.instrs)
              /\ PhiCount(at) \in Nat
              /\ <<at, PhiCount(at) + (k - 1) + 1>> = Here
              /\ Here[1] = at
              /\ i.op \in Translated \cup {"STORE", "RET", "JMP", "CJMP", "NOP"}
              /\ \A j \in 1 .. Arity(i.op) : Given(i.args[j], P)
              /\ P \subseteq S
              /\ \A p \in P : /\ Item(source, p).id # i.id
                              /\ Item(source, p).id \in DOMAIN c.names
                              /\ Steady(c.names[Item(source, p).id], Defs(c))
              /\ V(i.id) \notin Defs(c) /\ T(c.temps) \notin Defs(c)
              /\ Sane(c) /\ Block.id \in DOMAIN c.text
              /\ \A a \in DOMAIN source.blocks : source.blocks[a].id \in DOMAIN c.text
              /\ 1 \in DOMAIN source.blocks
              /\ i.id \notin IdsOf(S)
<1> DEFINE i == Block.instrs[k]
           P == Avail(Here)
<1> USE DEF NextInstr
<1>1. /\ Here \in Places(source) /\ ~IsPhi(source, Here) /\ Item(source, Here) = i
  BY HerePlace DEF PhiCount, Block
<1>2. /\ PhiCount(at) \in Nat /\ DOMAIN Block.instrs = 1 .. Len(Block.instrs)
      /\ Len(Block.instrs) \in Nat
  BY Shape DEF PhiCount, Block
<1>3. k \in Nat \ {0} /\ k <= Len(Block.instrs)
  BY <1>2
<1>4. PhiCount(at) + (k - 1) + 1 = n
  BY <1>2, <1>3
<1>5. 1 \in DOMAIN source.blocks
  BY FirstBlock
<1>6. Avail(Here) \subseteq Done /\ Here \notin Done /\ Done \subseteq Places(source)
  BY <1>1, AvailGrows, DoneGrows
<1>7. i.op \in Translated \cup {"STORE", "RET", "JMP", "CJMP", "NOP"}
      /\ \A j \in DOMAIN i.args : Available(source, i.args[j], Here)
  BY <1>1 DEF Meaningful
<1>8. /\ DOMAIN i.args = 1 .. Arity(i.op)
      /\ \A j \in DOMAIN i.args : RefersTo(source, i.args[j], Before(source, Here))
  BY <1>1 DEF WellFormed
<1>9. \A j \in 1 .. Arity(i.op) : Given(i.args[j], P)
  BY <1>5, <1>7, <1>8, GivenAt
<1>10. \A a \in DOMAIN source.blocks : source.blocks[a].id \in DOMAIN c.text
  <2> TAKE a \in DOMAIN source.blocks
  <2>1. source.blocks[a] \in ToSet(source.blocks)
    BY DEF ToSet
  <2>2. DOMAIN c.text = {b.id : b \in ToSet(source.blocks)}
    BY DEF Written
  <2> HIDE DEF NextInstr
  <2> QED BY <2>1, <2>2
<1>11. \A p \in S : Item(source, p).id # i.id
  BY <1>1, <1>6, ItemsDiffer
<1>12. i.id \notin IdsOf(S)
  BY <1>11 DEF IdsOf
<1>13. V(i.id) \notin Defs(c) /\ T(c.temps) \notin Defs(c)
  <2>1. Written(c, S) /\ c.temps \in Nat
    BY DEF Written, Sane
  <2>2. c.temps >= c.temps
    BY <2>1
  <2> DEFINE id == i.id
  <2>3. id \notin IdsOf(S)
    BY <1>12
  <2> HIDE DEF id
  <2>4. V(id) \notin Defs(c) /\ \A j \in Nat : j >= c.temps => T(j) \notin Defs(c)
    BY <2>1, <2>3, FreshNames
  <2> QED BY <2>1, <2>2, <2>4 DEF id
<1> HIDE DEF i
<1>14. \A p \in P : /\ Item(source, p).id # i.id
                    /\ Item(source, p).id \in DOMAIN c.names
                    /\ Steady(c.names[Item(source, p).id], Defs(c))
  <2> TAKE p \in P
  <2>1. p \in S /\ Computes(source, p)
    BY <1>6 DEF Avail
  <2> QED BY <1>10, <1>11, <2>1, HomesSteady DEF Homes
<1>15. Sane(c) /\ Block.id \in DOMAIN c.text
  BY <1>10 DEF Written, Block
<1>16. Here[1] = at
  BY DEF Here
<1> QED BY <1>1, <1>2, <1>3, <1>4, <1>5, <1>6, <1>7, <1>9, <1>10, <1>12, <1>13, <1>14,
           <1>15, <1>16 DEF Here, i

LEMMA InstrExtends ==
    ASSUME NEW c, NEW S, NEW k, NextInstr(c, S, k), NEW d, Grows(c, d, {Block.instrs[k].id})
    PROVE  Extended(c, d, S)
<1>1. Block.instrs[k].id \notin IdsOf(S)
  BY NextInstrFacts
<1>2. \A p \in S : Item(source, p).id # Block.instrs[k].id
  BY <1>1 DEF IdsOf
<1> QED BY <1>2 DEF Grows, Extended

\* What is written for the next instruction.
NextText(c, k) ==
    IF source.form = "cfg" /\ Block.instrs[k].op \in {"JMP", "CJMP"} THEN c
    ELSE EmitInstr(c, Block.instrs[k])

LEMMA NextTextGrows ==
    ASSUME NEW c, NEW S, NEW k, NextInstr(c, S, k)
    PROVE  LET d == NextText(c, k)
           IN /\ Grows(c, d, {Block.instrs[k].id}) /\ Extended(c, d, S)
              /\ Block.instrs[k].op \in Translated \ {"PASSTHROUGH"} =>
                    Homed(d, Block.instrs[k].id)
<1> DEFINE i == Block.instrs[k]
           d == NextText(c, k)
<1>1. Sane(c) /\ Block.id \in DOMAIN c.text
  BY NextInstrFacts
<1>2. Grows(c, d, {i.id}) /\ (i.op \in Translated \ {"PASSTHROUGH"} => Homed(d, i.id))
  <2>1. CASE source.form = "cfg" /\ i.op \in {"JMP", "CJMP"}
    <3>1. d = c
      BY <2>1 DEF NextText
    <3>2. i.op \notin Translated
      BY <2>1, BinopNames DEF Translated
    <3> HIDE DEF d, i
    <3> QED BY <1>1, <3>1, <3>2, GrowsNot
  <2>2. CASE ~(source.form = "cfg" /\ i.op \in {"JMP", "CJMP"})
    <3>1. d = EmitInstr(c, i)
      BY <2>2 DEF NextText
    <3> HIDE DEF d, i
    <3> QED BY <1>1, <3>1, InstrGrows
  <2> QED BY <2>1, <2>2
<1> HIDE DEF d
<1>3. Extended(c, d, S)
  BY <1>2, InstrExtends
<1> QED BY <1>2, <1>3 DEF d

LEMMA ReturnsAtTheEnd ==
    ASSUME NEW c, NEW S, NEW k, NextInstr(c, S, k)
    PROVE  /\ ~HasReturned(at, k - 1)
           /\ HasReturned(at, k) <=> Block.instrs[k].op = "RET"
<1>1. k \in Nat \ {0} /\ k <= Len(Block.instrs)
  BY NextInstrFacts
<1>2. DOMAIN Block.instrs = 1 .. Len(Block.instrs) /\ Len(Block.instrs) \in Nat
  BY Shape DEF NextInstr, Block
<1>3. ReturnsLast(Block)
  BY DEF NextInstr, Meaningful, Block
<1>4. \A j \in 1 .. k - 1 : Block.instrs[j].op # "RET"
  BY <1>1, <1>2, <1>3 DEF ReturnsLast
<1>5. ~HasReturned(at, k - 1)
  BY <1>4 DEF HasReturned, Block
<1>6. HasReturned(at, k) <=> Block.instrs[k].op = "RET"
  <2>1. \A j \in 1 .. k : j \in 1 .. k - 1 \/ j = k
    BY <1>1
  <2>2. k \in 1 .. k
    BY <1>1
  <2> QED BY <2>1, <2>2, <1>4 DEF HasReturned, Block
<1> QED BY <1>5, <1>6

\* The instruction does to the source's run what its lines do to the text's.
LEMMA NextMirrors ==
    ASSUME NEW c, NEW S, NEW k, NextInstr(c, S, k), NEW f, NEW m, Beside(f, m),
           Agree(c, Avail(Here), f, m)
    PROVE  \E t : Mirrors(c, NextText(c, k), Block.instrs[k], f, m,
                          IrStep(f, Block.instrs[k]), t)
<1> DEFINE i == Block.instrs[k]
           P == Avail(Here)
<1>1. /\ i.op \in Translated \cup {"STORE", "RET", "JMP", "CJMP", "NOP"}
      /\ \A j \in 1 .. Arity(i.op) : Given(i.args[j], P)
      /\ \A p \in P : /\ Item(source, p).id # i.id
                      /\ Steady(c.names[Item(source, p).id], Defs(c))
      /\ V(i.id) \notin Defs(c) /\ T(c.temps) \notin Defs(c)
      /\ Sane(c) /\ Block.id \in DOMAIN c.text
  BY NextInstrFacts
<1>2. CASE source.form = "cfg" /\ i.op \in {"JMP", "CJMP"}
  <2>1. NextText(c, k) = c
    BY <1>2 DEF NextText
  <2> QED BY <1>2, <2>1, SkipMirrors
<1>3. CASE ~(source.form = "cfg" /\ i.op \in {"JMP", "CJMP"})
  <2>1. NextText(c, k) = EmitInstr(c, i)
    BY <1>3 DEF NextText
  <2> HIDE DEF i, P
  <2>2. Agree(c, P, f, m)
    BY DEF P
  <2>3. \E t : Mirrors(c, EmitInstr(c, i), i, f, m, IrStep(f, i), t)
    BY <1>1, <2>2, InstrMirrors
  <2> QED BY <2>1, <2>3 DEF i
<1> QED BY <1>2, <1>3

LEMMA SimInstr ==
    ASSUME NEW c, NEW S, NEW k, NextInstr(c, S, k), Sim(c, at, k - 1)
    PROVE  Sim(NextText(c, k), at, k)
<1> DEFINE i == Block.instrs[k]
           P == Avail(Here)
           d == NextText(c, k)
           First == <<at, PhiCount(at) + 1>>
<1>1. /\ Here \in Places(source) /\ Item(source, Here) = i /\ ~IsPhi(source, Here)
      /\ k \in Nat \ {0} /\ k <= Len(Block.instrs)
      /\ PhiCount(at) \in Nat
      /\ <<at, PhiCount(at) + (k - 1) + 1>> = Here
      /\ P \subseteq S
      /\ \A p \in P : /\ Item(source, p).id # i.id
                      /\ Item(source, p).id \in DOMAIN c.names
                      /\ Steady(c.names[Item(source, p).id], Defs(c))
  BY NextInstrFacts
<1>2. Extended(c, d, S)
  BY NextTextGrows
<1> HIDE DEF d
<1>3. \A p \in S : Item(source, p).id \in DOMAIN c.names =>
         /\ Item(source, p).id \in DOMAIN d.names
         /\ d.names[Item(source, p).id] = c.names[Item(source, p).id]
  BY <1>2 DEF Extended
<1>4. PhiCount(at) + k + 1 = n + 1
  BY <1>1 DEF NextInstr
<1>5. Avail(<<at, PhiCount(at) + k + 1>>)
         = IF Computes(source, Here) THEN P \cup {Here} ELSE P
  BY <1>1, <1>4, AvailGrows DEF NextInstr
<1>6. Avail(First) \subseteq S
  <2>1. ASSUME NEW p \in Avail(First) PROVE p \in S
    <3>1. /\ p \in Places(source) /\ Precedes(p, First)
      BY DEF Avail, Before
    <3>2. p[1] \in Nat /\ p[2] \in Nat
      BY <3>1, PlaceNumbers DEF NextInstr
    <3>3. First[1] = at /\ First[2] = PhiCount(at) + 1 /\ Here[1] = at /\ Here[2] = n
      BY DEF Here
    <3>4. PhiCount(at) + 1 <= n /\ n \in Nat
      BY <1>1 DEF NextInstr
    <3> HIDE DEF First
    <3>5. Precedes(p, Here)
      BY <1>1, <3>1, <3>2, <3>3, <3>4 DEF Precedes
    <3> QED BY <3>1, <3>5 DEF NextInstr, Done, Before
  <2> QED BY <2>1
<1>7. ASSUME NEW e, NEW l, Start(d, at, e, l) PROVE Start(c, at, e, l)
  <2>1. \A p \in Avail(First) : /\ Item(source, p).id \in DOMAIN c.names
                                /\ Item(source, p).id \in DOMAIN d.names
                                /\ d.names[Item(source, p).id] = c.names[Item(source, p).id]
    <3> TAKE p \in Avail(First)
    <3>1. p \in S /\ Computes(source, p)
      BY <1>6 DEF Avail
    <3> QED BY <1>3, <3>1 DEF NextInstr, Homes
  <2>2. Agree(c, Avail(First), e, l) <=> Agree(d, Avail(First), e, l)
    BY <2>1, AgreeSame
  <2> QED BY <1>7, <2>2 DEF Start
<1>8. ~HasReturned(at, k - 1) /\ (HasReturned(at, k) <=> i.op = "RET")
  BY ReturnsAtTheEnd
<1> SUFFICES ASSUME NEW e, NEW l, Start(d, at, e, l)
             PROVE  \E f, m :
                /\ IrRuns(e, source.blocks[at].instrs, k, f)
                /\ Runs(l, d.text[source.blocks[at].id], m)
                /\ Beside(f, m) /\ Agree(d, Avail(<<at, PhiCount(at) + k + 1>>), f, m)
                /\ m.result = f.result
                /\ IF HasReturned(at, k) THEN m.here = Returned
                   ELSE m.here = l.here /\ f.result = 0
  BY DEF Sim, d
<1>9. PICK f, m :
         /\ IrRuns(e, source.blocks[at].instrs, k - 1, f)
         /\ Runs(l, c.text[source.blocks[at].id], m)
         /\ Beside(f, m) /\ Agree(c, Avail(<<at, PhiCount(at) + (k - 1) + 1>>), f, m)
         /\ m.result = f.result
         /\ IF HasReturned(at, k - 1) THEN m.here = Returned
            ELSE m.here = l.here /\ f.result = 0
  <2>1. Start(c, at, e, l)
    BY <1>7
  <2> QED BY <2>1 DEF Sim
<1>10. Agree(c, P, f, m)
  BY <1>1, <1>9
<1> DEFINE g == IrStep(f, i)
<1>11. PICK t : Mirrors(c, d, i, f, m, g, t)
  BY <1>9, <1>10, NextMirrors DEF d
<1> HIDE DEF P, First
<1>12. IrRuns(e, Block.instrs, k, g)
  <2>1. k - 1 \in Nat /\ (k - 1) + 1 = k
    BY <1>1
  <2>2. IrRuns(e, Block.instrs, k - 1, f)
    BY <1>9 DEF Block
  <2> DEFINE is == Block.instrs
             j == k - 1
  <2> HIDE DEF is, j, g
  <2>3. IrRuns(e, is, j + 1, IrStep(f, is[j + 1]))
    BY <2>1, <2>2, IrRunsMore DEF is, j
  <2>4. j + 1 = k
    BY <2>1 DEF j
  <2> QED BY <2>3, <2>4 DEF is, g
<1>13. Runs(l, d.text[Block.id], t)
  BY <1>9, <1>11 DEF Mirrors, Continues, Block
<1>14. Agree(d, P, g, t)
  <2>1. \A p \in P : /\ Item(source, p).id # i.id
                     /\ Steady(c.names[Item(source, p).id], Defs(c))
                     /\ Item(source, p).id \in DOMAIN d.names
                     /\ d.names[Item(source, p).id] = c.names[Item(source, p).id]
    BY <1>1, <1>3
  <2>2. PICK X : Kept(m, t, X) /\ X \cap Defs(c) = {}
    BY <1>11 DEF Mirrors
  <2>3. DOMAIN f = RunFields
    BY <1>9 DEF Beside, Running
  <2> HIDE DEF i
  <2> QED BY <1>10, <2>1, <2>2, <2>3, AgreeKept
<1> HIDE DEF g, i
<1>15. Agree(d, Avail(<<at, PhiCount(at) + k + 1>>), g, t)
  <2>1. CASE ~Computes(source, Here)
    BY <1>5, <1>14, <2>1
  <2>2. CASE Computes(source, Here)
    <3>1. i.op \in Translated
      BY <1>1, <2>2 DEF Computes
    <3>2. /\ i.id \in DOMAIN d.names
          /\ i.id \in DOMAIN g.val /\ g.val[i.id] \in Word
          /\ Worth(t, d.names[i.id]) = g.val[i.id]
      BY <1>11, <3>1 DEF Mirrors
    <3>3. Agree(d, P \cup {Here}, g, t)
      BY <1>1, <1>14, <3>2 DEF Agree
    <3> QED BY <1>5, <2>2, <3>3
  <2> QED BY <2>1, <2>2
<1>16. /\ t.result = g.result
       /\ IF HasReturned(at, k) THEN t.here = Returned
          ELSE t.here = l.here /\ g.result = 0
  BY <1>8, <1>9, <1>11 DEF Mirrors
<1>17. Beside(g, t)
  BY <1>11 DEF Mirrors
<1> QED BY <1>12, <1>13, <1>15, <1>16, <1>17 DEF Block

\* What a name is worth depends on lines of blocks that dominate.
LEMMA InstrHomes ==
    ASSUME NEW c, NEW S, NEW k, NextInstr(c, S, k)
    PROVE  Homes(NextText(c, k), S \cup {Here})
<1> DEFINE i == Block.instrs[k]
           d == NextText(c, k)
<1>1. /\ Here \in Places(source) /\ Item(source, Here) = i /\ ~IsPhi(source, Here)
      /\ Here[1] = at /\ 1 \in DOMAIN source.blocks
      /\ Sane(c) /\ Block.id \in DOMAIN c.text
      /\ \A a \in DOMAIN source.blocks : source.blocks[a].id \in DOMAIN c.text
      /\ Avail(Here) \subseteq S
  BY NextInstrFacts
<1>2. Extended(c, d, S) /\ (i.op \in Translated \ {"PASSTHROUGH"} => Homed(d, i.id))
  BY NextTextGrows
<1> HIDE DEF d
<1>3. Homes(d, S)
  BY <1>1, <1>2, ExtendedHomes DEF NextInstr
<1>4. at \in DOMAIN source.blocks /\ Dominates(source, at, at)
  BY <1>1, DominatesItself DEF NextInstr
<1> SUFFICES ASSUME i.op \in Translated
             PROVE  i.id \in DOMAIN d.names /\ HomeOf(d, d.names[i.id], at)
  BY <1>1, <1>3 DEF Homes, Computes, d
<1>5. CASE i.op # "PASSTHROUGH"
  <2>1. Homed(d, i.id)
    BY <1>2, <1>5
  <2> QED BY <1>4, <2>1 DEF Homed, HomeOf, Block
<1>6. CASE i.op = "PASSTHROUGH"
  <2> DEFINE o == i.args[1]
             s == Named(c, i.id, Local(V(i.id)))
  <2>1. d = Alias(s, i.id, o)
    <3>1. DOMAIN LlvmBinop = {"ADD", "SUB", "MUL", "XOR", "AND", "OR", "SHL", "SHR", "SAR"}
      BY BinopNames
    <3> QED BY <1>6, <3>1 DEF d, NextText, EmitInstr
  <2>2. Given(o, Avail(Here))
    <3>1. Arity(i.op) = 1
      BY <1>6 DEF Arity, Binary
    <3>2. \A j \in 1 .. Arity(i.op) : Given(i.args[j], Avail(Here))
      BY NextInstrFacts
    <3> QED BY <3>1, <3>2
  <2>3. Sane(s) /\ \A j \in DOMAIN c.names \ {i.id} : j \in DOMAIN s.names
                                                      /\ s.names[j] = c.names[j]
    BY <1>1, NamedNames
  <2> HIDE DEF s, o, i
  <2>4. CASE o[1] # "ref"
    <3>1. d = Named(s, i.id, Text(o))
      BY <2>1, <2>4 DEF Alias
    <3>2. i.id \in DOMAIN d.names /\ d.names[i.id] = Text(o)
      BY <2>3, <3>1, NamedNames
    <3>3. HomeOf(d, Text(o), at)
      <4>1. CASE o[1] = "const"
        <5>1. Text(o)[1] = "num"
          BY <4>1, TextIs DEF Num
        <5> QED BY <5>1 DEF HomeOf
      <4>2. CASE o[1] = "sym"
        <5>1. Text(o)[2][1] = "sym"
          BY <4>2, TextIs DEF Local
        <5> QED BY <5>1 DEF HomeOf
      <4> QED BY <2>2, <2>4, <4>1, <4>2 DEF Given
    <3> QED BY <3>2, <3>3
  <2>5. CASE o[1] = "ref"
    <3>1. PICK p \in Avail(Here) : Item(source, p).id = o[2]
      BY <2>2, <2>5 DEF Given
    <3>2. p \in S /\ Computes(source, p) /\ Dominates(source, p[1], at)
      BY <1>1, <3>1 DEF Avail
    <3>3. /\ o[2] \in DOMAIN c.names /\ HomeOf(c, c.names[o[2]], p[1])
      BY <3>1, <3>2 DEF NextInstr, Homes
    <3>4. o[2] # i.id
      <4>1. \A q \in Avail(Here) : Item(source, q).id # i.id
        BY NextInstrFacts DEF i
      <4> QED BY <3>1, <4>1
    <3> DEFINE x == c.names[o[2]]
    <3>5. d = Named(s, i.id, x)
      BY <2>1, <2>3, <2>5, <3>3, <3>4 DEF Alias
    <3>6. i.id \in DOMAIN d.names /\ d.names[i.id] = x
      BY <2>3, <3>5, NamedNames
    <3>7. HomeOf(d, x, at)
      <4>1. HomeOf(c, x, p[1])
        BY <3>3
      <4> HIDE DEF x
      <4>2. CASE x[1] = "num" \/ x[2][1] = "sym"
        BY <4>2 DEF HomeOf
      <4>3. CASE ~(x[1] = "num" \/ x[2][1] = "sym")
        <5>1. x[2] # NoName
          BY <4>1, <4>3 DEF HomeOf
        <5>2. PICK h \in DOMAIN source.blocks :
                 Dominates(source, h, p[1]) /\ Defines(c, source.blocks[h].id, x[2])
          BY <4>1, <4>3 DEF HomeOf
        <5>3. Dominates(source, h, at)
          BY <1>1, <3>2, <5>2, DominatesThrough
        <5>4. Defines(d, source.blocks[h].id, x[2])
          BY <1>1, <1>2, <5>2, ExtendedDefines
        <5> QED BY <5>1, <5>3, <5>4 DEF HomeOf
      <4> QED BY <4>2, <4>3
    <3> QED BY <3>6, <3>7
  <2> QED BY <2>4, <2>5
<1> QED BY <1>5, <1>6

\* A phi that is written next.
NextPhi(c, S) ==
    /\ WellFormed(source) /\ Meaningful(source) /\ PhisLookBack(source)
    /\ at \in DOMAIN source.blocks
    /\ n \in Nat \ {0} /\ n <= PhiCount(at) /\ Len(c.text[Block.id]) = n - 1
    /\ S = Done /\ Written(c, S) /\ Homes(c, S) /\ PhiTexts(c, S)

LEMMA NextPhiFacts ==
    ASSUME NEW c, NEW S, NextPhi(c, S)
    PROVE  LET p == Block.phis[n]
               d == EmitPhi(c, p)
           IN /\ Here \in Places(source) /\ Item(source, Here) = p /\ IsPhi(source, Here)
              /\ Here[1] = at /\ Here[2] = n /\ 1 \in DOMAIN source.blocks
              /\ Sane(c) /\ Block.id \in DOMAIN c.text
              /\ \A a \in DOMAIN source.blocks : source.blocks[a].id \in DOMAIN c.text
              /\ PhiAdds(c, d, p)
              /\ n \in DOMAIN d.text[Block.id] /\ DOMAIN d.text[Block.id] = 1 .. n
              /\ Len(d.text[Block.id]) = n
              /\ d.text[Block.id][n] = [def |-> V(p.id), op |-> "phi",
                    args |-> [b \in DOMAIN p.incoming |-> ValRef(d, p.incoming[b])]]
              /\ \A q \in S : Item(source, q).id # p.id
              /\ Extended(c, d, S)
<1> DEFINE p == Block.phis[n]
           d == EmitPhi(c, p)
           line == [def |-> V(p.id), op |-> "phi",
                    args |-> [b \in DOMAIN p.incoming |-> ValRef(d, p.incoming[b])]]
<1>1. /\ Here \in Places(source) /\ IsPhi(source, Here) /\ Item(source, Here) = p
  BY HerePlace DEF PhiCount, Block, NextPhi
<1>2. Here[1] = at /\ Here[2] = n
  BY DEF Here
<1>3. 1 \in DOMAIN source.blocks
  BY FirstBlock DEF NextPhi
<1>4. \A a \in DOMAIN source.blocks : source.blocks[a].id \in DOMAIN c.text
  <2> TAKE a \in DOMAIN source.blocks
  <2>1. source.blocks[a] \in ToSet(source.blocks)
    BY DEF ToSet
  <2>2. DOMAIN c.text = {b.id : b \in ToSet(source.blocks)}
    BY DEF NextPhi, Written
  <2> QED BY <2>1, <2>2
<1>5. Sane(c) /\ Block.id \in DOMAIN c.text
  BY <1>4 DEF NextPhi, Written, Block
<1> HIDE DEF p
<1>6. PhiAdds(c, d, p)
  BY <1>5, PhiGrows
<1> HIDE DEF d
<1>7. /\ d.text[Block.id] = Append(c.text[Block.id], line)
      /\ Len(c.text[Block.id]) = n - 1 /\ n \in Nat
      /\ c.text[Block.id] \in Seq(Range(c.text[Block.id]))
  BY <1>5, <1>6 DEF PhiAdds, NextPhi, Sane
<1>8. /\ DOMAIN c.text[Block.id] = 1 .. n - 1
      /\ Len(d.text[Block.id]) = n
      /\ DOMAIN d.text[Block.id] = 1 .. n
      /\ \A k \in 1 .. n - 1 : d.text[Block.id][k] = c.text[Block.id][k]
      /\ d.text[Block.id][n] = line
  <2> DEFINE t == c.text[Block.id]
             u == d.text[Block.id]
  <2> HIDE DEF t, u, line
  <2>1. u = Append(t, line) /\ Len(t) = n - 1 /\ n \in Nat /\ t \in Seq(Range(t))
    BY <1>7 DEF t, u
  <2>2. /\ DOMAIN t = 1 .. Len(t)
        /\ Len(u) = Len(t) + 1
        /\ DOMAIN u = 1 .. Len(t) + 1
        /\ \A k \in 1 .. Len(t) : u[k] = t[k]
        /\ u[Len(t) + 1] = line
    BY <2>1, AppendLine
  <2>3. Len(t) + 1 = n
    BY <2>1
  <2> QED BY <2>1, <2>2, <2>3 DEF t, u
<1>9. n \in DOMAIN d.text[Block.id]
  BY <1>8 DEF NextPhi
<1>10. \A q \in S : Item(source, q).id # p.id
  <2>1. Here \notin Done /\ Done \subseteq Places(source)
    BY <1>1, DoneGrows DEF NextPhi
  <2> QED BY <1>1, <2>1, ItemsDiffer DEF NextPhi
<1>11. Extended(c, d, S)
  <2>1. \A k \in DOMAIN c.text[Block.id] :
           k \in DOMAIN d.text[Block.id] /\ d.text[Block.id][k] = c.text[Block.id][k]
    BY <1>7, <1>8
  <2>2. \A q \in S : Item(source, q).id \in DOMAIN c.names =>
           /\ Item(source, q).id \in DOMAIN d.names
           /\ d.names[Item(source, q).id] = c.names[Item(source, q).id]
    BY <1>6, <1>10 DEF PhiAdds
  <2> QED BY <1>6, <2>1, <2>2 DEF PhiAdds, Extended
<1> QED BY <1>1, <1>2, <1>3, <1>4, <1>5, <1>6, <1>8, <1>9, <1>10, <1>11 DEF p, d

LEMMA PhiHomes ==
    ASSUME NEW c, NEW S, NextPhi(c, S)
    PROVE  Homes(EmitPhi(c, Block.phis[n]), S \cup {Here})
<1> DEFINE p == Block.phis[n]
           d == EmitPhi(c, p)
<1>1. /\ Item(source, Here) = p /\ Here[1] = at /\ 1 \in DOMAIN source.blocks
      /\ \A a \in DOMAIN source.blocks : source.blocks[a].id \in DOMAIN c.text
      /\ PhiAdds(c, d, p) /\ Extended(c, d, S)
      /\ n \in DOMAIN d.text[Block.id]
      /\ d.text[Block.id][n] = [def |-> V(p.id), op |-> "phi",
            args |-> [b \in DOMAIN p.incoming |-> ValRef(d, p.incoming[b])]]
  BY NextPhiFacts
<1> HIDE DEF d, p
<1>2. Homes(d, S)
  BY <1>1, ExtendedHomes DEF NextPhi
<1>3. at \in DOMAIN source.blocks /\ Dominates(source, at, at)
  BY <1>1, DominatesItself DEF NextPhi
<1>4. p.id \in DOMAIN d.names /\ d.names[p.id] = Local(V(p.id))
  BY <1>1 DEF PhiAdds
<1>5. d.text[Block.id][n].def = V(p.id)
  BY <1>1
<1>6. Defines(d, source.blocks[at].id, V(p.id)) /\ V(p.id) # NoName
  BY <1>1, <1>5, NamesApart DEF Defines, Block
<1>7. Local(V(p.id))[2] = V(p.id)
  BY DEF Local
<1>8. HomeOf(d, Local(V(p.id)), at)
  BY <1>3, <1>6, <1>7 DEF HomeOf
<1> QED BY <1>1, <1>2, <1>4, <1>8 DEF Homes, d, p

LEMMA PhiPhis ==
    ASSUME NEW c, NEW S, NextPhi(c, S)
    PROVE  PhiTexts(EmitPhi(c, Block.phis[n]), S \cup {Here})
<1> DEFINE p == Block.phis[n]
           d == EmitPhi(c, p)
           line == d.text[Block.id][n]
<1>1. /\ Here \in Places(source) /\ IsPhi(source, Here)
      /\ Item(source, Here) = p /\ Here[1] = at /\ Here[2] = n
      /\ \A a \in DOMAIN source.blocks : source.blocks[a].id \in DOMAIN c.text
      /\ PhiAdds(c, d, p) /\ Extended(c, d, S)
      /\ n \in DOMAIN d.text[Block.id]
      /\ line = [def |-> V(p.id), op |-> "phi",
                 args |-> [b \in DOMAIN p.incoming |-> ValRef(d, p.incoming[b])]]
  BY NextPhiFacts
<1> HIDE DEF d, p
<1>2. \A q \in S : HasValue(source, q) => Item(source, q).id \in DOMAIN c.names
  BY DEF NextPhi, Written
<1>3. ASSUME NEW q \in S PROVE q \in Places(source) /\ Before(source, q) \subseteq S
  <2>1. q \in Places(source) /\ Precedes(q, Here)
    BY DEF NextPhi, Done, Before
  <2>2. ASSUME NEW r \in Before(source, q) PROVE r \in S
    <3>1. r \in Places(source) /\ Precedes(r, q)
      BY DEF Before
    <3>2. /\ r[1] \in Nat /\ r[2] \in Nat /\ q[1] \in Nat /\ q[2] \in Nat
          /\ Here[1] \in Nat /\ Here[2] \in Nat
      BY <1>1, <2>1, <3>1, PlaceNumbers DEF NextPhi
    <3> HIDE DEF Here
    <3>3. Precedes(r, Here)
      BY <2>1, <3>1, <3>2 DEF Precedes
    <3> QED BY <3>1, <3>3 DEF NextPhi, Done, Before
  <2> QED BY <2>1, <2>2
<1>4. PhiTexts(d, S)
  BY <1>1, <1>2, <1>3, ExtendedPhis DEF NextPhi
<1>5. p.id \in DOMAIN d.names /\ d.names[p.id] = Local(V(p.id))
  BY <1>1 DEF PhiAdds
<1>6. line.op = "phi" /\ line.def = V(p.id)
      /\ line.args = [b \in DOMAIN p.incoming |-> ValRef(d, p.incoming[b])]
  BY <1>1
<1> HIDE DEF line
<1>7. ASSUME NEW b \in DOMAIN source.blocks, Follows(source, b, at)
      PROVE  line.args[source.blocks[b].id]
                = IF Incoming(Here, b)[1] = "ref" THEN d.names[Incoming(Here, b)[2]]
                  ELSE Text(Incoming(Here, b))
  <2> DEFINE o == Incoming(Here, b)
  <2>1. source.blocks[b].id \in DOMAIN p.incoming
    BY <1>1, <1>7 DEF NextPhi, Meaningful
  <2>2. line.args[source.blocks[b].id] = ValRef(d, o)
    BY <1>1, <1>6, <2>1 DEF Incoming
  <2>3. RefersTo(source, o, Before(source, Here) \cup {Here})
    BY <1>1, <1>7 DEF NextPhi, PhisLookBack, Incoming
  <2> HIDE DEF o
  <2>4. CASE o[1] # "ref"
    BY <2>2, <2>4 DEF ValRef, o
  <2>5. CASE o[1] = "ref"
    <3>1. PICK q \in Before(source, Here) \cup {Here} :
             HasValue(source, q) /\ Item(source, q).id = o[2]
      BY <2>3, <2>5 DEF RefersTo
    <3>2. o[2] \in DOMAIN d.names
      <4>1. CASE q = Here
        BY <1>1, <1>5, <3>1, <4>1
      <4>2. CASE q \in Before(source, Here)
        <5>1. q \in S
          BY <4>2 DEF NextPhi, Done
        <5> QED BY <1>1, <1>2, <3>1, <5>1 DEF Extended
      <4> QED BY <3>1, <4>1, <4>2
    <3> QED BY <2>2, <2>5, <3>2 DEF ValRef, o
  <2> QED BY <2>4, <2>5
<1>8. PhiLine(d, Here, line)
  BY <1>1, <1>6, <1>7 DEF PhiLine
<1>9. /\ Here[2] \in DOMAIN d.text[source.blocks[Here[1]].id]
      /\ PhiLine(d, Here, d.text[source.blocks[Here[1]].id][Here[2]])
  BY <1>1, <1>8 DEF Block, line
<1> QED BY <1>1, <1>4, <1>5, <1>9 DEF PhiTexts, d, p

-----------------------------------------------------------------------------
(* The end of a block *)

LEMMA LeadsIs ==
    ASSUME NEW b, NEW e
    PROVE  /\ b.term.kind = "JMP" => Leads(b, e) = b.term.target
           /\ b.term.kind = "FALLTHROUGH" => Leads(b, e) = b.term.fallthrough
           /\ b.term.kind = "CJMP" =>
                 Leads(b, e) = IF OperandValue(e, b.term.condition) # 0 THEN b.term.target
                               ELSE b.term.fallthrough
           /\ b.term.kind = "RET" => Leads(b, e) = Returned
           /\ b.term.kind = "UNREACHABLE" => Leads(b, e) = Trapped
BY DEF Leads

\* A line that is no definition changes where the run is and what it returns.
LEMMA EndingStep ==
    ASSUME NEW m, DOMAIN m = RunFields, NEW line,
           line.op \in {"br", "ret", "unreachable"}
    PROVE  LET t == LlStep(m, line)
           IN /\ Kept(m, t, {}) /\ t.mem = m.mem
              /\ line.op = "unreachable" => t.here = Trapped /\ t.result = m.result
              /\ line.op = "ret" => t.here = Returned /\ t.result = Worth(m, line.args[1])
              /\ line.op = "br" =>
                    /\ t.result = m.result
                    /\ t.here = line.args[IF Len(line.args) = 1 THEN 1
                                          ELSE IF Worth(m, line.args[1]) # 0 THEN 2
                                          ELSE 3][2]
<1> DEFINE t == LlStep(m, line)
           k == IF Len(line.args) = 1 THEN 1
                ELSE IF Worth(m, line.args[1]) # 0 THEN 2 ELSE 3
           w == Worth(m, line.args[1])
<1>1. CASE line.op = "unreachable"
  <2>1. t = [m EXCEPT !.here = Trapped]
    BY <1>1 DEF LlStep
  <2> HIDE DEF t
  <2>2. /\ DOMAIN t = RunFields /\ t.val = m.val /\ t.sym = m.sym /\ t.mem = m.mem
        /\ t.from = m.from /\ t.here = Trapped /\ t.result = m.result
    BY <2>1, KeptFields
  <2> QED BY <1>1, <2>2 DEF Kept, t
<1>2. CASE line.op = "ret"
  <2> DEFINE u == [m EXCEPT !.result = w]
  <2>1. t = [u EXCEPT !.here = Returned]
    <3>1. t = [m EXCEPT !.result = w, !.here = Returned]
      BY <1>2 DEF LlStep
    <3> HIDE DEF t, w
    <3> QED BY <3>1
  <2> HIDE DEF t, w
  <2>2. /\ DOMAIN u = RunFields /\ u.val = m.val /\ u.sym = m.sym /\ u.mem = m.mem
        /\ u.from = m.from /\ u.here = m.here /\ u.result = w
    BY KeptFields
  <2> HIDE DEF u
  <2>3. /\ DOMAIN t = RunFields /\ t.val = m.val /\ t.sym = m.sym /\ t.mem = m.mem
        /\ t.from = m.from /\ t.here = Returned /\ t.result = w
    BY <2>1, <2>2, KeptFields
  <2> QED BY <1>2, <2>3 DEF Kept, t, w
<1>3. CASE line.op = "br"
  <2> DEFINE h == line.args[k][2]
  <2>1. t = [m EXCEPT !.here = h]
    BY <1>3 DEF LlStep
  <2> HIDE DEF t, h
  <2>2. /\ DOMAIN t = RunFields /\ t.val = m.val /\ t.sym = m.sym /\ t.mem = m.mem
        /\ t.from = m.from /\ t.here = h /\ t.result = m.result
    BY <2>1, KeptFields
  <2> QED BY <1>3, <2>2 DEF Kept, t, h
<1> QED BY <1>1, <1>2, <1>3

LEMMA DefiningLine ==
    ASSUME NEW m, DOMAIN m = RunFields, NEW line,
           line.op \notin {"store", "ret", "unreachable", "br", "phi"}
    PROVE  LET t == LlStep(m, line)
           IN /\ Kept(m, t, {line.def})
              /\ t.mem = m.mem /\ t.here = m.here /\ t.result = m.result
              /\ line.def \in DOMAIN t.val /\ t.val[line.def] = Value(m, line)
<1> DEFINE t == LlStep(m, line)
           def == line.def
           v == Put(m.val, def, Value(m, line))
<1>1. t = [m EXCEPT !.val = v]
  BY DEF LlStep
<1> HIDE DEF t, v, def
<1>2. /\ DOMAIN t = RunFields /\ t.val = v /\ t.sym = m.sym /\ t.mem = m.mem
      /\ t.from = m.from /\ t.here = m.here /\ t.result = m.result
  BY <1>1, KeptFields
<1>3. /\ def \in DOMAIN v /\ v[def] = Value(m, line)
      /\ \A x : x # def => /\ x \in DOMAIN v <=> x \in DOMAIN m.val
                           /\ x \in DOMAIN m.val => v[x] = m.val[x]
  BY PutKept DEF v
<1>4. Kept(m, t, {def})
  BY <1>2, <1>3 DEF Kept
<1> QED BY <1>2, <1>3, <1>4 DEF t, def

\* The line that ends a block.
LEMMA EndMirrors ==
    ASSUME NEW c, Sane(c), Block.id \in DOMAIN c.text, NEW f, NEW m, Beside(f, m),
           NEW op, op \in {"br", "ret", "unreachable"}, NEW args
    PROVE  \E t :
              /\ Continues(c, Say(c, NoName, op, args), m, t)
              /\ Beside(f, t) /\ Kept(m, t, {})
              /\ op = "unreachable" => t.here = Trapped /\ t.result = m.result
              /\ op = "ret" => t.here = Returned /\ t.result = Worth(m, args[1])
              /\ op = "br" =>
                    /\ t.result = m.result
                    /\ t.here = args[IF Len(args) = 1 THEN 1
                                     ELSE IF Worth(m, args[1]) # 0 THEN 2 ELSE 3][2]
<1> DEFINE line == [def |-> NoName, op |-> op, args |-> args]
           d == Say(c, NoName, op, args)
           t == LlStep(m, line)
<1>1. line.op = op /\ line.args = args
  OBVIOUS
<1>2. Says(c, d, NoName, op, args)
  BY SaySays
<1>3. Continues(c, d, m, t)
  BY <1>2, SayContinues
<1>4. DOMAIN m = RunFields
  BY DEF Beside, Running
<1> HIDE DEF line, d
<1>5. /\ Kept(m, t, {}) /\ t.mem = m.mem
      /\ line.op = "unreachable" => t.here = Trapped /\ t.result = m.result
      /\ line.op = "ret" => t.here = Returned /\ t.result = Worth(m, line.args[1])
      /\ line.op = "br" =>
            /\ t.result = m.result
            /\ t.here = line.args[IF Len(line.args) = 1 THEN 1
                                  ELSE IF Worth(m, line.args[1]) # 0 THEN 2 ELSE 3][2]
  BY <1>1, <1>4, EndingStep
<1> HIDE DEF t
<1>6. Beside(f, t)
  BY <1>5 DEF Beside, Running, Kept
<1> QED BY <1>1, <1>3, <1>5, <1>6 DEF d

\* The terminator that is written next.
NextTerm(c, S) ==
    /\ WellFormed(source) /\ Meaningful(source) /\ at \in DOMAIN source.blocks
    /\ n = PhiCount(at) + Len(Block.instrs) + 1
    /\ S = Done /\ Written(c, S) /\ Homes(c, S)

LEMMA NextTermFacts ==
    ASSUME NEW c, NEW S, NextTerm(c, S)
    PROVE  LET o == Block.term.condition
           IN /\ Here = AtEnd(source, at) /\ n \in Nat \ {0}
              /\ 1 \in DOMAIN source.blocks
              /\ Sane(c) /\ Block.id \in DOMAIN c.text
              /\ \A a \in DOMAIN source.blocks : source.blocks[a].id \in DOMAIN c.text
              /\ Before(source, <<at + 1, 1>>) = S
              /\ Avail(Here) \subseteq S
              /\ \A p \in Avail(Here) : /\ Item(source, p).id \in DOMAIN c.names
                                        /\ Steady(c.names[Item(source, p).id], Defs(c))
              /\ Block.term.kind \in TermKind
              /\ Block.term.kind = "CJMP" => Given(o, Avail(Here))
              /\ T(c.temps) \notin Defs(c)
              /\ Extended(c, EmitTerm(c, Block), S)
<1> DEFINE o == Block.term.condition
<1>1. /\ PhiCount(at) \in Nat /\ Len(Block.instrs) \in Nat
  BY Shape DEF PhiCount, Block, NextTerm
<1>2. n \in Nat \ {0} /\ n > Len(Block.phis) + Len(Block.instrs)
  <2> DEFINE P == PhiCount(at)
             L == Len(Block.instrs)
  <2>1. P \in Nat /\ L \in Nat /\ n = P + L + 1 /\ P = Len(Block.phis)
    BY <1>1 DEF NextTerm, PhiCount, Block
  <2> HIDE DEF P, L
  <2>2. n \in Nat \ {0} /\ n > P + L
    BY <2>1
  <2> QED BY <2>1, <2>2 DEF L
<1>3. Here = AtEnd(source, at)
  <2> DEFINE f == Block.phis
             g == Block.instrs
             U == ToSet(f) \cup ToSet(g)
  <2>1. f \in Seq(ToSet(f)) /\ g \in Seq(ToSet(g))
    BY DEF WellFormed, NextTerm, Block
  <2> HIDE DEF f, g
  <2>2. f \in Seq(U) /\ g \in Seq(U)
    BY <2>1, SeqDef
  <2> HIDE DEF U
  <2>3. Len(f \o g) = Len(f) + Len(g)
    BY <2>2, ConcatProperties
  <2>4. Len(Items(Block)) = PhiCount(at) + Len(Block.instrs)
    BY <2>3 DEF f, g, Items, PhiCount, Block
  <2> QED BY <2>4 DEF Here, AtEnd, NextTerm, Block
<1>4. 1 \in DOMAIN source.blocks
  BY FirstBlock DEF NextTerm
<1>5. \A a \in DOMAIN source.blocks : source.blocks[a].id \in DOMAIN c.text
  <2> TAKE a \in DOMAIN source.blocks
  <2>1. source.blocks[a] \in ToSet(source.blocks)
    BY DEF ToSet
  <2>2. DOMAIN c.text = {b.id : b \in ToSet(source.blocks)}
    BY DEF NextTerm, Written
  <2> QED BY <2>1, <2>2
<1>6. Sane(c) /\ Block.id \in DOMAIN c.text
  BY <1>5 DEF NextTerm, Written, Block
<1>7. Before(source, <<at + 1, 1>>) = S
  BY <1>2, DoneStays DEF NextTerm
<1>8. Avail(Here) \subseteq S
  BY DEF Avail, NextTerm, Done
<1>9. \A p \in Avail(Here) : /\ Item(source, p).id \in DOMAIN c.names
                             /\ Steady(c.names[Item(source, p).id], Defs(c))
  <2> TAKE p \in Avail(Here)
  <2>1. p \in S /\ Computes(source, p)
    BY <1>8 DEF Avail
  <2> QED BY <1>5, <2>1, HomesSteady DEF Homes, NextTerm
<1>10. Block.term.kind \in TermKind
  BY DEF WellFormed, NextTerm, Block
<1>11. Block.term.kind = "CJMP" => Given(o, Avail(Here))
  <2> SUFFICES ASSUME Block.term.kind = "CJMP" PROVE Given(o, Avail(Here))
    OBVIOUS
  <2>1. RefersTo(source, o, Before(source, <<at + 1, 1>>))
    BY DEF WellFormed, NextTerm, Block
  <2>2. Available(source, o, Here)
    BY <1>3 DEF Meaningful, NextTerm, Block
  <2>3. RefersTo(source, o, Before(source, Here))
    BY <1>7, <2>1 DEF NextTerm, Done
  <2> HIDE DEF o
  <2> QED BY <1>4, <2>2, <2>3, GivenAt DEF NextTerm
<1>12. T(c.temps) \notin Defs(c)
  <2>1. Defs(c) \subseteq {NoName} \cup {T(k) : k \in 0 .. c.temps - 1}
                                   \cup {V(id) : id \in IdsOf(S)}
    BY DEF NextTerm, Written
  <2>2. c.temps \in Nat
    BY <1>6 DEF Sane
  <2>3. \A k \in 0 .. c.temps - 1 : T(k) # T(c.temps)
    <3> TAKE k \in 0 .. c.temps - 1
    <3>1. k # c.temps
      BY <2>2
    <3> QED BY <3>1, NamesApart
  <2> QED BY <2>1, <2>3, NamesApart
<1>13. Extended(c, EmitTerm(c, Block), S)
  <2> DEFINE d == EmitTerm(c, Block)
  <2>1. Grows(c, d, {})
    BY <1>6, <1>10, TermGrows
  <2> HIDE DEF d
  <2> QED BY <2>1 DEF Grows, Extended, d
<1> QED BY <1>2, <1>3, <1>4, <1>5, <1>6, <1>7, <1>8, <1>9, <1>10, <1>11, <1>12, <1>13

\* The terminator leads the text where it leads the source.
LEMMA TermMirrors ==
    ASSUME NEW c, NEW S, NextTerm(c, S), NEW f, NEW m, Beside(f, m),
           Agree(c, Avail(Here), f, m), m.result = f.result,
           IF HasReturned(at, Len(Block.instrs)) THEN m.here = Returned ELSE f.result = 0
    PROVE  \E t : /\ Continues(c, EmitTerm(c, Block), m, t) /\ Beside(f, t)
                  /\ \E X : Kept(m, t, X) /\ X \cap Defs(c) = {}
                  /\ t.result = f.result /\ t.here = Leads(Block, f)
                  /\ t.here \in {Returned, Trapped} \/ f.result = 0
<1> DEFINE d == EmitTerm(c, Block)
           R == HasReturned(at, Len(Block.instrs))
<1>1. Sane(c) /\ Block.id \in DOMAIN c.text /\ Block.term.kind \in TermKind
  BY NextTermFacts
<1>2. DOMAIN Block.instrs = 1 .. Len(Block.instrs)
  BY Shape DEF NextTerm, Block
<1>3. R <=> Returns(Block)
  <2>1. R <=> \E j \in DOMAIN Block.instrs : Block.instrs[j].op = "RET"
    BY <1>2 DEF HasReturned, Block
  <2> QED BY <2>1 DEF Returns, ToSet
<1>4. R => Block.term.kind = "RET"
  <2>1. ReturnsLast(Block)
    BY DEF NextTerm, Meaningful, Block
  <2> QED BY <1>2, <2>1 DEF HasReturned, ReturnsLast, Block
<1>5. {} \cap Defs(c) = {}
  OBVIOUS
<1> SUFFICES \E t : /\ Continues(c, d, m, t) /\ Beside(f, t)
                    /\ \E X : Kept(m, t, X) /\ X \cap Defs(c) = {}
                    /\ t.result = f.result /\ t.here = Leads(Block, f)
                    /\ t.here \in {Returned, Trapped} \/ f.result = 0
  OBVIOUS
<1> HIDE DEF R
<1>6. CASE Block.term.kind = "RET" /\ Returns(Block)
  <2>1. d = c
    BY <1>6 DEF EmitTerm
  <2>2. m.here = Returned
    BY <1>3, <1>6 DEF R
  <2>3. Leads(Block, f) = Returned
    BY <1>6, LeadsIs
  <2>4. Kept(m, m, {})
    BY DEF Kept, Beside, Running
  <2>5. Continues(c, c, m, m)
    BY SameContinues
  <2> HIDE DEF d
  <2> QED BY <1>5, <2>1, <2>2, <2>3, <2>4, <2>5
<1>7. CASE Block.term.kind = "RET" /\ ~Returns(Block)
  <2> DEFINE args == <<Num(0)>>
             op == "ret"
  <2>1. d = Say(c, NoName, op, args)
    BY <1>7 DEF EmitTerm
  <2>2. op = "ret" /\ Worth(m, args[1]) = 0
    BY NumWorth
  <2>3. f.result = 0
    BY <1>3, <1>7 DEF R
  <2>4. Leads(Block, f) = Returned
    BY <1>7, LeadsIs
  <2> HIDE DEF d, args, op
  <2>5. PICK t : /\ Continues(c, Say(c, NoName, op, args), m, t)
                 /\ Beside(f, t) /\ Kept(m, t, {})
                 /\ t.here = Returned /\ t.result = Worth(m, args[1])
    BY <1>1, <2>2, EndMirrors
  <2> QED BY <1>5, <2>1, <2>2, <2>3, <2>4, <2>5
<1>8. CASE Block.term.kind = "UNREACHABLE"
  <2> DEFINE args == <<>>
             op == "unreachable"
  <2>1. d = Say(c, NoName, op, args)
    BY <1>8 DEF EmitTerm
  <2>2. op = "unreachable"
    OBVIOUS
  <2>3. Leads(Block, f) = Trapped
    BY <1>8, LeadsIs
  <2> HIDE DEF d, args, op
  <2>4. PICK t : /\ Continues(c, Say(c, NoName, op, args), m, t)
                 /\ Beside(f, t) /\ Kept(m, t, {})
                 /\ t.here = Trapped /\ t.result = m.result
    BY <1>1, <2>2, EndMirrors
  <2> QED BY <1>5, <2>1, <2>3, <2>4
<1>9. CASE Block.term.kind \in {"JMP", "FALLTHROUGH"}
  <2> DEFINE to == IF Block.term.kind = "JMP" THEN Block.term.target
                   ELSE Block.term.fallthrough
             args == <<Label(to)>>
             op == "br"
  <2>1. d = Say(c, NoName, op, args)
    BY <1>9 DEF EmitTerm
  <2>2. Leads(Block, f) = to
    BY <1>9, LeadsIs
  <2>3. op = "br" /\ Len(args) = 1 /\ args[1][2] = to
    BY DEF Label
  <2>4. f.result = 0
    BY <1>4, <1>9 DEF R
  <2> HIDE DEF d, args, op, to
  <2>5. PICK t : /\ Continues(c, Say(c, NoName, op, args), m, t)
                 /\ Beside(f, t) /\ Kept(m, t, {})
                 /\ t.result = m.result
                 /\ t.here = args[IF Len(args) = 1 THEN 1
                                  ELSE IF Worth(m, args[1]) # 0 THEN 2 ELSE 3][2]
    BY <1>1, <2>3, EndMirrors
  <2> QED BY <1>5, <2>1, <2>2, <2>3, <2>4, <2>5
<1>10. CASE Block.term.kind = "CJMP"
  <2> DEFINE o == Block.term.condition
             x == ValRef(c, o)
             u == T(c.temps)
             s == NewTmp(c)
             op1 == "icmp ne"
             args1 == <<x, Num(0)>>
             s1 == Say(s, u, op1, args1)
             line1 == [def |-> u, op |-> op1, args |-> args1]
             t1 == LlStep(m, line1)
             op == "br"
             args == <<Local(u), Label(Block.term.target), Label(Block.term.fallthrough)>>
  <2>1. d = Say(s1, NoName, op, args)
    BY <1>10 DEF EmitTerm
  <2>2. /\ Sane(s) /\ s.text = c.text
    BY <1>1, NewTmpTemps
  <2>3. op = "br" /\ Len(args) = 3 /\ args[1] = Local(u)
        /\ args[2][2] = Block.term.target /\ args[3][2] = Block.term.fallthrough
    BY DEF Label
  <2>4. op1 = "icmp ne" /\ args1[1] = x /\ args1[2] = Num(0)
    OBVIOUS
  <2>5. line1.op = op1 /\ line1.args = args1 /\ line1.def = u
    OBVIOUS
  <2>6. Given(o, Avail(Here)) /\ u \notin Defs(c)
        /\ \A p \in Avail(Here) : /\ Item(source, p).id \in DOMAIN c.names
                                  /\ Steady(c.names[Item(source, p).id], Defs(c))
    BY <1>10, NextTermFacts
  <2>7. f.result = 0
    BY <1>4, <1>10 DEF R
  <2>8. Leads(Block, f) = IF OperandValue(f, o) # 0 THEN Block.term.target
                          ELSE Block.term.fallthrough
    BY <1>10, LeadsIs
  <2> HIDE DEF d, s, op, op1, args, args1, o
  <2>9. Worth(m, x) = OperandValue(f, o)
    BY <2>6, OperandWorth
  <2>10. Says(s, s1, u, op1, args1)
    BY <1>1, <2>2, SaySays
  <2> HIDE DEF s1
  <2>11. Continues(s, s1, m, t1)
    BY <1>1, <2>2, <2>10, SayContinues
  <2>12. Sane(s1) /\ Block.id \in DOMAIN s1.text
    BY <1>1, <2>2, <2>10 DEF Says
  <2>13. op1 \notin {"store", "ret", "unreachable", "br", "phi"}
    BY <2>4
  <2> HIDE DEF line1, u
  <2>14. /\ Kept(m, t1, {u})
         /\ t1.mem = m.mem /\ t1.here = m.here /\ t1.result = m.result
         /\ u \in DOMAIN t1.val /\ t1.val[u] = Value(m, line1)
    <3>1. DOMAIN m = RunFields
      BY DEF Beside, Running
    <3> QED BY <2>5, <2>13, <3>1, DefiningLine
  <2> HIDE DEF t1
  <2>15. Value(m, line1) = IF Worth(m, x) # 0 THEN 1 ELSE 0
    <3>1. Value(m, line1) = IF Worth(m, line1.args[1]) # Worth(m, line1.args[2])
                            THEN 1 ELSE 0
      BY <2>4, <2>5, OtherValue
    <3>2. line1.args[1] = x /\ line1.args[2] = Num(0)
      BY <2>4, <2>5
    <3> QED BY <3>1, <3>2, NumWorth
  <2>16. Worth(t1, Local(u)) = IF Worth(m, x) # 0 THEN 1 ELSE 0
    <3>1. u[1] # "sym"
      BY NamesAreNoSymbols DEF u
    <3> QED BY <2>14, <2>15, <3>1, LocalWorth
  <2>17. Beside(f, t1)
    BY <2>14 DEF Beside, Running, Kept
  <2>18. PICK t : /\ Continues(s1, Say(s1, NoName, op, args), t1, t)
                  /\ Beside(f, t) /\ Kept(t1, t, {})
                  /\ t.result = t1.result
                  /\ t.here = args[IF Len(args) = 1 THEN 1
                                   ELSE IF Worth(t1, args[1]) # 0 THEN 2 ELSE 3][2]
    BY <2>3, <2>12, <2>17, EndMirrors
  <2>19. Continues(c, d, m, t)
    <3>1. Continues(c, s, m, m)
      BY <2>2, SameContinues
    <3>2. Continues(c, s1, m, t1)
      BY <2>11, <3>1, ContinuesThrough
    <3> QED BY <2>1, <2>18, <3>2, ContinuesThrough
  <2>20. Kept(m, t, {u} \cup {})
    BY <2>14, <2>18, KeptThrough
  <2>21. ({u} \cup {}) \cap Defs(c) = {}
    BY <2>6
  <2> HIDE DEF x
  <2>22. t.here = Leads(Block, f)
    <3>1. CASE OperandValue(f, o) # 0
      <4>1. Worth(t1, args[1]) = 1
        BY <2>3, <2>9, <2>16, <3>1
      <4>2. t.here = args[2][2]
        BY <2>3, <2>18, <4>1
      <4> QED BY <2>3, <2>8, <3>1, <4>2
    <3>2. CASE OperandValue(f, o) = 0
      <4>1. Worth(t1, args[1]) = 0
        BY <2>3, <2>9, <2>16, <3>2
      <4>2. t.here = args[3][2]
        BY <2>3, <2>18, <4>1
      <4> QED BY <2>3, <2>8, <3>2, <4>2
    <3> QED BY <3>1, <3>2
  <2>23. t.result = f.result
    BY <2>14, <2>18
  <2> QED BY <2>7, <2>18, <2>19, <2>20, <2>21, <2>22, <2>23
<1> HIDE DEF d
<1> QED BY <1>1, <1>6, <1>7, <1>8, <1>9, <1>10 DEF TermKind

\* A block that is written does what it did.
LEMMA SimTerm ==
    ASSUME NEW c, NEW S, NextTerm(c, S), Sim(c, at, Len(Block.instrs))
    PROVE  BlockSim(EmitTerm(c, Block), at)
<1> DEFINE d == EmitTerm(c, Block)
           L == Len(Block.instrs)
           First == <<at, PhiCount(at) + 1>>
           P == Avail(Here)
<1>1. /\ Here = AtEnd(source, at) /\ n \in Nat \ {0}
      /\ P \subseteq S /\ Extended(c, d, S)
      /\ \A p \in P : /\ Item(source, p).id \in DOMAIN c.names
                      /\ Steady(c.names[Item(source, p).id], Defs(c))
  BY NextTermFacts
<1> HIDE DEF d
<1>2. PhiCount(at) \in Nat /\ L \in Nat /\ n = PhiCount(at) + L + 1
  BY Shape DEF PhiCount, Block, NextTerm
<1>3. <<at, PhiCount(at) + L + 1>> = Here
  BY <1>2 DEF Here
<1>4. Avail(First) \subseteq S
  <2>1. ASSUME NEW p \in Avail(First) PROVE p \in S
    <3>1. /\ p \in Places(source) /\ Precedes(p, First)
      BY DEF Avail, Before
    <3>2. p[1] \in Nat /\ p[2] \in Nat
      BY <3>1, PlaceNumbers DEF NextTerm
    <3>3. First[1] = at /\ First[2] = PhiCount(at) + 1 /\ Here[1] = at /\ Here[2] = n
      BY DEF Here
    <3> HIDE DEF L
    <3>4. PhiCount(at) + 1 <= n /\ n \in Nat /\ PhiCount(at) \in Nat
      BY <1>2
    <3> HIDE DEF First
    <3>5. Precedes(p, Here)
      BY <3>1, <3>2, <3>3, <3>4 DEF Precedes
    <3> QED BY <3>1, <3>5 DEF NextTerm, Done, Before
  <2> QED BY <2>1
<1>5. ASSUME NEW Q, Q \subseteq S, \A p \in Q : Computes(source, p), NEW e, NEW l
      PROVE  Agree(c, Q, e, l) <=> Agree(d, Q, e, l)
  <2>1. \A p \in Q : /\ Item(source, p).id \in DOMAIN c.names
                     /\ Item(source, p).id \in DOMAIN d.names
                     /\ d.names[Item(source, p).id] = c.names[Item(source, p).id]
    <3> TAKE p \in Q
    <3>1. p \in S /\ Computes(source, p)
      BY <1>5
    <3> QED BY <1>1, <3>1 DEF NextTerm, Homes, Extended
  <2> QED BY <2>1, AgreeSame
<1>6. ASSUME NEW e, NEW l, Start(d, at, e, l) PROVE Start(c, at, e, l)
  <2>1. \A p \in Avail(First) : Computes(source, p)
    BY DEF Avail
  <2>2. Agree(c, Avail(First), e, l) <=> Agree(d, Avail(First), e, l)
    BY <1>4, <1>5, <2>1
  <2> QED BY <1>6, <2>2 DEF Start
<1> SUFFICES ASSUME NEW e, NEW l, Start(d, at, e, l)
             PROVE  \E f, m :
                /\ IrRuns(e, source.blocks[at].instrs, Len(source.blocks[at].instrs), f)
                /\ Runs(l, d.text[source.blocks[at].id], m)
                /\ Beside(f, m) /\ Agree(d, Avail(AtEnd(source, at)), f, m)
                /\ m.result = f.result /\ m.here = Leads(source.blocks[at], f)
                /\ m.here \in {Returned, Trapped} \/ f.result = 0
  BY DEF BlockSim, d
<1>7. PICK f, m :
         /\ IrRuns(e, source.blocks[at].instrs, L, f)
         /\ Runs(l, c.text[source.blocks[at].id], m)
         /\ Beside(f, m) /\ Agree(c, Avail(<<at, PhiCount(at) + L + 1>>), f, m)
         /\ m.result = f.result
         /\ IF HasReturned(at, L) THEN m.here = Returned
            ELSE m.here = l.here /\ f.result = 0
  <2>1. Start(c, at, e, l)
    BY <1>6
  <2> QED BY <2>1 DEF Sim
<1>8. Agree(c, P, f, m)
  BY <1>3, <1>7
<1>9. IF HasReturned(at, L) THEN m.here = Returned ELSE f.result = 0
  BY <1>7
<1>10. PICK t : /\ Continues(c, d, m, t) /\ Beside(f, t)
                /\ \E X : Kept(m, t, X) /\ X \cap Defs(c) = {}
                /\ t.result = f.result /\ t.here = Leads(Block, f)
                /\ t.here \in {Returned, Trapped} \/ f.result = 0
  BY <1>7, <1>8, <1>9, TermMirrors DEF d
<1>11. Runs(l, d.text[Block.id], t)
  BY <1>7, <1>10 DEF Continues, Block
<1>12. Agree(d, P, f, t)
  <2>1. PICK X : Kept(m, t, X) /\ X \cap Defs(c) = {}
    BY <1>10
  <2>2. Agree(c, P, f, t)
    <3> SUFFICES ASSUME NEW p \in P
                 PROVE  /\ Item(source, p).id \in DOMAIN c.names
                        /\ Item(source, p).id \in DOMAIN f.val
                        /\ f.val[Item(source, p).id] \in Word
                        /\ Worth(t, c.names[Item(source, p).id]) = f.val[Item(source, p).id]
      BY DEF Agree
    <3> DEFINE id == Item(source, p).id
               x == c.names[id]
    <3>1. /\ id \in DOMAIN c.names
          /\ id \in DOMAIN f.val /\ f.val[id] \in Word /\ Worth(m, x) = f.val[id]
      BY <1>8 DEF Agree
    <3>2. Steady(x, Defs(c))
      BY <1>1
    <3> HIDE DEF id, x
    <3>3. x[1] = "num" \/ x[2][1] = "sym" \/ x[2] \notin X
      BY <2>1, <3>2 DEF Steady
    <3>4. Worth(t, x) = Worth(m, x)
      BY <2>1, <3>3, KeptWorth
    <3> QED BY <3>1, <3>4 DEF id, x
  <2>3. \A p \in P : Computes(source, p)
    BY DEF Avail
  <2> HIDE DEF P
  <2> QED BY <1>1, <1>5, <2>2, <2>3
<1> HIDE DEF P
<1>13. Agree(d, Avail(AtEnd(source, at)), f, t)
  BY <1>1, <1>12 DEF P
<1>14. t.here = Leads(source.blocks[at], f)
  BY <1>10 DEF Block
<1> HIDE DEF First
<1> QED BY <1>7, <1>10, <1>11, <1>13, <1>14 DEF Block

-----------------------------------------------------------------------------
(* All blocks are written *)

\* The blocks before a do what they should, and those after it are empty.
BeforeAfter(c, a) ==
    \A b \in DOMAIN source.blocks :
       /\ b < a => BlockSim(c, b)
       /\ b > a => c.text[source.blocks[b].id] = <<>>

\* What is there when the item at <<a, j>> comes next.
EmittedSo(c, a, j) ==
    /\ Homes(c, Before(source, <<a, j>>)) /\ PhiTexts(c, Before(source, <<a, j>>))
    /\ PhisFirst(c) /\ BeforeAfter(c, a)
    /\ a \in DOMAIN source.blocks =>
          /\ j <= PhiCount(a) + Len(source.blocks[a].instrs) + 1
          /\ j <= PhiCount(a) + 1 => Len(c.text[source.blocks[a].id]) = j - 1
          /\ j > PhiCount(a) => Sim(c, a, j - 1 - PhiCount(a))

LEMMA AvailDone ==
    ASSUME WellFormed(source), at \in DOMAIN source.blocks, n \in Nat,
           NEW b \in DOMAIN source.blocks, b < at
    PROVE  Avail(<<b, PhiCount(b) + 1>>) \subseteq Done /\ Avail(AtEnd(source, b)) \subseteq Done
<1>1. at \in Nat /\ b \in Nat
  <2>1. Len(source.blocks) \in Nat /\ DOMAIN source.blocks = 1 .. Len(source.blocks)
    BY Shape
  <2> QED BY <2>1
<1>2. ASSUME NEW j, NEW p \in Avail(<<b, j>>) PROVE p \in Done
  <2>1. p \in Places(source) /\ (p[1] < b \/ p[1] = b)
    BY <1>2 DEF Avail, Before, Precedes
  <2>2. p[1] \in Nat
    BY <2>1, PlaceNumbers
  <2>3. p[1] < at
    BY <1>1, <2>1, <2>2
  <2> QED BY <2>1, <2>3 DEF Done, Before, Precedes, Here
<1> QED BY <1>2 DEF AtEnd

LEMMA OtherBlocks ==
    ASSUME WellFormed(source), at \in DOMAIN source.blocks,
           NEW b \in DOMAIN source.blocks, b # at
    PROVE  source.blocks[b].id # Block.id
BY DEF WellFormed, Block

LEMMA BeforeAfterStays ==
    ASSUME WellFormed(source), at \in DOMAIN source.blocks, n \in Nat,
           NEW c, NEW d, Extended(c, d, Done), Homes(c, Done),
           \A b \in DOMAIN source.blocks : source.blocks[b].id \in DOMAIN c.text,
           BeforeAfter(c, at)
    PROVE  BeforeAfter(d, at)
<1>1. at \in Nat /\ \A b \in DOMAIN source.blocks : b \in Nat
  <2>1. Len(source.blocks) \in Nat /\ DOMAIN source.blocks = 1 .. Len(source.blocks)
    BY Shape
  <2> QED BY <2>1
<1> SUFFICES ASSUME NEW b \in DOMAIN source.blocks, b # at
             PROVE  /\ b < at => BlockSim(d, b)
                    /\ b > at => d.text[source.blocks[b].id] = <<>>
  BY <1>1 DEF BeforeAfter
<1>2. source.blocks[b].id \in DOMAIN c.text \ {Block.id}
  BY OtherBlocks
<1>3. d.text[source.blocks[b].id] = c.text[source.blocks[b].id]
  BY <1>2 DEF Extended
<1>4. ASSUME b < at PROVE BlockSim(d, b)
  <2>1. Avail(<<b, PhiCount(b) + 1>>) \subseteq Done /\ Avail(AtEnd(source, b)) \subseteq Done
    BY <1>4, AvailDone
  <2>2. BlockSim(c, b)
    BY <1>4 DEF BeforeAfter
  <2> DEFINE S == Done
  <2> HIDE DEF S
  <2>3. Extended(c, d, S) /\ Homes(c, S)
    BY DEF S
  <2>4. Avail(<<b, PhiCount(b) + 1>>) \subseteq S /\ Avail(AtEnd(source, b)) \subseteq S
    BY <2>1 DEF S
  <2> QED BY <1>2, <2>2, <2>3, <2>4, ExtendedBlock
<1> QED BY <1>3, <1>4 DEF BeforeAfter

\* The other blocks stay without phis where they had none.
LEMMA PhisFirstStays ==
    ASSUME WellFormed(source), at \in DOMAIN source.blocks,
           NEW c, NEW d, PhisFirst(c),
           \A b \in DOMAIN source.blocks : source.blocks[b].id \in DOMAIN c.text,
           \A b \in DOMAIN c.text \ {Block.id} : d.text[b] = c.text[b],
           \A k \in DOMAIN d.text[Block.id] :
              d.text[Block.id][k].op = "phi" => k <= PhiCount(at)
    PROVE  PhisFirst(d)
<1> SUFFICES ASSUME NEW a \in DOMAIN source.blocks,
                    NEW k \in DOMAIN d.text[source.blocks[a].id],
                    d.text[source.blocks[a].id][k].op = "phi"
             PROVE  k <= PhiCount(a)
  BY DEF PhisFirst
<1>1. CASE a = at
  BY <1>1 DEF Block
<1>2. CASE a # at
  <2>1. source.blocks[a].id \in DOMAIN c.text \ {Block.id}
    BY <1>2, OtherBlocks
  <2>2. d.text[source.blocks[a].id] = c.text[source.blocks[a].id]
    BY <2>1
  <2> QED BY <2>2 DEF PhisFirst
<1> QED BY <1>1, <1>2

\* What is written, where a CFG is meant to be run.
Emission ==
    /\ NameInv /\ Emitting /\ Meaningful(source) /\ PhisLookBack(source)
    /\ EmittedSo(out, at, n)

LEMMA EmissionFacts ==
    ASSUME Emission
    PROVE  /\ WellFormed(source) /\ at \in DOMAIN source.blocks /\ at \in Nat
           /\ n \in Nat \ {0} /\ Written(out, Done)
           /\ Block.id \in DOMAIN out.text
           /\ Homes(out, Done) /\ PhiTexts(out, Done) /\ PhisFirst(out)
           /\ BeforeAfter(out, at)
           /\ \A b \in DOMAIN source.blocks : source.blocks[b].id \in DOMAIN out.text
           /\ n <= PhiCount(at) + Len(Block.instrs) + 1
           /\ n <= PhiCount(at) + 1 => Len(out.text[Block.id]) = n - 1
           /\ n > PhiCount(at) => Sim(out, at, n - 1 - PhiCount(at))
           /\ PhiCount(at) \in Nat /\ Len(Block.instrs) \in Nat
           /\ DOMAIN Block.instrs = 1 .. Len(Block.instrs)
           /\ Len(source.blocks) \in Nat /\ DOMAIN source.blocks = 1 .. Len(source.blocks)
           /\ source.blocks[at] = Block /\ Len(Block.phis) = PhiCount(at)
<1>1. /\ WellFormed(source) /\ at \in DOMAIN source.blocks /\ at \in Nat
      /\ n \in Nat \ {0} /\ Written(out, Done) /\ Block.id \in DOMAIN out.text
  BY Emitted DEF Emission, NameInv
<1>2. \A b \in DOMAIN source.blocks : source.blocks[b].id \in DOMAIN out.text
  <2> TAKE b \in DOMAIN source.blocks
  <2>1. source.blocks[b] \in ToSet(source.blocks)
    BY DEF ToSet
  <2>2. DOMAIN out.text = {x.id : x \in ToSet(source.blocks)}
    BY <1>1 DEF Written
  <2> QED BY <2>1, <2>2
<1>3. /\ Homes(out, Done) /\ PhiTexts(out, Done) /\ PhisFirst(out) /\ BeforeAfter(out, at)
  BY DEF Emission, EmittedSo, Done, Here
<1>4. /\ n <= PhiCount(at) + Len(Block.instrs) + 1
      /\ n <= PhiCount(at) + 1 => Len(out.text[Block.id]) = n - 1
      /\ n > PhiCount(at) => Sim(out, at, n - 1 - PhiCount(at))
  BY <1>1 DEF Emission, EmittedSo, Block
<1>5. /\ PhiCount(at) \in Nat /\ Len(Block.instrs) \in Nat
      /\ DOMAIN Block.instrs = 1 .. Len(Block.instrs)
      /\ Len(source.blocks) \in Nat /\ DOMAIN source.blocks = 1 .. Len(source.blocks)
  BY <1>1, Shape DEF Block, PhiCount
<1>6. source.blocks[at] = Block /\ Len(Block.phis) = PhiCount(at)
  BY DEF Block, PhiCount
<1> QED BY <1>1, <1>2, <1>3, <1>4, <1>5, <1>6

LEMMA PhiEmits ==
    ASSUME Emission, n <= Len(Block.phis)
    PROVE  EmittedSo(EmitPhi(out, Block.phis[n]), at, n + 1)
<1> DEFINE d == EmitPhi(out, Block.phis[n])
           S == Done \cup {Here}
           P == PhiCount(at)
           L == Len(Block.instrs)
<1>1. /\ WellFormed(source) /\ at \in DOMAIN source.blocks /\ at \in Nat
      /\ n \in Nat \ {0} /\ Homes(out, Done) /\ PhisFirst(out) /\ BeforeAfter(out, at)
      /\ \A b \in DOMAIN source.blocks : source.blocks[b].id \in DOMAIN out.text
      /\ n <= P + 1 => Len(out.text[Block.id]) = n - 1
      /\ P \in Nat /\ L \in Nat /\ source.blocks[at] = Block /\ Len(Block.phis) = P
      /\ Written(out, Done) /\ PhiTexts(out, Done)
  BY EmissionFacts
<1>2. n <= P
  BY <1>1
<1>3. NextPhi(out, Done)
  <2> HIDE DEF P
  <2>1. Len(out.text[Block.id]) = n - 1
    BY <1>1, <1>2
  <2> QED BY <1>1, <1>2, <2>1 DEF NextPhi, Emission, P
<1>4. /\ Here \in Places(source) /\ PhiAdds(out, d, Block.phis[n]) /\ Extended(out, d, Done)
      /\ DOMAIN d.text[Block.id] = 1 .. n /\ Len(d.text[Block.id]) = n
  BY <1>3, NextPhiFacts
<1>5. Before(source, <<at, n + 1>>) = S
  BY <1>1, <1>4, DoneGrows
<1>6. Homes(d, S) /\ PhiTexts(d, S)
  BY <1>3, PhiHomes, PhiPhis
<1> HIDE DEF d, S
<1>7. BeforeAfter(d, at)
  BY <1>1, <1>4, BeforeAfterStays
<1>8. PhisFirst(d)
  <2>1. \A b \in DOMAIN out.text \ {Block.id} : d.text[b] = out.text[b]
    BY <1>4 DEF Extended
  <2>2. \A k \in DOMAIN d.text[Block.id] : k <= P
    <3> HIDE DEF P
    <3> QED BY <1>1, <1>2, <1>4
  <2> QED BY <1>1, <2>1, <2>2, PhisFirstStays
<1>9. ASSUME n = P PROVE Sim(d, at, 0)
  <2>1. \A k \in 1 .. P : <<at, k>> \in S
    <3> TAKE k \in 1 .. P
    <3> DEFINE p == <<at, k>>
    <3>1. p[1] = at /\ p[2] = k /\ p = <<p[1], p[2]>>
      OBVIOUS
    <3>2. k \in DOMAIN Items(source.blocks[at])
      <4>1. DOMAIN Items(source.blocks[at]) = 1 .. P + L
        BY <1>1, Shape
      <4> HIDE DEF P, L
      <4> QED BY <1>1, <4>1
    <3> HIDE DEF p, P
    <3>3. p \in Places(source)
      BY <1>1, <3>1, <3>2, InPlaces
    <3>4. Precedes(p, <<at, n + 1>>)
      <4>1. k < n + 1
        BY <1>1, <1>9
      <4> QED BY <3>1, <4>1 DEF Precedes
    <3>5. p \in Before(source, <<at, n + 1>>)
      BY <3>3, <3>4 DEF Before
    <3> QED BY <1>5, <3>5 DEF p
  <2>2. Len(d.text[source.blocks[at].id]) = PhiCount(at)
    BY <1>1, <1>4, <1>9
  <2> QED BY <1>1, <1>6, <2>1, <2>2, SimStart
<1> SUFFICES EmittedSo(d, at, n + 1)
  BY DEF d
<1>10. /\ n + 1 <= P + L + 1
       /\ Len(d.text[Block.id]) = n + 1 - 1
       /\ n + 1 > P => n = P /\ n + 1 - 1 - P = 0
  <2> HIDE DEF P, L
  <2>1. /\ n + 1 <= P + L + 1 /\ n + 1 - 1 = n
        /\ n + 1 > P => n = P /\ n + 1 - 1 - P = 0
    BY <1>1, <1>2
  <2> QED BY <1>4, <2>1
<1>11. n + 1 > P => Sim(d, at, n + 1 - 1 - P)
  BY <1>9, <1>10
<1> QED BY <1>1, <1>5, <1>6, <1>7, <1>8, <1>10, <1>11 DEF EmittedSo

\* All lines of phis were there.
LEMMA NoMorePhis ==
    ASSUME WellFormed(source), at \in DOMAIN source.blocks,
           NEW c, NEW d, PhisFirst(c), NEW I, Grows(c, d, I),
           \A b \in DOMAIN source.blocks : source.blocks[b].id \in DOMAIN c.text
    PROVE  PhisFirst(d)
<1>1. \A b \in DOMAIN c.text \ {Block.id} : d.text[b] = c.text[b]
  BY DEF Grows
<1>2. \A k \in DOMAIN d.text[Block.id] :
         d.text[Block.id][k].op = "phi" => k \in DOMAIN c.text[Block.id]
  BY DEF Grows
<1>3. \A k \in DOMAIN c.text[Block.id] : d.text[Block.id][k] = c.text[Block.id][k]
  BY DEF Grows
<1>4. \A k \in DOMAIN c.text[Block.id] :
         c.text[Block.id][k].op = "phi" => k <= PhiCount(at)
  BY DEF PhisFirst, Block
<1>5. \A k \in DOMAIN d.text[Block.id] :
         d.text[Block.id][k].op = "phi" => k <= PhiCount(at)
  BY <1>2, <1>3, <1>4
<1> QED BY <1>1, <1>5, PhisFirstStays

LEMMA DonePhis ==
    ASSUME Emission, NEW d, Extended(out, d, Done)
    PROVE  PhiTexts(d, Done)
<1>1. /\ WellFormed(source) /\ at \in Nat /\ n \in Nat \ {0}
      /\ PhiTexts(out, Done) /\ Written(out, Done)
      /\ \A b \in DOMAIN source.blocks : source.blocks[b].id \in DOMAIN out.text
  BY EmissionFacts
<1>2. ASSUME NEW p \in Done PROVE p \in Places(source) /\ Before(source, p) \subseteq Done
  <2>1. p \in Places(source) /\ Precedes(p, Here)
    BY DEF Done, Before
  <2>2. ASSUME NEW r \in Before(source, p) PROVE r \in Done
    <3>1. r \in Places(source) /\ Precedes(r, p)
      BY DEF Before
    <3>2. /\ r[1] \in Nat /\ r[2] \in Nat /\ p[1] \in Nat /\ p[2] \in Nat
      BY <1>1, <2>1, <3>1, PlaceNumbers
    <3>3. Here[1] \in Nat /\ Here[2] \in Nat
      BY <1>1 DEF Here
    <3> HIDE DEF Here
    <3>4. Precedes(r, Here)
      BY <2>1, <3>1, <3>2, <3>3 DEF Precedes
    <3> QED BY <3>1, <3>4 DEF Done, Before
  <2> QED BY <2>1, <2>2
<1>3. \A p \in Done : HasValue(source, p) => Item(source, p).id \in DOMAIN out.names
  BY <1>1 DEF Written
<1> DEFINE S == Done
<1> HIDE DEF S
<1>4. /\ \A p \in S : p \in Places(source) /\ Before(source, p) \subseteq S
      /\ \A p \in S : HasValue(source, p) => Item(source, p).id \in DOMAIN out.names
      /\ Extended(out, d, S) /\ PhiTexts(out, S)
  BY <1>1, <1>2, <1>3 DEF S
<1>5. PhisLookBack(source)
  BY DEF Emission
<1>6. PhiTexts(d, S)
  BY <1>1, <1>4, <1>5, ExtendedPhis
<1> QED BY <1>6 DEF S

LEMMA InstrEmits ==
    ASSUME Emission, NEW k, k = n - Len(Block.phis), k \in DOMAIN Block.instrs
    PROVE  EmittedSo(NextText(out, k), at, n + 1)
<1> DEFINE d == NextText(out, k)
           S == Done \cup {Here}
           P == PhiCount(at)
           L == Len(Block.instrs)
<1>1. /\ WellFormed(source) /\ at \in DOMAIN source.blocks /\ at \in Nat
      /\ n \in Nat \ {0} /\ Homes(out, Done) /\ PhisFirst(out) /\ BeforeAfter(out, at)
      /\ \A b \in DOMAIN source.blocks : source.blocks[b].id \in DOMAIN out.text
      /\ n > P => Sim(out, at, n - 1 - P)
      /\ P \in Nat /\ L \in Nat /\ source.blocks[at] = Block /\ Len(Block.phis) = P
      /\ DOMAIN Block.instrs = 1 .. L
      /\ Written(out, Done)
  BY EmissionFacts
<1>2. /\ n > P /\ n - 1 - P = k - 1 /\ n + 1 <= P + L + 1
      /\ ~(n + 1 <= P + 1) /\ n + 1 - 1 - P = k /\ k = n - P
  <2> HIDE DEF P, L
  <2>1. k = n - P /\ k \in 1 .. L
    BY <1>1
  <2> QED BY <1>1, <2>1
<1>3. NextInstr(out, Done, k)
  BY <1>1, <1>2 DEF NextInstr, Emission
<1>4. /\ Here \in Places(source) /\ ~IsPhi(source, Here)
      /\ Before(source, <<at, n + 1>>) = S
  BY <1>1, <1>3, NextInstrFacts, DoneGrows
<1>5. Grows(out, d, {Block.instrs[k].id}) /\ Extended(out, d, Done)
  BY <1>3, NextTextGrows
<1>6. Homes(d, S)
  BY <1>3, InstrHomes
<1>7. Sim(d, at, k)
  <2>1. Sim(out, at, k - 1)
    BY <1>1, <1>2
  <2> QED BY <1>3, <2>1, SimInstr
<1> HIDE DEF d, P, L
<1>8. PhiTexts(d, Done)
  BY <1>5, DonePhis
<1>9. PhiTexts(d, S)
  BY <1>4, <1>8 DEF PhiTexts
<1>10. PhisFirst(d)
  BY <1>1, <1>5, NoMorePhis
<1>11. BeforeAfter(d, at)
  BY <1>1, <1>5, BeforeAfterStays
<1> HIDE DEF S
<1> SUFFICES EmittedSo(d, at, n + 1)
  BY DEF d
<1>12. n + 1 > P => Sim(d, at, n + 1 - 1 - P)
  BY <1>2, <1>7
<1> QED BY <1>1, <1>2, <1>4, <1>6, <1>9, <1>10, <1>11, <1>12 DEF EmittedSo, P, L

LEMMA TermEmits ==
    ASSUME Emission, n > Len(Block.phis) + Len(Block.instrs)
    PROVE  EmittedSo(EmitTerm(out, Block), at + 1, 1)
<1> DEFINE d == EmitTerm(out, Block)
           P == PhiCount(at)
           L == Len(Block.instrs)
           a == at + 1
<1>1. /\ WellFormed(source) /\ at \in DOMAIN source.blocks /\ at \in Nat
      /\ n \in Nat \ {0} /\ Homes(out, Done) /\ PhisFirst(out) /\ BeforeAfter(out, at)
      /\ Block.id \in DOMAIN out.text
      /\ \A b \in DOMAIN source.blocks : source.blocks[b].id \in DOMAIN out.text
      /\ n > P => Sim(out, at, n - 1 - P)
      /\ n <= P + L + 1
      /\ P \in Nat /\ L \in Nat /\ source.blocks[at] = Block /\ Len(Block.phis) = P
      /\ DOMAIN Block.instrs = 1 .. L
      /\ DOMAIN source.blocks = 1 .. Len(source.blocks) /\ Len(source.blocks) \in Nat
      /\ Written(out, Done)
  BY EmissionFacts
<1>2. n > P /\ n - 1 - P = L /\ n = P + L + 1
  <2> HIDE DEF P, L
  <2>1. n > P + L
    BY <1>1 DEF L
  <2>2. n \in Nat /\ P \in Nat /\ L \in Nat /\ n <= P + L + 1
    BY <1>1
  <2>3. n > P /\ n = P + L + 1
    BY <2>1, <2>2
  <2>4. n - 1 - P = L
    BY <2>2, <2>3
  <2> QED BY <2>3, <2>4
<1>3. NextTerm(out, Done)
  BY <1>1, <1>2 DEF NextTerm, Emission
<1>4. Extended(out, d, Done) /\ Before(source, <<a, 1>>) = Done
  BY <1>3, NextTermFacts
<1>5. Grows(out, d, {})
  <2>1. Sane(out)
    BY <1>1 DEF Written
  <2>2. Block.term.kind \in TermKind
    BY <1>1 DEF WellFormed
  <2> QED BY <1>1, <2>1, <2>2, TermGrows
<1>6. BlockSim(d, at)
  <2>1. Sim(out, at, Len(Block.instrs))
    BY <1>1, <1>2
  <2> QED BY <1>3, <2>1, SimTerm
<1> HIDE DEF d, P, L
<1>7. Homes(d, Done)
  BY <1>1, <1>4, ExtendedHomes
<1>8. PhiTexts(d, Done)
  BY <1>4, DonePhis
<1>9. PhisFirst(d)
  BY <1>1, <1>5, NoMorePhis
<1>10. BeforeAfter(d, at)
  BY <1>1, <1>4, BeforeAfterStays
<1>11. BeforeAfter(d, a)
  <2> SUFFICES ASSUME NEW b \in DOMAIN source.blocks
               PROVE  /\ b < a => BlockSim(d, b)
                      /\ b > a => d.text[source.blocks[b].id] = <<>>
    BY DEF BeforeAfter
  <2>1. b \in Nat
    BY <1>1
  <2>2. (b < a => b < at \/ b = at) /\ (b > a => b > at)
    BY <1>1, <2>1
  <2> HIDE DEF a
  <2> QED BY <1>6, <1>10, <2>2 DEF BeforeAfter
<1>12. ASSUME a \in DOMAIN source.blocks
       PROVE  /\ 1 <= PhiCount(a) + Len(source.blocks[a].instrs) + 1
              /\ Len(d.text[source.blocks[a].id]) = 1 - 1
              /\ 1 > PhiCount(a) => Sim(d, a, 1 - 1 - PhiCount(a))
  <2>1. PhiCount(a) \in Nat /\ Len(source.blocks[a].instrs) \in Nat
    BY <1>1, <1>12, Shape DEF PhiCount
  <2>2. a > at
    BY <1>1
  <2> HIDE DEF a
  <2>3. d.text[source.blocks[a].id] = <<>>
    BY <1>10, <1>12, <2>2 DEF BeforeAfter
  <2>4. Len(d.text[source.blocks[a].id]) = 0
    BY <2>3
  <2>5. ASSUME 1 > PhiCount(a) PROVE Sim(d, a, 1 - 1 - PhiCount(a))
    <3>1. PhiCount(a) = 0 /\ 1 - 1 - PhiCount(a) = 0 /\ 1 .. PhiCount(a) = {}
      BY <2>1, <2>5
    <3>2. \A k \in 1 .. PhiCount(a) : <<a, k>> \in Done
      BY <3>1
    <3>3. Len(d.text[source.blocks[a].id]) = PhiCount(a)
      BY <2>4, <3>1
    <3>4. Sim(d, a, 0)
      BY <1>1, <1>8, <1>12, <3>2, <3>3, SimStart
    <3> QED BY <3>1, <3>4
  <2>6. 1 <= PhiCount(a) + Len(source.blocks[a].instrs) + 1
    <3> DEFINE Q == PhiCount(a)
               M == Len(source.blocks[a].instrs)
    <3>1. Q \in Nat /\ M \in Nat
      BY <2>1
    <3> HIDE DEF Q, M
    <3>2. 1 <= Q + M + 1
      BY <3>1
    <3> QED BY <3>2 DEF Q, M
  <2> QED BY <2>4, <2>5, <2>6
<1> SUFFICES EmittedSo(d, a, 1)
  BY DEF d
<1> HIDE DEF a
<1> QED BY <1>4, <1>7, <1>8, <1>9, <1>11, <1>12 DEF EmittedSo

LEMMA StartEmits ==
    ASSUME Init, Meaningful(source)
    PROVE  EmittedSo(out, 1, 1)
<1>1. WellFormed(source)
  BY SourcesAssumption DEF Init
<1>2. /\ Len(source.blocks) \in Nat /\ DOMAIN source.blocks = 1 .. Len(source.blocks)
      /\ \A b \in DOMAIN source.blocks : Len(source.blocks[b].instrs) \in Nat
  BY <1>1, Shape
<1>3. \A b \in DOMAIN source.blocks : out.text[source.blocks[b].id] = <<>>
  <2> TAKE b \in DOMAIN source.blocks
  <2>1. source.blocks[b].id \in {x.id : x \in ToSet(source.blocks)}
    BY DEF ToSet
  <2> QED BY <2>1 DEF Init
<1>4. Before(source, <<1, 1>>) = {}
  <2> SUFFICES ASSUME NEW p \in Places(source), Precedes(p, <<1, 1>>) PROVE FALSE
    BY DEF Before
  <2>1. p[1] \in Nat \ {0} /\ p[2] \in Nat \ {0}
    <3>1. p[1] \in DOMAIN source.blocks /\ p[2] \in Nat \ {0}
      BY <1>1, PlaceNumbers
    <3> QED BY <1>2, <3>1
  <2> QED BY <2>1 DEF Precedes
<1>5. PhisFirst(out)
  <2>1. DOMAIN <<>> = {}
    OBVIOUS
  <2> QED BY <1>3, <2>1 DEF PhisFirst
<1>6. BeforeAfter(out, 1)
  <2>1. \A b \in DOMAIN source.blocks : ~(b < 1)
    BY <1>2
  <2> QED BY <1>3, <2>1 DEF BeforeAfter
<1>7. ASSUME 1 \in DOMAIN source.blocks
      PROVE  PhiCount(1) = 0 /\ Len(out.text[source.blocks[1].id]) = 0
  <2>1. Len(<<>>) = 0
    OBVIOUS
  <2> QED BY <1>3, <1>7, <2>1 DEF Meaningful, PhiCount
<1>8. PhiTexts(out, {}) /\ Homes(out, {})
  BY DEF PhiTexts, Homes
<1>9. ASSUME 1 \in DOMAIN source.blocks
      PROVE  Sim(out, 1, 0)
  <2>1. \A k \in 1 .. PhiCount(1) : <<1, k>> \in {}
    BY <1>7, <1>9
  <2>2. Len(out.text[source.blocks[1].id]) = PhiCount(1)
    BY <1>7, <1>9
  <2> QED BY <1>1, <1>8, <1>9, <2>1, <2>2, SimStart
<1>10. ASSUME 1 \in DOMAIN source.blocks
       PROVE  /\ 1 <= PhiCount(1) + Len(source.blocks[1].instrs) + 1
              /\ Len(out.text[source.blocks[1].id]) = 1 - 1
              /\ Sim(out, 1, 1 - 1 - PhiCount(1))
  <2>1. Len(source.blocks[1].instrs) \in Nat
    BY <1>2, <1>10
  <2>2. PhiCount(1) = 0 /\ 1 - 1 - 0 = 0 /\ Len(out.text[source.blocks[1].id]) = 0
    BY <1>7, <1>10
  <2> DEFINE M == Len(source.blocks[1].instrs)
  <2> HIDE DEF M
  <2>3. 1 <= 0 + M + 1
    BY <2>1 DEF M
  <2>4. 1 <= PhiCount(1) + Len(source.blocks[1].instrs) + 1
    BY <2>2, <2>3 DEF M
  <2>5. Sim(out, 1, 1 - 1 - PhiCount(1))
    BY <1>9, <1>10, <2>2
  <2> QED BY <2>2, <2>4, <2>5
<1> QED BY <1>4, <1>5, <1>6, <1>8, <1>10 DEF EmittedSo

\* What is said of a text depends on nothing else that changes.
LEMMA SaidOfSource ==
    ASSUME source' = source, NEW c, NEW a, NEW j
    PROVE  EmittedSo(c, a, j)' <=> EmittedSo(c, a, j)
<1>1. \A P, e, m : Agree(c, P, e, m)' <=> Agree(c, P, e, m)
  BY DEF Agree
<1>2. \A q : Avail(q)' = Avail(q)
  BY DEF Avail
<1>3. \A b : PhiCount(b)' = PhiCount(b)
  BY DEF PhiCount
<1>4. \A b, k : HasReturned(b, k)' <=> HasReturned(b, k)
  BY DEF HasReturned
<1>5. \A b, e, l : Start(c, b, e, l)' <=> Start(c, b, e, l)
  BY <1>1, <1>2, <1>3 DEF Start
<1>6. \A b, k : Sim(c, b, k)' <=> Sim(c, b, k)
  BY <1>1, <1>2, <1>3, <1>4, <1>5 DEF Sim
<1>7. \A b : BlockSim(c, b)' <=> BlockSim(c, b)
  BY <1>1, <1>2, <1>5 DEF BlockSim
<1>8. \A x, b : HomeOf(c, x, b)' <=> HomeOf(c, x, b)
  BY DEF HomeOf
<1>9. \A S : Homes(c, S)' <=> Homes(c, S)
  BY <1>8 DEF Homes
<1>10. \A p, b : Incoming(p, b)' = Incoming(p, b)
  BY DEF Incoming
<1>11. \A p, line : PhiLine(c, p, line)' <=> PhiLine(c, p, line)
  BY <1>10 DEF PhiLine
<1>12. \A S : PhiTexts(c, S)' <=> PhiTexts(c, S)
  BY <1>11 DEF PhiTexts
<1>13. PhisFirst(c)' <=> PhisFirst(c)
  BY <1>3 DEF PhisFirst
<1>14. BeforeAfter(c, a)' <=> BeforeAfter(c, a)
  BY <1>7 DEF BeforeAfter
<1> QED BY <1>3, <1>6, <1>9, <1>12, <1>13, <1>14 DEF EmittedSo

\* Names and text do what the source does, as far as it is written.
EmitInv == Meaningful(source) /\ PhisLookBack(source) => EmittedSo(out, at, n)

LEMMA EmitInvAtStart == Init => EmitInv
<1> SUFFICES ASSUME Init, Meaningful(source) PROVE EmittedSo(out, at, n)
  BY DEF EmitInv
<1>1. EmittedSo(out, 1, 1) /\ at = 1 /\ n = 1
  BY StartEmits DEF Init
<1> QED BY <1>1

LEMMA EmitInvStep == NameInv /\ EmitInv /\ [Next]_vars => EmitInv'
<1> SUFFICES ASSUME NameInv, EmitInv, [Next]_vars, Meaningful(source)', PhisLookBack(source)'
             PROVE  EmittedSo(out, at, n)'
  BY DEF EmitInv
<1>1. source' = source
  BY DEF Next, Phi, Instr, Term, Run, vars
<1>2. Meaningful(source) /\ PhisLookBack(source)
  BY <1>1
<1>3. ASSUME Emitting PROVE Emission
  BY <1>2, <1>3 DEF Emission, EmitInv
<1>4. ASSUME NEW c, NEW a, NEW j, EmittedSo(c, a, j), out' = c, at' = a, n' = j
      PROVE  EmittedSo(out, at, n)'
  <2>1. EmittedSo(c, a, j)'
    BY <1>1, <1>4, SaidOfSource
  <2> QED BY <1>4, <2>1
<1>5. CASE Phi
  <2>1. /\ Emitting /\ n <= Len(Block.phis) /\ out' = EmitPhi(out, Block.phis[n])
        /\ n' = n + 1 /\ at' = at
    BY <1>5 DEF Phi
  <2>2. EmittedSo(EmitPhi(out, Block.phis[n]), at, n + 1)
    BY <1>3, <2>1, PhiEmits
  <2> DEFINE c == EmitPhi(out, Block.phis[n])
  <2> HIDE DEF c
  <2>3. EmittedSo(c, at, n + 1) /\ out' = c
    BY <2>1, <2>2 DEF c
  <2> QED BY <1>4, <2>1, <2>3
<1>6. CASE Instr
  <2> DEFINE k == n - Len(Block.phis)
             c == NextText(out, k)
  <2>1. /\ Emitting /\ k \in DOMAIN Block.instrs
        /\ out' = c /\ n' = n + 1 /\ at' = at
    BY <1>6 DEF Instr, NextText
  <2>2. EmittedSo(c, at, n + 1)
    BY <1>3, <2>1, InstrEmits
  <2> HIDE DEF c
  <2> QED BY <1>4, <2>1, <2>2
<1>7. CASE Term
  <2> DEFINE c == EmitTerm(out, Block)
  <2>1. /\ Emitting /\ n > Len(Block.phis) + Len(Block.instrs)
        /\ out' = c /\ at' = at + 1 /\ n' = 1
    BY <1>7 DEF Term
  <2>2. EmittedSo(c, at + 1, 1)
    BY <1>3, <2>1, TermEmits
  <2> HIDE DEF c
  <2> QED BY <1>4, <2>1, <2>2
<1>8. CASE Run \/ UNCHANGED vars
  <2>1. UNCHANGED <<at, n, out>>
    BY <1>8 DEF Run, vars
  <2>2. EmittedSo(out, at, n)
    BY <1>2 DEF EmitInv
  <2> QED BY <1>4, <2>1, <2>2
<1> QED BY <1>5, <1>6, <1>7, <1>8 DEF Next

-----------------------------------------------------------------------------
(* The runs *)

\* All is written.
Complete ==
    /\ NameInv /\ ~Emitting /\ Meaningful(source) /\ PhisLookBack(source)
    /\ EmittedSo(out, at, n)

LEMMA CompleteFacts ==
    ASSUME Complete
    PROVE  /\ WellFormed(source) /\ Meaningful(source)
           /\ 1 \in DOMAIN source.blocks /\ 0 \notin DOMAIN source.blocks
           /\ \A a \in DOMAIN source.blocks :
                 LET id == source.blocks[a].id
                 IN /\ BlockSim(out, a) /\ id \in DOMAIN out.text /\ id \in Nat
                    /\ Len(out.text[id]) \in Nat
                    /\ DOMAIN out.text[id] = 1 .. Len(out.text[id])
           /\ Homes(out, Places(source)) /\ PhiTexts(out, Places(source))
           /\ PhisFirst(out) /\ Distinct(out)
<1>1. WellFormed(source) /\ Meaningful(source) /\ Written(out, Done)
  BY SourcesAssumption DEF Complete, NameInv
<1>2. DOMAIN source.blocks = 1 .. Len(source.blocks) /\ Len(source.blocks) \in Nat
  BY <1>1, Shape
<1>3. at = Len(source.blocks) + 1
  BY <1>2 DEF Complete, NameInv, Emitting
<1>4. 1 \in DOMAIN source.blocks /\ 0 \notin DOMAIN source.blocks
  <2>1. source.blocks # <<>> /\ source.blocks \in Seq(ToSet(source.blocks))
    BY <1>1 DEF Meaningful, WellFormed
  <2> DEFINE s == source.blocks
  <2> HIDE DEF s
  <2>2. Len(s) # 0
    BY <2>1, EmptySeq DEF s
  <2>3. Len(s) > 0
    BY <1>2, <2>2 DEF s
  <2> QED BY <1>2, <2>3 DEF s
<1>5. Before(source, <<at, n>>) = Places(source)
  <2> SUFFICES ASSUME NEW p \in Places(source) PROVE Precedes(p, <<at, n>>)
    BY DEF Before
  <2>1. p[1] \in DOMAIN source.blocks
    BY <1>1, PlaceNumbers
  <2>2. p[1] < at
    BY <1>2, <1>3, <2>1
  <2> QED BY <2>2 DEF Precedes
<1>6. /\ Homes(out, Places(source)) /\ PhiTexts(out, Places(source))
      /\ PhisFirst(out) /\ BeforeAfter(out, at)
  BY <1>5 DEF Complete, EmittedSo
<1>7. Distinct(out) /\ Sane(out)
  BY <1>1 DEF Written
<1>8. ASSUME NEW a \in DOMAIN source.blocks
      PROVE  LET id == source.blocks[a].id
             IN /\ BlockSim(out, a) /\ id \in DOMAIN out.text /\ id \in Nat
                /\ Len(out.text[id]) \in Nat
                /\ DOMAIN out.text[id] = 1 .. Len(out.text[id])
  <2> DEFINE id == source.blocks[a].id
             t == out.text[id]
  <2>1. a < at
    BY <1>2, <1>3
  <2>2. BlockSim(out, a)
    BY <1>6, <2>1 DEF BeforeAfter
  <2>3. id \in Nat
    BY DEF Complete, Meaningful
  <2>4. id \in DOMAIN out.text
    <3>1. source.blocks[a] \in ToSet(source.blocks)
      BY DEF ToSet
    <3>2. DOMAIN out.text = {x.id : x \in ToSet(source.blocks)}
      BY <1>1 DEF Written
    <3> QED BY <3>1, <3>2
  <2>5. t \in Seq(Range(t))
    BY <1>7, <2>4 DEF Sane
  <2> HIDE DEF t
  <2>6. Len(t) \in Nat /\ DOMAIN t = 1 .. Len(t)
    BY <2>5, LenProperties
  <2> QED BY <2>2, <2>3, <2>4, <2>6 DEF t
<1> QED BY <1>1, <1>4, <1>6, <1>7, <1>8

\* The values that are there once control leaves block a.
AvailAfter(a) ==
    {p \in Places(source) : Computes(source, p) /\ Dominates(source, p[1], a)}
Elder(a) == {p \in AvailAfter(a) : p[1] # a}

\* A name of a block that dominates another is not written there.
LEMMA ElderSteady ==
    ASSUME Complete, NEW a \in Reached(source), NEW p \in Elder(a)
    PROVE  LET x == out.names[Item(source, p).id]
               t == out.text[source.blocks[a].id]
           IN \/ x[1] = "num" \/ x[2][1] = "sym"
              \/ x[2] \notin {t[k].def : k \in 1 .. Len(t)}
<1> DEFINE x == out.names[Item(source, p).id]
           b == source.blocks[a].id
           t == out.text[b]
<1>1. /\ WellFormed(source) /\ 1 \in DOMAIN source.blocks /\ 0 \notin DOMAIN source.blocks
      /\ Homes(out, Places(source)) /\ Distinct(out)
      /\ \A c \in DOMAIN source.blocks : source.blocks[c].id \in DOMAIN out.text
  BY CompleteFacts
<1>2. a \in DOMAIN source.blocks
  BY <1>1, ReachedNext
<1>3. b \in DOMAIN out.text /\ DOMAIN t = 1 .. Len(t)
  BY <1>2, CompleteFacts
<1>4. p \in Places(source) /\ Computes(source, p) /\ Dominates(source, p[1], a) /\ p[1] # a
  BY DEF Elder, AvailAfter
<1>5. HomeOf(out, x, p[1])
  BY <1>1, <1>4 DEF Homes
<1> HIDE DEF x, t, b
<1> SUFFICES ASSUME ~(x[1] = "num" \/ x[2][1] = "sym"), NEW k \in 1 .. Len(t), t[k].def = x[2]
             PROVE  FALSE
  BY DEF x, t, b
<1>6. x[2] # NoName
  BY <1>5 DEF HomeOf
<1>7. PICK h \in DOMAIN source.blocks :
         Dominates(source, h, p[1]) /\ Defines(out, source.blocks[h].id, x[2])
  BY <1>5 DEF HomeOf
<1> DEFINE g == source.blocks[h].id
<1>8. PICK j \in DOMAIN out.text[g] : out.text[g][j].def = x[2]
  BY <1>7 DEF Defines
<1>9. g \in DOMAIN out.text
  BY <1>1
<1>10. g = b
  <2> DEFINE q == <<b, k>>
             r == <<g, j>>
  <2>1. q \in LinesOf(out) /\ LineOf(out, q) = t[k]
    BY <1>3, InLines DEF LineOf, t
  <2>2. r \in LinesOf(out) /\ LineOf(out, r) = out.text[g][j]
    BY <1>8, <1>9, InLines DEF LineOf
  <2>3. q[1] = b /\ r[1] = g
    OBVIOUS
  <2> HIDE DEF q, r
  <2>4. LineOf(out, q).def = LineOf(out, r).def /\ LineOf(out, q).def # NoName
    BY <1>6, <1>8, <2>1, <2>2
  <2>5. q = r
    BY <1>1, <2>1, <2>2, <2>4 DEF Distinct
  <2> QED BY <2>3, <2>5
<1>11. h = a
  BY <1>1, <1>2, <1>10 DEF WellFormed, b
<1>12. ~Dominates(source, a, p[1])
  <2> DEFINE u == p[1]
  <2>1. u # a /\ Dominates(source, u, a)
    BY <1>4
  <2> HIDE DEF u
  <2>2. Dominates(source, a, u) => ~Dominates(source, u, a)
    BY <1>1, <2>1, DominatesOneWay
  <2> QED BY <2>1, <2>2 DEF u
<1> QED BY <1>7, <1>11, <1>12

LEMMA OverKept ==
    ASSUME NEW f, NEW g
    PROVE  /\ \A x : x \notin DOMAIN g => /\ x \in DOMAIN Over(f, g) <=> x \in DOMAIN f
                                          /\ x \in DOMAIN f => Over(f, g)[x] = f[x]
           /\ \A x \in DOMAIN g : x \in DOMAIN Over(f, g) /\ Over(f, g)[x] = g[x]
           /\ DOMAIN Over(f, g) = DOMAIN f \cup DOMAIN g
BY DEF Over

\* The phis of a block are items.
LEMMA PhiPlaces ==
    ASSUME WellFormed(source), NEW a \in DOMAIN source.blocks, NEW k \in 1 .. PhiCount(a)
    PROVE  LET p == <<a, k>>
           IN /\ p \in Places(source) /\ IsPhi(source, p) /\ p[1] = a /\ p[2] = k
              /\ Item(source, p) = source.blocks[a].phis[k]
              /\ k \in DOMAIN source.blocks[a].phis
<1> DEFINE p == <<a, k>>
           P == PhiCount(a)
           L == Len(source.blocks[a].instrs)
           b == source.blocks[a]
<1>1. /\ P \in Nat /\ L \in Nat /\ DOMAIN b.phis = 1 .. P
      /\ DOMAIN Items(b) = 1 .. P + L
      /\ \A j \in DOMAIN Items(b) : Items(b)[j] = IF j <= P THEN b.phis[j] ELSE b.instrs[j - P]
  BY Shape DEF PhiCount
<1>2. p[1] = a /\ p[2] = k /\ p = <<p[1], p[2]>>
  OBVIOUS
<1> HIDE DEF p, P, L
<1>3. k \in 1 .. P /\ k <= P /\ k \in 1 .. P + L
  BY <1>1 DEF P
<1>4. p \in Places(source)
  BY <1>1, <1>2, <1>3, InPlaces
<1>5. IsPhi(source, p)
  BY <1>2, <1>3 DEF IsPhi, P, PhiCount
<1>6. Item(source, p) = b.phis[k]
  BY <1>1, <1>2, <1>3 DEF Item
<1> QED BY <1>1, <1>2, <1>3, <1>4, <1>5, <1>6 DEF p

\* What a phi takes over in the source's run.
LEMMA PhiOfSource ==
    ASSUME WellFormed(source), NEW a \in DOMAIN source.blocks, NEW k \in 1 .. PhiCount(a), NEW e
    PROVE  LET i == source.blocks[a].phis[k]
               v == Phis(e, source.blocks[a])
           IN i.id \in DOMAIN v /\ v[i.id] = OperandValue(e, i.incoming[e.from])
<1> DEFINE b == source.blocks[a]
           i == b.phis[k]
           C == CHOOSE x \in ToSet(b.phis) : x.id = i.id
<1>1. k \in DOMAIN b.phis /\ <<a, k>> \in Places(source) /\ Item(source, <<a, k>>) = i
  BY PhiPlaces
<1>2. i \in ToSet(b.phis)
  BY <1>1 DEF ToSet
<1>3. ASSUME NEW x \in ToSet(b.phis), x.id = i.id PROVE x = i
  <2>1. PICK j \in DOMAIN b.phis : x = b.phis[j]
    BY DEF ToSet
  <2>2. j \in 1 .. PhiCount(a)
    BY Shape DEF PhiCount
  <2>3. <<a, j>> \in Places(source) /\ Item(source, <<a, j>>) = x
    BY <2>1, <2>2, PhiPlaces
  <2>4. <<a, j>> = <<a, k>>
    BY <1>1, <1>3, <2>3, ItemsDiffer
  <2>5. j = k
    BY <2>4
  <2> QED BY <2>1, <2>5
<1>4. C = i
  BY <1>2, <1>3
<1> HIDE DEF i
<1> QED BY <1>2, <1>4 DEF Phis, i

\* What it takes over in the text's run.
LEMMA PhiOfText ==
    ASSUME Complete, NEW a \in DOMAIN source.blocks, NEW k \in 1 .. PhiCount(a), NEW l
    PROVE  LET i == source.blocks[a].phis[k]
               t == out.text[source.blocks[a].id]
               v == LlPhis(l, t)
           IN /\ k \in DOMAIN t /\ PhiLine(out, <<a, k>>, t[k])
              /\ V(i.id) \in DOMAIN v /\ v[V(i.id)] = Worth(l, t[k].args[l.from])
              /\ i.id \in DOMAIN out.names /\ out.names[i.id] = Local(V(i.id))
<1> DEFINE i == source.blocks[a].phis[k]
           b == source.blocks[a].id
           t == out.text[b]
           p == <<a, k>>
           phis == {line \in ToSet(t) : line.op = "phi"}
           C == CHOOSE line \in phis : line.def = V(i.id)
<1>1. /\ WellFormed(source) /\ PhiTexts(out, Places(source)) /\ Distinct(out)
      /\ b \in DOMAIN out.text /\ DOMAIN t = 1 .. Len(t)
  BY CompleteFacts
<1>2. p \in Places(source) /\ IsPhi(source, p) /\ p[1] = a /\ p[2] = k /\ Item(source, p) = i
  BY <1>1, PhiPlaces
<1> HIDE DEF p, i
<1>3. /\ k \in DOMAIN t /\ PhiLine(out, p, t[k])
      /\ i.id \in DOMAIN out.names /\ out.names[i.id] = Local(V(i.id))
  BY <1>1, <1>2 DEF PhiTexts
<1>4. t[k].op = "phi" /\ t[k].def = V(i.id)
  BY <1>2, <1>3 DEF PhiLine
<1> HIDE DEF t
<1>5. t[k] \in phis
  BY <1>3, <1>4 DEF ToSet
<1>6. ASSUME NEW line \in phis, line.def = V(i.id) PROVE line = t[k]
  <2>1. PICK j \in DOMAIN t : line = t[j]
    BY DEF ToSet
  <2> DEFINE q == <<b, k>>
             r == <<b, j>>
  <2>2. q \in LinesOf(out) /\ LineOf(out, q) = t[k]
    BY <1>1, <1>3, InLines DEF LineOf, t
  <2>3. r \in LinesOf(out) /\ LineOf(out, r) = t[j]
    BY <1>1, <2>1, InLines DEF LineOf, t
  <2> HIDE DEF q, r
  <2>4. LineOf(out, q).def = LineOf(out, r).def /\ LineOf(out, q).def # NoName
    BY <1>4, <1>6, <2>1, <2>2, <2>3, NamesApart
  <2>5. q = r
    BY <1>1, <2>2, <2>3, <2>4 DEF Distinct
  <2> QED BY <2>1, <2>2, <2>3, <2>5
<1>7. C = t[k]
  BY <1>4, <1>5, <1>6
<1>8. V(i.id) \in DOMAIN LlPhis(l, t) /\ LlPhis(l, t)[V(i.id)] = Worth(l, t[k].args[l.from])
  <2> DEFINE name == V(i.id)
  <2>1. name \in {x.def : x \in phis} /\ (CHOOSE x \in phis : x.def = name) = t[k]
    BY <1>4, <1>5, <1>7
  <2> HIDE DEF name
  <2> QED BY <2>1 DEF LlPhis, name
<1> QED BY <1>3, <1>8 DEF p, i, t

\* The names that phis write are those of lines of the block.
LEMMA PhiNames ==
    ASSUME Complete, NEW a \in DOMAIN source.blocks, NEW l
    PROVE  LET t == out.text[source.blocks[a].id]
           IN DOMAIN LlPhis(l, t) \subseteq {t[k].def : k \in 1 .. Len(t)}
<1> DEFINE t == out.text[source.blocks[a].id]
<1>1. DOMAIN t = 1 .. Len(t)
  BY CompleteFacts
<1> HIDE DEF t
<1> SUFFICES DOMAIN LlPhis(l, t) \subseteq {t[k].def : k \in 1 .. Len(t)}
  BY DEF t
<1>2. DOMAIN LlPhis(l, t) \subseteq {x.def : x \in ToSet(t)}
  BY DEF LlPhis
<1> QED BY <1>1, <1>2 DEF ToSet

\* What a block writes leaves the values of those that dominate it alone.
LEMMA ElderKept ==
    ASSUME Complete, NEW a \in Reached(source), NEW e, NEW l, Agree(out, Elder(a), e, l),
           NEW f, NEW Y, Kept(e, f, Y),
           Y \subseteq {Item(source, p).id : p \in {q \in Places(source) : q[1] = a}},
           NEW m, NEW X, Kept(l, m, X),
           LET t == out.text[source.blocks[a].id] IN X \subseteq {t[k].def : k \in 1 .. Len(t)}
    PROVE  Agree(out, Elder(a), f, m)
<1> DEFINE t == out.text[source.blocks[a].id]
           T1 == {t[k].def : k \in 1 .. Len(t)}
           Y1 == {Item(source, p).id : p \in {q \in Places(source) : q[1] = a}}
<1>1. X \subseteq T1 /\ Y \subseteq Y1
  OBVIOUS
<1> SUFFICES ASSUME NEW p \in Elder(a)
             PROVE  /\ Item(source, p).id \in DOMAIN out.names
                    /\ Item(source, p).id \in DOMAIN f.val
                    /\ f.val[Item(source, p).id] \in Word
                    /\ Worth(m, out.names[Item(source, p).id]) = f.val[Item(source, p).id]
  BY DEF Agree
<1> DEFINE id == Item(source, p).id
           x == out.names[id]
<1>2. x[1] = "num" \/ x[2][1] = "sym" \/ x[2] \notin T1
  BY ElderSteady
<1>3. id \notin Y1
  <2> SUFFICES ASSUME NEW q \in Places(source), q[1] = a, Item(source, q).id = id
               PROVE  FALSE
    OBVIOUS
  <2>1. p \in Places(source) /\ p[1] # a
    BY DEF Elder, AvailAfter
  <2>2. WellFormed(source)
    BY CompleteFacts
  <2>3. p = q
    BY <2>1, <2>2, ItemsDiffer
  <2> QED BY <2>1, <2>3
<1>4. /\ id \in DOMAIN out.names /\ id \in DOMAIN e.val /\ e.val[id] \in Word
      /\ Worth(l, x) = e.val[id]
  BY DEF Agree
<1> HIDE DEF id, x, T1, Y1
<1>5. id \in DOMAIN f.val /\ f.val[id] = e.val[id]
  <2>1. id \notin Y
    BY <1>1, <1>3
  <2> QED BY <1>4, <2>1 DEF Kept
<1>6. Worth(m, x) = Worth(l, x)
  <2>1. x[1] = "num" \/ x[2][1] = "sym" \/ x[2] \notin X
    BY <1>1, <1>2
  <2> QED BY <2>1, KeptWorth
<1> QED BY <1>4, <1>5, <1>6 DEF id, x

\* What a phi refers to is there at the end of the block control comes from.
LEMMA GivenAfter ==
    ASSUME 1 \in DOMAIN source.blocks, NEW a, NEW o, Available(source, o, AtEnd(source, a))
    PROVE  Given(o, AvailAfter(a))
<1>1. CASE o[1] # "ref"
  BY <1>1 DEF Available, Given
<1>2. CASE o[1] = "ref"
  <2> DEFINE q == AtEnd(source, a)
  <2>1. q[1] = a
    BY DEF AtEnd
  <2> HIDE DEF q
  <2>2. PICK p \in Places(source) :
           /\ Computes(source, p) /\ Item(source, p).id = o[2]
           /\ IF p[1] = q[1] THEN p[2] < q[2] ELSE Dominates(source, p[1], q[1])
    BY <1>2 DEF Available, q
  <2>3. Dominates(source, p[1], a)
    BY <2>1, <2>2, DominatesItself
  <2>4. p \in AvailAfter(a)
    BY <2>2, <2>3 DEF AvailAfter
  <2> QED BY <1>2, <2>2, <2>4 DEF Given
<1> QED BY <1>1, <1>2

\* A phi takes over the same in both runs.
LEMMA PhisTakeOver ==
    ASSUME Complete, NEW a \in DOMAIN source.blocks, NEW d \in DOMAIN source.blocks,
           Follows(source, a, d), NEW e, NEW l, Beside(e, l),
           e.from = source.blocks[a].id, Agree(out, AvailAfter(a), e, l),
           NEW k \in 1 .. PhiCount(d)
    PROVE  LET i == source.blocks[d].phis[k]
               v == Phis(e, source.blocks[d])
               w == LlPhis(l, out.text[source.blocks[d].id])
           IN /\ i.id \in DOMAIN v /\ v[i.id] \in Word
              /\ V(i.id) \in DOMAIN w /\ w[V(i.id)] = v[i.id]
              /\ i.id \in DOMAIN out.names /\ out.names[i.id] = Local(V(i.id))
<1> DEFINE i == source.blocks[d].phis[k]
           t == out.text[source.blocks[d].id]
           v == Phis(e, source.blocks[d])
           w == LlPhis(l, t)
           p == <<d, k>>
           id == source.blocks[a].id
           o == i.incoming[id]
<1>1. WellFormed(source) /\ Meaningful(source) /\ 1 \in DOMAIN source.blocks
  BY CompleteFacts
<1>2. p \in Places(source) /\ IsPhi(source, p) /\ p[1] = d /\ p[2] = k /\ Item(source, p) = i
  BY <1>1, PhiPlaces
<1>4. /\ PhiLine(out, p, t[k])
      /\ V(i.id) \in DOMAIN w /\ w[V(i.id)] = Worth(l, t[k].args[id])
      /\ i.id \in DOMAIN out.names /\ out.names[i.id] = Local(V(i.id))
  <2>1. l.from = id
    BY DEF Beside
  <2>2. /\ PhiLine(out, <<d, k>>, t[k])
        /\ V(i.id) \in DOMAIN w /\ w[V(i.id)] = Worth(l, t[k].args[l.from])
        /\ i.id \in DOMAIN out.names /\ out.names[i.id] = Local(V(i.id))
    BY PhiOfText, Zenon
  <2> QED BY <2>1, <2>2
<1>5. i.id \in DOMAIN v /\ v[i.id] = OperandValue(e, o)
  BY <1>1, PhiOfSource
<1> HIDE DEF t, v, w, p, i
<1>6. Available(source, o, AtEnd(source, a))
  BY <1>1, <1>2 DEF Meaningful
<1>7. t[k].args[id] = IF o[1] = "ref" THEN out.names[o[2]] ELSE Text(o)
  BY <1>2, <1>4 DEF PhiLine, Incoming
<1> DEFINE x == t[k].args[id]
<1> HIDE DEF id, o, x
<1>8. Given(o, AvailAfter(a))
  BY <1>1, <1>6, GivenAfter
<1>9. Worth(l, x) = OperandValue(e, o) /\ OperandValue(e, o) \in Word
  <2>1. CASE o[1] # "ref"
    <3>1. x = Text(o)
      BY <1>7, <2>1 DEF x
    <3> QED BY <1>8, <2>1, <3>1, TextWorth
  <2>2. CASE o[1] = "ref"
    <3>1. PICK q \in AvailAfter(a) : Item(source, q).id = o[2]
      BY <1>8, <2>2 DEF Given
    <3>2. e.val[o[2]] \in Word /\ Worth(l, out.names[o[2]]) = e.val[o[2]]
      BY <3>1 DEF Agree
    <3>3. OperandValue(e, o) = e.val[o[2]]
      BY <2>2 DEF OperandValue
    <3>4. x = out.names[o[2]]
      BY <1>7, <2>2 DEF x
    <3> QED BY <3>2, <3>3, <3>4
  <2> QED BY <2>1, <2>2
<1> QED BY <1>4, <1>5, <1>9 DEF i, v, w, t, x

\* Control comes to block d: what dominates it stays, its phis get their values.
AtPhi(e, l, d, k) ==
    LET i == source.blocks[d].phis[k]
        v == Phis(e, source.blocks[d])
        w == LlPhis(l, out.text[source.blocks[d].id])
    IN /\ i.id \in DOMAIN v /\ v[i.id] \in Word
       /\ V(i.id) \in DOMAIN w /\ w[V(i.id)] = v[i.id]
       /\ i.id \in DOMAIN out.names /\ out.names[i.id] = Local(V(i.id))
Entry(e, d) == [e EXCEPT !.val = Over(@, Phis(e, source.blocks[d]))]
TextEntry(l, d) == [l EXCEPT !.val = Over(@, LlPhis(l, out.text[source.blocks[d].id]))]

LEMMA Enters ==
    ASSUME Complete, NEW d \in Reached(source), NEW e, NEW l, Beside(e, l),
           e.result = 0, l.result = 0, Agree(out, Elder(d), e, l),
           \A k \in 1 .. PhiCount(d) : AtPhi(e, l, d, k)
    PROVE  LET f == Entry(e, d)
               m == TextEntry(l, d)
           IN /\ Start(out, d, f, m) /\ Agree(out, Elder(d), f, m)
              /\ f.here = e.here /\ m.here = l.here
              /\ DOMAIN f.val = DOMAIN e.val \cup {p.id : p \in ToSet(source.blocks[d].phis)}
<1> DEFINE v == Phis(e, source.blocks[d])
           w == LlPhis(l, out.text[source.blocks[d].id])
           f == Entry(e, d)
           m == TextEntry(l, d)
           u == Over(e.val, v)
           z == Over(l.val, w)
           Y == {p.id : p \in ToSet(source.blocks[d].phis)}
<1>1. /\ WellFormed(source) /\ 1 \in DOMAIN source.blocks /\ 0 \notin DOMAIN source.blocks
  BY CompleteFacts
<1>2. d \in DOMAIN source.blocks
  BY <1>1, ReachedNext
<1>3. f = [e EXCEPT !.val = u] /\ m = [l EXCEPT !.val = z]
  BY DEF Entry, TextEntry
<1>4. DOMAIN v = Y
  BY DEF Phis
<1>5. DOMAIN e = RunFields /\ DOMAIN l = RunFields
  BY DEF Beside, Running
<1> HIDE DEF v, w, f, m, Y
<1>6. /\ \A x : x \notin Y => (x \in DOMAIN u <=> x \in DOMAIN e.val)
                              /\ (x \in DOMAIN e.val => u[x] = e.val[x])
      /\ \A x \in Y : x \in DOMAIN u /\ u[x] = v[x]
      /\ DOMAIN u = DOMAIN e.val \cup Y
  <2> DEFINE g == e.val
  <2> HIDE DEF g
  <2>1. /\ \A x : x \notin DOMAIN v => /\ x \in DOMAIN Over(g, v) <=> x \in DOMAIN g
                                       /\ x \in DOMAIN g => Over(g, v)[x] = g[x]
        /\ \A x \in DOMAIN v : x \in DOMAIN Over(g, v) /\ Over(g, v)[x] = v[x]
        /\ DOMAIN Over(g, v) = DOMAIN g \cup DOMAIN v
    BY OverKept
  <2>2. u = Over(g, v) /\ g = e.val
    BY DEF g
  <2> HIDE DEF u
  <2> QED BY <1>4, <2>1, <2>2
<1>7. /\ \A x : x \notin DOMAIN w => (x \in DOMAIN z <=> x \in DOMAIN l.val)
                                     /\ (x \in DOMAIN l.val => z[x] = l.val[x])
      /\ \A x \in DOMAIN w : x \in DOMAIN z /\ z[x] = w[x]
  <2> DEFINE g == l.val
  <2> HIDE DEF g
  <2>1. /\ \A x : x \notin DOMAIN w => /\ x \in DOMAIN Over(g, w) <=> x \in DOMAIN g
                                       /\ x \in DOMAIN g => Over(g, w)[x] = g[x]
        /\ \A x \in DOMAIN w : x \in DOMAIN Over(g, w) /\ Over(g, w)[x] = w[x]
        /\ DOMAIN Over(g, w) = DOMAIN g \cup DOMAIN w
    BY OverKept
  <2>2. z = Over(g, w) /\ g = l.val
    BY DEF g
  <2> HIDE DEF z
  <2> QED BY <2>1, <2>2
<1> HIDE DEF u, z
<1>8. /\ DOMAIN f = RunFields /\ f.val = u /\ f.sym = e.sym /\ f.mem = e.mem
      /\ f.from = e.from /\ f.here = e.here /\ f.result = e.result
  BY <1>3, <1>5, KeptFields
<1>9. /\ DOMAIN m = RunFields /\ m.val = z /\ m.sym = l.sym /\ m.mem = l.mem
      /\ m.from = l.from /\ m.here = l.here /\ m.result = l.result
  BY <1>3, <1>5, KeptFields
<1>10. Kept(e, f, Y) /\ Kept(l, m, DOMAIN w)
  BY <1>6, <1>7, <1>8, <1>9 DEF Kept
<1>11. Beside(f, m)
  BY <1>8, <1>9 DEF Beside, Running
<1>12. Agree(out, Elder(d), f, m)
  <2>1. Y \subseteq {Item(source, p).id : p \in {q \in Places(source) : q[1] = d}}
    <3> SUFFICES ASSUME NEW x \in ToSet(source.blocks[d].phis)
                 PROVE  \E p \in {q \in Places(source) : q[1] = d} : x.id = Item(source, p).id
      BY DEF Y
    <3>1. PICK k \in DOMAIN source.blocks[d].phis : x = source.blocks[d].phis[k]
      BY DEF ToSet
    <3>2. k \in 1 .. PhiCount(d)
      BY <1>1, <1>2, Shape DEF PhiCount
    <3> DEFINE p == <<d, k>>
    <3>3. p \in Places(source) /\ p[1] = d /\ Item(source, p) = x
      BY <1>1, <1>2, <3>1, <3>2, PhiPlaces
    <3> HIDE DEF p
    <3> QED BY <3>3
  <2>2. LET t == out.text[source.blocks[d].id]
        IN DOMAIN w \subseteq {t[k].def : k \in 1 .. Len(t)}
    BY <1>2, PhiNames DEF w
  <2> QED BY <1>10, <2>1, <2>2, ElderKept
<1>13. ASSUME NEW p \in Avail(<<d, PhiCount(d) + 1>>)
       PROVE  /\ Item(source, p).id \in DOMAIN out.names
              /\ Item(source, p).id \in DOMAIN f.val
              /\ f.val[Item(source, p).id] \in Word
              /\ Worth(m, out.names[Item(source, p).id]) = f.val[Item(source, p).id]
  <2>1. /\ p \in Places(source) /\ Computes(source, p) /\ Dominates(source, p[1], d)
        /\ p[1] = d => p[2] < PhiCount(d) + 1
    <3> DEFINE q == <<d, PhiCount(d) + 1>>
    <3>1. q[1] = d /\ q[2] = PhiCount(d) + 1
      OBVIOUS
    <3> HIDE DEF q
    <3>2. /\ p \in Places(source) /\ Precedes(p, q) /\ Computes(source, p)
          /\ Dominates(source, p[1], q[1])
      BY <1>13 DEF Avail, Before, q
    <3>3. d \in Nat
      <4>1. DOMAIN source.blocks = 1 .. Len(source.blocks) /\ Len(source.blocks) \in Nat
        BY <1>1, Shape
      <4> QED BY <1>2, <4>1
    <3> QED BY <3>1, <3>2, <3>3 DEF Precedes
  <2>2. CASE p[1] # d
    <3>1. p \in Elder(d)
      BY <2>1, <2>2 DEF Elder, AvailAfter
    <3> QED BY <1>12, <3>1 DEF Agree
  <2>3. CASE p[1] = d
    <3> DEFINE k == p[2]
               i == source.blocks[d].phis[k]
    <3>1. p = <<d, k>> /\ k \in Nat \ {0} /\ k < PhiCount(d) + 1
      BY <1>1, <2>1, <2>3, PlaceNumbers
    <3>2. PhiCount(d) \in Nat
      BY <1>1, <1>2, Shape DEF PhiCount
    <3>3. k \in 1 .. PhiCount(d)
      BY <3>1, <3>2
    <3>4. Item(source, <<d, k>>) = i
      BY <1>1, <1>2, <3>3, PhiPlaces
    <3>5. Item(source, p) = i
      BY <3>1, <3>4
    <3>6. /\ i.id \in DOMAIN v /\ v[i.id] \in Word
          /\ V(i.id) \in DOMAIN w /\ w[V(i.id)] = v[i.id]
          /\ i.id \in DOMAIN out.names /\ out.names[i.id] = Local(V(i.id))
      BY <3>3 DEF AtPhi, v, w
    <3> HIDE DEF i
    <3>7. i.id \in DOMAIN f.val /\ f.val[i.id] = v[i.id]
      BY <1>4, <1>6, <1>8, <3>6
    <3>8. V(i.id) \in DOMAIN m.val /\ m.val[V(i.id)] = w[V(i.id)]
      BY <1>7, <1>9, <3>6
    <3>9. Worth(m, Local(V(i.id))) = m.val[V(i.id)]
      <4>1. V(i.id)[1] # "sym"
        BY NamesAreNoSymbols
      <4> QED BY <3>8, <4>1, LocalWorth
    <3> QED BY <3>5, <3>6, <3>7, <3>8, <3>9
  <2> QED BY <2>2, <2>3
<1>14. Agree(out, Avail(<<d, PhiCount(d) + 1>>), f, m)
  BY <1>13 DEF Agree
<1>15. Start(out, d, f, m)
  BY <1>8, <1>9, <1>11, <1>14 DEF Start
<1>16. DOMAIN f.val = DOMAIN e.val \cup Y
  BY <1>6, <1>8
<1> QED BY <1>8, <1>9, <1>12, <1>15, <1>16 DEF f, m, Y

\* The instructions of a block are items.
LEMMA InstrPlaces ==
    ASSUME WellFormed(source), NEW a \in DOMAIN source.blocks,
           NEW k \in DOMAIN source.blocks[a].instrs
    PROVE  \E p \in Places(source) :
              /\ p[1] = a /\ ~IsPhi(source, p) /\ Item(source, p) = source.blocks[a].instrs[k]
<1> DEFINE P == PhiCount(a)
           L == Len(source.blocks[a].instrs)
           b == source.blocks[a]
           p == <<a, P + k>>
<1>1. /\ P \in Nat /\ L \in Nat /\ DOMAIN b.instrs = 1 .. L
      /\ DOMAIN Items(b) = 1 .. P + L
      /\ \A j \in DOMAIN Items(b) : Items(b)[j] = IF j <= P THEN b.phis[j] ELSE b.instrs[j - P]
  BY Shape DEF PhiCount
<1>2. p[1] = a /\ p[2] = P + k /\ p = <<p[1], p[2]>>
  OBVIOUS
<1> HIDE DEF p, P, L
<1>3. P + k \in 1 .. P + L /\ ~(P + k <= P) /\ (P + k) - P = k
  BY <1>1
<1>4. p \in Places(source)
  BY <1>1, <1>2, <1>3, InPlaces
<1>5. ~IsPhi(source, p)
  BY <1>2, <1>3 DEF IsPhi, P, PhiCount
<1>6. Item(source, p) = b.instrs[k]
  BY <1>1, <1>2, <1>3 DEF Item
<1> QED BY <1>2, <1>4, <1>5, <1>6

\* What a block computes are values of the items that compute one.
ComputesIds == {Item(source, p).id : p \in {q \in Places(source) : Computes(source, q)}}

LEMMA WritersCompute ==
    ASSUME WellFormed(source), Meaningful(source), NEW a \in DOMAIN source.blocks
    PROVE  LET is == source.blocks[a].instrs
               Y == {is[k].id : k \in Writers(is, Len(is))}
           IN /\ Y \subseteq ComputesIds
              /\ Y \subseteq {Item(source, p).id : p \in {q \in Places(source) : q[1] = a}}
<1> DEFINE is == source.blocks[a].instrs
<1> SUFFICES ASSUME NEW k \in Writers(is, Len(is))
             PROVE  \E p \in Places(source) :
                       p[1] = a /\ Computes(source, p) /\ Item(source, p).id = is[k].id
  BY DEF ComputesIds
<1>1. k \in DOMAIN is /\ is[k].op \in Valued \cup {"CALL"}
  BY Shape DEF Writers
<1>2. PICK p \in Places(source) :
         p[1] = a /\ ~IsPhi(source, p) /\ Item(source, p) = is[k]
  BY <1>1, InstrPlaces
<1>3. is[k].op \in Translated \cup {"STORE", "RET", "JMP", "CJMP", "NOP"}
  BY <1>2 DEF Meaningful
<1> HIDE DEF is
<1>4. is[k].op \in Translated
  BY <1>1, <1>3 DEF Valued, Binary, Unary
<1>5. Computes(source, p)
  BY <1>2, <1>4 DEF Computes
<1> QED BY <1>2, <1>5

LEMMA AfterBlock ==
    ASSUME WellFormed(source), NEW a \in DOMAIN source.blocks
    PROVE  AvailAfter(a) \subseteq Elder(a) \cup Avail(AtEnd(source, a))
<1> SUFFICES ASSUME NEW p \in AvailAfter(a), p[1] = a PROVE p \in Avail(AtEnd(source, a))
  BY DEF Elder
<1>1. p \in Places(source) /\ Computes(source, p) /\ Dominates(source, p[1], a)
  BY DEF AvailAfter
<1> DEFINE b == source.blocks[a]
           L == Len(Items(b))
           q == AtEnd(source, a)
<1>2. q[1] = a /\ q[2] = L + 1
  BY DEF AtEnd
<1>3. p[2] \in DOMAIN Items(b)
  BY <1>1, InPlaces
<1>4. L \in Nat /\ DOMAIN Items(b) = 1 .. L
  <2> DEFINE f == b.phis
             g == b.instrs
             U == ToSet(f) \cup ToSet(g)
  <2>1. f \in Seq(ToSet(f)) /\ g \in Seq(ToSet(g))
    BY DEF WellFormed
  <2> HIDE DEF f, g
  <2>2. f \in Seq(U) /\ g \in Seq(U)
    BY <2>1, SeqDef
  <2> HIDE DEF U
  <2>3. f \o g \in Seq(U)
    BY <2>2, ConcatProperties
  <2>4. Items(b) = f \o g
    BY DEF Items, f, g
  <2>5. Items(b) \in Seq(U)
    BY <2>3, <2>4
  <2> HIDE DEF b
  <2> QED BY <2>5, LenProperties
<1> HIDE DEF q, L, b
<1>5. p[2] < q[2]
  BY <1>2, <1>3, <1>4
<1>6. Precedes(p, q)
  BY <1>2, <1>5 DEF Precedes
<1> QED BY <1>1, <1>2, <1>6 DEF Avail, Before, q

LEMMA SameWorth ==
    ASSUME NEW m, NEW t, t.val = m.val, t.sym = m.sym, NEW x
    PROVE  Worth(t, x) = Worth(m, x)
BY DEF Worth

LEMMA LeadsToTarget ==
    ASSUME NEW b, b.term.kind \in TermKind, NEW e
    PROVE  Leads(b, e) \in {Returned, Trapped} \cup Targets(b)
<1>1. CASE b.term.kind = "JMP"
  BY <1>1 DEF Leads, Targets
<1>2. CASE b.term.kind = "FALLTHROUGH"
  BY <1>2 DEF Leads, Targets
<1>3. CASE b.term.kind = "CJMP"
  BY <1>3 DEF Leads, Targets
<1>4. CASE b.term.kind = "RET"
  BY <1>4 DEF Leads
<1>5. CASE b.term.kind = "UNREACHABLE"
  BY <1>5 DEF Leads
<1> QED BY <1>1, <1>2, <1>3, <1>4, <1>5 DEF TermKind

\* A run of block d, once it has been entered with the same on both sides.
LEMMA BlockRuns ==
    ASSUME Complete, NEW d \in Reached(source), NEW e, NEW l, Beside(e, l),
           l.here = e.here, e.result = 0, l.result = 0, Agree(out, Elder(d), e, l),
           \A k \in 1 .. PhiCount(d) : AtPhi(e, l, d, k),
           DOMAIN e.val \subseteq ComputesIds
    PROVE  LET f == IrBlock(e, source.blocks[d])
               m == LlBlock(l, out.text[source.blocks[d].id])
           IN /\ Beside(f, m) /\ m.here = f.here /\ m.result = f.result
              /\ f.from = e.here /\ Agree(out, AvailAfter(d), f, m)
              /\ f.here \in {Returned, Trapped}
                    \/ (f.result = 0 /\ f.here \in Targets(source.blocks[d]))
              /\ DOMAIN f.val \subseteq ComputesIds
<1> DEFINE b == source.blocks[d]
           is == b.instrs
           t == out.text[b.id]
           e0 == Entry(e, d)
           l0 == TextEntry(l, d)
           f == IrBlock(e, b)
           m == LlBlock(l, t)
           Y == {is[k].id : k \in Writers(is, Len(is))}
           X == {t[k].def : k \in 1 .. Len(t)}
<1>1. /\ WellFormed(source) /\ Meaningful(source)
      /\ 1 \in DOMAIN source.blocks /\ 0 \notin DOMAIN source.blocks
  BY CompleteFacts
<1>2. d \in DOMAIN source.blocks
  BY <1>1, ReachedNext
<1>3. BlockSim(out, d) /\ Len(t) \in Nat
  BY <1>2, CompleteFacts
<1>4. /\ Start(out, d, e0, l0) /\ Agree(out, Elder(d), e0, l0)
      /\ e0.here = e.here /\ l0.here = l.here
      /\ DOMAIN e0.val = DOMAIN e.val \cup {p.id : p \in ToSet(b.phis)}
  BY Enters
<1>5. Len(is) \in Nat
  BY <1>1, <1>2, Shape
<1> HIDE DEF e0, l0
<1>6. PICK f0, m0 :
         /\ IrRuns(e0, is, Len(is), f0) /\ Runs(l0, t, m0)
         /\ Beside(f0, m0) /\ Agree(out, Avail(AtEnd(source, d)), f0, m0)
         /\ m0.result = f0.result /\ m0.here = Leads(b, f0)
         /\ m0.here \in {Returned, Trapped} \/ f0.result = 0
  BY <1>3, <1>4 DEF BlockSim
<1>7. IrSteps(e0, is)[Len(is)] = f0
  <2> HIDE DEF is
  <2> QED BY <1>5, <1>6, IrRunsAreSteps
<1>8. LlSteps(l0, t)[Len(t)] = m0
  <2> HIDE DEF t
  <2> QED BY <1>3, <1>6, RunsAreSteps
<1>9. f = [f0 EXCEPT !.from = e.here, !.here = Leads(b, f0)]
  <2>1. IrSteps([e EXCEPT !.val = Over(@, Phis(e, b))], is)[Len(is)] = f0
    BY <1>7 DEF e0, Entry
  <2> HIDE DEF b
  <2> QED BY <2>1 DEF IrBlock, Leads
<1>10. m = [m0 EXCEPT !.from = l.here]
  <2>1. LlSteps([l EXCEPT !.val = Over(@, LlPhis(l, t))], t)[Len(t)] = m0
    BY <1>8 DEF l0, TextEntry
  <2> HIDE DEF t
  <2> QED BY <2>1 DEF LlBlock
<1>11. /\ Beside(e0, l0) /\ DOMAIN e0 = RunFields /\ DOMAIN l0 = RunFields
       /\ DOMAIN f0 = RunFields /\ DOMAIN m0 = RunFields
  BY <1>4, <1>6 DEF Start, Beside, Running
<1>12. Kept(e0, f0, Y)
  <2> HIDE DEF is
  <2> DEFINE z == Len(is)
  <2>1. IrRuns(e0, is, z, f0) /\ DOMAIN e0 = RunFields /\ z \in Nat
    BY <1>5, <1>6, <1>11
  <2>2. Y = {is[k].id : k \in Writers(is, z)}
    OBVIOUS
  <2> HIDE DEF z, Y
  <2>3. Kept(e0, f0, {is[k].id : k \in Writers(is, z)})
    BY <2>1, IrRunsKeep
  <2> QED BY <2>2, <2>3
<1>13. Kept(l0, m0, X)
  <2> HIDE DEF t
  <2>1. Runs(l0, t, m0)
    BY <1>6
  <2> QED BY <1>3, <1>11, <2>1, RunsKeep
<1>14. /\ Y \subseteq ComputesIds
       /\ Y \subseteq {Item(source, p).id : p \in {q \in Places(source) : q[1] = d}}
  BY <1>1, <1>2, WritersCompute
<1> HIDE DEF f, m
<1>15. /\ DOMAIN f = RunFields /\ f.val = f0.val /\ f.sym = f0.sym /\ f.mem = f0.mem
       /\ f.result = f0.result /\ f.from = e.here /\ f.here = Leads(b, f0)
  <2> HIDE DEF b
  <2> QED BY <1>9, <1>11 DEF RunFields
<1>16. /\ DOMAIN m = RunFields /\ m.val = m0.val /\ m.sym = m0.sym /\ m.mem = m0.mem
       /\ m.result = m0.result /\ m.from = l.here /\ m.here = m0.here
  BY <1>10, <1>11 DEF RunFields
<1>17. Agree(out, Elder(d), f0, m0)
  <2>1. LET u == out.text[source.blocks[d].id] IN X \subseteq {u[k].def : k \in 1 .. Len(u)}
    OBVIOUS
  <2> HIDE DEF X, Y
  <2> QED BY <1>4, <1>12, <1>13, <1>14, <2>1, ElderKept
<1>18. Agree(out, AvailAfter(d), f0, m0)
  <2>1. AvailAfter(d) \subseteq Elder(d) \cup Avail(AtEnd(source, d))
    BY <1>1, <1>2, AfterBlock
  <2> QED BY <1>6, <1>17, <2>1 DEF Agree
<1>19. Agree(out, AvailAfter(d), f, m)
  <2>1. \A x : Worth(m, x) = Worth(m0, x)
    BY <1>16, SameWorth
  <2> QED BY <1>15, <1>18, <2>1 DEF Agree
<1>20. Beside(f, m)
  BY <1>6, <1>15, <1>16 DEF Beside, Running
<1>21. b.term.kind \in TermKind
  BY <1>1, <1>2 DEF WellFormed
<1>22. Leads(b, f0) \in {Returned, Trapped} \cup Targets(b)
  <2> HIDE DEF b
  <2> QED BY <1>21, LeadsToTarget
<1>23. DOMAIN f.val \subseteq ComputesIds
  <2>1. {p.id : p \in ToSet(b.phis)} \subseteq ComputesIds
    <3> SUFFICES ASSUME NEW x \in ToSet(b.phis) PROVE x.id \in ComputesIds
      OBVIOUS
    <3>1. PICK k \in DOMAIN b.phis : x = b.phis[k]
      BY DEF ToSet
    <3>2. k \in 1 .. PhiCount(d)
      BY <1>1, <1>2, Shape DEF PhiCount
    <3> DEFINE p == <<d, k>>
    <3>3. p \in Places(source) /\ IsPhi(source, p) /\ Item(source, p) = x
      BY <1>1, <1>2, <3>1, <3>2, PhiPlaces
    <3> HIDE DEF p
    <3> QED BY <3>3 DEF ComputesIds, Computes
  <2> HIDE DEF Y, b
  <2>2. DOMAIN e0.val \subseteq ComputesIds
    BY <1>4, <2>1
  <2>3. \A x : x \notin Y => (x \in DOMAIN f0.val <=> x \in DOMAIN e0.val)
    BY <1>12 DEF Kept
  <2> QED BY <1>14, <1>15, <2>2, <2>3
<1> HIDE DEF b
<1>24. /\ Beside(f, m) /\ m.here = f.here /\ m.result = f.result
       /\ f.from = e.here /\ Agree(out, AvailAfter(d), f, m)
       /\ f.here \in {Returned, Trapped} \/ (f.result = 0 /\ f.here \in Targets(b))
       /\ DOMAIN f.val \subseteq ComputesIds
  <2>1. m.here = f.here /\ m.result = f.result
    BY <1>6, <1>15, <1>16
  <2>2. f.here \in {Returned, Trapped} \/ (f.result = 0 /\ f.here \in Targets(b))
    BY <1>6, <1>15, <1>22
  <2> QED BY <1>15, <1>19, <1>20, <1>23, <2>1, <2>2
<1> QED BY <1>24 DEF b, t, f, m

\* Two runs that are at the same place with the same values.
RunOk(e, l) ==
    /\ Beside(e, l) /\ l.here = e.here /\ l.result = e.result
    /\ DOMAIN e.val \subseteq ComputesIds
    /\ \/ e.from = -1 /\ e.here = source.blocks[1].id /\ e.result = 0
       \/ \E a \in Reached(source) :
             /\ e.from = source.blocks[a].id /\ Agree(out, AvailAfter(a), e, l)
             /\ \/ e.here \in {Returned, Trapped}
                \/ e.result = 0 /\ e.here \in Targets(source.blocks[a])

LEMMA BlockOfId ==
    ASSUME WellFormed(source), NEW a \in DOMAIN source.blocks
    PROVE  BlockOf(source.blocks[a].id) = source.blocks[a]
<1>1. source.blocks[a] \in ToSet(source.blocks)
  BY DEF ToSet
<1>2. ASSUME NEW x \in ToSet(source.blocks), x.id = source.blocks[a].id
      PROVE  x = source.blocks[a]
  <2>1. PICK d \in DOMAIN source.blocks : x = source.blocks[d]
    BY DEF ToSet
  <2>2. a = d
    BY <1>2, <2>1 DEF WellFormed
  <2> QED BY <2>1, <2>2
<1> QED BY <1>1, <1>2 DEF BlockOf

LEMMA RunStep ==
    ASSUME Complete, NEW e, NEW l, RunOk(e, l), e.here \notin {Returned, Trapped}
    PROVE  RunOk(IrBlock(e, BlockOf(e.here)), LlBlock(l, out.text[l.here]))
<1>1. /\ WellFormed(source) /\ Meaningful(source)
      /\ 1 \in DOMAIN source.blocks /\ 0 \notin DOMAIN source.blocks
  BY CompleteFacts
<1>2. /\ Beside(e, l) /\ l.here = e.here /\ l.result = e.result
      /\ DOMAIN e.val \subseteq ComputesIds
  BY DEF RunOk
<1>3. PICK d \in Reached(source) :
         /\ e.here = source.blocks[d].id /\ e.result = 0
         /\ Agree(out, Elder(d), e, l)
         /\ \A k \in 1 .. PhiCount(d) : AtPhi(e, l, d, k)
  <2>1. CASE e.from = -1 /\ e.here = source.blocks[1].id /\ e.result = 0
    <3>1. 1 \in Reached(source)
      BY <1>1, ReachedNext
    <3>2. Elder(1) = {}
      BY <1>1, NoneDominatesFirst DEF Elder, AvailAfter
    <3>3. Agree(out, Elder(1), e, l)
      BY <3>2 DEF Agree
    <3>4. 1 .. PhiCount(1) = {}
      <4>1. PhiCount(1) = 0
        BY <1>1 DEF Meaningful, PhiCount
      <4> QED BY <4>1
    <3> QED BY <2>1, <3>1, <3>3, <3>4
  <2>2. CASE \E a \in Reached(source) :
                /\ e.from = source.blocks[a].id /\ Agree(out, AvailAfter(a), e, l)
                /\ \/ e.here \in {Returned, Trapped}
                   \/ e.result = 0 /\ e.here \in Targets(source.blocks[a])
    <3>1. PICK a \in Reached(source) :
             /\ e.from = source.blocks[a].id /\ Agree(out, AvailAfter(a), e, l)
             /\ e.result = 0 /\ e.here \in Targets(source.blocks[a])
      BY <2>2
    <3>2. a \in DOMAIN source.blocks
      BY <1>1, ReachedNext
    <3>3. Targets(source.blocks[a]) \subseteq
             {source.blocks[d].id : d \in DOMAIN source.blocks \ {1}}
      BY <1>1, <3>2 DEF Meaningful
    <3>4. PICK d \in DOMAIN source.blocks : e.here = source.blocks[d].id
      BY <3>1, <3>3
    <3>5. Follows(source, a, d)
      BY <3>1, <3>4 DEF Follows
    <3>6. d \in Reached(source)
      BY <1>1, <3>5, ReachedNext
    <3>7. Elder(d) \subseteq AvailAfter(a)
      <4> SUFFICES ASSUME NEW p \in Elder(d) PROVE p \in AvailAfter(a)
        OBVIOUS
      <4> DEFINE h == p[1]
      <4>1. /\ p \in Places(source) /\ Computes(source, p)
            /\ h # d /\ Dominates(source, h, d)
        BY DEF Elder, AvailAfter
      <4> HIDE DEF h
      <4>2. Dominates(source, h, a)
        BY <1>1, <3>5, <4>1, DominatesBefore
      <4> QED BY <4>1, <4>2 DEF AvailAfter, h
    <3>8. Agree(out, Elder(d), e, l)
      BY <3>1, <3>7 DEF Agree
    <3>9. \A k \in 1 .. PhiCount(d) : AtPhi(e, l, d, k)
      <4> TAKE k \in 1 .. PhiCount(d)
      <4>1. Agree(out, AvailAfter(a), e, l) /\ e.from = source.blocks[a].id
        BY <3>1
      <4> QED BY <1>2, <3>2, <3>5, <4>1, PhisTakeOver DEF AtPhi
    <3> QED BY <3>1, <3>4, <3>6, <3>8, <3>9
  <2> QED BY <2>1, <2>2 DEF RunOk
<1>4. d \in DOMAIN source.blocks
  BY <1>1, ReachedNext
<1> DEFINE b == source.blocks[d]
           f == IrBlock(e, b)
           m == LlBlock(l, out.text[b.id])
<1>5. BlockOf(e.here) = b /\ l.here = b.id
  BY <1>1, <1>2, <1>3, <1>4, BlockOfId
<1>6. l.result = 0
  BY <1>2, <1>3
<1>7. /\ Beside(f, m) /\ m.here = f.here /\ m.result = f.result
      /\ f.from = e.here /\ Agree(out, AvailAfter(d), f, m)
      /\ f.here \in {Returned, Trapped} \/ (f.result = 0 /\ f.here \in Targets(b))
      /\ DOMAIN f.val \subseteq ComputesIds
  BY <1>2, <1>3, <1>6, BlockRuns
<1> HIDE DEF f, m
<1>8. RunOk(f, m)
  <2>1. f.from = source.blocks[d].id
    BY <1>3, <1>7
  <2> QED BY <1>7, <2>1 DEF RunOk
<1> QED BY <1>5, <1>8 DEF f, m

\* What is said of two runs depends on nothing else that changes.
LEMMA RunOkSame ==
    ASSUME source' = source, out' = out, NEW e, NEW l
    PROVE  RunOk(e, l)' <=> RunOk(e, l)
<1>1. \A P : Agree(out, P, e, l)' <=> Agree(out, P, e, l)
  BY DEF Agree
<1>2. \A a : AvailAfter(a)' = AvailAfter(a)
  BY DEF AvailAfter
<1>3. ComputesIds' = ComputesIds
  BY DEF ComputesIds
<1> QED BY <1>1, <1>2, <1>3 DEF RunOk

\* Once all is written, the text and its source are at the same place.
RunInv == ~Emitting /\ Meaningful(source) /\ PhisLookBack(source) => RunOk(ir, ll)

LEMMA RunInvAtStart == Init => RunInv
<1> SUFFICES ASSUME Init, Meaningful(source) PROVE Emitting
  BY DEF RunInv
<1> DEFINE s == source.blocks
<1>1. WellFormed(source)
  BY SourcesAssumption DEF Init
<1>2. s # <<>> /\ s \in Seq(ToSet(s)) /\ Len(s) \in Nat
  BY <1>1, Shape DEF Meaningful, WellFormed
<1> HIDE DEF s
<1>3. Len(s) # 0
  BY <1>2, EmptySeq
<1>4. 1 <= Len(s)
  BY <1>2, <1>3
<1> QED BY <1>4 DEF Emitting, Init, s

LEMMA RunInvStep == NameInv /\ EmitInv /\ RunInv /\ [Next]_vars => RunInv'
<1> SUFFICES ASSUME NameInv, EmitInv, RunInv, [Next]_vars,
                    ~Emitting', Meaningful(source)', PhisLookBack(source)'
             PROVE  RunOk(ir, ll)'
  BY DEF RunInv
<1>1. source' = source
  BY DEF Next, Phi, Instr, Term, Run, vars
<1>2. Meaningful(source) /\ PhisLookBack(source)
  BY <1>1
<1>3. CASE Phi \/ Instr
  <2>1. Emitting /\ at' = at
    BY <1>3 DEF Phi, Instr
  <2> QED BY <1>1, <2>1 DEF Emitting
<1>4. CASE Term
  <2>1. Emitting /\ at' = at + 1
    BY <1>4 DEF Term
  <2>2. at \in Nat /\ Len(source.blocks) \in Nat
    BY SourcesAssumption, Shape DEF NameInv
  <2>3. ~(at < Len(source.blocks))
    BY <1>1, <2>1, <2>2 DEF Emitting
  <2>4. PICK sym \in Inputs, mem \in Memories :
           LET run == [sym |-> sym, val |-> <<>>, mem |-> mem, from |-> -1,
                       here |-> source.blocks[1].id, result |-> 0]
           IN ir' = run /\ ll' = run
    BY <1>4, <2>3 DEF Term
  <2> DEFINE run == [sym |-> sym, val |-> <<>>, mem |-> mem, from |-> -1,
                     here |-> source.blocks[1].id, result |-> 0]
  <2>5. ir' = run /\ ll' = run
    BY <2>4
  <2>6. sym \in [DOMAIN sym -> Word] /\ "call" \in DOMAIN sym /\ mem \in [Word -> Word]
    BY RunsAssumption
  <2>7. Running(run)
    <3>1. /\ DOMAIN run = {"sym", "val", "mem", "from", "here", "result"}
          /\ run.sym = sym /\ run.mem = mem
      OBVIOUS
    <3> HIDE DEF run
    <3> QED BY <2>6, <3>1 DEF Running, RunFields
  <2>8. /\ run.from = -1 /\ run.here = source.blocks[1].id /\ run.result = 0
        /\ DOMAIN run.val = {}
    OBVIOUS
  <2> HIDE DEF run
  <2>9. /\ Beside(ir, ll)' /\ (ll.here = ir.here)' /\ (ll.result = ir.result)'
        /\ (DOMAIN ir.val = {})'
        /\ (ir.from = -1 /\ ir.here = source.blocks[1].id /\ ir.result = 0)'
    BY <1>1, <2>5, <2>7, <2>8 DEF Beside
  <2> QED BY <2>9 DEF RunOk
<1>5. CASE Run
  <2>1. /\ ~Emitting /\ ~Stopped(ir) /\ out' = out
        /\ ir' = IrBlock(ir, BlockOf(ir.here)) /\ ll' = LlBlock(ll, out.text[ll.here])
    BY <1>5 DEF Run
  <2>2. Complete /\ RunOk(ir, ll)
    BY <1>2, <2>1 DEF Complete, EmitInv, RunInv
  <2> DEFINE e == IrBlock(ir, BlockOf(ir.here))
             l == LlBlock(ll, out.text[ll.here])
  <2>3. RunOk(e, l) /\ ir' = e /\ ll' = l
    BY <2>1, <2>2, RunStep DEF Stopped
  <2> HIDE DEF e, l
  <2>4. RunOk(ir', ll')
    BY <2>3
  <2> DEFINE f == ir'
             m == ll'
  <2>5. RunOk(ir, ll)' <=> RunOk(ir', ll')
    <3>1. Agree(out, {}, ir, ll)' <=> Agree(out', {}, ir', ll')
      BY <1>1 DEF Agree
    <3> QED BY <1>1, <2>1 DEF RunOk, Agree, AvailAfter, ComputesIds
  <2> QED BY <2>4, <2>5
<1>6. CASE UNCHANGED vars
  <2>1. UNCHANGED <<source, at, out, ir, ll>>
    BY <1>6 DEF vars
  <2>2. RunOk(ir, ll)
    BY <1>2, <2>1 DEF RunInv, Emitting
  <2> QED BY <2>1, <2>2 DEF RunOk, Agree, AvailAfter, ComputesIds
<1> QED BY <1>3, <1>4, <1>5, <1>6 DEF Next

\* What two such runs show is the same.
LEMMA RunsShowTheSame ==
    ASSUME WellFormed(source), Meaningful(source), RunOk(ir, ll)
    PROVE  /\ ll.here = ir.here /\ ll.mem = ir.mem /\ ll.result = ir.result
           /\ \A a \in DOMAIN source.blocks, p \in Places(source) :
                 LET id == Item(source, p).id
                 IN /\ source.blocks[a].id = ir.from /\ id \in DOMAIN ir.val
                    /\ Dominates(source, p[1], a)
                    => Worth(ll, out.names[id]) = ir.val[id]
<1>1. ll.here = ir.here /\ ll.mem = ir.mem /\ ll.result = ir.result
  BY DEF RunOk, Beside
<1> SUFFICES ASSUME NEW a \in DOMAIN source.blocks, NEW p \in Places(source),
                    source.blocks[a].id = ir.from, Item(source, p).id \in DOMAIN ir.val,
                    Dominates(source, p[1], a)
             PROVE  Worth(ll, out.names[Item(source, p).id]) = ir.val[Item(source, p).id]
  BY <1>1
<1>2. ir.from # -1
  <2>1. source.blocks[a].id \in Nat
    BY DEF Meaningful
  <2> QED BY <2>1
<1>3. PICK b \in Reached(source) :
         ir.from = source.blocks[b].id /\ Agree(out, AvailAfter(b), ir, ll)
  BY <1>2 DEF RunOk
<1>4. 1 \in DOMAIN source.blocks /\ 0 \notin DOMAIN source.blocks
  <2> DEFINE s == source.blocks
  <2>1. s # <<>> /\ s \in Seq(ToSet(s)) /\ Len(s) \in Nat /\ DOMAIN s = 1 .. Len(s)
    BY Shape DEF Meaningful, WellFormed
  <2> HIDE DEF s
  <2>2. Len(s) # 0
    BY <2>1, EmptySeq
  <2>3. 1 \in DOMAIN s /\ 0 \notin DOMAIN s
    BY <2>1, <2>2
  <2> QED BY <2>3 DEF s
<1>5. a = b
  <2>1. b \in DOMAIN source.blocks
    BY <1>4, ReachedNext
  <2> QED BY <1>3, <2>1 DEF WellFormed
<1>6. PICK q \in Places(source) :
         Computes(source, q) /\ Item(source, q).id = Item(source, p).id
  BY DEF RunOk, ComputesIds
<1>7. p = q
  BY <1>6, ItemsDiffer
<1>8. p \in AvailAfter(a)
  BY <1>6, <1>7 DEF AvailAfter
<1> QED BY <1>3, <1>5, <1>8 DEF Agree

(* The text run beside its source goes through the same blocks, returns    *)
(* the same, leaves the same memory and computes the same values, whatever *)
(* the source, the symbols and the memory are and however long it runs, as *)
(* long as the source reads nothing that was not computed (Meaningful) and *)
(* its phis take over nothing that is written after them, which            *)
(* emit_cfg_function would write as 0 (PhisLookBack).                      *)
THEOREM TextRunsAsItsSource ==
    Spec => [](Meaningful(source) /\ PhisLookBack(source) => SameExecution)
<1>1. NameInv /\ RunInv => (Meaningful(source) /\ PhisLookBack(source) => SameExecution)
  <2> SUFFICES ASSUME NameInv, RunInv, Meaningful(source), PhisLookBack(source), ~Emitting
               PROVE  SameExecution
    BY DEF SameExecution
  <2>1. WellFormed(source) /\ RunOk(ir, ll)
    BY SourcesAssumption DEF NameInv, RunInv
  <2> QED BY <2>1, RunsShowTheSame DEF SameExecution
<1> QED BY <1>1, NameInvAtStart, NameInvStep, EmitInvAtStart, EmitInvStep,
           RunInvAtStart, RunInvStep, PTL DEF Spec
=============================================================================
