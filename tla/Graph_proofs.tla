---------------------------- MODULE Graph_proofs ----------------------------
(***************************************************************************)
(* For every set of files: the functions that are generated are proper     *)
(* graphs.  What a block holds exists, its edges are those of its branch,  *)
(* control leaves every block, and an operand is null only in a program    *)
(* the generator has complained of.                                        *)
(***************************************************************************)
EXTENDS Driver_proofs, FiniteSetTheorems

-----------------------------------------------------------------------------
(* The graph, in every state.  What a handler returns is never a block.    *)
Address == ({"inst"} \X (1..Len(insts))) \union {Constant, NULL}

BlockType == [insts : Seq(1..Len(insts)),
              preds : Seq(1..Len(blocks)),
              succs : Seq(1..Len(blocks))]

GraphInv ==
    /\ blocks \in Seq(BlockType)
    /\ \A i \in DOMAIN insts : insts[i].operands \in Seq(Value)
    /\ EdgesMatchBranches

(* An instruction more at the end of the current block, and the edges from *)
(* there to the blocks it names.                                           *)
Adds(op, operands, to) ==
    /\ \E n : Made(n, op, operands)
    /\ blocks' \in Seq([insts : Seq(1..(Len(insts) + 1)),
                       preds : Seq(1..Len(blocks)),
                       succs : Seq(1..Len(blocks))])
    /\ Len(blocks') = Len(blocks)
    /\ \A b \in DOMAIN blocks :
           /\ blocks'[b].insts = IF b = block THEN Append(blocks[b].insts, Len(insts) + 1)
                                 ELSE blocks[b].insts
           /\ blocks'[b].preds = IF b \in Range(to) THEN Append(blocks[b].preds, block)
                                 ELSE blocks[b].preds
           /\ blocks'[b].succs = IF b = block THEN blocks[b].succs \o to
                                 ELSE blocks[b].succs

LEMMA Labels ==
    /\ \A b, c : Label(b) = Label(c) <=> b = c
    /\ \A b \in Nat : Label(b) \notin Address
    /\ \A i \in Nat : Inst(i) # NULL
    /\ \A b \in Nat : Label(b) # NULL
    /\ Constant # NULL
    /\ Address \subseteq Value
    /\ \A i \in 1..Len(insts) : Inst(i) \in Address
    /\ \A b \in Nat : Label(b) \in Value <=> b \in 1..Len(blocks)
<1>1. \A b, c : Label(b) = Label(c) <=> b = c
  BY DEF Label
<1>2. /\ \A i \in Nat : Inst(i) # NULL
      /\ \A b \in Nat : Label(b) # NULL
      /\ Constant # NULL
  BY IRAssumption DEF Label, Inst, Constant
<1>3. /\ Address \subseteq Value
      /\ \A i \in 1..Len(insts) : Inst(i) \in Address
  BY DEF Address, Value, Inst
<1>4. \A b \in Nat : Label(b) \notin Address
  BY <1>2 DEF Address, Label, Constant
<1>5. \A b \in Nat : Label(b) \in Value <=> b \in 1..Len(blocks)
  BY <1>2 DEF Value, Label, Constant
<1> QED
  BY <1>1, <1>2, <1>3, <1>4, <1>5

(* Pointers stay what they are while instructions and blocks are added.    *)
LEMMA ValuesGrow ==
    ASSUME Len(insts) \in Nat, Len(insts') \in Nat, Len(insts) <= Len(insts'),
           Len(blocks) \in Nat, Len(blocks') \in Nat, Len(blocks) <= Len(blocks')
    PROVE  /\ Address \subseteq Address'
           /\ Value \subseteq Value'
           /\ \A q \in Seq(Value) : q \in Seq(Value')
           /\ \A q \in Seq(1..Len(insts)) : q \in Seq(1..Len(insts'))
           /\ \A q \in Seq(1..Len(blocks)) : q \in Seq(1..Len(blocks'))
<1>1. /\ 1..Len(insts) \subseteq 1..Len(insts')
      /\ 1..Len(blocks) \subseteq 1..Len(blocks')
  OBVIOUS
<1>2. Address \subseteq Address' /\ Value \subseteq Value'
  BY <1>1 DEF Address, Value
<1>3. \A S, T : S \subseteq T => \A q \in Seq(S) : q \in Seq(T)
  OBVIOUS
<1> QED
  BY <1>1, <1>2, <1>3

LEMMA RangeIn ==
    ASSUME NEW S, NEW q \in Seq(S)
    PROVE  Range(q) \subseteq S
BY DEF Range

LEMMA Pointers ==
    ASSUME GraphInv
    PROVE  /\ Len(blocks) \in Nat /\ DOMAIN blocks = 1..Len(blocks)
           /\ \A b \in 1..Len(blocks) :
                  /\ blocks[b] \in BlockType
                  /\ Range(blocks[b].insts) \subseteq 1..Len(insts)
                  /\ Range(blocks[b].preds) \subseteq 1..Len(blocks)
                  /\ Range(blocks[b].succs) \subseteq 1..Len(blocks)
<1>1. /\ Len(blocks) \in Nat /\ DOMAIN blocks = 1..Len(blocks)
      /\ \A b \in 1..Len(blocks) : blocks[b] \in BlockType
  BY DEF GraphInv
<1>2. \A r \in BlockType : /\ r.insts \in Seq(1..Len(insts))
                           /\ r.preds \in Seq(1..Len(blocks))
                           /\ r.succs \in Seq(1..Len(blocks))
  BY DEF BlockType
<1> QED
  BY <1>1, <1>2, RangeIn

LEMMA BlocksMade ==
    ASSUME GraphInv, IsSeq(insts), insts' = insts,
           NEW m \in Nat, IsSeq(blocks'), Len(blocks') = Len(blocks) + m,
           \A b \in 1..Len(blocks) : blocks'[b] = blocks[b],
           \A b \in (Len(blocks) + 1)..(Len(blocks) + m) : blocks'[b] = EmptyBlock
    PROVE  GraphInv'
<1>1. /\ Len(blocks) \in Nat /\ DOMAIN blocks = 1..Len(blocks)
      /\ Len(blocks') \in Nat /\ DOMAIN blocks' = 1..Len(blocks')
      /\ Len(insts) \in Nat /\ DOMAIN insts = 1..Len(insts)
  BY DEF GraphInv, IsSeq
<1>2. /\ \A q \in Seq(Value) : q \in Seq(Value')
      /\ \A q \in Seq(1..Len(blocks)) : q \in Seq(1..Len(blocks'))
  BY <1>1, ValuesGrow
<1>3. EmptyBlock \in BlockType'
  BY DEF EmptyBlock, BlockType
<1>4. BlockType \subseteq BlockType'
  BY <1>2 DEF BlockType
<1>5. blocks' \in Seq(BlockType')
  <2>1. \A b \in 1..Len(blocks') : blocks'[b] \in BlockType'
    BY <1>1, <1>3, <1>4 DEF GraphInv
  <2> QED
    BY <1>1, <2>1 DEF IsSeq
<1>6. ASSUME NEW b \in 1..Len(blocks)
      PROVE  Targets(b)' = Targets(b)
  <2>1. \A i \in Range(blocks[b].insts) : i \in DOMAIN insts
    BY <1>1, Pointers
  <2>2. \A i \in Range(blocks[b].insts), t \in 1..Len(blocks') :
            Label(t) \in Range(insts[i].operands) => t \in 1..Len(blocks)
    <3> TAKE i \in Range(blocks[b].insts), t \in 1..Len(blocks')
    <3>1. \A v \in Range(insts[i].operands) : v \in Value
      BY <2>1 DEF GraphInv, Range
    <3> QED
      BY <1>1, <3>1, Labels
  <2> QED
    BY <1>1, <1>6, <2>2 DEF Targets
<1>7. \A b \in (Len(blocks) + 1)..(Len(blocks) + m) : Targets(b)' = {}
  BY <1>1 DEF Targets, EmptyBlock, Range
<1>8. /\ Range(EmptyBlock.succs) = {} /\ Range(EmptyBlock.preds) = {}
      /\ Len(EmptyBlock.succs) = 0 /\ Cardinality({}) = 0
  BY FS_EmptySet DEF EmptyBlock, Range
<1>9. ASSUME NEW b \in 1..Len(blocks')
      PROVE  /\ Range(blocks'[b].succs) = Targets(b)'
             /\ Len(blocks'[b].succs) = Cardinality(Targets(b)')
             /\ \A t \in 1..Len(blocks') :
                    (b \in Range(blocks'[t].preds)) = (t \in Range(blocks'[b].succs))
  <2>1. CASE b \in 1..Len(blocks)
    <3>1. /\ blocks'[b] = blocks[b] /\ b \in DOMAIN blocks
          /\ Range(blocks[b].succs) = Targets(b)
          /\ Len(blocks[b].succs) = Cardinality(Targets(b))
      BY <1>1, <2>1 DEF GraphInv, EdgesMatchBranches
    <3>2. Range(blocks[b].succs) \subseteq 1..Len(blocks)
      BY <2>1, Pointers
    <3>3. ASSUME NEW t \in 1..Len(blocks')
          PROVE  (b \in Range(blocks'[t].preds)) = (t \in Range(blocks'[b].succs))
      <4>1. CASE t \in 1..Len(blocks)
        BY <1>1, <2>1, <3>1, <4>1 DEF GraphInv, EdgesMatchBranches
      <4>2. CASE t \notin 1..Len(blocks)
        BY <1>1, <1>8, <3>1, <3>2, <4>2
      <4> QED
        BY <4>1, <4>2
    <3> QED
      BY <1>6, <2>1, <3>1, <3>3
  <2>2. CASE b \notin 1..Len(blocks)
    <3>1. blocks'[b] = EmptyBlock /\ Targets(b)' = {}
      BY <1>1, <1>7, <2>2
    <3>2. ASSUME NEW t \in 1..Len(blocks')
          PROVE  b \notin Range(blocks'[t].preds)
      <4>1. CASE t \in 1..Len(blocks)
        BY <1>1, <2>2, <4>1, Pointers
      <4>2. CASE t \notin 1..Len(blocks)
        BY <1>1, <1>8, <4>2
      <4> QED
        BY <4>1, <4>2
    <3> QED
      BY <1>8, <3>1, <3>2
  <2> QED
    BY <2>1, <2>2
<1>10. EdgesMatchBranches'
  BY <1>1, <1>9 DEF EdgesMatchBranches
<1> QED
  BY <1>2, <1>5, <1>10 DEF GraphInv

LEMMA RangeGrows ==
    ASSUME NEW S, NEW q \in Seq(S), NEW e
    PROVE  Range(Append(q, e)) = Range(q) \union {e}
<1> DEFINE T == S \union {e}
<1>1. q \in Seq(T) /\ e \in T
  OBVIOUS
<1> HIDE DEF T
<1>2. /\ Append(q, e) \in Seq(T) /\ Len(Append(q, e)) = Len(q) + 1
      /\ Append(q, e)[Len(q) + 1] = e
      /\ \A k \in 1..Len(q) : Append(q, e)[k] = q[k]
      /\ DOMAIN q = 1..Len(q) /\ Len(q) \in Nat
      /\ DOMAIN Append(q, e) = 1..(Len(q) + 1)
  BY <1>1
<1> HIDE DEF Append
<1> QED
  BY <1>2 DEF Range

LEMMA InstAdded ==
    ASSUME GraphInv, IsSeq(insts), block \in 1..Len(blocks),
           NEW op, NEW operands \in Seq(Value), NEW to \in Seq(1..Len(blocks)),
           Adds(op, operands, to),
           \A t \in 1..Len(blocks) : Label(t) \in Range(operands) <=> t \in Range(to),
           Len(to) = Cardinality(Range(to)),
           to = <<>> \/ blocks[block].succs = <<>>
    PROVE  GraphInv'
<1> PICK c \in 1..Len(blocks) : c = block
  OBVIOUS
<1> DEFINE last == Len(insts) + 1
<1>1. /\ IsSeq(insts')
      /\ Len(insts) \in Nat /\ Len(insts') = last
      /\ DOMAIN insts = 1..Len(insts) /\ DOMAIN insts' = 1..last
      /\ \A i \in 1..Len(insts) : insts'[i] = insts[i]
      /\ insts'[last].operands = operands
  <2> PICK n : Made(n, op, operands)
    BY DEF Adds
  <2> DEFINE e == [op |-> op, operands |-> operands, node |-> n]
  <2>1. e.operands = operands /\ insts' = Append(insts, e)
    BY DEF Made
  <2> HIDE DEF e
  <2> QED
    BY <2>1, AppendTo
<1> HIDE DEF last
<1>2. /\ Len(blocks) \in Nat /\ Len(blocks') = Len(blocks)
      /\ DOMAIN blocks = 1..Len(blocks) /\ DOMAIN blocks' = 1..Len(blocks)
  BY Pointers DEF Adds
<1>3. /\ \A q \in Seq(Value) : q \in Seq(Value')
      /\ \A q \in Seq(1..Len(insts)) : q \in Seq(1..last)
  BY <1>1, <1>2, ValuesGrow DEF last
<1>4. ASSUME NEW b \in 1..Len(blocks)
      PROVE  /\ \A i : i \in Range(blocks'[b].insts) <=>
                          i \in Range(blocks[b].insts) \/ (b = c /\ i = last)
             /\ \A f : f \in Range(blocks'[b].preds) <=>
                          f \in Range(blocks[b].preds) \/ (b \in Range(to) /\ f = c)
             /\ b = c => blocks'[b].succs = blocks[b].succs \o to
             /\ b # c => blocks'[b].succs = blocks[b].succs
  <2> DEFINE r == blocks'[b]
             s == blocks[b]
  <2>1. /\ r.insts = IF b = c THEN Append(s.insts, last) ELSE s.insts
        /\ r.preds = IF b \in Range(to) THEN Append(s.preds, c) ELSE s.preds
        /\ r.succs = IF b = c THEN s.succs \o to ELSE s.succs
    BY <1>2 DEF Adds, last
  <2>2. s.insts \in Seq(1..Len(insts)) /\ s.preds \in Seq(1..Len(blocks))
    BY Pointers DEF BlockType
  <2> HIDE DEF r, s
  <2>3. /\ Range(Append(s.insts, last)) = Range(s.insts) \union {last}
        /\ Range(Append(s.preds, c)) = Range(s.preds) \union {c}
    BY <2>2, RangeGrows
  <2> QED
    BY <2>1, <2>3 DEF r, s
<1>5. blocks' \in Seq(BlockType')
  BY <1>1, <1>2 DEF Adds, BlockType, last
<1>6. \A i \in DOMAIN insts' : insts'[i].operands \in Seq(Value')
  <2> TAKE i \in DOMAIN insts'
  <2>1. CASE i \in 1..Len(insts)
    BY <1>1, <1>3, <2>1 DEF GraphInv
  <2>2. CASE i = last
    BY <1>1, <1>3, <2>2
  <2> QED
    BY <1>1, <2>1, <2>2 DEF last
<1>7. ASSUME NEW b \in 1..Len(blocks)
      PROVE  /\ b = c => Targets(b)' = Targets(b) \union Range(to)
             /\ b # c => Targets(b)' = Targets(b)
  <2>1. /\ last \notin 1..Len(insts)
        /\ \A i \in Range(blocks[b].insts) : i \in 1..Len(insts) /\ insts'[i] = insts[i]
    BY <1>1, Pointers DEF last
  <2>2. Targets(b)' = {t \in 1..Len(blocks) :
                          \/ \E i \in Range(blocks[b].insts) :
                                 Label(t) \in Range(insts'[i].operands)
                          \/ b = c /\ Label(t) \in Range(insts'[last].operands)}
    BY <1>2, <1>4 DEF Targets
  <2>3. Targets(b) = {t \in 1..Len(blocks) : \E i \in Range(blocks[b].insts) :
                                                Label(t) \in Range(insts'[i].operands)}
    BY <1>2, <2>1 DEF Targets
  <2>4. Range(to) \subseteq 1..Len(blocks)
    BY RangeIn
  <2> QED
    BY <1>1, <2>2, <2>3, <2>4
<1>8. /\ Range(blocks[c].succs) = Targets(c)
      /\ Len(blocks[c].succs) = Cardinality(Targets(c))
  BY <1>2 DEF GraphInv, EdgesMatchBranches
<1>9. /\ Range(blocks'[c].succs) = Targets(c)'
      /\ Len(blocks'[c].succs) = Cardinality(Targets(c)')
      /\ Range(blocks'[c].succs) = Range(blocks[c].succs) \union Range(to)
  <2>1. Range(<<>>) = {}
    BY DEF Range
  <2>2. blocks[c].succs \in Seq(1..Len(blocks))
    BY Pointers DEF BlockType
  <2>3. CASE to = <<>>
    <3>1. blocks[c].succs \o to = blocks[c].succs
      BY <2>2, <2>3
    <3> QED
      BY <1>4, <1>7, <1>8, <2>1, <2>3, <3>1
  <2>4. CASE blocks[c].succs = <<>>
    <3>1. blocks[c].succs \o to = to
      BY <2>2, <2>4
    <3>2. Targets(c)' = Range(to)
      BY <1>7, <1>8, <2>1, <2>4
    <3> QED
      BY <1>4, <2>1, <2>4, <3>1, <3>2
  <2> QED
    BY <2>3, <2>4
<1>10. ASSUME NEW b \in 1..Len(blocks), NEW t \in 1..Len(blocks)
       PROVE  (b \in Range(blocks'[t].preds)) = (t \in Range(blocks'[b].succs))
  <2>1. (b \in Range(blocks[t].preds)) <=> (t \in Range(blocks[b].succs))
    BY <1>2 DEF GraphInv, EdgesMatchBranches
  <2>2. b \in Range(blocks'[t].preds) <=>
            b \in Range(blocks[t].preds) \/ (t \in Range(to) /\ b = c)
    <3>1. \A f : f \in Range(blocks'[t].preds) <=>
                     f \in Range(blocks[t].preds) \/ (t \in Range(to) /\ f = c)
      BY <1>4, Zenon
    <3> QED
      BY <3>1
  <2>3. CASE b = c
    <3>1. t \in Range(blocks'[b].succs) <=> t \in Range(blocks[b].succs) \/ t \in Range(to)
      BY <1>9, <2>3
    <3> QED
      BY <2>1, <2>2, <2>3, <3>1
  <2>4. CASE b # c
    <3>1. blocks'[b].succs = blocks[b].succs
      BY <1>4, <2>4
    <3> QED
      BY <2>1, <2>2, <2>4, <3>1
  <2> QED
    BY <2>3, <2>4
<1>11. ASSUME NEW b \in 1..Len(blocks), b # c
       PROVE  /\ Range(blocks'[b].succs) = Targets(b)'
              /\ Len(blocks'[b].succs) = Cardinality(Targets(b)')
  BY <1>2, <1>4, <1>7, <1>11 DEF GraphInv, EdgesMatchBranches
<1>12. EdgesMatchBranches'
  BY <1>2, <1>9, <1>10, <1>11 DEF EdgesMatchBranches
<1> QED
  BY <1>5, <1>6, <1>12 DEF GraphInv

-----------------------------------------------------------------------------
(* The generator adds to the current block in three ways.                  *)
BlockOver(I, BS) == [insts : Seq(I), preds : Seq(BS), succs : Seq(BS)]

LEMMA ReplaceOne ==
    ASSUME NEW S, NEW q \in Seq(S), NEW c \in 1..Len(q), NEW e \in S
    PROVE  LET r == [q EXCEPT ![c] = e]
           IN  /\ r \in Seq(S) /\ Len(r) = Len(q)
               /\ r[c] = e
               /\ \A b \in 1..Len(q) : b # c => r[b] = q[b]
OBVIOUS

LEMMA WithInstIs ==
    ASSUME NEW I, NEW BS, NEW bs \in Seq(BlockOver(I, BS)), NEW c \in 1..Len(bs),
           Len(insts) + 1 \in I
    PROVE  LET r == WithInst(bs, c)
           IN  /\ r \in Seq(BlockOver(I, BS)) /\ Len(r) = Len(bs)
               /\ \A b \in 1..Len(bs) :
                      /\ r[b].insts = IF b = c THEN Append(bs[b].insts, Len(insts) + 1)
                                      ELSE bs[b].insts
                      /\ r[b].preds = bs[b].preds
                      /\ r[b].succs = bs[b].succs
<1> DEFINE x == Append(bs[c].insts, Len(insts) + 1)
           e == [bs[c] EXCEPT !.insts = x]
<1>1. WithInst(bs, c) = [bs EXCEPT ![c] = e]
  BY DEF WithInst
<1>2. bs[c] \in BlockOver(I, BS) /\ x \in Seq(I)
  <2>1. bs[c] \in BlockOver(I, BS)
    OBVIOUS
  <2>2. bs[c].insts \in Seq(I)
    BY <2>1 DEF BlockOver
  <2> QED
    BY <2>1, <2>2
<1>3. /\ e \in BlockOver(I, BS)
      /\ e.insts = x /\ e.preds = bs[c].preds /\ e.succs = bs[c].succs
  <2> HIDE DEF x
  <2> QED
    BY <1>2 DEF BlockOver
<1> HIDE DEF e
<1> DEFINE S == BlockOver(I, BS)
           r == WithInst(bs, c)
<1> HIDE DEF S
<1>4. /\ r \in Seq(S) /\ Len(r) = Len(bs)
      /\ r[c] = e
      /\ \A b \in 1..Len(bs) : b # c => r[b] = bs[b]
  BY <1>1, <1>3, ReplaceOne DEF S
<1> HIDE DEF r
<1> QED
  BY <1>3, <1>4 DEF r, S

LEMMA WithEdgeIs ==
    ASSUME NEW I, NEW BS, NEW bs \in Seq(BlockOver(I, BS)), 1..Len(bs) \subseteq BS,
           NEW c \in 1..Len(bs), NEW d \in 1..Len(bs)
    PROVE  LET r == WithEdge(bs, c, d)
           IN  /\ r \in Seq(BlockOver(I, BS)) /\ Len(r) = Len(bs)
               /\ \A b \in 1..Len(bs) :
                      /\ r[b].insts = bs[b].insts
                      /\ r[b].preds = IF b = d THEN Append(bs[b].preds, c) ELSE bs[b].preds
                      /\ r[b].succs = IF b = c THEN Append(bs[b].succs, d) ELSE bs[b].succs
<1> DEFINE x == Append(bs[c].succs, d)
           e == [bs[c] EXCEPT !.succs = x]
           qs == [bs EXCEPT ![c] = e]
           y == Append(qs[d].preds, c)
           f == [qs[d] EXCEPT !.preds = y]
<1>1. WithEdge(bs, c, d) = [qs EXCEPT ![d] = f]
  BY DEF WithEdge
<1>2. bs[c] \in BlockOver(I, BS) /\ x \in Seq(BS)
  <2>1. bs[c] \in BlockOver(I, BS) /\ d \in BS
    OBVIOUS
  <2>2. bs[c].succs \in Seq(BS)
    BY <2>1 DEF BlockOver
  <2> QED
    BY <2>1, <2>2
<1>3. /\ e \in BlockOver(I, BS)
      /\ e.insts = bs[c].insts /\ e.preds = bs[c].preds /\ e.succs = x
  <2> HIDE DEF x
  <2> QED
    BY <1>2 DEF BlockOver
<1> HIDE DEF e
<1> DEFINE S == BlockOver(I, BS)
           r == WithEdge(bs, c, d)
<1> HIDE DEF S
<1>4. /\ qs \in Seq(S) /\ Len(qs) = Len(bs)
      /\ qs[c] = e
      /\ \A b \in 1..Len(bs) : b # c => qs[b] = bs[b]
  BY <1>3, ReplaceOne DEF S
<1> HIDE DEF qs
<1>5. qs[d] \in BlockOver(I, BS) /\ y \in Seq(BS)
  <2>1. qs[d] \in BlockOver(I, BS) /\ c \in BS
    BY <1>4 DEF S
  <2>2. qs[d].preds \in Seq(BS)
    BY <2>1 DEF BlockOver
  <2> QED
    BY <2>1, <2>2
<1>6. /\ f \in BlockOver(I, BS)
      /\ f.insts = qs[d].insts /\ f.preds = y /\ f.succs = qs[d].succs
  <2> HIDE DEF y
  <2> QED
    BY <1>5 DEF BlockOver
<1> HIDE DEF f
<1>7. /\ r \in Seq(S) /\ Len(r) = Len(bs)
      /\ r[d] = f
      /\ \A b \in 1..Len(bs) : b # d => r[b] = qs[b]
  <2>1. f \in S /\ d \in 1..Len(qs) /\ r = [qs EXCEPT ![d] = f]
    BY <1>1, <1>4, <1>6 DEF S
  <2> HIDE DEF r
  <2> QED
    BY <1>4, <2>1, ReplaceOne
<1> HIDE DEF r
<1>8. \A b \in 1..Len(bs) :
          /\ r[b].insts = bs[b].insts
          /\ r[b].preds = IF b = d THEN Append(bs[b].preds, c) ELSE bs[b].preds
          /\ r[b].succs = IF b = c THEN Append(bs[b].succs, d) ELSE bs[b].succs
  BY <1>3, <1>4, <1>6, <1>7
<1> QED
  BY <1>7, <1>8 DEF r, S

LEMMA OneAtTheEnd ==
    ASSUME NEW S, NEW q \in Seq(S), NEW d \in S
    PROVE  q \o <<d>> = Append(q, d)
OBVIOUS

LEMMA TwoAtTheEnd ==
    \A S : \A q \in Seq(S), d, e \in S : q \o <<d, e>> = Append(Append(q, d), e)
<1> TAKE S
<1> TAKE q \in Seq(S), d, e \in S
<1>1. Append(q, d) \in Seq(S) /\ Append(Append(q, d), e) \in Seq(S)
  OBVIOUS
<1>2. q \o <<d, e>> \in Seq(S)
  OBVIOUS
<1>3. /\ Len(q \o <<d, e>>) = Len(Append(Append(q, d), e))
      /\ \A k \in 1..Len(q \o <<d, e>>) : (q \o <<d, e>>)[k] = Append(Append(q, d), e)[k]
  OBVIOUS
<1> QED
  BY <1>1, <1>2, <1>3

LEMMA CurrentWithInst ==
    ASSUME GraphInv, IsSeq(insts), block \in 1..Len(blocks)
    PROVE  LET bs == WithInst(blocks, block)
           IN  /\ bs \in Seq(BlockOver(1..(Len(insts) + 1), 1..Len(blocks)))
               /\ Len(bs) = Len(blocks)
               /\ \A b \in 1..Len(blocks) :
                      /\ bs[b].insts = IF b = block THEN Append(blocks[b].insts, Len(insts) + 1)
                                       ELSE blocks[b].insts
                      /\ bs[b].preds = blocks[b].preds
                      /\ bs[b].succs = blocks[b].succs
<1> DEFINE I == 1..(Len(insts) + 1)
           BS == 1..Len(blocks)
<1>1. Len(insts) \in Nat
  BY DEF IsSeq
<1>2. BlockType \subseteq BlockOver(I, BS)
  <2>1. 1..Len(insts) \subseteq I
    BY <1>1
  <2>2. \A q \in Seq(1..Len(insts)) : q \in Seq(I)
    BY <2>1
  <2> QED
    BY <2>2 DEF BlockType, BlockOver
<1>3. blocks \in Seq(BlockOver(I, BS))
  BY <1>2 DEF GraphInv
<1>4. Len(insts) + 1 \in I
  BY <1>1
<1> HIDE DEF I
<1> QED
  BY <1>3, <1>4, WithInstIs DEF I

LEMMA EmitAdds ==
    ASSUME GraphInv, IsSeq(insts), block \in 1..Len(blocks),
           NEW n, NEW op, NEW operands, Emit(n, op, operands)
    PROVE  Adds(op, operands, <<>>)
<1> DEFINE bs == WithInst(blocks, block)
<1>1. Made(n, op, operands) /\ blocks' = bs
  BY DEF Emit
<1> HIDE DEF bs
<1>2. /\ bs \in Seq(BlockOver(1..(Len(insts) + 1), 1..Len(blocks)))
      /\ Len(bs) = Len(blocks)
      /\ \A b \in 1..Len(blocks) :
             /\ bs[b].insts = IF b = block THEN Append(blocks[b].insts, Len(insts) + 1)
                              ELSE blocks[b].insts
             /\ bs[b].preds = blocks[b].preds
             /\ bs[b].succs = blocks[b].succs
  BY CurrentWithInst DEF bs
<1>3. \A b \in 1..Len(blocks) : blocks[b].succs \o <<>> = blocks[b].succs
  BY Pointers DEF BlockType
<1>4. Range(<<>>) = {}
  BY DEF Range
<1> QED
  BY <1>1, <1>2, <1>3, <1>4, Pointers DEF Adds, BlockOver

LEMMA JumpAdds ==
    ASSUME GraphInv, IsSeq(insts), block \in 1..Len(blocks),
           NEW n, NEW b, NEW end \in 1..Len(blocks), JumpTo(n, b, end)
    PROVE  Adds("Br", <<Label(end)>>, <<end>>)
<1> DEFINE bs == WithInst(blocks, block)
           I == 1..(Len(insts) + 1)
           BS == 1..Len(blocks)
<1>1. Made(n, "Br", <<Label(end)>>) /\ blocks' = WithEdge(bs, block, end)
  BY DEF JumpTo
<1> HIDE DEF bs, I
<1>2. /\ bs \in Seq(BlockOver(I, BS))
      /\ Len(bs) = Len(blocks)
      /\ \A c \in BS :
             /\ bs[c].insts = IF c = block THEN Append(blocks[c].insts, Len(insts) + 1)
                              ELSE blocks[c].insts
             /\ bs[c].preds = blocks[c].preds
             /\ bs[c].succs = blocks[c].succs
  BY CurrentWithInst DEF bs, I
<1>3. /\ blocks' \in Seq(BlockOver(I, BS)) /\ Len(blocks') = Len(bs)
      /\ \A c \in BS :
             /\ blocks'[c].insts = bs[c].insts
             /\ blocks'[c].preds = IF c = end THEN Append(bs[c].preds, block) ELSE bs[c].preds
             /\ blocks'[c].succs = IF c = block THEN Append(bs[c].succs, end) ELSE bs[c].succs
  BY <1>1, <1>2, WithEdgeIs
<1>4. \A c \in BS : blocks[c].succs \o <<end>> = Append(blocks[c].succs, end)
  <2> TAKE c \in BS
  <2>1. blocks[c].succs \in Seq(BS)
    BY Pointers DEF BlockType
  <2> QED
    BY <2>1, OneAtTheEnd
<1>5. Range(<<end>>) = {end}
  BY DEF Range
<1>6. ASSUME NEW c \in BS
      PROVE  /\ blocks'[c].insts = IF c = block THEN Append(blocks[c].insts, Len(insts) + 1)
                                   ELSE blocks[c].insts
             /\ blocks'[c].preds = IF c \in {end} THEN Append(blocks[c].preds, block)
                                   ELSE blocks[c].preds
             /\ blocks'[c].succs = IF c = block THEN blocks[c].succs \o <<end>>
                                   ELSE blocks[c].succs
  BY <1>2, <1>3, <1>4
<1> QED
  BY <1>1, <1>2, <1>3, <1>5, <1>6, Pointers DEF Adds, BlockOver, I

LEMMA BranchAdds ==
    ASSUME GraphInv, IsSeq(insts), block \in 1..Len(blocks),
           NEW n, NEW operands, NEW d \in 1..Len(blocks), NEW e \in 1..Len(blocks),
           Made(n, "CondBr", operands),
           blocks' = WithEdge(WithEdge(WithInst(blocks, block), block, d), block, e),
           d # e
    PROVE  Adds("CondBr", operands, <<d, e>>)
<1> DEFINE bs == WithInst(blocks, block)
           cs == WithEdge(bs, block, d)
           I == 1..(Len(insts) + 1)
           BS == 1..Len(blocks)
<1>1. blocks' = WithEdge(cs, block, e)
  OBVIOUS
<1> HIDE DEF bs, I
<1>2. /\ bs \in Seq(BlockOver(I, BS))
      /\ Len(bs) = Len(blocks)
      /\ \A c \in BS :
             /\ bs[c].insts = IF c = block THEN Append(blocks[c].insts, Len(insts) + 1)
                              ELSE blocks[c].insts
             /\ bs[c].preds = blocks[c].preds
             /\ bs[c].succs = blocks[c].succs
  BY CurrentWithInst DEF bs, I
<1>3. /\ cs \in Seq(BlockOver(I, BS)) /\ Len(cs) = Len(bs)
      /\ \A c \in BS :
             /\ cs[c].insts = bs[c].insts
             /\ cs[c].preds = IF c = d THEN Append(bs[c].preds, block) ELSE bs[c].preds
             /\ cs[c].succs = IF c = block THEN Append(bs[c].succs, d) ELSE bs[c].succs
  BY <1>2, WithEdgeIs
<1> HIDE DEF cs
<1>4. /\ blocks' \in Seq(BlockOver(I, BS)) /\ Len(blocks') = Len(cs)
      /\ \A c \in BS :
             /\ blocks'[c].insts = cs[c].insts
             /\ blocks'[c].preds = IF c = e THEN Append(cs[c].preds, block) ELSE cs[c].preds
             /\ blocks'[c].succs = IF c = block THEN Append(cs[c].succs, e) ELSE cs[c].succs
  BY <1>1, <1>2, <1>3, WithEdgeIs
<1>5. \A c \in BS : blocks[c].succs \o <<d, e>> = Append(Append(blocks[c].succs, d), e)
  <2> TAKE c \in BS
  <2>1. blocks[c].succs \in Seq(BS)
    BY Pointers DEF BlockType
  <2> DEFINE q == blocks[c].succs
  <2>2. q \in Seq(BS) /\ d \in BS /\ e \in BS
    BY <2>1
  <2>3. q \o <<d, e>> = Append(Append(q, d), e)
    <3>1. \A s \in Seq(BS), x, y \in BS : s \o <<x, y>> = Append(Append(s, x), y)
      <4> HIDE DEF BS
      <4> QED
        BY TwoAtTheEnd
    <3> HIDE DEF q, BS
    <3> QED
      BY <2>2, <3>1
  <2> QED
    BY <2>3
<1>6. Range(<<d, e>>) = {d, e}
  BY DEF Range
<1>7. ASSUME NEW c \in BS
      PROVE  /\ blocks'[c].insts = IF c = block THEN Append(blocks[c].insts, Len(insts) + 1)
                                   ELSE blocks[c].insts
             /\ blocks'[c].preds = IF c \in {d, e} THEN Append(blocks[c].preds, block)
                                   ELSE blocks[c].preds
             /\ blocks'[c].succs = IF c = block THEN blocks[c].succs \o <<d, e>>
                                   ELSE blocks[c].succs
  <2>1. blocks'[c].insts = IF c = block THEN Append(blocks[c].insts, Len(insts) + 1)
                           ELSE blocks[c].insts
    BY <1>2, <1>3, <1>4
  <2>2. blocks'[c].preds = IF c \in {d, e} THEN Append(blocks[c].preds, block)
                           ELSE blocks[c].preds
    BY <1>2, <1>3, <1>4
  <2>3. blocks'[c].succs = IF c = block THEN blocks[c].succs \o <<d, e>>
                           ELSE blocks[c].succs
    <3>1. blocks'[c].succs = IF c = block THEN Append(cs[c].succs, e) ELSE cs[c].succs
      BY <1>4
    <3>2. cs[c].succs = IF c = block THEN Append(blocks[c].succs, d) ELSE blocks[c].succs
      BY <1>2, <1>3
    <3>3. blocks[c].succs \o <<d, e>> = Append(Append(blocks[c].succs, d), e)
      BY <1>5
    <3> QED
      BY <3>1, <3>2, <3>3, Zenon
  <2> QED
    BY <2>1, <2>2, <2>3
<1> QED
  BY <1>2, <1>3, <1>4, <1>6, <1>7, Pointers DEF Adds, BlockOver, I

-----------------------------------------------------------------------------
(* The blocks that pending calls are going to continue in.  They are apart *)
(* from each other and from the current block and have no branch yet, and  *)
(* control leaves every other block.                                       *)
Waits(t) ==
    CASE t[1] = "branch" -> {t[3], t[3] + 1, t[3] + 2}
      [] t[1] = "else" -> {t[3] + 1, t[3] + 2}
      [] t[1] = "end" -> {t[3] + 2}
      [] t[1] = "leave" -> {t[3]} \ {0}
      [] OTHER -> {}

WaitsOf(q) == UNION {Waits(q[k]) : k \in DOMAIN q}

Apart(q) == \A j, k \in DOMAIN q : j # k => Waits(q[j]) \intersect Waits(q[k]) = {}

LEMMA WaitingCalls ==
    ASSUME IsSeq(agenda), agenda # <<>>, Apart(agenda),
           NEW ts, IsSeq(ts), Then(ts),
           NEW X, ts = <<>> => X = {},
           \A k \in DOMAIN ts : /\ k = Len(ts) => Waits(ts[k]) = X
                                /\ k # Len(ts) => Waits(ts[k]) = {},
           X \intersect (WaitsOf(agenda) \ Waits(Head(agenda))) = {}
    PROVE  /\ Apart(agenda')
           /\ WaitsOf(agenda') = X \union (WaitsOf(agenda) \ Waits(Head(agenda)))
<1> DEFINE m == Len(ts)
           a == agenda
<1>1. /\ IsSeq(agenda')
      /\ m \in Nat /\ Len(a) \in Nat
      /\ DOMAIN ts = 1..m /\ DOMAIN a = 1..Len(a)
      /\ Len(agenda') = m + Len(a) - 1
      /\ DOMAIN agenda' = 1..(m + Len(a) - 1)
      /\ \A k \in 1..m : agenda'[k] = ts[k]
      /\ \A k \in (m + 1)..(m + Len(a) - 1) : agenda'[k] = a[k - m + 1]
  BY NextCalls, Zenon
<1> DEFINE W == WaitsOf(a) \ Waits(Head(a))
<1>2. Head(a) = a[1] /\ 1 \in 1..Len(a)
  BY DEF IsSeq
<1>3. /\ \A k \in 2..Len(a) : Waits(a[k]) \subseteq W
      /\ \A b \in W : \E k \in 2..Len(a) : b \in Waits(a[k])
  <2>1. ASSUME NEW k \in 2..Len(a) PROVE Waits(a[k]) \subseteq W
    BY <1>1, <1>2 DEF Apart, WaitsOf
  <2>2. ASSUME NEW b \in W PROVE \E k \in 2..Len(a) : b \in Waits(a[k])
    <3>1. PICK k \in 1..Len(a) : b \in Waits(a[k])
      BY <1>1 DEF WaitsOf
    <3>2. k # 1
      BY <1>2, <3>1
    <3> QED
      BY <3>1, <3>2
  <2> QED
    BY <2>1, <2>2
<1>4. \A k \in DOMAIN agenda' : k \in 1..m \/ k \in (m + 1)..(m + Len(a) - 1)
  BY <1>1
<1>5. \A k \in (m + 1)..(m + Len(a) - 1) : k - m + 1 \in 2..Len(a)
  BY <1>1
<1>6. \A k \in 2..Len(a) : k + m - 1 \in DOMAIN agenda' /\ agenda'[k + m - 1] = a[k]
  <2> TAKE k \in 2..Len(a)
  <2>1. k + m - 1 \in (m + 1)..(m + Len(a) - 1) /\ (k + m - 1) - m + 1 = k
    BY <1>1
  <2> QED
    BY <1>1, <2>1
<1>7. WaitsOf(agenda') = X \union W
  <2>1. ASSUME NEW b \in WaitsOf(agenda') PROVE b \in X \union W
    <3>1. PICK k \in DOMAIN agenda' : b \in Waits(agenda'[k])
      BY DEF WaitsOf
    <3>2. CASE k \in 1..m
      BY <1>1, <3>1, <3>2
    <3>3. CASE k \in (m + 1)..(m + Len(a) - 1)
      BY <1>1, <1>3, <1>5, <3>1, <3>3
    <3> QED
      BY <1>4, <3>2, <3>3
  <2>2. ASSUME NEW b \in X PROVE b \in WaitsOf(agenda')
    <3>1. m \in 1..m /\ m \in DOMAIN agenda'
      <4>1. ts # <<>>
        BY <2>2
      <4>2. m # 0
        BY <4>1 DEF IsSeq
      <4>3. Len(a) # 0
        BY <1>1, <1>2
      <4> QED
        BY <1>1, <4>2, <4>3
    <3>2. b \in Waits(agenda'[m])
      BY <1>1, <3>1
    <3> QED
      BY <3>1, <3>2 DEF WaitsOf
  <2>3. ASSUME NEW b \in W PROVE b \in WaitsOf(agenda')
    BY <1>3, <1>6 DEF WaitsOf
  <2> QED
    BY <2>1, <2>2, <2>3
<1>8. ASSUME NEW j \in DOMAIN agenda', NEW k \in DOMAIN agenda', j # k,
             NEW b \in Waits(agenda'[j]), b \in Waits(agenda'[k])
      PROVE  FALSE
  <2>1. \A l \in 1..m : Waits(agenda'[l]) \subseteq X /\ (l # m => Waits(agenda'[l]) = {})
    BY <1>1
  <2>2. \A l \in (m + 1)..(m + Len(a) - 1) : Waits(agenda'[l]) \subseteq W
    BY <1>1, <1>3, <1>5
  <2>3. CASE j \in 1..m /\ k \in 1..m
    BY <1>8, <2>1, <2>3
  <2>4. CASE j \in (m + 1)..(m + Len(a) - 1) /\ k \in (m + 1)..(m + Len(a) - 1)
    <3>1. j - m + 1 \in DOMAIN a /\ k - m + 1 \in DOMAIN a
      BY <1>1, <1>5, <2>4
    <3>2. agenda'[j] = a[j - m + 1] /\ agenda'[k] = a[k - m + 1]
      BY <1>1, <2>4
    <3>3. j - m + 1 # k - m + 1
      BY <1>1, <1>8
    <3> QED
      BY <1>8, <3>1, <3>2, <3>3 DEF Apart
  <2>5. CASE j \in 1..m /\ k \in (m + 1)..(m + Len(a) - 1)
    BY <1>8, <2>1, <2>2, <2>5
  <2>6. CASE j \in (m + 1)..(m + Len(a) - 1) /\ k \in 1..m
    BY <1>8, <2>1, <2>2, <2>6
  <2> QED
    BY <1>4, <2>3, <2>4, <2>5, <2>6
<1> QED
  BY <1>7, <1>8 DEF Apart

-----------------------------------------------------------------------------
(* Where the generator is: before the root, or in a function whose root is *)
(* to be left at the very end.                                             *)
Inside(t) ==
    /\ t[2] \in Nodes /\ Kind(t[2]) # "Program"
    /\ t[1] = "leave" => t[3] # 0
    /\ t[1] = "else" => t[3] \in Nat
    /\ t[1] = "store" => Kids(t[2]) # <<>>

Outside ==
    /\ block = 0
    /\ \/ agenda = <<>>
       \/ blocks = <<>> /\ agenda \in {<<Task("visit", 0, 0)>>, <<Task("visit", 1, 0)>>}

Within ==
    /\ block # 0 /\ agenda # <<>>
    /\ agenda[Len(agenda)] = Task("leave", 1, 0)
    /\ \A k \in 1..(Len(agenda) - 1) : Inside(agenda[k])

LEMMA StaysWithin ==
    ASSUME Within, IsSeq(agenda), Len(agenda) > 1, prog' = prog, block' # 0,
           NEW ts, IsSeq(ts), Then(ts), \A k \in DOMAIN ts : Inside(ts[k])
    PROVE  Within'
<1> DEFINE m == Len(ts)
           a == agenda
<1>1. agenda # <<>>
  BY DEF Within
<1>2. /\ IsSeq(agenda')
      /\ m \in Nat /\ Len(a) \in Nat
      /\ DOMAIN ts = 1..m /\ DOMAIN a = 1..Len(a)
      /\ Len(agenda') = m + Len(a) - 1
      /\ DOMAIN agenda' = 1..(m + Len(a) - 1)
      /\ \A k \in 1..m : agenda'[k] = ts[k]
      /\ \A k \in (m + 1)..(m + Len(a) - 1) : agenda'[k] = a[k - m + 1]
  BY <1>1, NextCalls, Zenon
<1>3. agenda' # <<>>
  BY <1>2
<1>4. agenda'[Len(agenda')] = Task("leave", 1, 0)
  <2>1. /\ Len(agenda') \in (m + 1)..(m + Len(a) - 1)
        /\ Len(agenda') - m + 1 = Len(a)
    BY <1>2
  <2> QED
    BY <1>2, <2>1 DEF Within
<1>5. ASSUME NEW k \in 1..(Len(agenda') - 1)
      PROVE  Inside(agenda'[k])
  <2>1. CASE k \in 1..m
    BY <1>2, <2>1
  <2>2. CASE k \in (m + 1)..(m + Len(a) - 2)
    <3>1. k - m + 1 \in 1..(Len(a) - 1) /\ agenda'[k] = a[k - m + 1]
      BY <1>2, <2>2
    <3> QED
      BY <3>1 DEF Within
  <2> QED
    BY <1>2, <2>1, <2>2
<1>6. \A t : Inside(t) => Inside(t)'
  BY DEF Inside, Nodes, Kind, Kids
<1> QED
  BY <1>3, <1>4, <1>5, <1>6 DEF Within

-----------------------------------------------------------------------------
(* How control goes on.                                                    *)
NoJump(b, k) == insts[blocks[b].insts[k]].op \notin {"Br", "CondBr"}

Open(b) ==
    /\ blocks[b].succs = <<>>
    /\ \A k \in DOMAIN blocks[b].insts : NoJump(b, k)

Terminated(b) ==
    /\ blocks[b].insts # <<>>
    /\ insts[Last(blocks[b].insts)].op \in {"Ret", "Br", "CondBr"}
    /\ \A k \in 1..(Len(blocks[b].insts) - 1) : NoJump(b, k)

Rest == WaitsOf(agenda) \ Waits(Head(agenda))

Flow ==
    /\ Outside \/ Within
    /\ Apart(agenda)
    /\ WaitsOf(agenda) \subseteq (1..Len(blocks)) \ {block}
    /\ \A b \in WaitsOf(agenda) : Open(b)
    /\ block \in 0..Len(blocks)
    /\ block # 0 => Open(block)
    /\ \A b \in 1..Len(blocks) : b = block \/ b \in WaitsOf(agenda) \/ Terminated(b)

(* What a handler has to see to, for the calls that are left to go on from *)
(* what it leaves behind.                                                  *)
LEMMA FlowGoesOn ==
    ASSUME IsSeq(agenda), Flow, Within, Len(agenda) > 1, prog' = prog,
           NEW ts, IsSeq(ts), Then(ts), \A k \in DOMAIN ts : Inside(ts[k]),
           NEW X, ts = <<>> => X = {},
           \A k \in DOMAIN ts : /\ k = Len(ts) => Waits(ts[k]) = X
                                /\ k # Len(ts) => Waits(ts[k]) = {},
           X \intersect Rest = {},
           block' \in 1..Len(blocks') \ (X \union Rest),
           X \union Rest \subseteq 1..Len(blocks'),
           \A b \in X \union Rest \union {block'} : Open(b)',
           \A b \in 1..Len(blocks') : b = block' \/ b \in X \union Rest \/ Terminated(b)'
    PROVE  Flow'
<1>1. agenda # <<>> /\ Apart(agenda)
  BY DEF Within, Flow
<1>2. Apart(agenda') /\ WaitsOf(agenda') = X \union Rest
  BY <1>1, WaitingCalls DEF Rest
<1>3. block' # 0
  OBVIOUS
<1>4. Within'
  BY <1>3, StaysWithin
<1>5. Open(block)'
  OBVIOUS
<1> QED
  BY <1>2, <1>3, <1>4, <1>5 DEF Flow

(* What an instruction more does to the ends of the blocks.                *)
LEMMA EndsOfBlocks ==
    ASSUME GraphInv, IsSeq(insts), block \in 1..Len(blocks),
           NEW op, NEW operands, NEW to, Adds(op, operands, to)
    PROVE  /\ Len(blocks') = Len(blocks)
           /\ \A b \in 1..Len(blocks) :
                  b # block => (Open(b) => Open(b)') /\ (Terminated(b) => Terminated(b)')
           /\ to = <<>> /\ op \notin {"Br", "CondBr"} =>
                  \A b \in 1..Len(blocks) : Open(b) => Open(b)'
           /\ op \in {"Ret", "Br", "CondBr"} =>
                  \A b \in 1..Len(blocks) : b = block /\ Open(b) => Terminated(b)'
<1> DEFINE last == Len(insts) + 1
<1>1. /\ Len(insts) \in Nat
      /\ \A i \in 1..Len(insts) : insts'[i] = insts[i]
      /\ insts'[last].op = op
  <2> PICK n : Made(n, op, operands)
    BY DEF Adds
  <2> DEFINE e == [op |-> op, operands |-> operands, node |-> n]
  <2>1. e.op = op /\ insts' = Append(insts, e)
    BY DEF Made
  <2> HIDE DEF e
  <2> QED
    BY <2>1, AppendTo
<1> HIDE DEF last
<1>2. ASSUME NEW b \in 1..Len(blocks)
      PROVE  /\ blocks[b].insts \in Seq(1..Len(insts))
             /\ blocks[b].succs \in Seq(1..Len(blocks))
             /\ b = block => blocks'[b].insts = Append(blocks[b].insts, last)
             /\ b = block => blocks'[b].succs = blocks[b].succs \o to
             /\ b # block => blocks'[b].insts = blocks[b].insts
             /\ b # block => blocks'[b].succs = blocks[b].succs
  BY Pointers DEF Adds, BlockType, last
<1>3. ASSUME NEW b \in 1..Len(blocks), b # block
      PROVE  (Open(b) => Open(b)') /\ (Terminated(b) => Terminated(b)')
  <2> PICK q : q = blocks[b].insts
    OBVIOUS
  <2>1. /\ blocks'[b].insts = q /\ blocks'[b].succs = blocks[b].succs
        /\ q \in Seq(1..Len(insts))
    BY <1>2, <1>3
  <2>2. q # <<>> => Last(q) \in 1..Len(insts)
    BY <2>1 DEF Last
  <2>3. \A k \in DOMAIN q : NoJump(b, k) => NoJump(b, k)'
    BY <1>1, <2>1 DEF NoJump
  <2>4. Open(b) => Open(b)'
    BY <2>1, <2>3 DEF Open
  <2>5. DOMAIN q = 1..Len(q) /\ Len(q) \in Nat
    BY <2>1
  <2>6. \A k \in 1..(Len(q) - 1) : k \in DOMAIN q
    BY <2>5
  <2>7. Terminated(b) => Terminated(b)'
    BY <1>1, <2>1, <2>2, <2>3, <2>6 DEF Terminated
  <2> QED
    BY <2>4, <2>7
<1>4. ASSUME NEW b \in 1..Len(blocks), b = block
      PROVE  /\ DOMAIN blocks'[b].insts = 1..Len(blocks'[b].insts)
             /\ Len(blocks'[b].insts) = Len(blocks[b].insts) + 1
             /\ Len(blocks[b].insts) \in Nat /\ DOMAIN blocks[b].insts = 1..Len(blocks[b].insts)
             /\ blocks'[b].insts # <<>> /\ Last(blocks'[b].insts) = last
             /\ insts'[blocks'[b].insts[Len(blocks'[b].insts)]].op = op
             /\ \A k \in DOMAIN blocks[b].insts : NoJump(b, k) => NoJump(b, k)'
  <2> PICK q : q = blocks[b].insts
    OBVIOUS
  <2> PICK r : r = blocks'[b].insts
    OBVIOUS
  <2>1. r = Append(q, last) /\ IsSeq(q) /\ q \in Seq(1..Len(insts))
    BY <1>2, <1>4 DEF IsSeq
  <2>2. /\ DOMAIN r = 1..Len(r) /\ Len(r) = Len(q) + 1
        /\ Len(q) \in Nat /\ DOMAIN q = 1..Len(q)
        /\ \A k \in 1..Len(q) : r[k] = q[k]
        /\ r[Len(q) + 1] = last
    BY <2>1, AppendTo
  <2>3. r # <<>> /\ Last(r) = last
    BY <2>2 DEF Last
  <2>4. \A k \in DOMAIN q : q[k] \in 1..Len(insts)
    BY <2>1
  <2>5. \A k \in DOMAIN q : NoJump(b, k) => NoJump(b, k)'
    BY <1>1, <2>2, <2>4 DEF NoJump
  <2>6. insts'[r[Len(r)]].op = op
    BY <1>1, <2>2
  <2> QED
    BY <2>2, <2>3, <2>5, <2>6
<1>5. ASSUME NEW b \in 1..Len(blocks), b = block, Open(b)
      PROVE  /\ to = <<>> /\ op \notin {"Br", "CondBr"} => Open(b)'
             /\ op \in {"Ret", "Br", "CondBr"} => Terminated(b)'
  <2> PICK l : l = Len(blocks[b].insts)
    OBVIOUS
  <2>1. /\ l \in Nat /\ DOMAIN blocks[b].insts = 1..l
        /\ Len(blocks'[b].insts) = l + 1 /\ DOMAIN blocks'[b].insts = 1..(l + 1)
    BY <1>4, <1>5
  <2>2. \A k \in 1..l : NoJump(b, k)'
    BY <1>4, <1>5, <2>1 DEF Open
  <2>3. op \notin {"Br", "CondBr"} => NoJump(b, l + 1)'
    BY <1>4, <1>5, <2>1 DEF NoJump
  <2>4. to = <<>> => blocks'[b].succs = <<>>
    <3>1. blocks[b].succs = <<>> /\ <<>> \o <<>> = <<>>
      BY <1>5 DEF Open
    <3> QED
      BY <1>2, <1>5, <3>1
  <2>5. \A k \in 1..(l + 1) : k \in 1..l \/ k = l + 1
    BY <2>1
  <2>6. to = <<>> /\ op \notin {"Br", "CondBr"} => Open(b)'
    BY <2>1, <2>2, <2>3, <2>4, <2>5 DEF Open
  <2>7. \A k \in 1..((l + 1) - 1) : k \in 1..l
    BY <2>1
  <2>8. op \in {"Ret", "Br", "CondBr"} => Terminated(b)'
    BY <1>1, <1>4, <1>5, <2>1, <2>2, <2>7 DEF Terminated
  <2> QED
    BY <2>6, <2>8
<1> QED
  BY <1>3, <1>5 DEF Adds

-----------------------------------------------------------------------------
ValuesInv ==
    /\ DOMAIN valueOf = Nodes
    /\ \A n \in Nodes : valueOf[n] \in Address

FunctionType == [decl : Nat, blocks : Seq(1..Len(blocks))]

FunctionsInv == functions \in Seq(FunctionType)

GeneratingInv ==
    /\ CallsInv /\ InstsInv
    /\ GraphInv /\ Flow
    /\ ValuesInv /\ FunctionsInv

LEMMA WithinFunction ==
    ASSUME IsProgram(prog), IsSeq(agenda), Flow,
           NEW n \in Pending \ {0}, Kind(n) # "Program"
    PROVE  /\ n \in Nodes /\ Head(agenda)[2] = n
           /\ agenda # <<>> /\ Head(agenda) = agenda[1]
           /\ Within /\ Len(agenda) > 1
           /\ Inside(Head(agenda))
           /\ block \in 1..Len(blocks)
<1>1. n \in Nodes /\ agenda # <<>> /\ Head(agenda)[2] = n
  BY DEF Pending
<1>2. Head(agenda) = agenda[1] /\ Len(agenda) \in Nat /\ Len(agenda) > 0
  BY <1>1 DEF IsSeq
<1>3. Kind(1) = "Program"
  BY DEF IsProgram, Kind
<1>4. ~Outside
  <2>1. agenda = <<Task("visit", 0, 0)>> => Head(agenda)[2] = 0
    BY DEF Task
  <2>2. agenda = <<Task("visit", 1, 0)>> => Head(agenda)[2] = 1
    BY DEF Task
  <2> QED
    BY <1>1, <1>3, <2>1, <2>2 DEF Outside
<1>5. Within
  BY <1>4 DEF Flow
<1>6. Len(agenda) > 1
  <2>1. Len(agenda) # 1
    <3> SUFFICES ASSUME Len(agenda) = 1 PROVE FALSE
      OBVIOUS
    <3>1. Head(agenda)[2] = 1
      BY <1>2, <1>5 DEF Within, Task
    <3> QED
      BY <1>1, <1>3, <3>1
  <2>2. \A l \in Nat : l > 0 /\ l # 1 => l > 1
    OBVIOUS
  <2> QED
    BY <1>2, <2>1, <2>2
<1>7. Inside(Head(agenda))
  <2>1. 1 \in 1..(Len(agenda) - 1)
    BY <1>2, <1>6
  <2> QED
    BY <1>2, <1>5, <2>1 DEF Within
<1>8. block \in 1..Len(blocks)
  BY <1>5 DEF Flow, Within
<1> QED
  BY <1>1, <1>2, <1>5, <1>6, <1>7, <1>8

(* Most handlers leave the current block what it is.                       *)
Quiet(n) ==
    /\ UNCHANGED <<prog, functions, block>>
    /\ Waits(Head(agenda)) = {}
    /\ \E ts : /\ IsSeq(ts) /\ Then(ts)
               /\ \A k \in DOMAIN ts : Inside(ts[k]) /\ Waits(ts[k]) = {}
    /\ \/ /\ UNCHANGED <<blocks, insts>>
          /\ valueOf' = valueOf \/ \E v \in Address : Returns(n, v)
       \/ /\ \E op : \E operands \in Seq(Address) :
                 op \notin {"Br", "CondBr"} /\ Emit(n, op, operands)
          /\ \/ valueOf' = valueOf
             \/ \E v \in Address \union {Inst(Len(insts) + 1)} : Returns(n, v)

LEMMA NoEdges ==
    ASSUME GraphInv, IsSeq(insts), block \in 1..Len(blocks),
           NEW n, NEW op, NEW operands \in Seq(Address), Emit(n, op, operands)
    PROVE  GraphInv'
<1>1. Adds(op, operands, <<>>)
  BY EmitAdds
<1>2. <<>> \in Seq(1..Len(blocks)) /\ Range(<<>>) = {} /\ Len(<<>>) = 0
  BY DEF Range
<1>3. Cardinality({}) = 0
  BY FS_EmptySet
<1>4. \A t \in 1..Len(blocks) : Label(t) \notin Range(operands)
  <2>1. Range(operands) \subseteq Address
    BY RangeIn
  <2>2. 1..Len(blocks) \subseteq Nat
    BY Pointers
  <2> QED
    BY <2>1, <2>2, Labels
<1>5. operands \in Seq(Value)
  BY Labels
<1> QED
  BY <1>1, <1>2, <1>3, <1>4, <1>5, InstAdded

LEMMA QuietKeeps ==
    ASSUME IsProgram(prog), GeneratingInv,
           NEW n \in Pending \ {0}, Kind(n) # "Program", Quiet(n)
    PROVE  GraphInv' /\ Flow' /\ ValuesInv' /\ FunctionsInv'
<1> USE DEF GeneratingInv
<1>1. /\ IsSeq(agenda) /\ IsSeq(insts)
      /\ n \in Nodes
      /\ Within /\ Len(agenda) > 1
      /\ block \in 1..Len(blocks)
  BY WithinFunction DEF CallsInv, InstsInv
<1> PICK ts : /\ IsSeq(ts) /\ Then(ts)
              /\ \A k \in DOMAIN ts : Inside(ts[k]) /\ Waits(ts[k]) = {}
  BY DEF Quiet
<1>2. Rest = WaitsOf(agenda)
  BY DEF Rest, Quiet
<1>3. ASSUME UNCHANGED <<blocks, insts>>,
             valueOf' = valueOf \/ \E v \in Address : Returns(n, v)
      PROVE  GraphInv' /\ Flow' /\ ValuesInv' /\ FunctionsInv'
  <2>1. GraphInv'
    <3>1. BlockType' = BlockType /\ Value' = Value
      BY <1>3 DEF BlockType, Value
    <3>2. \A b : Targets(b)' = Targets(b)
      BY <1>3 DEF Targets
    <3>3. EdgesMatchBranches'
      BY <1>3, <3>2 DEF GraphInv, EdgesMatchBranches
    <3> QED
      BY <1>3, <3>1, <3>3 DEF GraphInv
  <2>2. \A b : (Open(b) => Open(b)') /\ (Terminated(b) => Terminated(b)')
    BY <1>3 DEF Open, Terminated, NoJump
  <2>3. Flow'
    <3>1. /\ \A b \in Rest \union {block'} : Open(b)'
          /\ \A b \in 1..Len(blocks') : b = block' \/ b \in Rest \/ Terminated(b)'
          /\ block' \in 1..Len(blocks') \ Rest
          /\ Rest \subseteq 1..Len(blocks')
      BY <1>1, <1>2, <1>3, <2>2 DEF Quiet, Flow, Within
    <3>2. {} \union Rest = Rest /\ {} \intersect Rest = {} /\ prog' = prog
      BY DEF Quiet
    <3> QED
      BY <1>1, <3>1, <3>2, FlowGoesOn
  <2>4. Address' = Address /\ FunctionsInv'
    BY <1>3 DEF Address, FunctionsInv, FunctionType, Quiet
  <2>5. ValuesInv'
    BY <1>1, <1>3, <2>4 DEF ValuesInv, Returns, Quiet, Nodes
  <2> QED
    BY <2>1, <2>3, <2>4, <2>5
<1>4. ASSUME NEW op, op \notin {"Br", "CondBr"},
             NEW operands \in Seq(Address), Emit(n, op, operands),
             \/ valueOf' = valueOf
             \/ \E v \in Address \union {Inst(Len(insts) + 1)} : Returns(n, v)
      PROVE  GraphInv' /\ Flow' /\ ValuesInv' /\ FunctionsInv'
  <2>1. GraphInv'
    BY <1>1, <1>4, NoEdges
  <2>2. Adds(op, operands, <<>>)
    BY <1>1, <1>4, EmitAdds
  <2>3. /\ Len(blocks') = Len(blocks)
        /\ \A b \in 1..Len(blocks) : /\ Open(b) => Open(b)'
                                     /\ b # block => (Terminated(b) => Terminated(b)')
    BY <1>1, <1>4, <2>2, EndsOfBlocks
  <2>4. Flow'
    <3>1. block' = block /\ block \in 1..Len(blocks) \ Rest /\ Rest \subseteq 1..Len(blocks)
      BY <1>1, <1>2 DEF Quiet, Flow
    <3>2. \A b \in Rest \union {block} : Open(b)'
      BY <1>1, <1>2, <2>3, <3>1 DEF Flow
    <3>3. \A b \in 1..Len(blocks) : b = block \/ b \in Rest \/ Terminated(b)'
      BY <1>1, <1>2, <2>3 DEF Flow
    <3>4. {} \union Rest = Rest /\ {} \intersect Rest = {} /\ prog' = prog
      BY DEF Quiet
    <3> QED
      BY <1>1, <2>3, <3>1, <3>2, <3>3, <3>4, FlowGoesOn
  <2>5. Len(insts) \in Nat /\ Len(insts') = Len(insts) + 1
    <3>1. insts' = Append(insts, [op |-> op, operands |-> operands, node |-> n])
      BY <1>4 DEF Emit, Made
    <3> QED
      BY <1>1, <3>1, AppendTo
  <2>6. Address \union {Inst(Len(insts) + 1)} \subseteq Address'
    BY <2>5 DEF Address, Inst
  <2>7. ValuesInv'
    BY <1>1, <1>4, <2>6 DEF ValuesInv, Returns, Quiet, Nodes
  <2>8. FunctionsInv'
    BY <2>3 DEF FunctionsInv, FunctionType, Quiet
  <2> QED
    BY <2>1, <2>4, <2>7, <2>8
<1> QED
  BY <1>3, <1>4 DEF Quiet

-----------------------------------------------------------------------------
LEMMA None ==
    IsSeq(<<>>) /\ DOMAIN <<>> = {} /\ Len(<<>>) = 0
<1>1. <<>> \in Seq({}) /\ DOMAIN <<>> = {} /\ Len(<<>>) = 0
  OBVIOUS
<1> QED
  BY <1>1 DEF IsSeq

LEMMA VisitsInside ==
    ASSUME NEW ns \in Seq(Nat), \A i \in DOMAIN ns : ns[i] \in Nodes /\ Kind(ns[i]) # "Program"
    PROVE  LET ts == Visits(ns)
           IN  /\ IsSeq(ts)
               /\ \A k \in DOMAIN ts : Inside(ts[k]) /\ Waits(ts[k]) = {}
<1> DEFINE ts == Visits(ns)
<1>1. /\ IsSeq(ts) /\ DOMAIN ts = DOMAIN ns
      /\ \A i \in DOMAIN ns : ts[i] = <<"visit", ns[i], 0>>
  BY VisitsOf
<1>2. \A m : m \in Nodes /\ Kind(m) # "Program" =>
                 Inside(<<"visit", m, 0>>) /\ Waits(<<"visit", m, 0>>) = {}
  BY DEF Inside, Waits
<1> HIDE DEF ts
<1> QED
  BY <1>1, <1>2 DEF ts

LEMMA VisitsThenInside ==
    ASSUME NEW ns \in Seq(Nat), \A i \in DOMAIN ns : ns[i] \in Nodes /\ Kind(ns[i]) # "Program",
           NEW t, Inside(t)
    PROVE  LET ts == Visits(ns) \o <<t>>
           IN  /\ IsSeq(ts) /\ ts # <<>>
               /\ \A k \in DOMAIN ts : /\ Inside(ts[k])
                                       /\ k = Len(ts) => Waits(ts[k]) = Waits(t)
                                       /\ k # Len(ts) => Waits(ts[k]) = {}
<1> DEFINE ts == Visits(ns) \o <<t>>
<1>1. /\ IsSeq(ts)
      /\ Len(ns) \in Nat /\ DOMAIN ns = 1..Len(ns)
      /\ Len(ts) = Len(ns) + 1 /\ DOMAIN ts = 1..(Len(ns) + 1)
      /\ \A i \in DOMAIN ns : ts[i] = <<"visit", ns[i], 0>>
      /\ ts[Len(ns) + 1] = t
  BY VisitsThenAt
<1>2. \A m : m \in Nodes /\ Kind(m) # "Program" =>
                 Inside(<<"visit", m, 0>>) /\ Waits(<<"visit", m, 0>>) = {}
  BY DEF Inside, Waits
<1> HIDE DEF ts
<1>3. ts # <<>>
  BY <1>1
<1>4. \A k \in DOMAIN ts : k = Len(ns) + 1 \/ (k \in 1..Len(ns) /\ k # Len(ts))
  BY <1>1
<1> QED
  BY <1>1, <1>2, <1>3, <1>4 DEF ts

LEMMA TwoInside ==
    ASSUME NEW m \in Nodes, Kind(m) # "Program", NEW t, Inside(t)
    PROVE  LET ts == <<<<"visit", m, 0>>, t>>
           IN  /\ IsSeq(ts) /\ ts # <<>>
               /\ \A k \in DOMAIN ts : /\ Inside(ts[k])
                                       /\ k = Len(ts) => Waits(ts[k]) = Waits(t)
                                       /\ k # Len(ts) => Waits(ts[k]) = {}
<1> DEFINE u == <<"visit", m, 0>>
<1>1. Inside(u) /\ Waits(u) = {}
  BY DEF Inside, Waits
<1> HIDE DEF u
<1>2. /\ <<u, t>> # <<>> /\ Len(<<u, t>>) = 2 /\ DOMAIN <<u, t>> = {1, 2}
      /\ <<u, t>>[1] = u /\ <<u, t>>[2] = t
  OBVIOUS
<1>3. IsSeq(<<u, t>>)
  BY TwoCalls
<1> DEFINE ts == <<u, t>>
<1> HIDE DEF ts
<1> QED
  BY <1>1, <1>2, <1>3 DEF ts, u

-----------------------------------------------------------------------------
LEMMA OperandsHavePlaces ==
    ASSUME IsProgram(prog), NEW n \in Nodes
    PROVE  /\ Kind(n) \in {"Return", "Unary", "Binary"} => 1 \in DOMAIN Kids(n)
           /\ Kind(n) = "Binary" => 2 \in DOMAIN Kids(n)
<1>1. DOMAIN Kids(n) = 1..Len(Kids(n))
  <2>1. Kids(n) \in Seq(Nat)
    BY KidsAreNumbers
  <2> QED
    BY <2>1
<1>2. CASE Kind(n) \in {"Return", "Unary"}
  <2>1. Len(Kids(n)) = 1
    BY <1>2, OneKid
  <2> QED
    BY <1>1, <1>2, <2>1
<1>3. CASE Kind(n) = "Binary"
  <2>1. Len(Kids(n)) = 2
    BY <1>3, TwoKids
  <2> QED
    BY <1>1, <2>1
<1> QED
  BY <1>2, <1>3

LEMMA HandlersAreQuiet ==
    ASSUME IsProgram(prog), UNCHANGED <<prog, symbolOf>>, GeneratingInv,
           NEW n \in Pending \ {0},
           \/ GenMethodDecl(n) /\ symbolOf[n] = NULL
           \/ GenNested(n)
           \/ GenUnknown(n)
           \/ GenReturn(n)
           \/ GenVarDecl(n)
           \/ GenIdentifier(n)
           \/ GenAssignment(n)
           \/ GenInitializer(n)
           \/ GenStore(n, Head(agenda)[3])
           \/ GenLiteral(n)
           \/ GenOperands(n)
           \/ GenOperator(n)
    PROVE  Kind(n) # "Program" /\ Quiet(n)
<1> USE DEF GeneratingInv
<1> DEFINE h == Head(agenda)
<1>1. /\ n \in Nodes /\ agenda # <<>> /\ h[2] = n
      /\ h = agenda[1] /\ 1 \in DOMAIN agenda
      /\ OfItsKind(h) /\ (Stores(h) => Target(h) \in DOMAIN locals)
  <2>1. n \in Nodes /\ agenda # <<>> /\ h[2] = n
    BY DEF Pending
  <2>2. h = agenda[1] /\ 1 \in DOMAIN agenda
    BY <2>1 DEF CallsInv, IsSeq
  <2> QED
    BY <2>1, <2>2 DEF CallsInv
<1>2. \A what, i : Generating(what, n, i) => h = <<what, n, i>>
  BY DEF Generating, Doing, Task
<1>3. \A i : /\ Waits(<<"visit", n, i>>) = {} /\ Waits(<<"ret", n, i>>) = {}
             /\ Waits(<<"store", n, i>>) = {} /\ Waits(<<"op", n, i>>) = {}
  BY DEF Waits
<1> HIDE DEF h
<1>4. Kids(n) \in Seq(Nat) /\ DOMAIN Kids(n) = 1..Len(Kids(n)) /\ Len(Kids(n)) \in Nat
  <2>1. Kids(n) \in Seq(Nat)
    BY <1>1, KidsAreNumbers
  <2> QED
    BY <2>1
<1>5. \A i \in DOMAIN Kids(n) : /\ Kids(n)[i] \in Nodes /\ Kind(Kids(n)[i]) # "Program"
                                /\ Kid(n, i) = Kids(n)[i]
                                /\ valueOf[Kid(n, i)] \in Address
  BY <1>1, KidsAreInside DEF Kids, Kid, ValuesInv
<1>6. Constant \in Address /\ NULL \in Address /\ <<>> \in Seq(Address)
  BY DEF Address
<1>7. \A v, w \in Address : <<v>> \in Seq(Address) /\ <<v, w>> \in Seq(Address)
  OBVIOUS
<1>8. ASSUME Then(<<>>)
      PROVE  \E ts : /\ IsSeq(ts) /\ Then(ts)
                     /\ \A k \in DOMAIN ts : Inside(ts[k]) /\ Waits(ts[k]) = {}
  BY <1>8, None
<1>9. ASSUME Then(Visits(Kids(n)))
      PROVE  \E ts : /\ IsSeq(ts) /\ Then(ts)
                     /\ \A k \in DOMAIN ts : Inside(ts[k]) /\ Waits(ts[k]) = {}
  BY <1>4, <1>5, <1>9, VisitsInside
<1>10. ASSUME NEW t, Inside(t), Waits(t) = {}, Then(Visits(Kids(n)) \o <<t>>)
       PROVE  \E ts : /\ IsSeq(ts) /\ Then(ts)
                      /\ \A k \in DOMAIN ts : Inside(ts[k]) /\ Waits(ts[k]) = {}
  <2> DEFINE ts == Visits(Kids(n)) \o <<t>>
  <2>1. /\ IsSeq(ts)
        /\ \A k \in DOMAIN ts : /\ Inside(ts[k])
                                /\ k = Len(ts) => Waits(ts[k]) = Waits(t)
                                /\ k # Len(ts) => Waits(ts[k]) = {}
    BY <1>4, <1>5, <1>10, VisitsThenInside
  <2>2. Then(ts)
    BY <1>10
  <2> HIDE DEF ts
  <2>3. \A k \in DOMAIN ts : Inside(ts[k]) /\ Waits(ts[k]) = {}
    BY <1>10, <2>1
  <2> QED
    BY <2>1, <2>2, <2>3
<1>11. ASSUME NEW i \in DOMAIN Kids(n), NEW t, Inside(t), Waits(t) = {},
              Then(<<<<"visit", Kid(n, i), 0>>, t>>)
       PROVE  \E ts : /\ IsSeq(ts) /\ Then(ts)
                      /\ \A k \in DOMAIN ts : Inside(ts[k]) /\ Waits(ts[k]) = {}
  <2> DEFINE ts == <<<<"visit", Kid(n, i), 0>>, t>>
  <2>1. /\ IsSeq(ts)
        /\ \A k \in DOMAIN ts : /\ Inside(ts[k])
                                /\ k = Len(ts) => Waits(ts[k]) = Waits(t)
                                /\ k # Len(ts) => Waits(ts[k]) = {}
    BY <1>5, <1>11, TwoInside
  <2>2. Then(ts)
    BY <1>11
  <2> HIDE DEF ts
  <2>3. \A k \in DOMAIN ts : Inside(ts[k]) /\ Waits(ts[k]) = {}
    BY <1>11, <2>1
  <2> QED
    BY <2>1, <2>2, <2>3
<1>12. CASE GenMethodDecl(n) /\ symbolOf[n] = NULL
  <2>1. /\ Kind(n) = "Method" /\ h = <<"visit", n, 0>> /\ Then(<<>>)
        /\ UNCHANGED <<functions, blocks, insts, block, valueOf>>
    BY <1>2, <1>12 DEF GenMethodDecl
  <2> QED
    BY <1>3, <1>8, <2>1 DEF Quiet, h
<1>13. CASE GenNested(n)
  <2>1. /\ Kind(n) \in {"Block", "ExprStmt", "While"} /\ h = <<"visit", n, 0>>
        /\ Then(<<>>) \/ Then(Visits(Kids(n)))
        /\ UNCHANGED <<functions, blocks, insts, block, valueOf>>
    BY <1>2, <1>13 DEF GenNested
  <2> QED
    BY <1>3, <1>8, <1>9, <2>1 DEF Quiet, h
<1>14. CASE GenUnknown(n)
  <2>1. /\ Kind(n) \in {"Class", "Call", "Arg"} /\ h = <<"visit", n, 0>> /\ Then(<<>>)
        /\ UNCHANGED <<functions, blocks, insts, block>>
        /\ Returns(n, NULL)
    BY <1>2, <1>14 DEF GenUnknown, Fails, EmitNothing
  <2> QED
    BY <1>3, <1>6, <1>8, <2>1 DEF Quiet, h
<1>15. CASE GenLiteral(n)
  <2>1. /\ Kind(n) = "Literal" /\ h = <<"visit", n, 0>> /\ Then(<<>>)
        /\ UNCHANGED <<functions, blocks, insts, block>>
        /\ Returns(n, Constant)
    BY <1>2, <1>15 DEF GenLiteral, EmitNothing
  <2> QED
    BY <1>3, <1>6, <1>8, <2>1 DEF Quiet, h
<1>16. CASE GenReturn(n)
  <2>1. Kind(n) = "Return" /\ UNCHANGED <<functions, block, valueOf>>
    BY <1>16 DEF GenReturn
  <2>2. 1 \in DOMAIN Kids(n)
    BY <1>1, <2>1, OperandsHavePlaces
  <2>3. CASE Generating("visit", n, 0)
    <3> DEFINE t == <<"ret", n, 0>>
    <3>1. h = <<"visit", n, 0>>
      BY <1>2, <2>3
    <3>2. /\ UNCHANGED <<blocks, insts>>
          /\ Then(<<<<"visit", Kid(n, 1), 0>>, t>>)
      BY <1>16, <2>3 DEF GenReturn, Generating, Doing, Task, EmitNothing
    <3>3. Inside(t) /\ Waits(t) = {}
      BY <1>1, <1>3, <2>1 DEF Inside
    <3> HIDE DEF t
    <3> QED
      BY <1>3, <1>11, <2>1, <2>2, <3>1, <3>2, <3>3 DEF Quiet, h
  <2>4. CASE ~Generating("visit", n, 0)
    <3> DEFINE operands == IF valueOf[Kid(n, 1)] = NULL THEN <<>> ELSE <<valueOf[Kid(n, 1)]>>
    <3>1. /\ Generating("ret", n, 0) /\ Then(<<>>)
          /\ Emit(n, "Ret", operands)
      BY <1>16, <2>4 DEF GenReturn
    <3>2. h = <<"ret", n, 0>>
      BY <1>2, <3>1
    <3>3. operands \in Seq(Address)
      BY <1>5, <1>6, <1>7, <2>2
    <3> HIDE DEF operands
    <3> QED
      BY <1>3, <1>8, <2>1, <3>1, <3>2, <3>3 DEF Quiet, h
  <2> QED
    BY <2>3, <2>4
<1>17. CASE GenVarDecl(n)
  <2> DEFINE t == <<"store", n, 0>>
             v == Inst(Len(insts) + 1)
  <2>1. /\ Kind(n) = "VarDecl" /\ h = <<"visit", n, 0>>
        /\ Emit(n, "Alloca", <<>>)
        /\ Returns(n, v)
        /\ Then(Visits(Kids(n)) \o (IF Kids(n) = <<>> THEN <<>> ELSE <<t>>))
        /\ UNCHANGED <<functions, block>>
    BY <1>2, <1>17 DEF GenVarDecl, Task
  <2>2. Kids(n) # <<>> => Inside(t)
    BY <1>1, <2>1 DEF Inside
  <2>3. Waits(t) = {}
    BY <1>3
  <2> HIDE DEF t, v
  <2>4. \E ts : /\ IsSeq(ts) /\ Then(ts)
                /\ \A k \in DOMAIN ts : Inside(ts[k]) /\ Waits(ts[k]) = {}
    <3>1. CASE Kids(n) = <<>>
      <4>1. Visits(Kids(n)) \o <<>> = <<>>
        BY <3>1 DEF Visits
      <4> QED
        BY <1>8, <2>1, <3>1, <4>1
    <3>2. CASE Kids(n) # <<>>
      BY <1>10, <2>1, <2>2, <2>3, <3>2
    <3> QED
      BY <3>1, <3>2
  <2> QED
    BY <1>3, <1>6, <2>1, <2>4 DEF Quiet, h, v
<1>18. CASE GenIdentifier(n)
  <2>1. /\ Kind(n) = "Ident" /\ h = <<"visit", n, 0>> /\ Then(<<>>)
        /\ UNCHANGED <<functions, block>>
    BY <1>2, <1>18 DEF GenIdentifier, Fails
  <2>2. CASE symbolOf[n] \in DOMAIN locals
    <3> DEFINE a == locals[symbolOf[n]]
    <3>1. Emit(n, "Load", <<a>>) /\ Returns(n, Inst(Len(insts) + 1))
      BY <1>18, <2>2 DEF GenIdentifier
    <3>2. a \in Address
      BY <2>2, Labels DEF InstsInv, Located
    <3> HIDE DEF a
    <3>3. <<a>> \in Seq(Address)
      BY <1>7, <3>2
    <3> QED
      BY <1>3, <1>8, <2>1, <3>1, <3>3 DEF Quiet, h
  <2>3. CASE symbolOf[n] \notin DOMAIN locals
    <3>1. UNCHANGED <<blocks, insts>> /\ Returns(n, NULL)
      BY <1>18, <2>3 DEF GenIdentifier, Fails, EmitNothing
    <3> QED
      BY <1>3, <1>6, <1>8, <2>1, <3>1 DEF Quiet, h
  <2> QED
    BY <2>2, <2>3
<1>19. CASE GenAssignment(n)
  <2>1. /\ Kind(n) = "Assign" /\ h = <<"visit", n, 0>>
        /\ UNCHANGED <<functions, block, blocks, insts>>
    BY <1>2, <1>19 DEF GenAssignment, Fails, EmitNothing
  <2>2. 2 \in DOMAIN Kids(n)
    <3>1. Kind(n) \in {"Binary", "Unary", "VarDecl", "Assign"}
      BY <2>1
    <3>2. Len(Kids(n)) = 2
      BY <1>1, <2>1, <3>1, OperandsAreExpressions
    <3> QED
      BY <1>4, <3>2
  <2>3. CASE IsLocal(Kid(n, 1))
    <3> DEFINE t == <<"store", n, symbolOf[Kid(n, 1)]>>
    <3>1. Then(<<<<"visit", Kid(n, 2), 0>>, t>>) /\ valueOf' = valueOf
      BY <1>19, <2>3 DEF GenAssignment, Task
    <3>2. Kids(n) # <<>>
      BY <2>2
    <3>3. Inside(t) /\ Waits(t) = {}
      BY <1>1, <1>3, <2>1, <3>2 DEF Inside
    <3> HIDE DEF t
    <3> QED
      BY <1>3, <1>11, <2>1, <2>2, <3>1, <3>3 DEF Quiet, h
  <2>4. CASE ~IsLocal(Kid(n, 1))
    <3>1. Then(<<>>) /\ Returns(n, NULL)
      BY <1>19, <2>4 DEF GenAssignment, Fails
    <3> QED
      BY <1>3, <1>6, <1>8, <2>1, <3>1 DEF Quiet, h
  <2> QED
    BY <2>3, <2>4
<1>20. CASE GenInitializer(n)
  <2> DEFINE v == valueOf[n]
             w == valueOf[Kid(n, 1)]
  <2>1. /\ h = <<"store", n, 0>> /\ Then(<<>>)
        /\ UNCHANGED <<functions, block>>
        /\ Kind(n) = "VarDecl"
        /\ Emit(n, "Store", <<v, w>>) /\ valueOf' = valueOf
    BY <1>2, <1>20 DEF GenInitializer
  <2>2. Kids(n) # <<>>
    <3>1. Inside(h)
      BY <1>1, <2>1, WithinFunction DEF h, CallsInv
    <3> QED
      BY <2>1, <3>1 DEF Inside
  <2>3. 1 \in DOMAIN Kids(n)
    BY <1>4, <2>2
  <2>4. v \in Address /\ w \in Address
    BY <1>1, <1>5, <2>3 DEF ValuesInv
  <2> HIDE DEF v, w
  <2>5. <<v, w>> \in Seq(Address)
    BY <1>7, <2>4
  <2> QED
    BY <1>3, <1>8, <2>1, <2>5 DEF Quiet, h
<1>23. CASE GenStore(n, Head(agenda)[3])
  <2> DEFINE symbol == Head(agenda)[3]
             v == locals[symbol]
             w == valueOf[Kid(n, 2)]
  <2>1. /\ h = <<"store", n, symbol>> /\ Then(<<>>)
        /\ UNCHANGED <<functions, block>>
        /\ Kind(n) = "Assign"
        /\ Emit(n, "Store", <<v, w>>) /\ Returns(n, w)
    BY <1>2, <1>23 DEF GenStore
  <2> HIDE DEF symbol
  <2>2. 2 \in DOMAIN Kids(n)
    <3>1. Kind(n) \in {"Binary", "Unary", "VarDecl", "Assign"}
      BY <2>1
    <3>2. Len(Kids(n)) = 2
      BY <1>1, <2>1, <3>1, OperandsAreExpressions
    <3> QED
      BY <1>4, <3>2
  <2>3. symbol \in DOMAIN locals
    BY <1>1, <2>1 DEF OfItsKind, Stores, Target
  <2>4. v \in Address /\ w \in Address
    BY <1>5, <2>2, <2>3, Labels DEF InstsInv, Located
  <2> HIDE DEF v, w
  <2>5. <<v, w>> \in Seq(Address)
    BY <1>7, <2>4
  <2> QED
    BY <1>3, <1>8, <2>1, <2>4, <2>5 DEF Quiet, h
<1>21. CASE GenOperands(n)
  <2> DEFINE t == <<"op", n, 0>>
  <2>1. /\ Kind(n) \in {"Binary", "Unary"} /\ h = <<"visit", n, 0>>
        /\ Then(Visits(Kids(n)) \o <<t>>)
        /\ UNCHANGED <<functions, blocks, insts, block, valueOf>>
    BY <1>2, <1>21 DEF GenOperands, Task
  <2>2. Inside(t) /\ Waits(t) = {}
    BY <1>1, <1>3, <2>1 DEF Inside
  <2> HIDE DEF t
  <2> QED
    BY <1>3, <1>10, <2>1, <2>2 DEF Quiet, h
<1>22. CASE GenOperator(n)
  <2> DEFINE operands == IF Kind(n) = "Unary" THEN <<Constant, valueOf[Kid(n, 1)]>>
                         ELSE <<valueOf[Kid(n, 1)], valueOf[Kid(n, 2)]>>
  <2>1. /\ h = <<"op", n, 0>> /\ Then(<<>>)
        /\ UNCHANGED <<functions, block>>
        /\ \/ /\ \E op : op \notin {"Br", "CondBr"} /\ Emit(n, op, operands)
              /\ Returns(n, Inst(Len(insts) + 1))
           \/ UNCHANGED <<blocks, insts>> /\ Returns(n, NULL)
    BY <1>2, <1>22 DEF GenOperator, Fails, EmitNothing
  <2>2. Kind(n) \in {"Binary", "Unary"}
    BY <1>1, <2>1 DEF OfItsKind
  <2>3. operands \in Seq(Address)
    <3>1. 1 \in DOMAIN Kids(n)
      BY <1>1, <2>2, OperandsHavePlaces
    <3>2. Kind(n) # "Unary" => 2 \in DOMAIN Kids(n)
      BY <1>1, <2>2, OperandsHavePlaces
    <3> QED
      BY <1>5, <1>6, <1>7, <3>1, <3>2
  <2> HIDE DEF operands
  <2> QED
    BY <1>3, <1>6, <1>8, <2>1, <2>2, <2>3 DEF Quiet, h
<1> QED
  BY <1>12, <1>13, <1>14, <1>15, <1>16, <1>17, <1>18, <1>19, <1>20, <1>21, <1>22, <1>23

-----------------------------------------------------------------------------
(* Blocks more.                                                            *)
LEMMA FunctionsGrow ==
    ASSUME Len(blocks) \in Nat, Len(blocks') \in Nat, Len(blocks) <= Len(blocks')
    PROVE  FunctionType \subseteq FunctionType'
<1>1. 1..Len(blocks) \subseteq 1..Len(blocks')
  OBVIOUS
<1>2. \A S, T : S \subseteq T => \A q \in Seq(S) : q \in Seq(T)
  OBVIOUS
<1>3. \A q \in Seq(1..Len(blocks)) : q \in Seq(1..Len(blocks'))
  BY <1>1, <1>2
<1> QED
  BY <1>3 DEF FunctionType

LEMMA FunctionCreated ==
    ASSUME GraphInv, IsSeq(insts), FunctionsInv, insts' = insts,
           NEW n \in Nat, CreateFunction(n)
    PROVE  /\ GraphInv' /\ FunctionsInv'
           /\ Len(blocks) \in Nat
           /\ Len(blocks') = Len(blocks) + 1 /\ block' = Len(blocks) + 1
           /\ \A b \in 1..Len(blocks) : (Open(b) => Open(b)') /\ (Terminated(b) => Terminated(b)')
           /\ \A b \in 1..Len(blocks') : b = block' => Open(b)'
<1>1. /\ block' = Len(blocks) + 1
      /\ blocks' = Append(blocks, EmptyBlock)
      /\ functions' = Append(functions, [decl |-> n, blocks |-> <<Len(blocks) + 1>>])
  BY DEF CreateFunction
<1>2. IsSeq(blocks)
  BY DEF GraphInv, IsSeq
<1>3. /\ IsSeq(blocks')
      /\ Len(blocks) \in Nat /\ Len(blocks') = Len(blocks) + 1
      /\ \A b \in 1..Len(blocks) : blocks'[b] = blocks[b]
      /\ blocks'[Len(blocks) + 1] = EmptyBlock
  <2> HIDE DEF EmptyBlock
  <2> QED
    BY <1>1, <1>2, AppendTo
<1>4. GraphInv'
  <2>1. \A b \in (Len(blocks) + 1)..(Len(blocks) + 1) : blocks'[b] = EmptyBlock
    BY <1>3
  <2> QED
    BY <1>3, <2>1, BlocksMade
<1>5. \A b \in 1..Len(blocks) : (Open(b) => Open(b)') /\ (Terminated(b) => Terminated(b)')
  BY <1>3 DEF Open, Terminated, NoJump
<1>6. \A b \in 1..Len(blocks') : b = block' => Open(b)'
  BY <1>1, <1>3 DEF Open, EmptyBlock, NoJump
<1>7. FunctionsInv'
  <2> DEFINE e == [decl |-> n, blocks |-> <<Len(blocks) + 1>>]
             S == FunctionType'
  <2>1. e \in S
    BY <1>3 DEF FunctionType
  <2>2. functions \in Seq(S)
    BY <1>3, FunctionsGrow DEF FunctionsInv
  <2> HIDE DEF e, S
  <2>3. Append(functions, e) \in Seq(S)
    BY <2>1, <2>2
  <2> QED
    BY <1>1, <2>3 DEF FunctionsInv, e, S
<1> QED
  BY <1>1, <1>3, <1>4, <1>5, <1>6, <1>7

LEMMA BranchesCreated ==
    ASSUME GraphInv, IsSeq(insts), FunctionsInv, UNCHANGED <<insts, block>>,
           NEW n, GenIf(n)
    PROVE  /\ GraphInv' /\ FunctionsInv'
           /\ Len(blocks) \in Nat
           /\ Len(blocks') = Len(blocks) + 3
           /\ \A b \in 1..Len(blocks) : (Open(b) => Open(b)') /\ (Terminated(b) => Terminated(b)')
           /\ \A b \in (Len(blocks) + 1)..(Len(blocks) + 3) : Open(b)'
<1> DEFINE b0 == Len(blocks)
           E == EmptyBlock
           more == <<b0 + 1, b0 + 1 + 1, b0 + 1 + 2>>
           with(f) == [functions[f] EXCEPT !.blocks = functions[f].blocks \o more]
<1>1. /\ blocks' = blocks \o <<E, E, E>>
      /\ functions' = [f \in DOMAIN functions |->
                          IF Has(f, block) THEN with(f) ELSE functions[f]]
  BY DEF GenIf
<1> HIDE DEF E
<1>2. /\ IsSeq(blocks')
      /\ b0 \in Nat /\ Len(blocks') = b0 + 3
      /\ \A b \in 1..b0 : blocks'[b] = blocks[b]
      /\ \A b \in (b0 + 1)..(b0 + 3) : blocks'[b] = E
  <2> DEFINE T == BlockType \union {E}
  <2>1. blocks \in Seq(T) /\ <<E, E, E>> \in Seq(T)
    BY DEF GraphInv
  <2> HIDE DEF T
  <2>2. blocks \o <<E, E, E>> \in Seq(T)
    BY <2>1
  <2>3. /\ Len(blocks \o <<E, E, E>>) = b0 + 3
        /\ \A b \in 1..b0 : (blocks \o <<E, E, E>>)[b] = blocks[b]
        /\ \A b \in (b0 + 1)..(b0 + 3) :
               (blocks \o <<E, E, E>>)[b] = <<E, E, E>>[b - b0] /\ b - b0 \in {1, 2, 3}
    BY <2>1
  <2>4. \A k \in {1, 2, 3} : <<E, E, E>>[k] = E
    OBVIOUS
  <2> QED
    BY <1>1, <2>1, <2>2, <2>3, <2>4 DEF IsSeq
<1>3. GraphInv'
  BY <1>2, BlocksMade DEF E
<1>4. \A b \in 1..b0 : (Open(b) => Open(b)') /\ (Terminated(b) => Terminated(b)')
  BY <1>2 DEF Open, Terminated, NoJump
<1>5. \A b \in (b0 + 1)..(b0 + 3) : Open(b)'
  BY <1>2 DEF Open, E, EmptyBlock, NoJump
<1>6. FunctionsInv'
  <2> DEFINE S == FunctionType'
             BS == 1..Len(blocks')
  <2>1. more \in Seq(BS)
    BY <1>2
  <2>2. FunctionType \subseteq S /\ functions \in Seq(FunctionType)
    BY <1>2, FunctionsGrow DEF FunctionsInv
  <2>3. S = [decl : Nat, blocks : Seq(BS)]
    BY DEF FunctionType
  <2> HIDE DEF S, BS, more
  <2>4. \A r \in S, q \in Seq(BS) : [r EXCEPT !.blocks = q] \in S
    BY <2>3
  <2>5. ASSUME NEW f \in DOMAIN functions
        PROVE  functions[f] \in S /\ with(f) \in S
    <3>1. functions[f] \in S
      BY <2>2
    <3>2. functions[f].blocks \o more \in Seq(BS)
      <4>1. functions[f].blocks \in Seq(BS)
        BY <2>3, <3>1
      <4> QED
        BY <2>1, <4>1
    <3> QED
      BY <2>4, <3>1, <3>2
  <2>6. \A f \in DOMAIN functions : functions'[f] \in S
    <3> HIDE DEF with
    <3> QED
      BY <1>1, <2>5
  <2>7. /\ DOMAIN functions = 1..Len(functions) /\ Len(functions) \in Nat
        /\ functions' = [f \in 1..Len(functions) |-> functions'[f]]
    <3>1. DOMAIN functions = 1..Len(functions) /\ Len(functions) \in Nat
      BY <2>2
    <3> HIDE DEF with
    <3> QED
      BY <1>1, <3>1
  <2>8. functions' \in Seq(S)
    BY <2>6, <2>7
  <2> QED
    BY <2>8 DEF FunctionsInv, S
<1> QED
  BY <1>2, <1>3, <1>4, <1>5, <1>6

-----------------------------------------------------------------------------
LEMMA ValuesKept ==
    ASSUME ValuesInv, IsSeq(insts), UNCHANGED <<prog, valueOf>>,
           Len(insts') \in Nat, Len(insts) <= Len(insts')
    PROVE  ValuesInv'
<1>1. Len(insts) \in Nat
  BY DEF IsSeq
<1>2. 1..Len(insts) \subseteq 1..Len(insts')
  BY <1>1
<1>3. Address \subseteq Address'
  BY <1>2 DEF Address
<1> QED
  BY <1>3 DEF ValuesInv, Nodes

LEMMA FunctionsKept ==
    ASSUME FunctionsInv, GraphInv, functions' = functions, Len(blocks') = Len(blocks)
    PROVE  FunctionsInv'
BY DEF FunctionsInv, FunctionType

LEMMA InstMore ==
    ASSUME IsSeq(insts), NEW op, NEW operands, NEW to, Adds(op, operands, to)
    PROVE  Len(insts) \in Nat /\ Len(insts') = Len(insts) + 1
<1> PICK n : Made(n, op, operands)
  BY DEF Adds
<1> DEFINE e == [op |-> op, operands |-> operands, node |-> n]
<1>1. insts' = Append(insts, e)
  BY DEF Made
<1> HIDE DEF e
<1> QED
  BY <1>1, AppendTo

(* A function ends with a ret, that of the program or one more.            *)
LEMMA Closing ==
    ASSUME GraphInv, IsSeq(insts), block \in 1..Len(blocks), Open(block),
           NEW n, NEW operands \in Seq(Address), CloseWithRet(n, operands)
    PROVE  /\ GraphInv'
           /\ Len(blocks') = Len(blocks)
           /\ Len(insts) \in Nat /\ Len(insts') \in Nat /\ Len(insts) <= Len(insts')
           /\ \A b \in 1..Len(blocks) : /\ b # block => (Open(b) => Open(b)')
                                        /\ Terminated(b) \/ b = block => Terminated(b)'
<1>1. CASE EndsWithRet(block)
  <2>1. UNCHANGED <<insts, blocks>>
    BY <1>1 DEF CloseWithRet, EmitNothing
  <2>2. GraphInv'
    <3>1. BlockType' = BlockType /\ Value' = Value
      BY <2>1 DEF BlockType, Value
    <3>2. \A b : Targets(b)' = Targets(b)
      BY <2>1 DEF Targets
    <3>3. EdgesMatchBranches'
      BY <2>1, <3>2 DEF GraphInv, EdgesMatchBranches
    <3> QED
      BY <2>1, <3>1, <3>3 DEF GraphInv
  <2>3. \A b : (Open(b) => Open(b)') /\ (Terminated(b) => Terminated(b)')
    BY <2>1 DEF Open, Terminated, NoJump
  <2>4. \A b \in 1..Len(blocks) : b = block => Terminated(b)
    <3>1. blocks[block].insts \in Seq(1..Len(insts))
      BY Pointers DEF BlockType
    <3>2. \A k \in 1..(Len(blocks[block].insts) - 1) : k \in DOMAIN blocks[block].insts
      BY <3>1
    <3> QED
      BY <1>1, <3>2 DEF EndsWithRet, Open, Terminated, Last
  <2>5. Len(insts) \in Nat
    BY DEF IsSeq
  <2> QED
    BY <2>1, <2>2, <2>3, <2>4, <2>5
<1>2. CASE ~EndsWithRet(block)
  <2>1. Emit(n, "Ret", operands)
    BY <1>2 DEF CloseWithRet
  <2>2. GraphInv'
    BY <2>1, NoEdges
  <2>3. Adds("Ret", operands, <<>>)
    BY <2>1, EmitAdds
  <2>4. Len(insts) \in Nat /\ Len(insts') = Len(insts) + 1
    BY <2>3, InstMore
  <2>5. /\ Len(blocks') = Len(blocks)
        /\ \A b \in 1..Len(blocks) :
               b # block => (Open(b) => Open(b)') /\ (Terminated(b) => Terminated(b)')
        /\ \A b \in 1..Len(blocks) : b = block => Terminated(b)'
    BY <2>3, EndsOfBlocks
  <2> QED
    BY <2>2, <2>4, <2>5
<1> QED
  BY <1>1, <1>2

(* A branch to blocks that are there.                                      *)
LEMMA Branching ==
    ASSUME GraphInv, IsSeq(insts), block \in 1..Len(blocks), Open(block),
           NEW op \in {"Br", "CondBr"}, NEW operands \in Seq(Value),
           NEW to \in Seq(1..Len(blocks)), Adds(op, operands, to),
           \A t \in 1..Len(blocks) : Label(t) \in Range(operands) <=> t \in Range(to),
           Len(to) = Cardinality(Range(to))
    PROVE  /\ GraphInv'
           /\ Len(blocks') = Len(blocks)
           /\ Len(insts) \in Nat /\ Len(insts') \in Nat /\ Len(insts) <= Len(insts')
           /\ \A b \in 1..Len(blocks) : /\ b # block => (Open(b) => Open(b)')
                                        /\ Terminated(b) \/ b = block => Terminated(b)'
<1>1. GraphInv'
  BY InstAdded DEF Open
<1>2. /\ Len(blocks') = Len(blocks)
      /\ \A b \in 1..Len(blocks) :
             b # block => (Open(b) => Open(b)') /\ (Terminated(b) => Terminated(b)')
      /\ \A b \in 1..Len(blocks) : b = block => Terminated(b)'
  BY EndsOfBlocks
<1>3. Len(insts) \in Nat /\ Len(insts') = Len(insts) + 1
  BY InstMore
<1> QED
  BY <1>1, <1>2, <1>3

-----------------------------------------------------------------------------
(* Where the handlers of the program are called.                           *)
LEMMA AtTheProgram ==
    ASSUME IsProgram(prog), IsSeq(agenda), Flow,
           NEW n \in Pending \ {0}, Kind(n) = "Program"
    PROVE  /\ n \in Nodes /\ agenda # <<>> /\ Len(agenda) = 1
           /\ \/ block = 0 /\ blocks = <<>> /\ n = 1 /\ Head(agenda) = Task("visit", 1, 0)
              \/ block \in 1..Len(blocks) /\ Head(agenda) = Task("leave", 1, 0)
           /\ Waits(Head(agenda)) = {} /\ WaitsOf(agenda) = {}
<1>1. n \in Nodes /\ agenda # <<>> /\ Head(agenda)[2] = n
  BY DEF Pending
<1>2. Head(agenda) = agenda[1] /\ Len(agenda) \in Nat /\ Len(agenda) > 0
      /\ DOMAIN agenda = 1..Len(agenda)
  BY <1>1 DEF IsSeq
<1>3. Waits(Task("visit", 1, 0)) = {} /\ Waits(Task("leave", 1, 0)) = {}
  BY DEF Waits, Task
<1>4. ASSUME Len(agenda) = 1, Waits(Head(agenda)) = {}
      PROVE  WaitsOf(agenda) = {}
  BY <1>2, <1>4 DEF WaitsOf
<1>5. CASE Outside
  <2> DEFINE v0 == Task("visit", 0, 0)
             v1 == Task("visit", 1, 0)
  <2>1. agenda \in {<<v0>>, <<v1>>} /\ block = 0 /\ blocks = <<>>
    BY <1>1, <1>5 DEF Outside
  <2>2. v0[2] = 0 /\ v1[2] = 1
    BY DEF Task
  <2> HIDE DEF v0, v1
  <2>3. Len(agenda) = 1 /\ Head(agenda) \in {v0, v1}
    BY <2>1
  <2>4. Head(agenda) = v1 /\ n = 1
    BY <1>1, <2>2, <2>3
  <2> QED
    BY <1>1, <1>3, <1>4, <2>1, <2>3, <2>4 DEF v1
<1>6. CASE Within
  <2>1. Len(agenda) = 1
    <3> SUFFICES ASSUME Len(agenda) # 1 PROVE FALSE
      OBVIOUS
    <3>1. 1 \in 1..(Len(agenda) - 1)
      BY <1>2
    <3> QED
      BY <1>1, <1>2, <1>6, <3>1 DEF Within, Inside
  <2>2. Head(agenda) = Task("leave", 1, 0)
    BY <1>2, <1>6, <2>1 DEF Within
  <2>3. block \in 1..Len(blocks)
    BY <1>6 DEF Flow, Within
  <2> QED
    BY <1>1, <1>3, <1>4, <2>1, <2>2, <2>3
<1> QED
  BY <1>5, <1>6 DEF Flow

LEMMA ProgramKeeps ==
    ASSUME IsProgram(prog), GeneratingInv, prog' = prog,
           NEW n \in Pending \ {0}, GenProgram(n)
    PROVE  GraphInv' /\ Flow' /\ ValuesInv' /\ FunctionsInv'
<1> USE DEF GeneratingInv
<1>1. /\ Kind(n) = "Program" /\ Head(agenda) = Task("visit", n, 0)
      /\ CreateFunction(n)
      /\ Then(Visits(Kids(n)) \o <<Task("leave", n, 0)>>)
      /\ UNCHANGED <<insts, valueOf>>
  BY DEF GenProgram, Generating, Doing
<1>2. IsSeq(agenda) /\ IsSeq(insts)
  BY DEF CallsInv, InstsInv
<1>3. Task("leave", 1, 0) # Task("visit", n, 0)
  BY DEF Task
<1>4. /\ n \in Nodes /\ agenda # <<>> /\ Len(agenda) = 1
      /\ block = 0 /\ blocks = <<>> /\ n = 1
      /\ Waits(Head(agenda)) = {} /\ WaitsOf(agenda) = {}
  BY <1>1, <1>2, <1>3, AtTheProgram
<1>5. /\ GraphInv' /\ FunctionsInv'
      /\ Len(blocks') = 1 /\ block' = 1
      /\ \A b \in 1..Len(blocks') : b = block' => Open(b)'
  <2>1. n \in Nat /\ Len(blocks) = 0
    BY <1>4
  <2> QED
    BY <1>1, <1>2, <2>1, FunctionCreated
<1>6. ValuesInv'
  <2>1. Len(insts) \in Nat
    BY <1>2 DEF IsSeq
  <2> QED
    BY <1>1, <1>2, <2>1, ValuesKept
<1> DEFINE t == Task("leave", n, 0)
           ts == Visits(Kids(n)) \o <<t>>
<1>7. /\ IsSeq(ts) /\ Kids(n) \in Seq(Nat)
      /\ Len(Kids(n)) \in Nat /\ DOMAIN Kids(n) = 1..Len(Kids(n))
      /\ Len(ts) = Len(Kids(n)) + 1 /\ DOMAIN ts = 1..(Len(Kids(n)) + 1)
      /\ \A i \in DOMAIN Kids(n) : ts[i] = <<"visit", Kids(n)[i], 0>>
      /\ ts[Len(Kids(n)) + 1] = t
  BY <1>4, KidsAreNumbers, VisitsThenAt
<1>8. Waits(t) = {} /\ \A m : Waits(<<"visit", m, 0>>) = {}
  BY DEF Waits, Task
<1>9. Then(ts)
  BY <1>1
<1>10. t = Task("leave", 1, 0)
  BY <1>4
<1> HIDE DEF t, ts
<1>11. ts # <<>>
  BY <1>7
<1>12. \A k \in DOMAIN ts : k = Len(Kids(n)) + 1 \/ (k \in 1..Len(Kids(n)) /\ k # Len(ts))
  BY <1>7
<1>13. \A k \in DOMAIN ts : Waits(ts[k]) = {}
  BY <1>7, <1>8, <1>12
<1>14. Apart(agenda') /\ WaitsOf(agenda') = {}
  <2>1. Apart(agenda)
    BY DEF Flow
  <2> DEFINE X == {}
  <2>2. /\ ts = <<>> => X = {}
        /\ \A k \in DOMAIN ts : /\ k = Len(ts) => Waits(ts[k]) = X
                                /\ k # Len(ts) => Waits(ts[k]) = {}
        /\ X \intersect (WaitsOf(agenda) \ Waits(Head(agenda))) = {}
    BY <1>13
  <2> HIDE DEF X
  <2>3. /\ Apart(agenda')
        /\ WaitsOf(agenda') = X \union (WaitsOf(agenda) \ Waits(Head(agenda)))
    BY <1>2, <1>4, <1>7, <1>9, <2>1, <2>2, WaitingCalls
  <2> QED
    BY <1>4, <2>3 DEF X
<1>15. /\ IsSeq(agenda')
       /\ Len(agenda') = Len(ts)
       /\ \A k \in 1..Len(ts) : agenda'[k] = ts[k]
  BY <1>2, <1>4, <1>7, <1>9, NextCalls
<1>16. Within'
  <2>1. block' # 0
    BY <1>5
  <2>2. Len(agenda') = Len(Kids(n)) + 1
    BY <1>7, <1>15
  <2>3. agenda' # <<>>
    BY <1>7, <2>2
  <2>4. agenda'[Len(agenda')] = Task("leave", 1, 0)
    BY <1>7, <1>10, <1>15
  <2>5. \A k \in 1..(Len(agenda') - 1) :
            k \in DOMAIN Kids(n) /\ agenda'[k] = <<"visit", Kids(n)[k], 0>>
    BY <1>7, <1>15, <2>2
  <2>6. \A k \in DOMAIN Kids(n) : Kids(n)[k] \in Nodes /\ Kind(Kids(n)[k]) # "Program"
    BY <1>4, KidsAreInside DEF Kids, Kid
  <2>7. \A m : m \in Nodes /\ Kind(m) # "Program" => Inside(<<"visit", m, 0>>)
    BY DEF Inside
  <2>8. \A k \in 1..(Len(agenda') - 1) : Inside(agenda'[k])
    BY <2>5, <2>6, <2>7
  <2>9. \A u : Inside(u) => Inside(u)'
    BY DEF Inside, Nodes, Kind, Kids
  <2> QED
    BY <2>1, <2>3, <2>4, <2>8, <2>9 DEF Within
<1>17. Open(block)'
  BY <1>5
<1>18. Flow'
  <2>1. \A b \in 1..Len(blocks') : b = block'
    BY <1>5
  <2> QED
    BY <1>5, <1>14, <1>16, <1>17, <2>1 DEF Flow
<1> QED
  BY <1>5, <1>6, <1>18

LEMMA ProgramEndKeeps ==
    ASSUME IsProgram(prog), GeneratingInv, prog' = prog,
           NEW n \in Pending \ {0}, GenProgramEnd(n)
    PROVE  GraphInv' /\ Flow' /\ ValuesInv' /\ FunctionsInv'
<1> USE DEF GeneratingInv
<1>1. /\ Kind(n) = "Program" /\ Head(agenda) = Task("leave", n, 0)
      /\ CloseWithRet(n, <<Constant>>)
      /\ block' = 0 /\ Then(<<>>)
      /\ UNCHANGED <<functions, valueOf>>
  BY DEF GenProgramEnd, Generating, Doing
<1>2. IsSeq(agenda) /\ IsSeq(insts)
  BY DEF CallsInv, InstsInv
<1>3. Task("visit", 1, 0) # Task("leave", n, 0)
  BY DEF Task
<1>4. /\ agenda # <<>> /\ Len(agenda) = 1
      /\ block \in 1..Len(blocks)
      /\ Waits(Head(agenda)) = {} /\ WaitsOf(agenda) = {}
  BY <1>1, <1>2, <1>3, AtTheProgram
<1>5. <<Constant>> \in Seq(Address)
  <2>1. Constant \in Address
    BY DEF Address
  <2> QED
    BY <2>1
<1>6. /\ GraphInv'
      /\ Len(blocks') = Len(blocks)
      /\ Len(insts) \in Nat /\ Len(insts') \in Nat /\ Len(insts) <= Len(insts')
      /\ \A b \in 1..Len(blocks) : Terminated(b) \/ b = block => Terminated(b)'
  <2>1. Open(block)
    BY <1>4 DEF Flow
  <2> QED
    BY <1>1, <1>2, <1>4, <1>5, <2>1, Closing
<1>7. ValuesInv' /\ FunctionsInv'
  BY <1>1, <1>2, <1>6, ValuesKept, FunctionsKept
<1>8. agenda' = <<>>
  <2>1. IsSeq(agenda') /\ Len(agenda') = 0
    BY <1>1, <1>2, <1>4, None, NextCalls
  <2> QED
    BY <2>1 DEF IsSeq
<1>9. Apart(<<>>) /\ WaitsOf(<<>>) = {}
  BY None DEF Apart, WaitsOf
<1>10. Apart(agenda') /\ WaitsOf(agenda') = {}
  BY <1>8, <1>9
<1>11. Outside'
  BY <1>1, <1>8 DEF Outside
<1>12. \A b \in 1..Len(blocks') : Terminated(b)'
  BY <1>4, <1>6 DEF Flow
<1>13. Len(blocks) \in Nat
  BY Pointers
<1>14. Flow'
  BY <1>1, <1>6, <1>10, <1>11, <1>12, <1>13 DEF Flow
<1> QED
  BY <1>6, <1>7, <1>14

-----------------------------------------------------------------------------
LEMMA WaitingBlocks ==
    ASSUME IsSeq(agenda), agenda # <<>>, Flow
    PROVE  /\ Waits(Head(agenda)) \subseteq WaitsOf(agenda)
           /\ Rest \subseteq WaitsOf(agenda) /\ Waits(Head(agenda)) \intersect Rest = {}
           /\ \A b \in WaitsOf(agenda) : b \in 1..Len(blocks) /\ b # block /\ Open(b)
           /\ \A b \in 1..Len(blocks) :
                  b = block \/ b \in Waits(Head(agenda)) \/ b \in Rest \/ Terminated(b)
<1>1. 1 \in DOMAIN agenda /\ Head(agenda) = agenda[1]
  BY DEF IsSeq
<1>2. Waits(Head(agenda)) \subseteq WaitsOf(agenda)
  BY <1>1 DEF WaitsOf
<1> QED
  BY <1>2 DEF Rest, Flow

LEMMA MethodDeclKeeps ==
    ASSUME IsProgram(prog), GeneratingInv, prog' = prog,
           NEW n \in Pending \ {0}, GenMethodDecl(n), symbolOf[n] # NULL
    PROVE  GraphInv' /\ Flow' /\ ValuesInv' /\ FunctionsInv'
<1> USE DEF GeneratingInv
<1> DEFINE t == <<"leave", n, block>>
           ts == Visits(Kids(n)) \o <<t>>
<1>1. /\ Kind(n) = "Method" /\ Head(agenda) = <<"visit", n, 0>>
      /\ CreateFunction(n)
      /\ Then(ts)
      /\ UNCHANGED <<insts, valueOf>>
  BY DEF GenMethodDecl, Generating, Doing, Task
<1>2. IsSeq(agenda) /\ IsSeq(insts)
  BY DEF CallsInv, InstsInv
<1>3. /\ n \in Nodes /\ agenda # <<>>
      /\ Within /\ Len(agenda) > 1
      /\ block \in 1..Len(blocks)
  BY <1>1, <1>2, WithinFunction
<1>4. n \in Nat /\ Kids(n) \in Seq(Nat)
  BY <1>3, KidsAreNumbers DEF Nodes, IsProgram
<1>5. /\ GraphInv' /\ FunctionsInv'
      /\ Len(blocks) \in Nat
      /\ Len(blocks') = Len(blocks) + 1 /\ block' = Len(blocks) + 1
      /\ \A b \in 1..Len(blocks) : (Open(b) => Open(b)') /\ (Terminated(b) => Terminated(b)')
      /\ \A b \in 1..Len(blocks') : b = block' => Open(b)'
  BY <1>1, <1>2, <1>4, FunctionCreated
<1>6. ValuesInv'
  <2>1. Len(insts) \in Nat
    BY <1>2 DEF IsSeq
  <2> QED
    BY <1>1, <1>2, <2>1, ValuesKept
<1>7. Inside(t) /\ Waits(t) = {block} /\ Waits(Head(agenda)) = {}
  BY <1>1, <1>3, <1>5 DEF Inside, Waits
<1>8. \A i \in DOMAIN Kids(n) : Kids(n)[i] \in Nodes /\ Kind(Kids(n)[i]) # "Program"
  BY <1>3, KidsAreInside DEF Kids, Kid
<1> HIDE DEF t
<1>9. /\ IsSeq(ts) /\ ts # <<>>
      /\ \A k \in DOMAIN ts : /\ Inside(ts[k])
                              /\ k = Len(ts) => Waits(ts[k]) = Waits(t)
                              /\ k # Len(ts) => Waits(ts[k]) = {}
  BY <1>4, <1>7, <1>8, VisitsThenInside
<1> HIDE DEF ts
<1>10. Flow'
  <2>1. /\ Rest \subseteq WaitsOf(agenda)
        /\ \A b \in WaitsOf(agenda) : b \in 1..Len(blocks) /\ b # block /\ Open(b)
        /\ \A b \in 1..Len(blocks) : b = block \/ b \in Rest \/ Terminated(b)
    BY <1>2, <1>3, <1>7, WaitingBlocks
  <2>2. Open(block)
    BY <1>3, <1>5 DEF Flow
  <2> DEFINE X == {block}
  <2>3. /\ X \intersect Rest = {}
        /\ \A b \in X \union Rest : b \in 1..Len(blocks) /\ Open(b)
        /\ \A b \in 1..Len(blocks) : b \in X \union Rest \/ Terminated(b)
    BY <1>3, <2>1, <2>2
  <2>4. Waits(t) = X
    BY <1>7
  <2> HIDE DEF X
  <2>5. /\ block' \in 1..Len(blocks') \ (X \union Rest)
        /\ X \union Rest \subseteq 1..Len(blocks')
        /\ \A b \in X \union Rest \union {block'} : Open(b)'
        /\ \A b \in 1..Len(blocks') : b = block' \/ b \in X \union Rest \/ Terminated(b)'
    BY <1>5, <2>3
  <2> QED
    BY <1>1, <1>2, <1>3, <1>9, <2>3, <2>4, <2>5, FlowGoesOn
<1> QED
  BY <1>5, <1>6, <1>10

LEMMA MethodEndKeeps ==
    ASSUME IsProgram(prog), GeneratingInv, prog' = prog,
           NEW n \in Pending \ {0}, GenMethodEnd(n, Head(agenda)[3])
    PROVE  GraphInv' /\ Flow' /\ ValuesInv' /\ FunctionsInv'
<1> USE DEF GeneratingInv
<1> DEFINE p == Head(agenda)[3]
<1>1. /\ Kind(n) = "Method" /\ Head(agenda) = <<"leave", n, p>>
      /\ CloseWithRet(n, <<>>)
      /\ block' = p /\ Then(<<>>)
      /\ UNCHANGED <<functions, valueOf>>
  BY DEF GenMethodEnd, Generating, Doing, Task
<1>2. IsSeq(agenda) /\ IsSeq(insts)
  BY DEF CallsInv, InstsInv
<1>3. /\ n \in Nodes /\ agenda # <<>>
      /\ Within /\ Len(agenda) > 1
      /\ Inside(Head(agenda))
      /\ block \in 1..Len(blocks)
  BY <1>1, <1>2, WithinFunction
<1>4. <<>> \in Seq(Address)
  OBVIOUS
<1>5. /\ GraphInv'
      /\ Len(blocks') = Len(blocks)
      /\ Len(insts) \in Nat /\ Len(insts') \in Nat /\ Len(insts) <= Len(insts')
      /\ \A b \in 1..Len(blocks) : /\ b # block => (Open(b) => Open(b)')
                                   /\ Terminated(b) \/ b = block => Terminated(b)'
  <2>1. Open(block)
    BY <1>3 DEF Flow
  <2> QED
    BY <1>1, <1>2, <1>3, <1>4, <2>1, Closing
<1>6. ValuesInv' /\ FunctionsInv'
  BY <1>1, <1>2, <1>5, ValuesKept, FunctionsKept
<1> HIDE DEF p
<1>7. p # 0 /\ Waits(Head(agenda)) = {p}
  BY <1>1, <1>3 DEF Inside, Waits
<1>8. Flow'
  <2>1. /\ p \in WaitsOf(agenda) /\ p \notin Rest
        /\ Rest \subseteq WaitsOf(agenda)
        /\ \A b \in WaitsOf(agenda) : b \in 1..Len(blocks) /\ b # block /\ Open(b)
        /\ \A b \in 1..Len(blocks) : b = block \/ b = p \/ b \in Rest \/ Terminated(b)
    BY <1>2, <1>3, <1>7, WaitingBlocks
  <2> DEFINE X == {}
  <2>2. /\ X \intersect Rest = {} /\ X \union Rest = Rest
        /\ X = {}
    OBVIOUS
  <2> HIDE DEF X
  <2>3. /\ block' \in 1..Len(blocks') \ (X \union Rest)
        /\ X \union Rest \subseteq 1..Len(blocks')
        /\ \A b \in X \union Rest \union {block'} : Open(b)'
        /\ \A b \in 1..Len(blocks') : b = block' \/ b \in X \union Rest \/ Terminated(b)'
    BY <1>1, <1>5, <2>1, <2>2
  <2>4. /\ IsSeq(<<>>)
        /\ \A k \in DOMAIN <<>> : /\ Inside(<<>>[k])
                                  /\ k = Len(<<>>) => Waits(<<>>[k]) = X
                                  /\ k # Len(<<>>) => Waits(<<>>[k]) = {}
    BY None
  <2> QED
    BY <1>1, <1>2, <1>3, <2>2, <2>3, <2>4, FlowGoesOn
<1> QED
  BY <1>5, <1>6, <1>8

LEMMA IfKeeps ==
    ASSUME IsProgram(prog), GeneratingInv, prog' = prog,
           NEW n \in Pending \ {0}, GenIf(n)
    PROVE  GraphInv' /\ Flow' /\ ValuesInv' /\ FunctionsInv'
<1> USE DEF GeneratingInv
<1> PICK e \in {Len(blocks) + 1} : TRUE
  OBVIOUS
<1> DEFINE m == Kid(n, 1)
           t == <<"branch", n, e>>
           ts == <<<<"visit", m, 0>>, t>>
<1>1. /\ Kind(n) = "If" /\ Head(agenda) = <<"visit", n, 0>>
      /\ Then(ts)
      /\ UNCHANGED <<insts, block, valueOf>>
  BY DEF GenIf, Generating, Doing, Task
<1>2. IsSeq(agenda) /\ IsSeq(insts)
  BY DEF CallsInv, InstsInv
<1>3. /\ n \in Nodes /\ agenda # <<>>
      /\ Within /\ Len(agenda) > 1
      /\ block \in 1..Len(blocks)
  BY <1>1, <1>2, WithinFunction
<1>4. m \in Nodes /\ Kind(m) # "Program"
  <2>1. Kids(n) \in Seq(Nat) /\ Len(Kids(n)) \in {2, 3}
    BY <1>1, <1>3, KidsAreNumbers, IfHasKids
  <2>2. 1 \in DOMAIN Kids(n)
    BY <2>1
  <2> QED
    BY <1>3, <2>2, KidsAreInside
<1>5. /\ GraphInv' /\ FunctionsInv'
      /\ Len(blocks) \in Nat
      /\ Len(blocks') = Len(blocks) + 3
      /\ \A b \in 1..Len(blocks) : (Open(b) => Open(b)') /\ (Terminated(b) => Terminated(b)')
      /\ \A b \in (Len(blocks) + 1)..(Len(blocks) + 3) : Open(b)'
  BY <1>1, <1>2, BranchesCreated
<1>6. ValuesInv'
  <2>1. Len(insts) \in Nat
    BY <1>2 DEF IsSeq
  <2> QED
    BY <1>1, <1>2, <2>1, ValuesKept
<1>7. Inside(t) /\ Waits(t) = {e, e + 1, e + 2} /\ Waits(Head(agenda)) = {}
  BY <1>1, <1>3 DEF Inside, Waits
<1> HIDE DEF t, m
<1>8. /\ IsSeq(ts) /\ ts # <<>>
      /\ \A k \in DOMAIN ts : /\ Inside(ts[k])
                              /\ k = Len(ts) => Waits(ts[k]) = Waits(t)
                              /\ k # Len(ts) => Waits(ts[k]) = {}
  BY <1>4, <1>7, TwoInside
<1> HIDE DEF ts
<1>9. Flow'
  <2>1. /\ Rest \subseteq WaitsOf(agenda)
        /\ \A b \in WaitsOf(agenda) : b \in 1..Len(blocks) /\ b # block /\ Open(b)
        /\ \A b \in 1..Len(blocks) : b = block \/ b \in Rest \/ Terminated(b)
    BY <1>2, <1>3, <1>7, WaitingBlocks
  <2>2. Open(block)
    BY <1>3, <1>5 DEF Flow
  <2> PICK c \in 1..Len(blocks) : c = block
    BY <1>3
  <2> DEFINE X == {e, e + 1, e + 2}
  <2>3. \A b : b \in X <=> b \in (Len(blocks) + 1)..(Len(blocks) + 3)
    BY <1>5
  <2>4. Waits(t) = X
    BY <1>7
  <2> HIDE DEF X
  <2>5. Open(c)'
    BY <1>5, <2>2
  <2>6. /\ block' \in 1..Len(blocks') \ (X \union Rest)
        /\ X \union Rest \subseteq 1..Len(blocks')
        /\ X \intersect Rest = {}
    BY <1>1, <1>5, <2>1, <2>3
  <2>7. \A b \in X \union Rest \union {block'} : Open(b)'
    BY <1>1, <1>5, <2>1, <2>3, <2>5
  <2>8. \A b \in 1..Len(blocks') : b = block' \/ b \in X \union Rest \/ Terminated(b)'
    <3>1. \A b \in 1..Len(blocks') : b \in 1..Len(blocks) \/ b \in X
      BY <1>5, <2>3
    <3> QED
      BY <1>1, <1>5, <2>1, <3>1
  <2> QED
    BY <1>1, <1>2, <1>3, <1>8, <2>4, <2>6, <2>7, <2>8, FlowGoesOn
<1> QED
  BY <1>5, <1>6, <1>9

(* What a branch leaves behind, when the calls it makes wait for X.        *)
LEMMA BranchGoesOn ==
    ASSUME IsProgram(prog), GeneratingInv, prog' = prog,
           NEW n \in Pending \ {0}, Kind(n) # "Program",
           UNCHANGED <<functions, valueOf>>,
           NEW op \in {"Br", "CondBr"}, NEW operands \in Seq(Value),
           NEW to \in Seq(1..Len(blocks)), Adds(op, operands, to),
           \A t \in 1..Len(blocks) : Label(t) \in Range(operands) <=> t \in Range(to),
           Len(to) = Cardinality(Range(to)),
           NEW ts, IsSeq(ts), Then(ts), \A k \in DOMAIN ts : Inside(ts[k]),
           NEW X, ts = <<>> => X = {},
           \A k \in DOMAIN ts : /\ k = Len(ts) => Waits(ts[k]) = X
                                /\ k # Len(ts) => Waits(ts[k]) = {},
           Waits(Head(agenda)) = X \union {block'}, block' \notin X
    PROVE  GraphInv' /\ Flow' /\ ValuesInv' /\ FunctionsInv'
<1> USE DEF GeneratingInv
<1>1. IsSeq(agenda) /\ IsSeq(insts)
  BY DEF CallsInv, InstsInv
<1>2. /\ n \in Nodes /\ agenda # <<>>
      /\ Within /\ Len(agenda) > 1
      /\ block \in 1..Len(blocks)
  BY <1>1, WithinFunction
<1>3. Open(block)
  BY <1>2 DEF Flow
<1>4. /\ GraphInv'
      /\ Len(blocks') = Len(blocks)
      /\ Len(insts) \in Nat /\ Len(insts') \in Nat /\ Len(insts) <= Len(insts')
      /\ \A b \in 1..Len(blocks) : /\ b # block => (Open(b) => Open(b)')
                                   /\ Terminated(b) \/ b = block => Terminated(b)'
  BY <1>1, <1>2, <1>3, Branching
<1>5. ValuesInv' /\ FunctionsInv'
  BY <1>1, <1>4, ValuesKept, FunctionsKept
<1>6. /\ \A b : b \in X \/ b = block' => b \in WaitsOf(agenda) /\ b \notin Rest
      /\ Rest \subseteq WaitsOf(agenda)
      /\ \A b \in WaitsOf(agenda) : b \in 1..Len(blocks) /\ b # block /\ Open(b)
      /\ \A b \in 1..Len(blocks) : b = block \/ b = block' \/ b \in X \/ b \in Rest \/ Terminated(b)
  BY <1>1, <1>2, WaitingBlocks
<1>7. /\ block' \in 1..Len(blocks') \ (X \union Rest)
      /\ X \union Rest \subseteq 1..Len(blocks')
      /\ X \intersect Rest = {}
  BY <1>4, <1>6
<1>8. \A b \in X \union Rest \union {block'} : Open(b)'
  BY <1>4, <1>6
<1>9. \A b \in 1..Len(blocks') : b = block' \/ b \in X \union Rest \/ Terminated(b)'
  BY <1>4, <1>6
<1>10. Flow'
  BY <1>1, <1>2, <1>7, <1>8, <1>9, FlowGoesOn
<1> QED
  BY <1>4, <1>5, <1>10

LEMMA JumpGoesOn ==
    ASSUME IsProgram(prog), GeneratingInv, prog' = prog,
           NEW n \in Pending \ {0}, Kind(n) # "Program",
           UNCHANGED <<functions, valueOf>>,
           NEW b, NEW end \in WaitsOf(agenda), JumpTo(n, b, end),
           NEW ts, IsSeq(ts), Then(ts), \A k \in DOMAIN ts : Inside(ts[k]),
           NEW X, ts = <<>> => X = {},
           \A k \in DOMAIN ts : /\ k = Len(ts) => Waits(ts[k]) = X
                                /\ k # Len(ts) => Waits(ts[k]) = {},
           Waits(Head(agenda)) = X \union {block'}, block' \notin X
    PROVE  GraphInv' /\ Flow' /\ ValuesInv' /\ FunctionsInv'
<1> USE DEF GeneratingInv
<1>1. IsSeq(agenda) /\ IsSeq(insts)
  BY DEF CallsInv, InstsInv
<1>2. agenda # <<>> /\ block \in 1..Len(blocks)
  BY <1>1, WithinFunction
<1>3. end \in 1..Len(blocks)
  BY <1>1, <1>2, WaitingBlocks
<1> DEFINE operands == <<Label(end)>>
           to == <<end>>
<1>4. Adds("Br", operands, to)
  BY <1>1, <1>2, <1>3, JumpAdds
<1>5. /\ operands \in Seq(Value) /\ to \in Seq(1..Len(blocks))
      /\ \A t \in 1..Len(blocks) : Label(t) \in Range(operands) <=> t \in Range(to)
      /\ Len(to) = Cardinality(Range(to))
  <2>1. Label(end) \in Value
    BY <1>3, Labels
  <2> DEFINE v == Label(end)
  <2>2. \A t : Label(t) = v <=> t = end
    BY Labels
  <2> HIDE DEF v
  <2>3. Range(<<v>>) = {v} /\ Range(<<end>>) = {end} /\ Len(<<end>>) = 1
    BY DEF Range
  <2>4. Cardinality({end}) = 1
    BY FS_Singleton
  <2>5. <<v>> \in Seq(Value) /\ <<end>> \in Seq(1..Len(blocks))
    BY <1>3, <2>1 DEF v
  <2> QED
    BY <2>2, <2>3, <2>4, <2>5 DEF v
<1> HIDE DEF operands, to
<1> DEFINE op == "Br"
<1>6. op \in {"Br", "CondBr"}
  OBVIOUS
<1> HIDE DEF op
<1>7. Adds(op, operands, to)
  BY <1>4 DEF op
<1> QED
  BY <1>5, <1>6, <1>7, BranchGoesOn, Zenon

LEMMA BranchKeeps ==
    ASSUME IsProgram(prog), GeneratingInv, prog' = prog,
           NEW n \in Pending \ {0}, GenBranch(n, Head(agenda)[3])
    PROVE  GraphInv' /\ Flow' /\ ValuesInv' /\ FunctionsInv'
<1> USE DEF GeneratingInv
<1> PICK d \in {Head(agenda)[3]} : TRUE
  OBVIOUS
<1> DEFINE m == Kid(n, 2)
           v == valueOf[Kid(n, 1)]
           t == <<"else", n, d>>
           ts == <<<<"visit", m, 0>>, t>>
           operands == <<v, Label(d), Label(d + 1)>>
           to == <<d, d + 1>>
<1>1. /\ Head(agenda) = <<"branch", n, d>>
      /\ Made(n, "CondBr", operands)
      /\ blocks' = WithEdge(WithEdge(WithInst(blocks, block), block, d), block, d + 1)
      /\ block' = d
      /\ Then(ts)
      /\ UNCHANGED <<functions, valueOf>>
  BY DEF GenBranch, Generating, Doing, Task
<1>2. IsSeq(agenda) /\ IsSeq(insts)
  BY DEF CallsInv, InstsInv
<1>3. n \in Nodes /\ agenda # <<>> /\ Kind(n) = "If"
  <2>1. n \in Nodes /\ agenda # <<>>
    BY DEF Pending
  <2>2. Head(agenda) = agenda[1] /\ 1 \in DOMAIN agenda
    BY <1>2, <2>1 DEF IsSeq
  <2>3. OfItsKind(Head(agenda))
    BY <2>2 DEF CallsInv
  <2> QED
    BY <1>1, <2>1, <2>3 DEF OfItsKind
<1>4. block \in 1..Len(blocks) /\ Len(blocks) \in Nat
  BY <1>2, <1>3, WithinFunction, Pointers
<1>5. /\ v \in Address
      /\ m \in Nodes /\ Kind(m) # "Program"
  <2>1. Kids(n) \in Seq(Nat) /\ Len(Kids(n)) \in {2, 3}
    BY <1>3, KidsAreNumbers, IfHasKids
  <2>2. 1 \in DOMAIN Kids(n) /\ 2 \in DOMAIN Kids(n)
    BY <2>1
  <2> QED
    BY <1>3, <2>2, KidsAreInside DEF ValuesInv
<1>6. Waits(Head(agenda)) = {d, d + 1, d + 2}
  BY <1>1 DEF Waits
<1>7. d \in 1..Len(blocks) /\ d + 1 \in 1..Len(blocks)
  BY <1>2, <1>3, <1>6, WaitingBlocks
<1>8. Inside(t) /\ Waits(t) = {d + 1, d + 2}
  <2>1. d \in Nat
    BY <1>4, <1>7
  <2> QED
    BY <1>3, <2>1 DEF Inside, Waits
<1> HIDE DEF t, m, v
<1>9. /\ IsSeq(ts) /\ ts # <<>>
      /\ \A k \in DOMAIN ts : /\ Inside(ts[k])
                              /\ k = Len(ts) => Waits(ts[k]) = Waits(t)
                              /\ k # Len(ts) => Waits(ts[k]) = {}
  BY <1>5, <1>8, TwoInside
<1> HIDE DEF ts
<1>10. Adds("CondBr", operands, to)
  <2>1. d # d + 1
    BY <1>7
  <2> HIDE DEF operands
  <2> QED
    BY <1>1, <1>2, <1>4, <1>7, <2>1, BranchAdds
<1>11. /\ operands \in Seq(Value) /\ to \in Seq(1..Len(blocks))
       /\ \A b \in 1..Len(blocks) : Label(b) \in Range(operands) <=> b \in Range(to)
       /\ Len(to) = Cardinality(Range(to))
  <2> DEFINE x == Label(d)
             y == Label(d + 1)
  <2>1. v \in Value /\ x \in Value /\ y \in Value
    <3>1. \A b \in 1..Len(blocks) : Label(b) \in Value
      BY <1>4, Labels
    <3> QED
      BY <1>5, <1>7, <3>1, Labels
  <2>2. \A b \in 1..Len(blocks) : Label(b) # v
    BY <1>4, <1>5, Labels
  <2>3. \A b : (Label(b) = x <=> b = d) /\ (Label(b) = y <=> b = d + 1)
    BY Labels
  <2>4. Cardinality({d, d + 1}) = 2
    <3>1. IsFiniteSet({d}) /\ Cardinality({d}) = 1
      BY FS_Singleton
    <3>2. d + 1 \notin {d}
      BY <1>7
    <3>3. Cardinality({d} \union {d + 1}) = 2
      BY <3>1, <3>2, FS_AddElement
    <3>4. {d} \union {d + 1} = {d, d + 1}
      OBVIOUS
    <3> QED
      BY <3>3, <3>4
  <2> HIDE DEF x, y
  <2>5. Range(<<v, x, y>>) = {v, x, y} /\ <<v, x, y>> \in Seq(Value)
    BY <2>1 DEF Range
  <2>6. Range(to) = {d, d + 1} /\ Len(to) = 2 /\ to \in Seq(1..Len(blocks))
    BY <1>7 DEF Range
  <2>7. \A b \in 1..Len(blocks) : Label(b) \in {v, x, y} <=> b \in {d, d + 1}
    BY <2>2, <2>3
  <2> QED
    BY <2>4, <2>5, <2>6, <2>7 DEF x, y
<1> HIDE DEF operands, to
<1> DEFINE op == "CondBr"
           X == {d + 1, d + 2}
<1>12. /\ op \in {"Br", "CondBr"}
       /\ Waits(t) = X /\ Waits(Head(agenda)) = X \union {block'} /\ block' \notin X
  BY <1>1, <1>6, <1>7, <1>8
<1>13. Adds(op, operands, to) /\ Kind(n) # "Program" /\ UNCHANGED <<functions, valueOf>>
  BY <1>1, <1>3, <1>10
<1> HIDE DEF op, X
<1>14. /\ ts = <<>> => X = {}
       /\ \A k \in DOMAIN ts : Inside(ts[k])
       /\ \A k \in DOMAIN ts : /\ k = Len(ts) => Waits(ts[k]) = X
                               /\ k # Len(ts) => Waits(ts[k]) = {}
  BY <1>9, <1>12
<1> QED
  BY <1>1, <1>9, <1>11, <1>12, <1>13, <1>14, BranchGoesOn, Zenon

LEMMA ElseKeeps ==
    ASSUME IsProgram(prog), GeneratingInv, prog' = prog,
           NEW n \in Pending \ {0}, GenElse(n, Head(agenda)[3])
    PROVE  GraphInv' /\ Flow' /\ ValuesInv' /\ FunctionsInv'
<1> USE DEF GeneratingInv
<1> PICK d \in {Head(agenda)[3]} : TRUE
  OBVIOUS
<1> DEFINE ns == SubSeq(Kids(n), 3, Len(Kids(n)))
           t == <<"end", n, d>>
           ts == Visits(ns) \o <<t>>
<1>1. /\ Head(agenda) = <<"else", n, d>>
      /\ JumpTo(n, d, d + 2)
      /\ block' = d + 1
      /\ Then(ts)
      /\ UNCHANGED <<functions, valueOf>>
  BY DEF GenElse, Generating, Doing, Task
<1>2. IsSeq(agenda) /\ IsSeq(insts)
  BY DEF CallsInv, InstsInv
<1>3. n \in Nodes /\ agenda # <<>> /\ Kind(n) = "If"
  <2>1. n \in Nodes /\ agenda # <<>>
    BY DEF Pending
  <2>2. Head(agenda) = agenda[1] /\ 1 \in DOMAIN agenda
    BY <1>2, <2>1 DEF IsSeq
  <2>3. OfItsKind(Head(agenda))
    BY <2>2 DEF CallsInv
  <2> QED
    BY <1>1, <2>1, <2>3 DEF OfItsKind
<1>4. block \in 1..Len(blocks) /\ Len(blocks) \in Nat
  BY <1>2, <1>3, WithinFunction, Pointers
<1>5. /\ ns \in Seq(Nat)
      /\ \A i \in DOMAIN ns : ns[i] \in Nodes /\ Kind(ns[i]) # "Program"
  <2> DEFINE q == Kids(n)
             G == {c \in Nat : c \in Nodes /\ Kind(c) # "Program"}
  <2>1. q \in Seq(Nat)
    BY <1>3, KidsAreNumbers
  <2>2. \A i \in DOMAIN q : q[i] \in Nodes /\ Kind(q[i]) # "Program"
    BY <1>3, KidsAreInside DEF Kids, Kid
  <2>3. \A i \in DOMAIN q : q[i] \in G
    BY <2>1, <2>2
  <2>4. \A c \in G : c \in Nat /\ c \in Nodes /\ Kind(c) # "Program"
    OBVIOUS
  <2> HIDE DEF q, G
  <2>5. q \in Seq(G)
    BY <2>1, <2>3
  <2>6. SubSeq(q, 3, Len(q)) \in Seq(G) /\ SubSeq(q, 3, Len(q)) \in Seq(Nat)
    BY <2>1, <2>5
  <2> QED
    BY <2>4, <2>6 DEF q
<1>6. Waits(Head(agenda)) = {d + 1, d + 2}
  BY <1>1 DEF Waits
<1>7. d + 1 \in 1..Len(blocks) /\ d + 2 \in 1..Len(blocks) /\ d + 2 \in WaitsOf(agenda)
  BY <1>2, <1>3, <1>6, WaitingBlocks
<1>8. Inside(t) /\ Waits(t) = {d + 2}
  BY <1>3 DEF Inside, Waits
<1> HIDE DEF t, ns
<1>9. /\ IsSeq(ts) /\ ts # <<>>
      /\ \A k \in DOMAIN ts : /\ Inside(ts[k])
                              /\ k = Len(ts) => Waits(ts[k]) = Waits(t)
                              /\ k # Len(ts) => Waits(ts[k]) = {}
  BY <1>5, <1>8, VisitsThenInside
<1> HIDE DEF ts
<1> PICK end \in {d + 2} : TRUE
  OBVIOUS
<1> DEFINE X == {end}
<1>10. d + 1 # d + 2
  <2>1. Inside(Head(agenda))
    BY <1>2, <1>3, WithinFunction
  <2>2. d \in Nat
    BY <1>1, <2>1 DEF Inside
  <2> QED
    BY <2>2
<1>11. /\ Waits(t) = X /\ Waits(Head(agenda)) = X \union {block'} /\ block' \notin X
       /\ end \in WaitsOf(agenda) /\ JumpTo(n, d, end)
       /\ Kind(n) # "Program" /\ UNCHANGED <<functions, valueOf>>
  BY <1>1, <1>3, <1>6, <1>7, <1>8, <1>10
<1> HIDE DEF X
<1>12. /\ ts = <<>> => X = {}
       /\ \A k \in DOMAIN ts : Inside(ts[k])
       /\ \A k \in DOMAIN ts : /\ k = Len(ts) => Waits(ts[k]) = X
                               /\ k # Len(ts) => Waits(ts[k]) = {}
  BY <1>9, <1>11
<1> QED
  BY <1>1, <1>9, <1>11, <1>12, JumpGoesOn, Zenon

LEMMA IfEndKeeps ==
    ASSUME IsProgram(prog), GeneratingInv, prog' = prog,
           NEW n \in Pending \ {0}, GenIfEnd(n, Head(agenda)[3])
    PROVE  GraphInv' /\ Flow' /\ ValuesInv' /\ FunctionsInv'
<1> USE DEF GeneratingInv
<1> PICK d \in {Head(agenda)[3]} : TRUE
  OBVIOUS
<1> PICK end \in {d + 2} : TRUE
  OBVIOUS
<1> PICK c \in {d + 1} : TRUE
  OBVIOUS
<1>1. /\ Head(agenda) = <<"end", n, d>>
      /\ JumpTo(n, c, end)
      /\ block' = end
      /\ Then(<<>>)
      /\ UNCHANGED <<functions, valueOf>>
  BY DEF GenIfEnd, Generating, Doing, Task
<1>2. IsSeq(agenda)
  BY DEF CallsInv
<1>3. n \in Nodes /\ agenda # <<>> /\ Kind(n) = "If"
  <2>1. n \in Nodes /\ agenda # <<>>
    BY DEF Pending
  <2>2. Head(agenda) = agenda[1] /\ 1 \in DOMAIN agenda
    BY <1>2, <2>1 DEF IsSeq
  <2>3. OfItsKind(Head(agenda))
    BY <2>2 DEF CallsInv
  <2> QED
    BY <1>1, <2>1, <2>3 DEF OfItsKind
<1>4. Waits(Head(agenda)) = {end}
  BY <1>1 DEF Waits
<1>5. end \in WaitsOf(agenda)
  BY <1>2, <1>3, <1>4, WaitingBlocks
<1> DEFINE X == {}
           ts == <<>>
<1>6. /\ Waits(Head(agenda)) = X \union {block'} /\ block' \notin X
      /\ Kind(n) # "Program" /\ X = {} /\ Then(ts)
  BY <1>1, <1>3, <1>4
<1>7. /\ IsSeq(ts) /\ DOMAIN ts = {}
  BY None
<1> HIDE DEF X, ts
<1>8. /\ ts = <<>> => X = {}
      /\ \A k \in DOMAIN ts : Inside(ts[k])
      /\ \A k \in DOMAIN ts : /\ k = Len(ts) => Waits(ts[k]) = X
                              /\ k # Len(ts) => Waits(ts[k]) = {}
  BY <1>6, <1>7
<1>9. UNCHANGED <<functions, valueOf>>
  BY <1>1
<1> QED
  BY <1>1, <1>5, <1>6, <1>7, <1>8, <1>9, JumpGoesOn, Zenon

-----------------------------------------------------------------------------
(* The value a pending call uses is there, or one of the calls before it   *)
(* is going to leave it.                                                   *)
NoNulls == \A i \in DOMAIN insts : NULL \notin Range(insts[i].operands)

Needs(t, c) ==
    \/ t[1] = "branch" /\ c = Kid(t[2], 1)
    \/ t[1] = "op" /\ \E i \in DOMAIN Kids(t[2]) : c = Kid(t[2], i)
    \/ t[1] = "store" /\ c = Kid(t[2], Len(Kids(t[2])))
    \/ t[1] = "store" /\ Kind(t[2]) = "VarDecl" /\ c = t[2]

Produces(t, c) ==
    t[1] \in {"visit", "op", "store"} /\ c = t[2] /\ Kind(c) \in ExprKinds

NeedsMet ==
    \A k \in DOMAIN agenda : \A c \in Nodes :
        Needs(agenda[k], c) =>
            valueOf[c] # NULL \/ \E j \in 1..(k - 1) : Produces(agenda[j], c)

LEMMA NeedsGoOn ==
    ASSUME IsSeq(agenda), agenda # <<>>, NeedsMet, prog' = prog,
           NEW ts, IsSeq(ts), Then(ts),
           \A c \in Nodes : valueOf[c] # NULL => valueOf'[c] # NULL,
           \A c \in Nodes : Produces(Head(agenda), c) =>
               valueOf'[c] # NULL \/ \E j \in DOMAIN ts : Produces(ts[j], c),
           \A k \in DOMAIN ts : \A c \in Nodes : Needs(ts[k], c) =>
               valueOf'[c] # NULL \/ \E j \in 1..(k - 1) : Produces(ts[j], c)
    PROVE  NeedsMet'
<1> DEFINE m == Len(ts)
           a == agenda
<1>1. /\ m \in Nat /\ Len(a) \in Nat
      /\ DOMAIN ts = 1..m /\ DOMAIN a = 1..Len(a)
      /\ DOMAIN agenda' = 1..(m + Len(a) - 1)
      /\ \A k \in 1..m : agenda'[k] = ts[k]
      /\ \A k \in (m + 1)..(m + Len(a) - 1) : agenda'[k] = a[k - m + 1]
      /\ Head(a) = a[1]
  BY NextCalls, Zenon
<1>2. ASSUME NEW k \in DOMAIN agenda', NEW c \in Nodes, Needs(agenda'[k], c)
      PROVE  valueOf'[c] # NULL \/ \E j \in 1..(k - 1) : Produces(agenda'[j], c)
  <2>1. CASE k \in 1..m
    <3>1. \A j \in 1..(k - 1) : agenda'[j] = ts[j]
      BY <1>1, <2>1
    <3> QED
      BY <1>1, <1>2, <2>1, <3>1
  <2>2. CASE k \in (m + 1)..(m + Len(a) - 1)
    <3> DEFINE l == k - m + 1
    <3>1. l \in 2..Len(a) /\ agenda'[k] = a[l]
      <4>1. \A i, j \in Nat : \A x \in (i + 1)..(i + j - 1) : x - i + 1 \in 2..j
        OBVIOUS
      <4>2. l \in 2..Len(a)
        BY <1>1, <2>2, <4>1
      <4> QED
        BY <1>1, <2>2, <4>2
    <3>2. valueOf[c] # NULL \/ \E j \in 1..(l - 1) : Produces(a[j], c)
      BY <1>1, <1>2, <3>1 DEF NeedsMet
    <3>3. ASSUME NEW j \in 2..(l - 1), Produces(a[j], c)
          PROVE  \E i \in 1..(k - 1) : Produces(agenda'[i], c)
      <4> DEFINE i == j + m - 1
      <4>1. i \in 1..(k - 1) /\ agenda'[i] = a[j]
        <5>1. i \in (m + 1)..(m + Len(a) - 1) /\ i - m + 1 = j /\ i \in 1..(k - 1)
          BY <1>1, <2>2, <3>1
        <5> QED
          BY <1>1, <5>1
      <4> HIDE DEF i
      <4> QED
        BY <3>3, <4>1
    <3>4. ASSUME Produces(a[1], c)
          PROVE  valueOf'[c] # NULL \/ \E i \in 1..(k - 1) : Produces(agenda'[i], c)
      <4>1. \A i \in 1..m : i \in 1..(k - 1) /\ agenda'[i] = ts[i]
        BY <1>1, <2>2
      <4> QED
        BY <1>1, <3>4, <4>1
    <3>5. \A j \in 1..(l - 1) : j = 1 \/ j \in 2..(l - 1)
      BY <3>1
    <3> QED
      BY <3>2, <3>3, <3>4, <3>5
  <2> QED
    BY <1>1, <2>1, <2>2
<1>3. /\ \A t, c : (Needs(t, c)' => Needs(t, c)) /\ (Produces(t, c) => Produces(t, c)')
      /\ Nodes' = Nodes
  BY DEF Needs, Produces, Kind, Kid, Kids, Nodes
<1> QED
  BY <1>2, <1>3 DEF NeedsMet

LEMMA NoNullMade ==
    ASSUME NoNulls, IsSeq(insts),
           NEW n, NEW op, NEW operands, Made(n, op, operands), NULL \notin Range(operands)
    PROVE  NoNulls'
<1> DEFINE e == [op |-> op, operands |-> operands, node |-> n]
<1>1. insts' = Append(insts, e) /\ e.operands = operands
  BY DEF Made
<1> HIDE DEF e
<1>2. /\ DOMAIN insts = 1..Len(insts) /\ DOMAIN insts' = 1..(Len(insts) + 1)
      /\ Len(insts) \in Nat
      /\ \A i \in 1..Len(insts) : insts'[i] = insts[i]
      /\ insts'[Len(insts) + 1] = e
  BY <1>1, AppendTo
<1>3. \A i \in DOMAIN insts' : i \in 1..Len(insts) \/ i = Len(insts) + 1
  BY <1>2
<1> QED
  BY <1>1, <1>2, <1>3 DEF NoNulls

(* What a handler is called with is there, and what it returns is null     *)
(* only if it has reported why.                                            *)
LEMMA NullsGoOn ==
    ASSUME IsProgram(prog), UNCHANGED <<prog, symbolOf>>, GeneratingInv,
           NEW n \in Pending \ {0}, NoNulls, NeedsMet,
           \/ GenProgram(n)
           \/ GenProgramEnd(n)
           \/ GenMethodDecl(n)
           \/ GenMethodEnd(n, Head(agenda)[3])
           \/ GenNested(n)
           \/ GenUnknown(n)
           \/ GenReturn(n)
           \/ GenIf(n)
           \/ GenBranch(n, Head(agenda)[3])
           \/ GenElse(n, Head(agenda)[3])
           \/ GenIfEnd(n, Head(agenda)[3])
           \/ GenVarDecl(n)
           \/ GenIdentifier(n)
           \/ GenAssignment(n)
           \/ GenInitializer(n)
           \/ GenStore(n, Head(agenda)[3])
           \/ GenLiteral(n)
           \/ GenOperands(n)
           \/ GenOperator(n)
    PROVE  ReportedBy("IRGenerator")' \/ (NoNulls' /\ NeedsMet')
<1> USE DEF GeneratingInv
<1> DEFINE h == Head(agenda)
           d == h[3]
<1>1. /\ n \in Nodes /\ agenda # <<>> /\ h[2] = n
      /\ h = agenda[1] /\ 1 \in DOMAIN agenda
      /\ OfItsKind(h) /\ (Stores(h) => Target(h) \in DOMAIN locals)
      /\ IsSeq(agenda) /\ IsSeq(insts)
  <2>1. n \in Nodes /\ agenda # <<>> /\ h[2] = n
    BY DEF Pending
  <2>2. h = agenda[1] /\ 1 \in DOMAIN agenda
    BY <2>1 DEF CallsInv, IsSeq
  <2> QED
    BY <2>1, <2>2 DEF CallsInv, InstsInv
<1>2. \A what, i : Generating(what, n, i) => h = <<what, n, i>>
  BY DEF Generating, Doing, Task
<1>3. \A c \in Nodes : Needs(h, c) => valueOf[c] # NULL
  <2>1. 1..(1 - 1) = {}
    OBVIOUS
  <2> QED
    BY <1>1, <2>1 DEF NeedsMet
<1>4. /\ Kids(n) \in Seq(Nat) /\ DOMAIN Kids(n) = 1..Len(Kids(n)) /\ Len(Kids(n)) \in Nat
      /\ \A i \in DOMAIN Kids(n) : Kid(n, i) \in Nodes /\ Kid(n, i) = Kids(n)[i]
  <2>1. Kids(n) \in Seq(Nat)
    BY <1>1, KidsAreNumbers
  <2> QED
    BY <1>1, <2>1, KidsAreInside DEF Kids, Kid
<1>5. \A t : t[1] = "visit" \/ t[1] = "ret" \/ t[1] = "else" \/ t[1] = "end" \/ t[1] = "leave"
                 => \A c : ~Needs(t, c)
  BY DEF Needs
<1>6. /\ Inst(Len(insts) + 1) # NULL /\ Constant # NULL
      /\ \A s \in DOMAIN locals : locals[s] # NULL
  <2>1. Len(insts) \in Nat
    BY <1>1 DEF IsSeq
  <2> QED
    BY <2>1, Labels DEF InstsInv, Located
<1> HIDE DEF h
<1>7. /\ insts' = insts => NoNulls'
      /\ \A op, operands : Made(n, op, operands) /\ NULL \notin Range(operands) => NoNulls'
      /\ \A op, operands : Emit(n, op, operands) => Made(n, op, operands)
      /\ \A b, end : JumpTo(n, b, end) => Made(n, "Br", <<Label(end)>>)
  <2>1. insts' = insts => NoNulls'
    BY DEF NoNulls
  <2> QED
    BY <1>1, <2>1, NoNullMade DEF Emit, JumpTo
<1>8. /\ Range(<<>>) = {}
      /\ \A v : Range(<<v>>) = {v}
      /\ \A v, w : Range(<<v, w>>) = {v, w}
      /\ \A v, w, x : Range(<<v, w, x>>) = {v, w, x}
  BY DEF Range
<1>9. /\ valueOf' = valueOf => \A c \in Nodes : valueOf[c] # NULL => valueOf'[c] # NULL
      /\ \A v : Returns(n, v) /\ v # NULL =>
             valueOf'[n] # NULL /\ \A c \in Nodes : valueOf[c] # NULL => valueOf'[c] # NULL
  BY <1>1 DEF Returns, ValuesInv
<1>10. ASSUME Then(<<>>),
              \A c \in Nodes : valueOf[c] # NULL => valueOf'[c] # NULL,
              h[1] \in {"visit", "op", "store"} /\ Kind(n) \in ExprKinds => valueOf'[n] # NULL
       PROVE  NeedsMet'
  <2>1. \A c \in Nodes : Produces(h, c) => valueOf'[c] # NULL
    BY <1>1, <1>10 DEF Produces
  <2> QED
    BY <1>1, <1>10, <2>1, None, NeedsGoOn DEF h
<1>11. ASSUME NEW ts, IsSeq(ts), Then(ts), valueOf' = valueOf,
              h[1] = "visit" => Kind(n) \notin ExprKinds,
              h[1] \in {"visit", "ret", "branch", "else", "end", "leave"},
              \A k \in DOMAIN ts : \A c : ~Needs(ts[k], c)
       PROVE  NeedsMet'
  <2>1. \A c \in Nodes : ~Produces(h, c)
    BY <1>1, <1>11 DEF Produces
  <2> QED
    BY <1>1, <1>9, <1>11, <2>1, NeedsGoOn DEF h
<1>12. \A kind \in {"Program", "Method", "Block", "ExprStmt", "While", "Return", "If"} :
           kind \notin ExprKinds
  BY DEF ExprKinds
<1>13. ASSUME NEW ns \in Seq(Nat), NEW t, \A c : ~Needs(t, c)
       PROVE  LET ts == Visits(ns) \o <<t>>
              IN  IsSeq(ts) /\ \A k \in DOMAIN ts : \A c : ~Needs(ts[k], c)
  <2> DEFINE ts == Visits(ns) \o <<t>>
  <2>1. /\ IsSeq(ts)
        /\ \A k \in DOMAIN ts :
               ts[k] = t \/ \E i \in DOMAIN ns : ts[k] = <<"visit", ns[i], 0>>
    BY VisitsThen, Zenon
  <2>2. \A m, c : ~Needs(<<"visit", m, 0>>, c)
    BY <1>5
  <2> HIDE DEF ts
  <2>3. \A k \in DOMAIN ts : \A c : ~Needs(ts[k], c)
    BY <1>13, <2>1, <2>2
  <2> QED
    BY <2>1, <2>3 DEF ts
<1>14. ASSUME NEW m, NEW t, \A c : ~Needs(t, c)
       PROVE  LET ts == <<<<"visit", m, 0>>, t>>
              IN  IsSeq(ts) /\ \A k \in DOMAIN ts : \A c : ~Needs(ts[k], c)
  <2> DEFINE v == <<"visit", m, 0>>
             ts == <<v, t>>
  <2>1. \A c : ~Needs(v, c)
    BY <1>5
  <2> HIDE DEF v
  <2>2. IsSeq(ts) /\ \A k \in DOMAIN ts : ts[k] \in {v, t}
    BY TwoCalls
  <2> HIDE DEF ts
  <2>3. \A k \in DOMAIN ts : \A c : ~Needs(ts[k], c)
    BY <1>14, <2>1, <2>2
  <2> QED
    BY <2>2, <2>3 DEF ts, v
<1>fail. ASSUME NEW message, Fails(n, message)
         PROVE  ReportedBy("IRGenerator")'
  <2> DEFINE e == <<"IRGenerator", message, n>>
  <2>1. e \in errors'
    BY <1>fail DEF Fails, Report
  <2>2. e[1] = "IRGenerator"
    OBVIOUS
  <2> HIDE DEF e
  <2> QED
    BY <2>1, <2>2 DEF ReportedBy
<1>15. CASE GenProgram(n)
  <2> DEFINE t == <<"leave", n, 0>>
  <2>1. /\ Kind(n) = "Program" /\ h = <<"visit", n, 0>>
        /\ Then(Visits(Kids(n)) \o <<t>>) /\ UNCHANGED <<insts, valueOf>>
    BY <1>2, <1>15 DEF GenProgram, Task
  <2>2. \A c : ~Needs(t, c)
    BY <1>5
  <2> HIDE DEF t
  <2> QED
    BY <1>4, <1>7, <1>11, <1>12, <1>13, <2>1, <2>2
<1>16. CASE GenProgramEnd(n) \/ GenMethodEnd(n, d)
  <2>1. /\ h[1] = "leave" /\ Then(<<>>) /\ valueOf' = valueOf
        /\ CloseWithRet(n, <<Constant>>) \/ CloseWithRet(n, <<>>)
    BY <1>2, <1>16 DEF GenProgramEnd, GenMethodEnd
  <2>2. NoNulls'
    BY <1>6, <1>7, <1>8, <2>1 DEF CloseWithRet, EmitNothing
  <2> QED
    BY <1>9, <1>10, <2>1, <2>2
<1>17. CASE GenMethodDecl(n)
  <2> DEFINE t == <<"leave", n, block>>
  <2>1. /\ Kind(n) = "Method" /\ h = <<"visit", n, 0>>
        /\ Then(<<>>) \/ Then(Visits(Kids(n)) \o <<t>>)
        /\ UNCHANGED <<insts, valueOf>>
    BY <1>2, <1>17 DEF GenMethodDecl, Task
  <2>2. \A c : ~Needs(t, c)
    BY <1>5
  <2> HIDE DEF t
  <2> QED
    BY <1>4, <1>7, <1>9, <1>10, <1>11, <1>12, <1>13, <2>1, <2>2
<1>18. CASE GenNested(n)
  <2>1. /\ Kind(n) \in {"Block", "ExprStmt", "While"} /\ h = <<"visit", n, 0>>
        /\ Then(<<>>) \/ Then(Visits(Kids(n)))
        /\ UNCHANGED <<insts, valueOf>>
    BY <1>2, <1>18 DEF GenNested
  <2> DEFINE ts == Visits(Kids(n))
  <2>2. IsSeq(ts) /\ \A k \in DOMAIN ts : ts[k] = <<"visit", Kids(n)[k], 0>>
    BY <1>4, VisitsOf
  <2> HIDE DEF ts
  <2>3. \A k \in DOMAIN ts : \A c : ~Needs(ts[k], c)
    BY <1>5, <2>2
  <2>4. Then(ts) => NeedsMet'
    BY <1>11, <1>12, <2>1, <2>2, <2>3
  <2> QED
    BY <1>7, <1>9, <1>10, <1>12, <2>1, <2>4 DEF ts
<1>19. CASE GenUnknown(n)
  BY <1>fail, <1>19 DEF GenUnknown
<1>20. CASE GenReturn(n)
  <2>1. Kind(n) = "Return" /\ valueOf' = valueOf
    BY <1>20 DEF GenReturn
  <2>2. CASE Generating("visit", n, 0)
    <3> DEFINE m == Kid(n, 1)
               t == <<"ret", n, 0>>
    <3>1. h = <<"visit", n, 0>> /\ UNCHANGED insts
          /\ Then(<<<<"visit", m, 0>>, t>>)
      BY <1>2, <1>20, <2>2 DEF GenReturn, Generating, Doing, Task, EmitNothing
    <3>2. \A c : ~Needs(t, c)
      BY <1>5
    <3> HIDE DEF t, m
    <3> QED
      BY <1>7, <1>11, <1>12, <1>14, <2>1, <3>1, <3>2
  <2>3. CASE ~Generating("visit", n, 0)
    <3> DEFINE v == valueOf[Kid(n, 1)]
    <3>1. /\ Generating("ret", n, 0) /\ Then(<<>>)
          /\ v = NULL => Emit(n, "Ret", <<>>)
          /\ v # NULL => Emit(n, "Ret", <<v>>)
      BY <1>20, <2>3 DEF GenReturn
    <3>2. h[1] = "ret"
      BY <1>2, <3>1
    <3> HIDE DEF v
    <3>3. NoNulls'
      BY <1>7, <1>8, <3>1
    <3> QED
      BY <1>9, <1>10, <2>1, <3>1, <3>2, <3>3
  <2> QED
    BY <2>2, <2>3
<1>21. CASE GenIf(n)
  <2> DEFINE e == Len(blocks) + 1
             m == Kid(n, 1)
             v == <<"visit", m, 0>>
             t == <<"branch", n, e>>
             ts == <<v, t>>
  <2>1. /\ Kind(n) = "If" /\ h = <<"visit", n, 0>> /\ Then(ts)
        /\ UNCHANGED <<insts, valueOf>>
    BY <1>2, <1>21 DEF GenIf, Task
  <2>2. Kind(m) \in ExprKinds
    BY <1>1, <2>1, IfHasKids
  <2>3. /\ \A c : Needs(t, c) => c = m
        /\ Produces(v, m) /\ \A c : ~Needs(v, c)
    BY <1>5, <2>2 DEF Needs, Produces
  <2> HIDE DEF v, t, m
  <2>4. IsSeq(ts) /\ DOMAIN ts = {1, 2} /\ ts[1] = v /\ ts[2] = t
    BY TwoCalls
  <2> HIDE DEF ts
  <2>5. \A k \in DOMAIN ts : \A c \in Nodes : Needs(ts[k], c) =>
            valueOf'[c] # NULL \/ \E j \in 1..(k - 1) : Produces(ts[j], c)
    <3>1. 1 \in 1..(2 - 1)
      OBVIOUS
    <3> QED
      BY <2>3, <2>4, <3>1
  <2>6. \A c : ~Produces(h, c)
    BY <1>1, <1>12, <2>1 DEF Produces
  <2>7. NeedsMet'
    BY <1>1, <1>9, <2>1, <2>4, <2>5, <2>6, NeedsGoOn DEF h
  <2> QED
    BY <1>7, <2>1, <2>7
<1>22. CASE GenBranch(n, d)
  <2> DEFINE m == Kid(n, 2)
             c == Kid(n, 1)
             v == valueOf[c]
             t == <<"else", n, d>>
             x == Label(d)
             y == Label(d + 1)
  <2>1. /\ h = <<"branch", n, d>>
        /\ Made(n, "CondBr", <<v, x, y>>)
        /\ Then(<<<<"visit", m, 0>>, t>>)
        /\ valueOf' = valueOf
    BY <1>2, <1>22 DEF GenBranch, Task
  <2>2. Kind(n) = "If" /\ h[1] = "branch"
    BY <1>1, <2>1 DEF OfItsKind
  <2>3. v # NULL
    <3>1. Kids(n) \in Seq(Nat) /\ Len(Kids(n)) \in {2, 3}
      BY <1>1, <1>4, <2>2, IfHasKids
    <3>2. c \in Nodes
      BY <1>4, <3>1
    <3> QED
      BY <1>1, <1>3, <2>1, <3>2 DEF Needs
  <2>4. x # NULL /\ y # NULL
    <3>1. Waits(h) = {d, d + 1, d + 2}
      BY <2>1 DEF Waits
    <3>2. d \in 1..Len(blocks) /\ d + 1 \in 1..Len(blocks) /\ Len(blocks) \in Nat
      BY <1>1, <3>1, WaitingBlocks, Pointers DEF h
    <3> QED
      BY <3>2, Labels
  <2>5. \A f : ~Needs(t, f)
    BY <1>5
  <2> HIDE DEF v, x, y, t, m
  <2>6. NoNulls'
    BY <1>7, <1>8, <2>1, <2>3, <2>4
  <2>7. NeedsMet'
    BY <1>11, <1>14, <2>1, <2>2, <2>5
  <2> QED
    BY <2>6, <2>7
<1>23. ASSUME NEW b, b + 2 \in WaitsOf(agenda), NEW f, JumpTo(n, f, b + 2)
       PROVE  NoNulls'
  <2> PICK end \in {b + 2} : TRUE
    OBVIOUS
  <2>1. end \in 1..Len(blocks) /\ Len(blocks) \in Nat
    BY <1>1, <1>23, WaitingBlocks, Pointers
  <2>2. Label(end) # NULL
    BY <2>1, Labels
  <2>3. Made(n, "Br", <<Label(end)>>)
    BY <1>7, <1>23
  <2> QED
    BY <1>7, <1>8, <2>2, <2>3
<1>24. CASE GenElse(n, d)
  <2> DEFINE ns == SubSeq(Kids(n), 3, Len(Kids(n)))
             t == <<"end", n, d>>
  <2>1. /\ h = <<"else", n, d>>
        /\ JumpTo(n, d, d + 2)
        /\ Then(Visits(ns) \o <<t>>)
        /\ valueOf' = valueOf
    BY <1>2, <1>24 DEF GenElse, Task
  <2>2. d + 2 \in WaitsOf(agenda) /\ h[1] = "else"
    <3>1. Waits(h) = {d + 1, d + 2}
      BY <2>1 DEF Waits
    <3> QED
      BY <1>1, <2>1, <3>1, WaitingBlocks DEF h
  <2>3. ns \in Seq(Nat)
    BY <1>4
  <2>4. \A f : ~Needs(t, f)
    BY <1>5
  <2> HIDE DEF t, ns
  <2> QED
    BY <1>11, <1>13, <1>23, <2>1, <2>2, <2>3, <2>4
<1>25. CASE GenIfEnd(n, d)
  <2>1. /\ h = <<"end", n, d>>
        /\ JumpTo(n, d + 1, d + 2)
        /\ Then(<<>>)
        /\ valueOf' = valueOf
    BY <1>2, <1>25 DEF GenIfEnd
  <2>2. d + 2 \in WaitsOf(agenda) /\ h[1] = "end"
    <3>1. Waits(h) = {d + 2}
      BY <2>1 DEF Waits
    <3> QED
      BY <1>1, <2>1, <3>1, WaitingBlocks DEF h
  <2> QED
    BY <1>9, <1>10, <1>23, <2>1, <2>2
<1>26. CASE GenVarDecl(n)
  <2> DEFINE t == <<"store", n, 0>>
             ts == Visits(Kids(n)) \o <<t>>
  <2>1. /\ Kind(n) = "VarDecl"
        /\ Emit(n, "Alloca", <<>>)
        /\ Returns(n, Inst(Len(insts) + 1))
        /\ Kids(n) = <<>> => Then(Visits(Kids(n)) \o <<>>)
        /\ Kids(n) # <<>> => Then(ts)
    BY <1>26 DEF GenVarDecl, Task
  <2>2. NoNulls'
    BY <1>7, <1>8, <2>1
  <2>3. valueOf'[n] # NULL /\ \A c \in Nodes : valueOf[c] # NULL => valueOf'[c] # NULL
    BY <1>6, <1>9, <2>1
  <2>4. CASE Kids(n) = <<>>
    <3>1. Visits(Kids(n)) \o <<>> = <<>>
      BY <2>4 DEF Visits
    <3> QED
      BY <1>10, <2>1, <2>2, <2>3, <2>4, <3>1
  <2>5. CASE Kids(n) # <<>>
    <3>1. Len(Kids(n)) = 1
      <4>1. Len(Kids(n)) \in {0, 1}
        BY <1>1, <2>1, VarDeclKids
      <4>2. Len(Kids(n)) # 0
        BY <1>4, <2>5
      <4> QED
        BY <4>1, <4>2
    <3>2. Kind(Kid(n, 1)) \in ExprKinds /\ 1 \in DOMAIN Kids(n)
      BY <1>1, <1>4, <2>1, <3>1, OperandsAreExpressions
    <3>3. \A c : Needs(t, c) => c = n \/ c = Kid(n, 1)
      BY <3>1 DEF Needs
    <3> HIDE DEF t
    <3>4. /\ IsSeq(ts) /\ DOMAIN ts = 1..2
          /\ ts[1] = <<"visit", Kids(n)[1], 0>> /\ ts[2] = t
      BY <1>4, <3>1, <3>2, VisitsThenAt
    <3> HIDE DEF ts
    <3>5. Produces(ts[1], Kid(n, 1)) /\ \A c : ~Needs(ts[1], c)
      BY <1>4, <1>5, <3>2, <3>4 DEF Produces
    <3>6. \A k \in DOMAIN ts : \A c \in Nodes : Needs(ts[k], c) =>
              valueOf'[c] # NULL \/ \E j \in 1..(k - 1) : Produces(ts[j], c)
      <4>1. DOMAIN ts = {1, 2} /\ 1 \in 1..(2 - 1)
        BY <3>4
      <4> QED
        BY <2>3, <3>3, <3>4, <3>5, <4>1
    <3>7. \A c : Produces(h, c) => valueOf'[c] # NULL
      BY <1>1, <2>3 DEF Produces
    <3>8. NeedsMet'
      BY <1>1, <2>1, <2>3, <2>5, <3>4, <3>6, <3>7, NeedsGoOn DEF h
    <3> QED
      BY <2>2, <3>8
  <2> QED
    BY <2>4, <2>5
<1>27. CASE GenIdentifier(n)
  <2>1. CASE symbolOf[n] \in DOMAIN locals
    <3> DEFINE a == locals[symbolOf[n]]
    <3>1. Emit(n, "Load", <<a>>) /\ Returns(n, Inst(Len(insts) + 1)) /\ Then(<<>>)
      BY <1>27, <2>1 DEF GenIdentifier
    <3>2. a # NULL
      BY <1>6, <2>1
    <3> HIDE DEF a
    <3>3. NoNulls'
      BY <1>7, <1>8, <3>1, <3>2
    <3> QED
      BY <1>6, <1>9, <1>10, <3>1, <3>3
  <2>2. CASE symbolOf[n] \notin DOMAIN locals
    BY <1>fail, <1>27, <2>2 DEF GenIdentifier
  <2> QED
    BY <2>1, <2>2
<1>28. CASE GenAssignment(n)
  <2>1. CASE IsLocal(Kid(n, 1))
    <3> DEFINE m == Kid(n, 2)
               v == <<"visit", m, 0>>
               t == <<"store", n, symbolOf[Kid(n, 1)]>>
               ts == <<v, t>>
    <3>1. /\ Kind(n) = "Assign" /\ Then(ts) /\ UNCHANGED <<insts, valueOf>>
      BY <1>28, <2>1 DEF GenAssignment, Task, EmitNothing
    <3>2. Len(Kids(n)) = 2 /\ Kind(m) \in ExprKinds
      <4>1. Kind(n) \in {"Binary", "Unary", "VarDecl", "Assign"}
        BY <3>1
      <4>2. Len(Kids(n)) = 2
        BY <1>1, <3>1, <4>1, OperandsAreExpressions
      <4>3. 2 \in DOMAIN Kids(n)
        BY <1>4, <4>2
      <4> QED
        BY <1>1, <4>1, <4>2, <4>3, OperandsAreExpressions
    <3>3. /\ \A c : Needs(t, c) => c = m
          /\ Produces(v, m) /\ \A c : ~Needs(v, c)
          /\ Produces(t, n)
      BY <1>5, <3>1, <3>2 DEF Needs, Produces, ExprKinds
    <3> HIDE DEF v, t, m
    <3>4. IsSeq(ts) /\ DOMAIN ts = {1, 2} /\ ts[1] = v /\ ts[2] = t
      BY TwoCalls
    <3> HIDE DEF ts
    <3>5. \A k \in DOMAIN ts : \A c \in Nodes : Needs(ts[k], c) =>
              valueOf'[c] # NULL \/ \E j \in 1..(k - 1) : Produces(ts[j], c)
      <4>1. 1 \in 1..(2 - 1)
        OBVIOUS
      <4> QED
        BY <3>3, <3>4, <4>1
    <3>6. \A c : Produces(h, c) => \E j \in DOMAIN ts : Produces(ts[j], c)
      <4>1. \A c : Produces(h, c) => c = n
        BY <1>1 DEF Produces
      <4> QED
        BY <3>3, <3>4, <4>1
    <3>7. NeedsMet'
      BY <1>1, <1>9, <3>1, <3>4, <3>5, <3>6, NeedsGoOn DEF h
    <3> QED
      BY <1>7, <3>1, <3>7
  <2>2. CASE ~IsLocal(Kid(n, 1))
    BY <1>fail, <1>28, <2>2 DEF GenAssignment
  <2> QED
    BY <2>1, <2>2
<1>29. CASE GenInitializer(n)
  <2> DEFINE v == valueOf[n]
             w == valueOf[Kid(n, 1)]
  <2>1. /\ h = <<"store", n, 0>> /\ Then(<<>>) /\ h[1] = "store"
        /\ Kind(n) = "VarDecl"
        /\ Emit(n, "Store", <<v, w>>) /\ valueOf' = valueOf
    BY <1>2, <1>29 DEF GenInitializer
  <2>2. Len(Kids(n)) = 1
    <3>1. Len(Kids(n)) \in {0, 1}
      BY <1>1, <2>1, VarDeclKids
    <3>2. Kids(n) # <<>>
      <4>1. Inside(h)
        BY <1>1, <2>1, WithinFunction DEF h
      <4> QED
        BY <1>1, <2>1, <4>1 DEF Inside
    <3>3. Len(Kids(n)) # 0
      BY <1>4, <3>2
    <3> QED
      BY <3>1, <3>3
  <2>3. v # NULL /\ w # NULL
    <3>1. Kid(n, 1) \in Nodes
      BY <1>4, <2>2
    <3>2. Needs(h, n) /\ Needs(h, Kid(n, 1))
      BY <1>1, <2>1, <2>2 DEF Needs
    <3> QED
      BY <1>1, <1>3, <3>1, <3>2
  <2>4. valueOf'[n] # NULL
    BY <2>1, <2>3
  <2> HIDE DEF v, w
  <2>5. NoNulls'
    BY <1>7, <1>8, <2>1, <2>3
  <2> QED
    BY <1>9, <1>10, <2>1, <2>4, <2>5
<1>store. CASE GenStore(n, Head(agenda)[3])
  <2> DEFINE symbol == Head(agenda)[3]
             v == locals[symbol]
             w == valueOf[Kid(n, 2)]
  <2>1. /\ h = <<"store", n, symbol>> /\ Then(<<>>) /\ h[1] = "store"
        /\ Kind(n) = "Assign"
        /\ Emit(n, "Store", <<v, w>>) /\ Returns(n, w)
    BY <1>2, <1>store DEF GenStore
  <2> HIDE DEF symbol
  <2>2. Len(Kids(n)) = 2
    <3>1. Kind(n) \in {"Binary", "Unary", "VarDecl", "Assign"}
      BY <2>1
    <3> QED
      BY <1>1, <2>1, <3>1, OperandsAreExpressions
  <2>3. v # NULL
    <3>1. symbol \in DOMAIN locals
      BY <1>1, <2>1 DEF OfItsKind, Stores, Target
    <3> QED
      BY <1>6, <3>1
  <2>4. w # NULL
    <3>1. Kid(n, 2) \in Nodes
      BY <1>4, <2>2
    <3>2. Needs(h, Kid(n, 2))
      BY <1>1, <2>1, <2>2 DEF Needs
    <3> QED
      BY <1>3, <3>1, <3>2
  <2> HIDE DEF v, w
  <2>5. NoNulls'
    BY <1>7, <1>8, <2>1, <2>3, <2>4
  <2> QED
    BY <1>9, <1>10, <2>1, <2>4, <2>5
<1>30. CASE GenLiteral(n)
  <2>1. Then(<<>>) /\ Returns(n, Constant) /\ insts' = insts
    BY <1>30 DEF GenLiteral, EmitNothing
  <2> QED
    BY <1>6, <1>7, <1>9, <1>10, <2>1
<1>31. CASE GenOperands(n)
  <2> DEFINE t == <<"op", n, 0>>
             ts == Visits(Kids(n)) \o <<t>>
  <2>1. /\ Kind(n) \in {"Binary", "Unary"} /\ Then(ts)
        /\ UNCHANGED <<insts, valueOf>>
    BY <1>31 DEF GenOperands, Task
  <2>2. /\ \A c : Needs(t, c) => \E i \in DOMAIN Kids(n) : c = Kid(n, i)
        /\ Produces(t, n)
    BY <2>1 DEF Needs, Produces, ExprKinds
  <2> HIDE DEF t
  <2>3. /\ IsSeq(ts) /\ DOMAIN ts = 1..(Len(Kids(n)) + 1)
        /\ \A i \in DOMAIN Kids(n) : ts[i] = <<"visit", Kids(n)[i], 0>>
        /\ ts[Len(Kids(n)) + 1] = t
    BY <1>4, VisitsThenAt
  <2> HIDE DEF ts
  <2>4. \A i \in DOMAIN Kids(n) : Produces(ts[i], Kid(n, i)) /\ \A c : ~Needs(ts[i], c)
    <3>1. \A i \in DOMAIN Kids(n) : Kind(Kid(n, i)) \in ExprKinds
      BY <1>1, <2>1, OperandsAreExpressions
    <3> QED
      BY <1>4, <1>5, <2>3, <3>1 DEF Produces
  <2>5. \A k \in DOMAIN ts : \A c \in Nodes : Needs(ts[k], c) =>
            valueOf'[c] # NULL \/ \E j \in 1..(k - 1) : Produces(ts[j], c)
    <3>1. \A k \in DOMAIN ts : k \in DOMAIN Kids(n) \/ k = Len(Kids(n)) + 1
      BY <1>4, <2>3
    <3>2. 1..(Len(Kids(n)) + 1 - 1) = DOMAIN Kids(n)
      BY <1>4
    <3> QED
      BY <2>2, <2>3, <2>4, <3>1, <3>2
  <2>6. \A c : Produces(h, c) => \E j \in DOMAIN ts : Produces(ts[j], c)
    <3>1. \A c : Produces(h, c) => c = n
      BY <1>1 DEF Produces
    <3>2. Len(Kids(n)) + 1 \in DOMAIN ts
      BY <1>4, <2>3
    <3> QED
      BY <2>2, <2>3, <3>1, <3>2
  <2>7. NeedsMet'
    BY <1>1, <1>9, <2>1, <2>3, <2>5, <2>6, NeedsGoOn DEF h
  <2> QED
    BY <1>7, <2>1, <2>7
<1>32. CASE GenOperator(n)
  <2> DEFINE v == valueOf[Kid(n, 1)]
             w == valueOf[Kid(n, 2)]
  <2>1. h = <<"op", n, 0>> /\ h[1] = "op"
    <3>1. Generating("op", n, 0)
      BY <1>32 DEF GenOperator
    <3> QED
      BY <1>2, <3>1
  <2>2. Kind(n) \in {"Binary", "Unary"}
    BY <1>1, <2>1 DEF OfItsKind
  <2>3. \/ \E message : Fails(n, message)
        \/ /\ Then(<<>>) /\ Returns(n, Inst(Len(insts) + 1))
           /\ Kind(n) = "Unary" => \E op : Emit(n, op, <<Constant, v>>)
           /\ Kind(n) # "Unary" => \E op : Emit(n, op, <<v, w>>)
    BY <1>32 DEF GenOperator
  <2>4. \A i \in DOMAIN Kids(n) : valueOf[Kid(n, i)] # NULL
    BY <1>1, <1>3, <1>4, <2>1 DEF Needs
  <2>5. v # NULL
    <3>1. 1 \in DOMAIN Kids(n)
      BY <1>1, <2>2, OperandsHavePlaces
    <3> QED
      BY <2>4, <3>1
  <2>6. Kind(n) # "Unary" => w # NULL
    <3>1. Kind(n) # "Unary" => 2 \in DOMAIN Kids(n)
      BY <1>1, <2>2, OperandsHavePlaces
    <3> QED
      BY <2>4, <3>1
  <2> HIDE DEF v, w
  <2>7. CASE \E message : Fails(n, message)
    BY <1>fail, <2>7
  <2>8. CASE ~\E message : Fails(n, message)
    <3>1. NoNulls'
      <4>1. CASE Kind(n) = "Unary"
        <5> PICK op : Emit(n, op, <<Constant, v>>)
          BY <2>3, <2>8, <4>1
        <5> QED
          BY <1>6, <1>7, <1>8, <2>5
      <4>2. CASE Kind(n) # "Unary"
        <5> PICK op : Emit(n, op, <<v, w>>)
          BY <2>3, <2>8, <4>2
        <5> QED
          BY <1>7, <1>8, <2>5, <2>6, <4>2
      <4> QED
        BY <4>1, <4>2
    <3> QED
      BY <1>6, <1>9, <1>10, <2>3, <2>8, <3>1
  <2> QED
    BY <2>7, <2>8
<1> QED
  BY <1>15, <1>16, <1>17, <1>18, <1>19, <1>20, <1>21, <1>22, <1>24, <1>25, <1>26, <1>27,
     <1>28, <1>29, <1>store, <1>30, <1>31, <1>32 DEF h

-----------------------------------------------------------------------------
(* The invariant of the whole process.                                     *)
ValuesAreAddresses == \A n \in DOMAIN valueOf : valueOf[n] \in Address

NullsInv ==
    /\ ReportedBy("IRGenerator") \/ NoNulls
    /\ pass = "generate" => ReportedBy("IRGenerator") \/ NeedsMet

ModuleInv ==
    /\ GeneratorInv
    /\ pass \in Before => functions = <<>> /\ blocks = <<>> /\ block = 0 /\ valueOf = <<>>
    /\ GraphInv /\ FunctionsInv /\ ValuesAreAddresses
    /\ block \in 0..Len(blocks)
    /\ pass = "generate" => Flow /\ DOMAIN valueOf = Nodes
    /\ pass = "destroy" => \A b \in DOMAIN blocks : Terminated(b)
    /\ NullsInv

LEMMA GraphSame ==
    ASSUME GraphInv, FunctionsInv, ValuesAreAddresses, block \in 0..Len(blocks),
           UNCHANGED <<functions, blocks, insts, block, valueOf>>
    PROVE  /\ GraphInv' /\ FunctionsInv' /\ ValuesAreAddresses'
           /\ block' \in 0..Len(blocks')
           /\ NoNulls => NoNulls'
<1>1. BlockType' = BlockType /\ Value' = Value /\ Address' = Address
      /\ FunctionType' = FunctionType
  BY DEF BlockType, Value, Address, FunctionType
<1>2. \A b : Targets(b)' = Targets(b)
  BY DEF Targets
<1>3. EdgesMatchBranches'
  BY <1>2 DEF GraphInv, EdgesMatchBranches
<1>4. GraphInv'
  BY <1>1, <1>3 DEF GraphInv
<1> QED
  BY <1>1, <1>4 DEF FunctionsInv, ValuesAreAddresses, NoNulls

LEMMA EmptyGraph ==
    ASSUME functions = <<>>, blocks = <<>>, insts = <<>>, block = 0, valueOf = <<>>
    PROVE  /\ GraphInv /\ FunctionsInv /\ ValuesAreAddresses
           /\ block \in 0..Len(blocks) /\ NoNulls
<1>1. \A S : <<>> \in Seq(S)
  OBVIOUS
<1>2. DOMAIN <<>> = {} /\ Len(<<>>) = 0
  OBVIOUS
<1>3. DOMAIN blocks = {} /\ DOMAIN insts = {} /\ DOMAIN valueOf = {} /\ Len(blocks) = 0
  BY <1>2
<1>4. blocks \in Seq(BlockType) /\ functions \in Seq(FunctionType)
  BY <1>1
<1> QED
  BY <1>3, <1>4 DEF GraphInv, EdgesMatchBranches, FunctionsInv, ValuesAreAddresses, NoNulls

LEMMA StartsGraph ==
    ASSUME ModuleInv, StartGenerator
    PROVE  /\ ValuesAreAddresses' /\ Flow' /\ DOMAIN valueOf' = Nodes' /\ NeedsMet'
<1> PICK i \in {0, 1} : agenda' = <<Task("visit", i, 0)>>
  BY DEF StartGenerator
<1> DEFINE t == Task("visit", i, 0)
<1>1. /\ pass \in Before /\ valueOf' = [n \in Nodes |-> NULL]
      /\ UNCHANGED <<prog, functions, blocks, insts, block>>
  BY DEF StartGenerator, AnalysisUnchanged, Before
<1>2. blocks = <<>> /\ block = 0
  BY <1>1 DEF ModuleInv
<1>3. ValuesAreAddresses' /\ DOMAIN valueOf' = Nodes'
  BY <1>1 DEF ValuesAreAddresses, Address, Nodes
<1>4. Waits(t) = {} /\ \A c : ~Needs(t, c)'
  BY DEF Waits, Needs, Task
<1>5. agenda' = <<t>>
  OBVIOUS
<1>6. Outside'
  BY <1>1, <1>2, <1>5 DEF Outside
<1> HIDE DEF t
<1>7. /\ agenda' # <<>> /\ DOMAIN agenda' = {1} /\ agenda'[1] = t
  BY <1>5
<1>8. Apart(agenda') /\ WaitsOf(agenda') = {}
  BY <1>4, <1>7 DEF Apart, WaitsOf
<1>9. Len(blocks') = 0 /\ 1..0 = {} /\ block' = 0
  BY <1>1, <1>2
<1>10. Flow'
  BY <1>6, <1>8, <1>9 DEF Flow
<1>11. NeedsMet'
  BY <1>4, <1>7 DEF NeedsMet
<1> QED
  BY <1>3, <1>10, <1>11

LEMMA GenerateKeepsModule ==
    ASSUME ModuleInv, GeneratorInv', Generate
    PROVE  ModuleInv'
<1> USE DEF ModuleInv
<1>1. /\ pass = "generate"
      /\ pass' \in {"crashed", "generate"} /\ errors \subseteq errors'
      /\ UNCHANGED <<prog, symbolOf>>
  BY GenerateReports DEF Generate, AnalysisUnchanged, Reports
<1>2. IsProgram(prog) /\ CallsInv /\ InstsInv /\ IsSeq(agenda) /\ IsSeq(insts)
  BY <1>1 DEF GeneratorInv, CallsInv, InstsInv
<1>3. ValuesInv /\ Flow
  BY <1>1 DEF ValuesInv, ValuesAreAddresses
<1>4. GeneratingInv
  BY <1>2, <1>3 DEF GeneratingInv
<1>5. CASE GenNull
  <2>1. /\ CreateFunction(0) /\ pass' = "crashed"
        /\ UNCHANGED <<errors, insts, valueOf>>
    BY <1>5 DEF GenNull, Crash
  <2>2. /\ GraphInv' /\ FunctionsInv'
        /\ block' = Len(blocks') /\ Len(blocks') \in Nat
    BY <1>2, <2>1, FunctionCreated
  <2>3. ValuesAreAddresses' /\ (NoNulls => NoNulls')
    BY <2>1 DEF ValuesAreAddresses, Address, NoNulls
  <2>4. NullsInv'
    BY <2>1, <2>3 DEF NullsInv, ReportedBy
  <2>5. block' \in 0..Len(blocks')
    BY <2>2
  <2> QED
    BY <2>1, <2>2, <2>3, <2>4, <2>5 DEF Before
<1>7. CASE \E n \in Pending \ {0} : GenStaleIterator(n, Head(agenda)[3])
  <2>1. /\ pass' = "crashed"
        /\ UNCHANGED <<errors, functions, blocks, insts, block, valueOf>>
    BY <1>7 DEF GenStaleIterator, Crash
  <2>2. /\ GraphInv' /\ FunctionsInv' /\ ValuesAreAddresses'
        /\ block' \in 0..Len(blocks') /\ (NoNulls => NoNulls')
    BY <2>1, GraphSame
  <2>3. NullsInv'
    BY <2>1, <2>2 DEF NullsInv, ReportedBy
  <2> QED
    BY <2>1, <2>2, <2>3 DEF Before
<1>6. CASE ~GeneratorDies
  <2> PICK n \in Pending \ {0} :
         \/ GenProgram(n)
         \/ GenProgramEnd(n)
         \/ GenMethodDecl(n)
         \/ GenMethodEnd(n, Head(agenda)[3])
         \/ GenNested(n)
         \/ GenUnknown(n)
         \/ GenReturn(n)
         \/ GenIf(n)
         \/ GenBranch(n, Head(agenda)[3])
         \/ GenElse(n, Head(agenda)[3])
         \/ GenIfEnd(n, Head(agenda)[3])
         \/ GenVarDecl(n)
         \/ GenIdentifier(n)
         \/ GenAssignment(n)
         \/ GenInitializer(n)
         \/ GenStore(n, Head(agenda)[3])
         \/ GenLiteral(n)
         \/ GenOperands(n)
         \/ GenOperator(n)
    BY <1>6 DEF Generate, GeneratorDies
  <2>1. ReportedBy("IRGenerator")' \/ (NoNulls' /\ NeedsMet')
    <3>1. CASE ReportedBy("IRGenerator")
      BY <1>1, <3>1 DEF ReportedBy
    <3>2. CASE NoNulls /\ NeedsMet
      BY <1>1, <1>2, <1>4, <3>2, NullsGoOn
    <3> QED
      BY <1>1, <3>1, <3>2 DEF NullsInv
  <2>2. GraphInv' /\ Flow' /\ ValuesInv' /\ FunctionsInv'
    <3>1. CASE GenProgram(n)
      BY <1>1, <1>2, <1>4, <3>1, ProgramKeeps
    <3>2. CASE GenProgramEnd(n)
      BY <1>1, <1>2, <1>4, <3>2, ProgramEndKeeps
    <3>3. CASE GenMethodDecl(n) /\ symbolOf[n] # NULL
      BY <1>1, <1>2, <1>4, <3>3, MethodDeclKeeps
    <3>4. CASE GenMethodEnd(n, Head(agenda)[3])
      BY <1>1, <1>2, <1>4, <3>4, MethodEndKeeps
    <3>5. CASE GenIf(n)
      BY <1>1, <1>2, <1>4, <3>5, IfKeeps
    <3>6. CASE GenBranch(n, Head(agenda)[3])
      BY <1>1, <1>2, <1>4, <3>6, BranchKeeps
    <3>7. CASE GenElse(n, Head(agenda)[3])
      BY <1>1, <1>2, <1>4, <3>7, ElseKeeps
    <3>8. CASE GenIfEnd(n, Head(agenda)[3])
      BY <1>1, <1>2, <1>4, <3>8, IfEndKeeps
    <3>9. CASE \/ GenMethodDecl(n) /\ symbolOf[n] = NULL
               \/ GenNested(n)
               \/ GenUnknown(n)
               \/ GenReturn(n)
               \/ GenVarDecl(n)
               \/ GenIdentifier(n)
               \/ GenAssignment(n)
               \/ GenInitializer(n)
               \/ GenStore(n, Head(agenda)[3])
               \/ GenLiteral(n)
               \/ GenOperands(n)
               \/ GenOperator(n)
      <4>1. Kind(n) # "Program" /\ Quiet(n)
        BY <1>1, <1>2, <1>4, <3>9, HandlersAreQuiet
      <4> QED
        BY <1>2, <1>4, <4>1, QuietKeeps
    <3> QED
      BY <3>1, <3>2, <3>3, <3>4, <3>5, <3>6, <3>7, <3>8, <3>9
  <2>3. ValuesAreAddresses' /\ DOMAIN valueOf' = Nodes' /\ block' \in 0..Len(blocks')
    BY <2>2 DEF ValuesInv, ValuesAreAddresses, Flow
  <2>4. NullsInv'
    BY <2>1 DEF NullsInv
  <2>5. pass' \notin Before /\ pass' # "destroy"
    BY <1>1 DEF Before
  <2> QED
    BY <2>2, <2>3, <2>4, <2>5
<1> QED
  BY <1>5, <1>6, <1>7 DEF GeneratorDies

LEMMA ModuleNext ==
    ASSUME ModuleInv, Main, TreesWellFormed'
    PROVE  ModuleInv'
<1> USE DEF ModuleInv
<1>1. GeneratorInv'
  BY GeneratorNext
<1>2. UNCHANGED <<functions, blocks, insts, block, valueOf>> =>
          /\ GraphInv' /\ FunctionsInv' /\ ValuesAreAddresses'
          /\ block' \in 0..Len(blocks')
          /\ NoNulls => NoNulls'
  BY GraphSame
<1>3. pass \in Before => NoNulls
  BY DEF GeneratorInv, NoNulls
<1>4. ASSUME UNCHANGED <<functions, blocks, insts, block, valueOf>>, pass \in Before,
             pass' \in Before \union {"exited", "crashed"}
      PROVE  ModuleInv'
  <2>1. NullsInv' /\ pass' # "generate" /\ pass' # "destroy"
    BY <1>2, <1>3, <1>4 DEF NullsInv, Before
  <2> QED
    BY <1>1, <1>2, <1>4, <2>1
<1>5. CASE Refuse \/ Parse
  BY <1>4, <1>5 DEF Refuse, Parse, semaVars, genVars, Before
<1>6. CASE AfterParser
  BY <1>4, <1>6 DEF AfterParser, Analyze, genVars, Before
<1>7. CASE Analysis /\ UNCHANGED <<source, parserVars, genVars, teardownVars, status>>
  <2>1. pass \in Analysing /\ pass' \in Analysing \union Ends
    BY <1>7, AnalysisPasses
  <2>2. UNCHANGED <<functions, blocks, insts, block, valueOf>>
    BY <1>7 DEF genVars
  <2> QED
    BY <1>4, <2>1, <2>2 DEF Analysing, Ends, Before
<1>8. CASE StartGenerator
  <2>1. /\ pass \in Before /\ pass' = "generate"
        /\ UNCHANGED <<functions, blocks, insts, block>>
    BY <1>8 DEF StartGenerator, Before
  <2>2. GraphInv' /\ FunctionsInv' /\ block' \in 0..Len(blocks') /\ NoNulls'
    <3>1. BlockType' = BlockType /\ Value' = Value /\ FunctionType' = FunctionType
      BY <2>1 DEF BlockType, Value, FunctionType
    <3>2. \A b : Targets(b)' = Targets(b)
      BY <2>1 DEF Targets
    <3>3. EdgesMatchBranches'
      BY <2>1, <3>2 DEF GraphInv, EdgesMatchBranches
    <3> QED
      BY <1>3, <2>1, <3>1, <3>3 DEF GraphInv, FunctionsInv, NoNulls
  <2>3. ValuesAreAddresses' /\ Flow' /\ DOMAIN valueOf' = Nodes' /\ NeedsMet'
    BY <1>8, StartsGraph
  <2> QED
    BY <1>1, <2>1, <2>2, <2>3 DEF NullsInv, Before
<1>9. CASE Generate /\ UNCHANGED <<source, parserVars, teardownVars, status>>
  BY <1>1, <1>9, GenerateKeepsModule
<1>10. CASE StartTeardown \/ Teardown
  <2>1. /\ pass \in {"generate", "destroy"} /\ pass' \in {"destroy", "aborted", "exited"}
        /\ UNCHANGED <<functions, blocks, insts, block, valueOf, errors>>
    BY <1>10 DEF StartTeardown, PassOver, Teardown, DestroyInstruction, DestroyBlock,
                 DestroyConstants, DestroyValue, Exit, genVars
  <2>2. pass' = "destroy" => \A b \in DOMAIN blocks : Terminated(b)
    <3>1. CASE StartTeardown
      <4>1. pass = "generate" /\ agenda = <<>>
        BY <3>1 DEF StartTeardown, PassOver
      <4>2. Outside
        BY <4>1 DEF Flow, Within
      <4>3. block = 0 /\ WaitsOf(agenda) = {}
        BY <4>1, <4>2, None DEF Outside, WaitsOf
      <4>4. DOMAIN blocks = 1..Len(blocks) /\ 0 \notin 1..Len(blocks)
        BY Pointers
      <4> QED
        BY <4>1, <4>3, <4>4 DEF Flow
    <3>2. CASE Teardown
      BY <3>2 DEF Teardown
    <3> QED
      BY <1>10, <3>1, <3>2
  <2>3. \A b : Terminated(b) => Terminated(b)'
    BY <2>1 DEF Terminated, NoJump
  <2>4. NullsInv'
    BY <1>2, <2>1 DEF NullsInv, ReportedBy
  <2> QED
    BY <1>1, <1>2, <2>1, <2>2, <2>3, <2>4 DEF Before
<1> QED
  BY <1>5, <1>6, <1>7, <1>8, <1>9, <1>10 DEF Main

LEMMA ModuleHolds == MainSpec => []ModuleInv
<1>1. Init => ModuleInv
  <2> SUFFICES ASSUME Init PROVE ModuleInv
    OBVIOUS
  <2>1. /\ functions = <<>> /\ blocks = <<>> /\ insts = <<>> /\ block = 0
        /\ valueOf = <<>> /\ locals = <<>> /\ pass = "parse"
    BY DEF Init, InitPasses, InitIR
  <2>2. /\ GraphInv /\ FunctionsInv /\ ValuesAreAddresses
        /\ block \in 0..Len(blocks) /\ NoNulls
    BY <2>1, EmptyGraph
  <2>3. GeneratorInv
    BY <2>1, NothingYet DEF GeneratorInv, Before
  <2> QED
    BY <2>1, <2>2, <2>3 DEF ModuleInv, NullsInv
<1>2. ModuleInv /\ TreesWellFormed' /\ [Main]_driverVars => ModuleInv'
  <2> SUFFICES ASSUME ModuleInv, TreesWellFormed', [Main]_driverVars
               PROVE  ModuleInv'
    OBVIOUS
  <2>1. CASE UNCHANGED driverVars
    <3>1. UNCHANGED <<pass, agenda, prog, symbolOf, errors, functions, blocks, insts, block,
                      locals, valueOf>>
      BY <2>1 DEF driverVars, semaVars, genVars
    <3>2. GeneratorInv'
      <4>1. CallsInv => CallsInv'
        BY <3>1 DEF CallsInv, OfItsKind, Stores, Target, Inner, Kind, Kid
      <4> QED
        BY <3>1, <4>1, InstsSame DEF ModuleInv, GeneratorInv
    <3>3. /\ GraphInv' /\ FunctionsInv' /\ ValuesAreAddresses'
          /\ block' \in 0..Len(blocks') /\ (NoNulls => NoNulls')
      BY <3>1, GraphSame DEF ModuleInv
    <3>4. /\ \A b : (Open(b) => Open(b)') /\ (Terminated(b) => Terminated(b)')
          /\ \A t : Inside(t) => Inside(t)'
          /\ \A t, c : (Needs(t, c)' => Needs(t, c)) /\ (Produces(t, c) => Produces(t, c)')
          /\ Nodes' = Nodes
      BY <3>1 DEF Open, Terminated, NoJump, Inside, Needs, Produces, Nodes, Kind, Kids, Kid
    <3>5. Flow => Flow'
      <4>1. (Outside => Outside') /\ (Within => Within')
        BY <3>1, <3>4 DEF Outside, Within
      <4> QED
        BY <3>1, <3>4, <4>1 DEF Flow
    <3>6. NeedsMet => NeedsMet'
      BY <3>1, <3>4 DEF NeedsMet
    <3>7. NullsInv'
      BY <3>1, <3>3, <3>6 DEF ModuleInv, NullsInv, ReportedBy
    <3> QED
      BY <3>1, <3>2, <3>3, <3>4, <3>5, <3>7 DEF ModuleInv
  <2> QED
    BY <2>1, ModuleNext
<1> QED
  BY <1>1, <1>2, TreesAreWellFormed, PTL DEF MainSpec

-----------------------------------------------------------------------------
(* The generator's own state is sound: functions hold blocks that exist    *)
(* and blocks instructions that exist, no operand points to what is not    *)
(* there, and there is a current block exactly while something is being    *)
(* generated.                                                              *)
THEOREM IrIsTyped == MainSpec => []IrTypeOK
<1>1. ModuleInv => IrTypeOK
  <2> SUFFICES ASSUME ModuleInv PROVE IrTypeOK
    OBVIOUS
  <2> USE DEF ModuleInv
  <2>1. \A f \in DOMAIN functions : functions[f].blocks \in Seq(1..Len(blocks))
    <3>1. \A f \in DOMAIN functions : functions[f] \in FunctionType
      BY DEF FunctionsInv
    <3> QED
      BY <3>1 DEF FunctionType
  <2>2. \A b \in DOMAIN blocks : /\ blocks[b].insts \in Seq(1..Len(insts))
                                 /\ blocks[b].preds \in Seq(1..Len(blocks))
                                 /\ blocks[b].succs \in Seq(1..Len(blocks))
    BY Pointers DEF BlockType
  <2>3. \A i \in DOMAIN insts : insts[i].operands \in Seq(Value)
    BY DEF GraphInv
  <2>4. \A s \in DOMAIN locals : locals[s] \in Value
    BY Labels DEF GeneratorInv, InstsInv, Located
  <2>5. \A n \in DOMAIN valueOf : valueOf[n] \in Value
    BY Labels DEF ValuesAreAddresses
  <2>6. ASSUME pass = "generate", agenda # <<>>
        PROVE  (block = 0) = (Head(agenda) \in {Task("visit", 0, 0), Task("visit", 1, 0)})
    <3>1. Flow /\ IsProgram(prog) /\ IsSeq(agenda)
      BY <2>6 DEF GeneratorInv, CallsInv
    <3>2. CASE Outside
      <4> DEFINE v0 == Task("visit", 0, 0)
                 v1 == Task("visit", 1, 0)
      <4>1. agenda \in {<<v0>>, <<v1>>} /\ block = 0
        BY <2>6, <3>2 DEF Outside
      <4> HIDE DEF v0, v1
      <4>2. Head(agenda) \in {v0, v1}
        BY <4>1
      <4> QED
        BY <4>1, <4>2 DEF v0, v1
    <3>3. CASE Within
      <4>1. Head(agenda) = agenda[1] /\ Len(agenda) \in Nat /\ Len(agenda) > 0
        BY <2>6, <3>1 DEF IsSeq
      <4>2. \A t : Inside(t) => t[2] \in Nodes /\ Kind(t[2]) # "Program"
        BY DEF Inside
      <4>3. 0 \notin Nodes /\ Kind(1) = "Program"
        BY <3>1 DEF IsProgram, Nodes, Kind
      <4>4. ~Inside(Task("visit", 0, 0)) /\ ~Inside(Task("visit", 1, 0))
        BY <4>2, <4>3 DEF Task
      <4>5. Inside(Head(agenda)) \/ Head(agenda) = Task("leave", 1, 0)
        <5>0. \A l \in Nat : l > 0 => l = 1 \/ 1 \in 1..(l - 1)
          OBVIOUS
        <5>1. Len(agenda) = 1 \/ 1 \in 1..(Len(agenda) - 1)
          BY <4>1, <5>0
        <5> QED
          BY <3>3, <4>1, <5>1 DEF Within
      <4>6. Task("leave", 1, 0) \notin {Task("visit", 0, 0), Task("visit", 1, 0)}
        BY DEF Task
      <4>7. block # 0 /\ Head(agenda) \notin {Task("visit", 0, 0), Task("visit", 1, 0)}
        BY <3>3, <4>4, <4>5, <4>6 DEF Within
      <4> QED
        BY <4>7
    <3> QED
      BY <3>1, <3>2, <3>3 DEF Flow
  <2> QED
    BY <2>1, <2>2, <2>3, <2>4, <2>5, <2>6 DEF IrTypeOK
<1> QED
  BY <1>1, ModuleHolds, PTL

(* The successors of every block of every function are exactly the targets *)
(* of its branch, each of them once, and the predecessors are the same     *)
(* edges the other way round, however ifs and methods are nested.          *)
THEOREM EdgesAreBranches == MainSpec => []EdgesMatchBranches
<1>1. ModuleInv => EdgesMatchBranches
  BY DEF ModuleInv, GraphInv
<1> QED
  BY <1>1, ModuleHolds, PTL

(* When generation is over, control leaves every block by a ret or a       *)
(* branch at its end, and by no branch before it: no nesting leaves a      *)
(* block that nothing has closed, or goes on with one that has jumped.     *)
THEOREM ControlLeavesBlocks == MainSpec => []BlocksTerminated
<1>1. ModuleInv => BlocksTerminated
  BY DEF ModuleInv, BlocksTerminated, Generated, Terminated, NoJump
<1> QED
  BY <1>1, ModuleHolds, PTL

(* An instruction with a null operand is only in a program of which the    *)
(* generator has reported an error: a handler never uses the value of an   *)
(* operand before its handler has returned it.                             *)
THEOREM NullsHaveReasons == MainSpec => []NullsAreReported
<1>1. ModuleInv => NullsAreReported
  BY DEF ModuleInv, NullsInv, NoNulls, NullsAreReported
<1> QED
  BY <1>1, ModuleHolds, PTL
=============================================================================
