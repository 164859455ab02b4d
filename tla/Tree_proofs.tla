---------------------------- MODULE Tree_proofs ----------------------------
(***************************************************************************)
(* The parser's steps keep the stack of the functions that wait in accord  *)
(* with the parts of trees that they have made: what a function returns is *)
(* a tree of the kind, and with the children, that its caller awaits.      *)
(***************************************************************************)
EXTENDS Driver, Passes_proofs

-----------------------------------------------------------------------------
(* Sequences of numbers, and the layout of a tree: where in the tree of a *)
(* node the trees of its children start.                                  *)

(* Induction one step at a time.                                           *)
LEMMA Upwards ==
    ASSUME NEW top \in Nat, NEW S, 0 \in S,
           \A n \in 1..top : n - 1 \in S => n \in S
    PROVE  0..top \subseteq S
<1>1. ASSUME NEW n \in 1..top, \A m \in 1..(n - 1) : m \in S
      PROVE  n \in S
  <2>1. n - 1 = 0 \/ n - 1 \in 1..(n - 1)
    OBVIOUS
  <2> QED
    BY <1>1, <2>1
<1>2. 1..top \subseteq S
  BY <1>1, UpTo
<1>3. \A n \in 0..top : n = 0 \/ n \in 1..top
  OBVIOUS
<1> QED
  BY <1>2, <1>3

(* Where each of some parts of the given lengths starts, less one.         *)
Offsets(off, k, len) ==
    /\ off \in [1..(k + 1) -> Nat]
    /\ off[1] = 1
    /\ \A i \in 1..k : off[i + 1] = off[i] + len[i]

LEMMA OffsetsExist ==
    ASSUME NEW k \in Nat, NEW len, \A i \in 1..k : len[i] \in Nat
    PROVE  \E off : Offsets(off, k, len)
<1> DEFINE S == {m \in 0..k : \E off : Offsets(off, m, len)}
<1>1. 0 \in S
  <2>1. Offsets([i \in 1..(0 + 1) |-> 1], 0, len)
    BY DEF Offsets
  <2> QED
    BY <2>1
<1>2. ASSUME NEW m \in 1..k, m - 1 \in S PROVE m \in S
  <2>1. PICK f : Offsets(f, m - 1, len)
    BY <1>2
  <2> DEFINE g == [i \in 1..(m + 1) |-> IF i = m + 1 THEN f[m] + len[m] ELSE f[i]]
  <2>2. f \in [1..m -> Nat] /\ f[1] = 1 /\ \A i \in 1..(m - 1) : f[i + 1] = f[i] + len[i]
    <3>1. (m - 1) + 1 = m
      OBVIOUS
    <3> QED
      BY <2>1, <3>1 DEF Offsets
  <2>3. len[m] \in Nat /\ f[m] \in Nat
    BY <2>2
  <2>4. g \in [1..(m + 1) -> Nat]
    BY <2>2, <2>3
  <2>5. g[1] = 1
    BY <2>2
  <2>6. ASSUME NEW i \in 1..m PROVE g[i + 1] = g[i] + len[i]
    <3>1. g[i] = f[i]
      OBVIOUS
    <3>2. CASE i = m
      BY <3>1, <3>2
    <3>3. CASE i # m
      <4>1. i \in 1..(m - 1) /\ g[i + 1] = f[i + 1]
        BY <3>3
      <4> QED
        BY <2>2, <3>1, <4>1
    <3> QED
      BY <3>2, <3>3
  <2>7. Offsets(g, m, len)
    <3> HIDE DEF g
    <3> QED
      BY <2>4, <2>5, <2>6 DEF Offsets
  <2> QED
    BY <2>7
<1>3. 0..k \subseteq S
  <2> HIDE DEF S
  <2> QED
    BY <1>1, <1>2, Upwards
<1>4. k \in 0..k
  OBVIOUS
<1> QED
  BY <1>3, <1>4

LEMMA GreatestUpTo ==
    ASSUME NEW n \in Nat, n # 0
    PROVE  Max(1..n) = n
<1>1. n \in 1..n /\ \A y \in 1..n : n >= y
  OBVIOUS
<1>2. \A x \in 1..n : (\A y \in 1..n : x >= y) => x = n
  OBVIOUS
<1> QED
  BY <1>1, <1>2 DEF Max

(* The greatest of some numbers up to m.                                   *)
LEMMA GreatestIn ==
    ASSUME NEW m \in Nat, NEW s, s \subseteq 1..m, s # {}
    PROVE  /\ Max(s) \in s /\ \A y \in s : Max(s) >= y
           /\ m \in s => Max(s) = m
<1>1. s \subseteq Nat /\ \A y \in s : y <= m
  OBVIOUS
<1>2. PICK x \in s : \A y \in s : y <= x
  BY <1>1, GreatestOf
<1>3. \A y \in s : x >= y
  BY <1>1, <1>2
<1>4. Max(s) \in s /\ \A y \in s : Max(s) >= y
  BY <1>3 DEF Max
<1>5. m \in s => Max(s) = m
  <2>1. m \in s => Max(s) >= m
    BY <1>4
  <2>2. Max(s) <= m /\ Max(s) \in Nat
    BY <1>1, <1>4
  <2> QED
    BY <2>1, <2>2
<1> QED
  BY <1>4, <1>5

(* The fold of Trees: the lengths of the parts, added up from the left.    *)
LEMMA FoldOfLengths ==
    ASSUME NEW s, NEW k \in Nat, DOMAIN s = 1..k, \A i \in 1..k : Len(s[i]) \in Nat,
           NEW off, Offsets(off, k, [i \in 1..k |-> Len(s[i])])
    PROVE  FoldLeft(LAMBDA n, part : n + Len(part), 1, s) = off[k + 1]
<1> DEFINE Sum(g, m) ==
              /\ g \in [SUBSET (1..m) -> Nat]
              /\ \A t \in SUBSET (1..m) :
                     g[t] = IF t = {} THEN 1 ELSE g[t \ {Max(t)}] + Len(s[Max(t)])
           S == {m \in 0..k : \E g : Sum(g, m)}
<1>1. 0 \in S
  <2> DEFINE g == [t \in SUBSET (1..0) |-> 1]
  <2>1. \A t \in SUBSET (1..0) : t = {}
    OBVIOUS
  <2>2. Sum(g, 0)
    BY <2>1
  <2> HIDE DEF Sum
  <2> QED
    BY <2>2
<1>2. ASSUME NEW m \in 1..k, m - 1 \in S PROVE m \in S
  <2>1. PICK f : Sum(f, m - 1)
    BY <1>2
  <2> DEFINE g == [t \in SUBSET (1..m) |->
                      IF m \in t THEN f[t \ {m}] + Len(s[m]) ELSE f[t]]
  <2>2. \A t \in SUBSET (1..m) : /\ t \ {m} \in SUBSET (1..(m - 1))
                                 /\ m \notin t => t \in SUBSET (1..(m - 1)) /\ t \ {m} = t
    OBVIOUS
  <2>3. g \in [SUBSET (1..m) -> Nat]
    BY <2>1, <2>2
  <2>4. ASSUME NEW t \in SUBSET (1..m)
        PROVE  g[t] = IF t = {} THEN 1 ELSE g[t \ {Max(t)}] + Len(s[Max(t)])
    <3>1. CASE t = {}
      <4>1. t \in SUBSET (1..(m - 1)) /\ m \notin t
        BY <3>1
      <4> QED
        BY <2>1, <3>1, <4>1
    <3>2. CASE t # {} /\ m \in t
      <4>1. Max(t) = m
        <5>1. m \in Nat /\ t \subseteq 1..m
          OBVIOUS
        <5> QED
          BY <3>2, <5>1, GreatestIn
      <4>2. t \ {m} \in SUBSET (1..m) /\ m \notin t \ {m}
        OBVIOUS
      <4>3. g[t \ {m}] = f[t \ {m}]
        BY <4>2
      <4> QED
        BY <3>2, <4>1, <4>3
    <3>3. CASE t # {} /\ m \notin t
      <4>1. t \in SUBSET (1..(m - 1)) /\ m - 1 \in Nat
        BY <2>2, <3>3
      <4>2. Max(t) \in t
        BY <3>3, <4>1, GreatestIn
      <4>3. g[t] = f[t]
        BY <3>3
      <4>4. t \ {Max(t)} \in SUBSET (1..m) /\ m \notin t \ {Max(t)}
        BY <3>3
      <4>5. g[t \ {Max(t)}] = f[t \ {Max(t)}]
        BY <4>4
      <4> QED
        BY <2>1, <3>3, <4>1, <4>3, <4>5
    <3> QED
      BY <3>1, <3>2, <3>3
  <2>5. Sum(g, m)
    <3> HIDE DEF g
    <3> QED
      BY <2>3, <2>4
  <2> HIDE DEF Sum
  <2> QED
    BY <2>5
<1>3. k \in S
  <2>1. 0..k \subseteq S
    <3> HIDE DEF S
    <3> QED
      BY <1>1, <1>2, Upwards
  <2>2. k \in 0..k
    OBVIOUS
  <2> HIDE DEF S
  <2> QED
    BY <2>1, <2>2
<1> DEFINE iter == CHOOSE iter : iter =
              [t \in SUBSET (1..k) |->
                  IF t = {} THEN 1 ELSE iter[t \ {Max(t)}] + Len(s[Max(t)])]
<1>4. iter = [t \in SUBSET (1..k) |->
                  IF t = {} THEN 1 ELSE iter[t \ {Max(t)}] + Len(s[Max(t)])]
  <2>1. PICK g : Sum(g, k)
    BY <1>3
  <2>2. g = [t \in SUBSET (1..k) |->
                  IF t = {} THEN 1 ELSE g[t \ {Max(t)}] + Len(s[Max(t)])]
    BY <2>1
  <2> HIDE DEF Sum, S
  <2> QED
    BY <2>2
<1>5. FoldLeft(LAMBDA n, part : n + Len(part), 1, s) = iter[1..k]
  BY DEF FoldLeft, MapThenFoldSet
<1> HIDE DEF iter, S, Sum
<1> DEFINE U == {j \in 0..k : iter[1..j] = off[j + 1]}
<1>6. 0 \in U
  <2>1. 1..0 = {} /\ 1..0 \in SUBSET (1..k)
    OBVIOUS
  <2>2. iter[1..0] = 1
    BY <1>4, <2>1
  <2> QED
    BY <2>2 DEF Offsets
<1>7. ASSUME NEW j \in 1..k, j - 1 \in U PROVE j \in U
  <2>1. Max(1..j) = j
    BY GreatestUpTo
  <2>2. (1..j) \ {j} = 1..(j - 1) /\ 1..j \in SUBSET (1..k) /\ 1..j # {}
    <3>1. (1..j) \ {j} = 1..(j - 1)
      OBVIOUS
    <3>2. 1..j \subseteq 1..k
      OBVIOUS
    <3>3. j \in 1..j
      OBVIOUS
    <3> QED
      BY <3>1, <3>2, <3>3
  <2>3. iter[1..j] = iter[1..(j - 1)] + Len(s[j])
    BY <1>4, <2>1, <2>2
  <2>4. off[j + 1] = off[j] + Len(s[j])
    BY DEF Offsets
  <2>5. (j - 1) + 1 = j
    OBVIOUS
  <2> QED
    BY <1>7, <2>3, <2>4, <2>5
<1>8. 0..k \subseteq U
  <2> HIDE DEF U
  <2> QED
    BY <1>6, <1>7, Upwards
<1>9. k \in 0..k
  OBVIOUS
<1> QED
  BY <1>5, <1>8, <1>9

LEMMA OffsetsGrow ==
    ASSUME NEW k \in Nat, NEW len, \A i \in 1..k : len[i] \in Nat,
           NEW off, Offsets(off, k, len)
    PROVE  /\ \A i \in 1..(k + 1) : off[i] \in Nat /\ 1 <= off[i]
           /\ \A i, j \in 1..(k + 1) : i < j => off[i] + len[i] <= off[j]
           /\ \A n \in 2..off[k + 1] : \E i \in 1..k : n - off[i] \in 1..len[i]
<1>1. \A i \in 1..(k + 1) : off[i] \in Nat
  BY DEF Offsets
<1> DEFINE G == {j \in 0..k : \A i \in 1..j : off[i] + len[i] <= off[j + 1]}
           C == {j \in 0..k : /\ 1 <= off[j + 1]
                              /\ \A n \in 2..off[j + 1] :
                                     \E i \in 1..j : n - off[i] \in 1..len[i]}
<1>3. 0..k \subseteq G /\ 0..k \subseteq C
  <2>1. 0 \in G
    OBVIOUS
  <2>2. ASSUME NEW j \in 1..k, j - 1 \in G PROVE j \in G
    <3>1. off[j + 1] = off[j] + len[j] /\ off[j] \in Nat /\ len[j] \in Nat
      BY <1>1 DEF Offsets
    <3>2. ASSUME NEW i \in 1..j PROVE off[i] + len[i] <= off[j + 1]
      <4>1. CASE i = j
        BY <3>1, <4>1
      <4>2. CASE i # j
        <5>1. i \in 1..(j - 1) /\ (j - 1) + 1 = j
          BY <4>2
        <5>2. off[i] + len[i] <= off[j] /\ off[i] \in Nat /\ len[i] \in Nat
          BY <1>1, <2>2, <5>1
        <5> QED
          BY <3>1, <5>2
      <4> QED
        BY <4>1, <4>2
    <3> QED
      BY <3>2
  <2>3. 0 \in C
    <3>1. off[0 + 1] = 1
      BY DEF Offsets
    <3> QED
      BY <3>1
  <2>4. ASSUME NEW j \in 1..k, j - 1 \in C PROVE j \in C
    <3>1. off[j + 1] = off[j] + len[j] /\ off[j] \in Nat /\ len[j] \in Nat
      BY <1>1 DEF Offsets
    <3>2. 1 <= off[j] /\ \A n \in 2..off[j] : \E i \in 1..(j - 1) : n - off[i] \in 1..len[i]
      <4>1. (j - 1) + 1 = j
        OBVIOUS
      <4> QED
        BY <2>4, <4>1
    <3>3. ASSUME NEW n \in 2..off[j + 1] PROVE \E i \in 1..j : n - off[i] \in 1..len[i]
      <4>1. CASE n <= off[j]
        <5>1. PICK i \in 1..(j - 1) : n - off[i] \in 1..len[i]
          BY <3>1, <3>2, <4>1
        <5> QED
          BY <5>1
      <4>2. CASE ~(n <= off[j])
        <5>1. n - off[j] \in 1..len[j]
          BY <3>1, <4>2
        <5> QED
          BY <5>1
      <4> QED
        BY <4>1, <4>2
    <3> QED
      BY <3>1, <3>2, <3>3
  <2> HIDE DEF G, C
  <2> QED
    BY <2>1, <2>2, <2>3, <2>4, Upwards
<1>4. ASSUME NEW i \in 1..(k + 1), NEW j \in 1..(k + 1), i < j
      PROVE  off[i] + len[i] <= off[j]
  <2>1. j - 1 \in G /\ i \in 1..(j - 1) /\ (j - 1) + 1 = j
    <3>1. j - 1 \in 0..k /\ i \in 1..(j - 1) /\ (j - 1) + 1 = j
      BY <1>4
    <3> HIDE DEF G
    <3> QED
      BY <1>3, <3>1
  <2> QED
    BY <2>1
<1>5. ASSUME NEW i \in 1..(k + 1) PROVE 1 <= off[i]
  <2>1. i - 1 \in C /\ (i - 1) + 1 = i
    <3>1. i - 1 \in 0..k /\ (i - 1) + 1 = i
      OBVIOUS
    <3> HIDE DEF C
    <3> QED
      BY <1>3, <3>1
  <2> QED
    BY <2>1
<1>6. k \in C
  <2>1. k \in 0..k
    OBVIOUS
  <2> HIDE DEF C
  <2> QED
    BY <1>3, <2>1
<1> QED
  BY <1>1, <1>4, <1>5, <1>6

LEMMA NothingLeft ==
    ASSUME NEW T, NEW s \in Seq(T), Len(s) = 0
    PROVE  s = <<>>
OBVIOUS

LEMMA Concatenated ==
    ASSUME NEW S, NEW q \in Seq(S), NEW r \in Seq(S)
    PROVE  /\ q \o r \in Seq(S)
           /\ Len(q) \in Nat /\ Len(r) \in Nat /\ Len(q \o r) = Len(q) + Len(r)
           /\ \A x \in 1..Len(q) : (q \o r)[x] = q[x]
           /\ \A x \in 1..Len(r) : (q \o r)[Len(q) + x] = r[x]
OBVIOUS

(* The parts stand in f where their offsets say.                           *)
PutAt(f, off, ps) ==
    \A i \in 1..Len(ps) : \A m \in 1..Len(ps[i]) : f[off[i] - 1 + m] = ps[i][m]

IsFlat(f, S, off, k, ps) ==
    /\ f \in Seq(S)
    /\ Len(f) = off[k + 1] - 1
    /\ PutAt(f, off, ps)

LEMMA Flattened ==
    ASSUME NEW S, NEW ps \in Seq(Seq(S)), NEW k \in Nat, k = Len(ps),
           NEW len, len = [i \in 1..k |-> Len(ps[i])],
           NEW off, Offsets(off, k, len)
    PROVE  IsFlat(FlattenSeq(ps), S, off, k, ps)
<1>0. /\ \A i \in 1..k : ps[i] \in Seq(S) /\ Len(ps[i]) \in Nat
      /\ DOMAIN ps = 1..k
  OBVIOUS
<1>1. CASE k = 0
  <2>1. FlattenSeq(ps) = ps
    BY <1>1 DEF FlattenSeq
  <2>2. ps = <<>>
    BY <1>1, NothingLeft
  <2>3. off[k + 1] = 1
    BY <1>1 DEF Offsets
  <2>4. <<>> \in Seq(S) /\ Len(<<>>) = 0
    OBVIOUS
  <2> QED
    BY <1>1, <2>1, <2>2, <2>3, <2>4 DEF PutAt, IsFlat
<1>2. CASE k # 0
  <2> DEFINE Flat(g, m) == /\ g \in [1..m -> Seq(S)]
                           /\ \A i \in 1..m :
                                  g[i] = IF i = 1 THEN ps[i] ELSE g[i - 1] \o ps[i]
             E == {m \in 0..k : \E g : Flat(g, m)}
  <2>1. 0 \in E
    <3>1. Flat([i \in 1..0 |-> <<>>], 0)
      OBVIOUS
    <3> HIDE DEF Flat
    <3> QED
      BY <3>1
  <2>2. ASSUME NEW m \in 1..k, m - 1 \in E PROVE m \in E
    <3>1. PICK f : Flat(f, m - 1)
      BY <2>2
    <3> DEFINE g == [i \in 1..m |-> IF i = m THEN (IF m = 1 THEN ps[m] ELSE f[m - 1] \o ps[m])
                                    ELSE f[i]]
    <3>2. m # 1 => m - 1 \in 1..(m - 1)
      OBVIOUS
    <3>3. ps[m] \in Seq(S) /\ (m # 1 => f[m - 1] \in Seq(S))
      BY <1>0, <3>1, <3>2
    <3>4. g \in [1..m -> Seq(S)]
      <4>1. \A i \in 1..m : i # m => i \in 1..(m - 1)
        OBVIOUS
      <4>2. \A i \in 1..m : i # m => f[i] \in Seq(S)
        BY <3>1, <4>1
      <4> QED
        BY <3>3, <4>2
    <3>5. ASSUME NEW i \in 1..m
          PROVE  g[i] = IF i = 1 THEN ps[i] ELSE g[i - 1] \o ps[i]
      <4>1. i # 1 => g[i - 1] = f[i - 1]
        OBVIOUS
      <4>2. CASE i = m
        BY <4>1, <4>2
      <4>3. CASE i # m
        <5>1. i \in 1..(m - 1) /\ g[i] = f[i]
          BY <4>3
        <5> QED
          BY <3>1, <4>1, <5>1
      <4> QED
        BY <4>2, <4>3
    <3>6. Flat(g, m)
      <4> HIDE DEF g
      <4> QED
        BY <3>4, <3>5
    <3> HIDE DEF Flat
    <3> QED
      BY <3>6
  <2>3. k \in E
    <3>1. 0..k \subseteq E
      <4> HIDE DEF E
      <4> QED
        BY <2>1, <2>2, Upwards
    <3>2. k \in 0..k
      OBVIOUS
    <3> HIDE DEF E
    <3> QED
      BY <3>1, <3>2
  <2> DEFINE flatten == CHOOSE flatten : flatten =
                 [i \in 1..Len(ps) |-> IF i = 1 THEN ps[i] ELSE flatten[i - 1] \o ps[i]]
  <2>4. flatten = [i \in 1..k |-> IF i = 1 THEN ps[i] ELSE flatten[i - 1] \o ps[i]]
    <3>1. PICK g : Flat(g, k)
      BY <2>3
    <3>2. g = [i \in 1..k |-> IF i = 1 THEN ps[i] ELSE g[i - 1] \o ps[i]]
      BY <3>1
    <3> HIDE DEF Flat, E
    <3> QED
      BY <3>2
  <2>5. FlattenSeq(ps) = flatten[k]
    BY <1>2 DEF FlattenSeq
  <2> HIDE DEF flatten, Flat, E
  <2> DEFINE U == {j \in 1..k :
                      /\ flatten[j] \in Seq(S)
                      /\ Len(flatten[j]) = off[j + 1] - 1
                      /\ \A i \in 1..j : \A m \in 1..Len(ps[i]) :
                             flatten[j][off[i] - 1 + m] = ps[i][m]}
  <2>6. /\ \A i \in 1..(k + 1) : off[i] \in Nat /\ 1 <= off[i]
        /\ \A i, j \in 1..(k + 1) : i < j => off[i] + len[i] <= off[j]
    <3>1. \A i \in 1..k : len[i] \in Nat
      BY <1>0
    <3>2. Offsets(off, k, len)
      OBVIOUS
    <3> QED
      BY <3>1, <3>2, OffsetsGrow
  <2>7. ASSUME NEW j \in 1..k, \A l \in 1..(j - 1) : l \in U
        PROVE  j \in U
    <3>1. off[j + 1] = off[j] + Len(ps[j]) /\ off[1] = 1 /\ off[j] \in Nat /\ 1 <= off[j]
      BY <2>6 DEF Offsets
    <3>2. ps[j] \in Seq(S) /\ Len(ps[j]) \in Nat
      BY <1>0
    <3>3. CASE j = 1
      <4>1. flatten[j] = ps[j]
        BY <2>4, <3>3
      <4>2. \A m \in 1..Len(ps[1]) : off[1] - 1 + m = m
        BY <3>1, <3>2
      <4> QED
        BY <3>1, <3>2, <3>3, <4>1, <4>2
    <3>4. CASE j # 1
      <4>1. flatten[j] = flatten[j - 1] \o ps[j]
        BY <2>4, <3>4
      <4>2. j - 1 \in U /\ (j - 1) + 1 = j
        BY <2>7, <3>4
      <4> DEFINE q == flatten[j - 1]
      <4>3. q \in Seq(S) /\ Len(q) = off[j] - 1
        BY <4>2
      <4>4. \A i \in 1..(j - 1) : \A m \in 1..Len(ps[i]) : q[off[i] - 1 + m] = ps[i][m]
        BY <4>2
      <4> HIDE DEF q, U
      <4>5. /\ q \o ps[j] \in Seq(S)
            /\ Len(q \o ps[j]) = Len(q) + Len(ps[j])
            /\ \A x \in 1..Len(q) : (q \o ps[j])[x] = q[x]
            /\ \A x \in 1..Len(ps[j]) : (q \o ps[j])[Len(q) + x] = ps[j][x]
        <5>1. PICK r : r = ps[j]
          OBVIOUS
        <5>2. PICK p : p = q
          OBVIOUS
        <5>3. r \in Seq(S) /\ p \in Seq(S)
          BY <3>2, <4>3, <5>1, <5>2
        <5>4. /\ p \o r \in Seq(S)
              /\ Len(p \o r) = Len(p) + Len(r)
              /\ \A x \in 1..Len(p) : (p \o r)[x] = p[x]
              /\ \A x \in 1..Len(r) : (p \o r)[Len(p) + x] = r[x]
          BY <5>3, Concatenated
        <5> QED
          BY <5>1, <5>2, <5>4
      <4>6. ASSUME NEW i \in 1..j, NEW m \in 1..Len(ps[i])
            PROVE  (q \o ps[j])[off[i] - 1 + m] = ps[i][m]
        <5>1. CASE i = j
          BY <4>3, <4>5, <5>1
        <5>2. CASE i # j
          <6>1. i \in 1..(j - 1) /\ i \in 1..k /\ i < j
            BY <5>2
          <6>2. off[i] + Len(ps[i]) <= off[j] /\ off[i] \in Nat /\ 1 <= off[i]
            <7>1. i \in 1..(k + 1) /\ j \in 1..(k + 1)
              BY <6>1
            <7>2. len[i] = Len(ps[i])
              BY <6>1
            <7> QED
              BY <2>6, <6>1, <7>1, <7>2
          <6>3. off[i] - 1 + m \in 1..Len(q)
            <7>1. Len(ps[i]) \in Nat /\ Len(q) \in Nat
              BY <1>0, <4>5, <6>1
            <7>2. PICK l, o, d : l = Len(ps[i]) /\ o = off[i] /\ d = off[j]
              OBVIOUS
            <7>3. /\ l \in Nat /\ o \in Nat /\ d \in Nat /\ Len(q) = d - 1
                  /\ o + l <= d /\ 1 <= o
              BY <3>1, <4>3, <6>2, <7>1, <7>2
            <7>4. m \in 1..l
              BY <7>2
            <7>5. o - 1 + m \in 1..(d - 1)
              BY <7>3, <7>4
            <7> QED
              BY <7>2, <7>3, <7>5
          <6> QED
            BY <4>4, <4>5, <6>1, <6>3
        <5> QED
          BY <5>1, <5>2
      <4>7. flatten[j] = q \o ps[j]
        BY <4>1 DEF q
      <4> QED
        <5>1. Len(q \o ps[j]) = off[j + 1] - 1
          BY <3>1, <3>2, <4>3, <4>5
        <5>2. j \in 1..k
          OBVIOUS
        <5> DEFINE w == q \o ps[j]
        <5>3. w \in Seq(S) /\ Len(w) = off[j + 1] - 1 /\ flatten[j] = w
          BY <4>5, <4>7, <5>1
        <5>4. \A i \in 1..j : \A m \in 1..Len(ps[i]) : w[off[i] - 1 + m] = ps[i][m]
          BY <4>6
        <5> HIDE DEF w
        <5> QED
          BY <5>2, <5>3, <5>4 DEF U
    <3> QED
      BY <3>3, <3>4
  <2>8. 1..k \subseteq U
    <3> HIDE DEF U
    <3> QED
      BY <2>7, UpTo
  <2>9. k \in 1..k
    BY <1>2
  <2>10. k \in U
    <3> HIDE DEF U
    <3> QED
      BY <2>8, <2>9
  <2> QED
    BY <2>5, <2>10 DEF PutAt, IsFlat
<1> QED
  BY <1>1, <1>2

LEMMA SequenceOf ==
    ASSUME NEW n \in Nat, NEW S, NEW f, DOMAIN f = 1..n, f = [i \in 1..n |-> f[i]],
           \A i \in 1..n : f[i] \in S
    PROVE  f \in Seq(S) /\ Len(f) = n
<1>1. f \in [1..n -> S]
  OBVIOUS
<1> QED
  BY <1>1

LEMMA SameFlat ==
    ASSUME NEW ps
    PROVE  B!FlattenSeq(ps) = FlattenSeq(ps)
BY DEF B!FlattenSeq, FlattenSeq

LEMMA SameFold ==
    ASSUME NEW s
    PROVE  B!FoldLeft(LAMBDA n, part : n + Len(part), 1, s)
               = FoldLeft(LAMBDA n, part : n + Len(part), 1, s)
BY DEF B!FoldLeft, FoldLeft, B!MapThenFoldSet, MapThenFoldSet, B!Max, Max

Shifted(node, n) == [node EXCEPT !.kids = [k \in DOMAIN @ |-> @[k] + n]]

LEMMA MovedIs ==
    ASSUME NEW part \in Seq(Node), NEW n \in Nat
    PROVE  /\ B!Moved(part, n) \in Seq(Node) /\ Len(B!Moved(part, n)) = Len(part)
           /\ \A m \in 1..Len(part) :
                  /\ B!Moved(part, n)[m] = Shifted(part[m], n)
                  /\ part[m] \in Node
<1>1. DOMAIN part = 1..Len(part) /\ Len(part) \in Nat
  OBVIOUS
<1>2. ASSUME NEW m \in 1..Len(part)
      PROVE  /\ part[m] \in Node
             /\ [part[m] EXCEPT !.kids = [k \in DOMAIN @ |-> @[k] + n]] \in Node
  <2>1. part[m] \in Node
    BY <1>1
  <2>2. part[m].kids \in Seq(Nat)
    BY <2>1 DEF Node
  <2> DEFINE ks == [k \in DOMAIN part[m].kids |-> part[m].kids[k] + n]
  <2>3. ks \in Seq(Nat)
    <3>1. PICK l, q : l = Len(part[m].kids) /\ q = part[m].kids
      OBVIOUS
    <3>2. l \in Nat /\ DOMAIN q = 1..l /\ \A k \in 1..l : q[k] \in Nat
      BY <2>2, <3>1
    <3>3. DOMAIN ks = 1..l /\ ks = [k \in 1..l |-> ks[k]] /\ \A k \in 1..l : ks[k] \in Nat
      BY <3>1, <3>2
    <3> HIDE DEF ks
    <3> QED
      BY <3>2, <3>3, SequenceOf
  <2> HIDE DEF ks
  <2>4. [part[m] EXCEPT !.kids = ks] \in Node
    BY <2>1, <2>3 DEF Node
  <2> QED
    BY <2>1, <2>4 DEF ks
<1> DEFINE q == [i \in DOMAIN part |->
                    [part[i] EXCEPT !.kids = [k \in DOMAIN @ |-> @[k] + n]]]
<1>3. q \in Seq(Node) /\ Len(q) = Len(part)
  BY <1>1, <1>2
<1>4. B!Moved(part, n) = q
  BY DEF B!Moved
<1> QED
  BY <1>1, <1>2, <1>3, <1>4 DEF Shifted

(* What Tree makes: the root, and each part where its offset says.         *)
Root(kind, name, type, params, op, off, k) ==
    [kind |-> kind, name |-> name, type |-> type, params |-> params, op |-> op,
     kids |-> [i \in 1..k |-> off[i] + 1]]

LaidOut(t, off, ts) ==
    /\ Offsets(off, Len(ts), [i \in 1..Len(ts) |-> Len(ts[i])])
    /\ Len(t) = off[Len(ts) + 1]
    /\ \A i \in 1..Len(ts) : \A m \in 1..Len(ts[i]) :
           t[off[i] + m] = Shifted(ts[i][m], off[i])

LEMMA TreeLayout ==
    ASSUME NEW ts \in Seq(Seq(Node)),
           NEW kind \in Kinds, NEW name \in Names, NEW type \in Types,
           NEW params \in Seq([name : Names, type : Types]), NEW op \in Ops
    PROVE  \E off :
               /\ LaidOut(B!Tree(kind, name, type, params, op, ts), off, ts)
               /\ B!Tree(kind, name, type, params, op, ts) \in Seq(Node)
               /\ B!Tree(kind, name, type, params, op, ts)[1]
                      = Root(kind, name, type, params, op, off, Len(ts))
<1> DEFINE count == Len(ts)
           lens == [i \in 1..count |-> Len(ts[i])]
<1>1. /\ count \in Nat /\ DOMAIN ts = 1..count
      /\ \A i \in 1..count : ts[i] \in Seq(Node) /\ Len(ts[i]) \in Nat
  OBVIOUS
<1>2. PICK off : Offsets(off, count, lens)
  <2>1. \A i \in 1..count : lens[i] \in Nat
    BY <1>1
  <2> HIDE DEF lens, count
  <2> QED
    BY <1>1, <2>1, OffsetsExist
<1>3. \A i \in 1..count : FoldLeft(LAMBDA n, part : n + Len(part), 1, SubSeq(ts, 1, i - 1)) = off[i]
  <2> SUFFICES ASSUME NEW i \in 1..count
               PROVE  FoldLeft(LAMBDA n, part : n + Len(part), 1, SubSeq(ts, 1, i - 1)) = off[i]
    OBVIOUS
  <2> DEFINE s == SubSeq(ts, 1, i - 1)
  <2>1. /\ DOMAIN s = 1..(i - 1) /\ i - 1 \in Nat
        /\ \A j \in 1..(i - 1) : s[j] = ts[j]
    BY <1>1
  <2>2. \A j \in 1..(i - 1) : Len(s[j]) \in Nat
    BY <1>1, <2>1
  <2> DEFINE o == [j \in 1..((i - 1) + 1) |-> off[j]]
  <2>3. Offsets(o, i - 1, [j \in 1..(i - 1) |-> Len(s[j])])
    <3>1. (i - 1) + 1 = i
      OBVIOUS
    <3>2. /\ off \in [1..(count + 1) -> Nat] /\ off[1] = 1
          /\ \A j \in 1..count : off[j + 1] = off[j] + Len(ts[j])
      BY <1>2 DEF Offsets
    <3>3. o \in [1..((i - 1) + 1) -> Nat] /\ o[1] = 1
      <4>1. o = [j \in 1..i |-> off[j]] /\ 1 \in 1..i
        BY <3>1
      <4>2. \A j \in 1..i : off[j] \in Nat
        <5>1. \A j \in 1..i : j \in 1..(count + 1)
          BY <1>1
        <5> QED
          BY <3>2, <5>1
      <4> HIDE DEF o
      <4> QED
        BY <3>1, <3>2, <4>1, <4>2
    <3>4. ASSUME NEW j \in 1..(i - 1)
          PROVE  o[j + 1] = o[j] + Len(s[j])
      <4>1. j \in 1..count /\ o[j + 1] = off[j + 1] /\ o[j] = off[j]
        OBVIOUS
      <4> QED
        BY <2>1, <3>2, <4>1
    <3> HIDE DEF o, s
    <3> QED
      BY <3>3, <3>4 DEF Offsets
  <2>4. o[(i - 1) + 1] = off[i]
    OBVIOUS
  <2> HIDE DEF s, o
  <2>5. FoldLeft(LAMBDA n, part : n + Len(part), 1, s) = o[(i - 1) + 1]
    BY <2>1, <2>2, <2>3, FoldOfLengths
  <2> QED
    BY <2>4, <2>5 DEF s
<1> DEFINE moved == [i \in 1..count |-> B!Moved(ts[i], off[i])]
           root == Root(kind, name, type, params, op, off, count)
           t == B!Tree(kind, name, type, params, op, ts)
<1>4. t = <<root>> \o FlattenSeq(moved)
  <2> DEFINE before(i) == B!FoldLeft(LAMBDA n, part : n + Len(part), 1, SubSeq(ts, 1, i - 1))
  <2>1. t = <<[kind |-> kind, name |-> name, type |-> type, params |-> params, op |-> op,
               kids |-> [i \in DOMAIN ts |-> before(i) + 1]]>>
            \o B!FlattenSeq([i \in DOMAIN ts |-> B!Moved(ts[i], before(i))])
    BY DEF B!Tree
  <2>2. \A i \in DOMAIN ts : before(i) = off[i]
    <3>1. \A i : before(i) = FoldLeft(LAMBDA n, part : n + Len(part), 1, SubSeq(ts, 1, i - 1))
      BY SameFold
    <3> HIDE DEF before
    <3> QED
      BY <1>1, <1>3, <3>1
  <2> HIDE DEF before
  <2>3. [i \in DOMAIN ts |-> before(i) + 1] = [i \in 1..count |-> off[i] + 1]
    BY <1>1, <2>2
  <2>4. [i \in DOMAIN ts |-> B!Moved(ts[i], before(i))] = moved
    BY <1>1, <2>2
  <2> HIDE DEF t, moved
  <2> QED
    BY <2>1, <2>3, <2>4, SameFlat DEF Root
<1>5. /\ \A i \in 1..(count + 1) : off[i] \in Nat /\ 1 <= off[i]
      /\ \A i, j \in 1..(count + 1) : i < j => off[i] + lens[i] <= off[j]
  <2>1. \A i \in 1..count : lens[i] \in Nat
    BY <1>1
  <2> HIDE DEF lens, count
  <2> QED
    BY <1>1, <1>2, <2>1, OffsetsGrow
<1>6. /\ moved \in Seq(Seq(Node)) /\ Len(moved) = count
      /\ \A i \in 1..count :
             /\ Len(moved[i]) = Len(ts[i])
             /\ \A m \in 1..Len(ts[i]) :
                    moved[i][m] = Shifted(ts[i][m], off[i])
  <2>1. ASSUME NEW i \in 1..count
        PROVE  /\ moved[i] \in Seq(Node) /\ Len(moved[i]) = Len(ts[i])
               /\ \A m \in 1..Len(ts[i]) :
                      moved[i][m] = Shifted(ts[i][m], off[i])
    <3>1. PICK part, n : part = ts[i] /\ n = off[i]
      OBVIOUS
    <3>2. part \in Seq(Node) /\ n \in Nat /\ moved[i] = B!Moved(part, n)
      BY <1>1, <1>5, <3>1
    <3>3. /\ B!Moved(part, n) \in Seq(Node) /\ Len(B!Moved(part, n)) = Len(part)
          /\ \A m \in 1..Len(part) :
                 B!Moved(part, n)[m]
                     = Shifted(part[m], n)
      BY <3>2, MovedIs
    <3>4. ts[i] = part /\ off[i] = n
      BY <3>1
    <3> HIDE DEF moved
    <3>5. moved[i] \in Seq(Node) /\ Len(moved[i]) = Len(part)
      BY <3>2, <3>3
    <3>6. \A m \in 1..Len(part) :
             moved[i][m] = Shifted(part[m], n)
      BY <3>2, <3>3, Zenon
    <3> QED
      BY <3>4, <3>5, <3>6
  <2>2. moved \in Seq(Seq(Node)) /\ Len(moved) = count
    <3>1. \A i \in 1..count : B!Moved(ts[i], off[i]) \in Seq(Node)
      BY <2>1
    <3> QED
      BY <1>1, <3>1
  <2> QED
    BY <2>1, <2>2
<1>7. /\ FlattenSeq(moved) \in Seq(Node)
      /\ Len(FlattenSeq(moved)) = off[count + 1] - 1
      /\ PutAt(FlattenSeq(moved), off, moved)
  <2>1. lens = [i \in 1..count |-> Len(moved[i])]
    BY <1>6
  <2>2. count = Len(moved)
    BY <1>6
  <2>3. PICK q, l : q = moved /\ l = count
    OBVIOUS
  <2>4. q \in Seq(Seq(Node)) /\ l \in Nat /\ l = Len(q)
        /\ lens = [i \in 1..l |-> Len(q[i])] /\ Offsets(off, l, lens)
    <3> HIDE DEF moved, count, lens
    <3> QED
      BY <1>1, <1>2, <1>6, <2>1, <2>2, <2>3
  <2>5. /\ FlattenSeq(q) \in Seq(Node)
        /\ Len(FlattenSeq(q)) = off[l + 1] - 1
        /\ PutAt(FlattenSeq(q), off, q)
    <3>1. PICK N : N = Node
      OBVIOUS
    <3>2. q \in Seq(Seq(N))
      BY <2>4, <3>1
    <3>3. /\ FlattenSeq(q) \in Seq(N)
          /\ Len(FlattenSeq(q)) = off[l + 1] - 1
          /\ PutAt(FlattenSeq(q), off, q)
      <4>1. PICK L : L = lens
        OBVIOUS
      <4>2. l \in Nat /\ l = Len(q) /\ L = [i \in 1..l |-> Len(q[i])] /\ Offsets(off, l, L)
        BY <2>4, <4>1
      <4>3. IsFlat(FlattenSeq(q), N, off, l, q)
        BY <3>2, <4>2, Flattened
      <4> QED
        BY <4>3 DEF IsFlat
    <3> QED
      BY <3>1, <3>3
  <2> HIDE DEF moved, count, lens
  <2> QED
    BY <2>3, <2>5
<1>8. root \in Node
  <2>1. [i \in 1..count |-> off[i] + 1] \in Seq(Nat)
    <3> DEFINE f == [i \in 1..count |-> off[i] + 1]
    <3>1. DOMAIN f = 1..count /\ f = [i \in 1..count |-> f[i]]
      OBVIOUS
    <3>2. \A i \in 1..count : f[i] \in Nat
      <4>1. \A i \in 1..count : i \in 1..(count + 1)
        BY <1>1
      <4> HIDE DEF lens
      <4> QED
        BY <1>5, <4>1
    <3> HIDE DEF f, count
    <3>3. f \in Seq(Nat)
      BY <1>1, <3>1, <3>2, SequenceOf
    <3> QED
      BY <3>3 DEF f
  <2> QED
    BY <2>1 DEF Root, Node
<1>9. /\ t \in Seq(Node) /\ Len(t) = off[count + 1] /\ t[1] = root
      /\ \A x \in 1..(off[count + 1] - 1) : t[1 + x] = FlattenSeq(moved)[x]
  <2>1. PICK f : f = FlattenSeq(moved)
    OBVIOUS
  <2>2. PICK r : r = root
    OBVIOUS
  <2>3. off[count + 1] \in Nat /\ 1 <= off[count + 1]
    BY <1>1, <1>5
  <2>4. /\ t = <<r>> \o f /\ r \in Node /\ f \in Seq(Node) /\ Len(f) = off[count + 1] - 1
    BY <1>4, <1>7, <1>8, <2>1, <2>2
  <2> HIDE DEF root, moved, t, count, lens
  <2>5. <<r>> \in Seq(Node) /\ Len(<<r>>) = 1 /\ <<r>>[1] = r
    BY <2>4
  <2>6. PICK s : s = <<r>>
    OBVIOUS
  <2>7. /\ s \o f \in Seq(Node) /\ Len(s \o f) = 1 + Len(f)
        /\ (s \o f)[1] = r
        /\ \A x \in 1..Len(f) : (s \o f)[1 + x] = f[x]
    <3>1. s \in Seq(Node) /\ Len(s) = 1 /\ s[1] = r
      BY <2>5, <2>6
    <3>2. 1 \in 1..Len(s)
      BY <3>1
    <3>0. PICK N : N = Node
      OBVIOUS
    <3>4. s \in Seq(N) /\ f \in Seq(N)
      BY <2>4, <3>0, <3>1
    <3>3. /\ s \o f \in Seq(N)
          /\ Len(s) \in Nat /\ Len(f) \in Nat /\ Len(s \o f) = Len(s) + Len(f)
          /\ \A x \in 1..Len(s) : (s \o f)[x] = s[x]
          /\ \A x \in 1..Len(f) : (s \o f)[Len(s) + x] = f[x]
      BY <3>4, Concatenated
    <3> QED
      BY <3>0, <3>1, <3>2, <3>3
  <2>8. Len(t) = off[count + 1]
    BY <2>3, <2>4, <2>6, <2>7
  <2> QED
    BY <2>1, <2>2, <2>4, <2>6, <2>7, <2>8
<1>10. ASSUME NEW i \in 1..count, NEW m \in 1..Len(ts[i])
       PROVE  t[off[i] + m]
                  = Shifted(ts[i][m], off[i])
  <2>1. PICK x : x = off[i] - 1 + m
    OBVIOUS
  <2>2. i \in 1..(count + 1) /\ count + 1 \in 1..(count + 1) /\ i < count + 1
    BY <1>1
  <2>3. off[i] \in Nat /\ 1 <= off[i] /\ off[i] + Len(ts[i]) <= off[count + 1] /\ off[count + 1] \in Nat
    <3>1. lens[i] = Len(ts[i])
      OBVIOUS
    <3> HIDE DEF lens, count
    <3> QED
      BY <1>5, <2>2, <3>1
  <2>4. Len(ts[i]) \in Nat
    BY <1>1
  <2>5. PICK o, l, d : o = off[i] /\ l = Len(ts[i]) /\ d = off[count + 1]
    OBVIOUS
  <2>6. /\ o \in Nat /\ 1 <= o /\ o + l <= d /\ d \in Nat /\ l \in Nat /\ m \in 1..l
        /\ x = o - 1 + m
    BY <2>1, <2>3, <2>4, <2>5
  <2>7. x \in 1..(d - 1) /\ 1 + x = o + m
    BY <2>6
  <2>8. t[1 + x] = FlattenSeq(moved)[x]
    <3> HIDE DEF t, moved, count
    <3> QED
      BY <1>9, <2>5, <2>7
  <2>9. FlattenSeq(moved)[x] = moved[i][m] /\ moved[i][m] = Shifted(ts[i][m], off[i])
    <3> HIDE DEF moved, count
    <3> QED
      BY <1>6, <1>7, <2>1 DEF PutAt
  <2> HIDE DEF t, moved
  <2> QED
    BY <2>5, <2>7, <2>8, <2>9
<1> HIDE DEF t, root
<1> QED
  BY <1>2, <1>9, <1>10 DEF LaidOut, t, root

(* A tree whose root may be of any kind.                                   *)
IsTree(t) ==
    /\ t \in Seq(Node)
    /\ t # <<>>
    /\ \A n \in DOMAIN t : WellFormed(t, n)
    /\ InOrder(t)

(* What WellFormed asks of the kinds of the children.                      *)
Suits(kind, type, kinds) ==
    /\ CASE kind \in {"Program", "Block"} ->
                \A i \in DOMAIN kinds : kinds[i] \in StmtKinds
         [] kind = "Call" -> \A i \in DOMAIN kinds : kinds[i] = "Arg"
         [] OTHER ->
                \E allowed \in ChildKinds(kind) :
                    /\ Len(kinds) = Len(allowed)
                    /\ \A i \in DOMAIN kinds : kinds[i] \in allowed[i]
    /\ kind = "Literal" => type \in LiteralTypes

LEMMA SuitsIs ==
    ASSUME NEW p, NEW n
    PROVE  WellFormed(p, n) <=>
               /\ \A i \in DOMAIN p[n].kids : p[n].kids[i] \in (n + 1)..Len(p)
               /\ Suits(p[n].kind, p[n].type,
                        [i \in DOMAIN p[n].kids |-> p[p[n].kids[i]].kind])
BY DEF WellFormed, Suits

LEMMA RootIs ==
    ASSUME NEW k, NEW nm, NEW ty, NEW ps, NEW o, NEW off, NEW c \in Nat
    PROVE  /\ Root(k, nm, ty, ps, o, off, c).kind = k
           /\ Root(k, nm, ty, ps, o, off, c).type = ty
           /\ DOMAIN Root(k, nm, ty, ps, o, off, c).kids = 1..c
           /\ \A a \in 1..c : Root(k, nm, ty, ps, o, off, c).kids[a] = off[a] + 1
BY DEF Root

Item(t, kinds) == IsTree(t) /\ t[1].kind \in kinds

(* The kinds of the roots.                                                 *)
KindsOf(ts) == [i \in 1..Len(ts) |-> ts[i][1].kind]

LEMMA ChildWithin ==
    ASSUME NEW o \in Nat, NEW l \in Nat, NEW t \in Nat, o + l <= t, NEW m \in 1..l,
           NEW k \in (m + 1)..l, NEW n, n = o + m
    PROVE  k + o \in (n + 1)..t
OBVIOUS

LEMMA ChildApart ==
    ASSUME NEW o \in Nat, NEW p \in Nat, NEW lo \in Nat, NEW lp \in Nat,
           1 <= lo, NEW x \in 1..lp, NEW z \in (x + 1)..lp, NEW k, NEW l,
           (o = p /\ lo = lp) \/ o + lo <= p \/ p + lp <= o,
           k = z + p, l = o + 1
    PROVE  k # l
OBVIOUS

LEMMA PutTogether ==
    ASSUME NEW ts, ts \in Seq(Seq(Node)), \A i \in 1..Len(ts) : IsTree(ts[i]),
           NEW kind, kind \in Kinds, NEW name, name \in Names, NEW type, type \in Types,
           NEW params, params \in Seq([name : Names, type : Types]), NEW op, op \in Ops,
           Suits(kind, type, KindsOf(ts))
    PROVE  Item(B!Tree(kind, name, type, params, op, ts), {kind})
<1>0. Suits(kind, type, [i \in 1..Len(ts) |-> ts[i][1].kind])
  BY DEF KindsOf
<1> PICK off :
       /\ LaidOut(B!Tree(kind, name, type, params, op, ts), off, ts)
       /\ B!Tree(kind, name, type, params, op, ts) \in Seq(Node)
       /\ B!Tree(kind, name, type, params, op, ts)[1]
              = Root(kind, name, type, params, op, off, Len(ts))
  BY TreeLayout
<1> PICK r : r = B!Tree(kind, name, type, params, op, ts)
  OBVIOUS
<1>1. /\ LaidOut(r, off, ts)
      /\ r \in Seq(Node)
      /\ r[1] = Root(kind, name, type, params, op, off, Len(ts))
  OBVIOUS
<1> PICK c, len : c = Len(ts) /\ len = [i \in 1..c |-> Len(ts[i])]
  OBVIOUS
<1>2. /\ c \in Nat /\ DOMAIN ts = 1..c
      /\ \A i \in 1..c : /\ ts[i] \in Seq(Node) /\ len[i] = Len(ts[i]) /\ len[i] \in Nat
                         /\ DOMAIN ts[i] = 1..len[i] /\ 1 <= len[i]
  BY DEF IsTree
<1>3. /\ Offsets(off, c, len) /\ Len(r) = off[c + 1]
      /\ \A i \in 1..c : \A m \in 1..len[i] : r[off[i] + m] = Shifted(ts[i][m], off[i])
  BY <1>1, <1>2 DEF LaidOut
<1>4. /\ \A i \in 1..(c + 1) : off[i] \in Nat /\ 1 <= off[i]
      /\ \A i, j \in 1..(c + 1) : i < j => off[i] + len[i] <= off[j]
      /\ \A n \in 2..off[c + 1] : \E i \in 1..c : n - off[i] \in 1..len[i]
  BY <1>2, <1>3, OffsetsGrow
<1>5. /\ Len(r) \in Nat /\ DOMAIN r = 1..Len(r) /\ 1 <= Len(r)
      /\ \A i \in 1..c : off[i] \in Nat /\ 1 <= off[i] /\ off[i] + len[i] <= Len(r)
  <2>1. c + 1 \in 1..(c + 1) /\ \A i \in 1..c : i \in 1..(c + 1) /\ i < c + 1
    BY <1>2
  <2>2. PICK e : e = off[c + 1]
    OBVIOUS
  <2>3. e \in Nat /\ 1 <= e /\ Len(r) = e
    BY <1>3, <1>4, <2>1, <2>2
  <2>4. DOMAIN r = 1..Len(r)
    BY <1>1
  <2>5. \A i \in 1..c : off[i] \in Nat /\ 1 <= off[i] /\ off[i] + len[i] <= e
    BY <1>4, <2>1, <2>2
  <2> QED
    BY <2>3, <2>4, <2>5
<1>6. \A i, j \in 1..c : \/ i = j
                         \/ i < j /\ off[i] + len[i] <= off[j]
                         \/ j < i /\ off[j] + len[j] <= off[i]
  <2> TAKE i, j \in 1..c
  <2>1. i \in 1..(c + 1) /\ j \in 1..(c + 1)
    BY <1>2
  <2>2. i = j \/ i < j \/ j < i
    BY <1>2
  <2> QED
    BY <1>4, <2>1, <2>2
<1>7. ASSUME NEW n \in DOMAIN r
      PROVE  n = 1 \/ \E i \in 1..c : \E m \in 1..len[i] : n = off[i] + m
  <2>1. CASE n # 1
    <3>1. n \in 2..off[c + 1] /\ n \in Nat
      BY <1>3, <1>5, <2>1
    <3>2. PICK i \in 1..c : n - off[i] \in 1..len[i]
      BY <1>4, <3>1
    <3>3. PICK m : m = n - off[i]
      OBVIOUS
    <3>4. n = off[i] + m
      BY <1>5, <3>1, <3>3
    <3> QED
      BY <3>2, <3>3, <3>4
  <2> QED
    BY <2>1
<1>8. /\ DOMAIN r[1].kids = 1..c /\ r[1].kind = kind /\ r[1].type = type
      /\ \A a \in 1..c : r[1].kids[a] = off[a] + 1
  <2>1. r[1] = Root(kind, name, type, params, op, off, c)
    BY <1>1
  <2> QED
    BY <1>2, <2>1, RootIs
<1>9. ASSUME NEW i \in 1..c, NEW m \in 1..len[i]
      PROVE  /\ r[off[i] + m].kind = ts[i][m].kind /\ r[off[i] + m].type = ts[i][m].type
             /\ DOMAIN r[off[i] + m].kids = DOMAIN ts[i][m].kids
             /\ \A a \in DOMAIN ts[i][m].kids :
                    /\ r[off[i] + m].kids[a] = ts[i][m].kids[a] + off[i]
                    /\ ts[i][m].kids[a] \in (m + 1)..len[i]
             /\ WellFormed(ts[i], m)
  <2>1. r[off[i] + m] = Shifted(ts[i][m], off[i]) /\ m \in DOMAIN ts[i]
    BY <1>2, <1>3
  <2>2. ts[i][m] \in Node /\ WellFormed(ts[i], m) /\ Len(ts[i]) = len[i]
    BY <1>2, <2>1 DEF IsTree
  <2>3. \A a \in DOMAIN ts[i][m].kids : ts[i][m].kids[a] \in (m + 1)..len[i]
    BY <2>2, SuitsIs
  <2>4. PICK x, o : x = ts[i][m] /\ o = off[i]
    OBVIOUS
  <2>5. /\ Shifted(x, o).kind = x.kind /\ Shifted(x, o).type = x.type
        /\ Shifted(x, o).kids = [a \in DOMAIN x.kids |-> x.kids[a] + o]
    BY <2>2, <2>4 DEF Shifted, Node
  <2> QED
    BY <2>1, <2>2, <2>3, <2>4, <2>5
<1>10. ASSUME NEW n \in DOMAIN r PROVE WellFormed(r, n)
  <2>1. CASE n = 1
    <3>1. \A a \in 1..c : r[1].kids[a] \in (1 + 1)..Len(r)
      <4> TAKE a \in 1..c
      <4>1. PICK o, l, t : o = off[a] /\ l = len[a] /\ t = Len(r)
        OBVIOUS
      <4>2. o \in Nat /\ l \in Nat /\ t \in Nat /\ 1 <= o /\ 1 <= l /\ o + l <= t
        BY <1>2, <1>5, <4>1
      <4>3. o + 1 \in (1 + 1)..t
        BY <4>2
      <4> QED
        BY <1>8, <4>1, <4>3
    <3>2. [i \in DOMAIN r[1].kids |-> r[r[1].kids[i]].kind] = [i \in 1..c |-> ts[i][1].kind]
      <4>1. \A i \in 1..c : 1 \in 1..len[i]
        BY <1>2
      <4>2. \A i \in 1..c : r[r[1].kids[i]].kind = ts[i][1].kind
        <5> TAKE i \in 1..c
        <5>1. r[1].kids[i] = off[i] + 1 /\ 1 \in 1..len[i]
          BY <1>8, <4>1
        <5>2. r[off[i] + 1].kind = ts[i][1].kind
          BY <1>9, <4>1
        <5> QED
          BY <5>1, <5>2
      <4> QED
        BY <1>8, <4>2
    <3> QED
      BY <1>0, <1>2, <1>8, <2>1, <3>1, <3>2, SuitsIs
  <2>2. CASE n # 1
    <3>1. PICK i \in 1..c : \E m \in 1..len[i] : n = off[i] + m
      BY <1>7, <2>2
    <3>2. PICK m \in 1..len[i] : n = off[i] + m
      BY <3>1
    <3>3. \A a \in DOMAIN r[n].kids : r[n].kids[a] \in (n + 1)..Len(r)
      <4> TAKE a \in DOMAIN r[n].kids
      <4>1. PICK o, l, t, k : o = off[i] /\ l = len[i] /\ t = Len(r) /\ k = ts[i][m].kids[a]
        OBVIOUS
      <4>2. r[n].kids[a] = k + o /\ k \in (m + 1)..l
        BY <1>9, <3>2, <4>1
      <4>3. o \in Nat /\ l \in Nat /\ t \in Nat /\ o + l <= t /\ m \in 1..l /\ n = o + m
        BY <1>2, <1>5, <3>2, <4>1
      <4>4. k + o \in (n + 1)..t
        BY <4>2, <4>3, ChildWithin
      <4> QED
        BY <4>1, <4>2, <4>4
    <3>4. \A a \in DOMAIN ts[i][m].kids : r[r[n].kids[a]].kind = ts[i][ts[i][m].kids[a]].kind
      <4> TAKE a \in DOMAIN ts[i][m].kids
      <4>1. PICK k : k = ts[i][m].kids[a]
        OBVIOUS
      <4>2. r[n].kids[a] = k + off[i] /\ k \in (m + 1)..len[i]
        BY <1>9, <3>2, <4>1
      <4>3. k \in 1..len[i] /\ k + off[i] = off[i] + k
        BY <1>2, <1>5, <3>2, <4>2
      <4>4. r[off[i] + k].kind = ts[i][k].kind
        BY <1>9, <4>3
      <4> QED
        BY <4>1, <4>2, <4>3, <4>4
    <3>5. [a \in DOMAIN r[n].kids |-> r[r[n].kids[a]].kind]
              = [a \in DOMAIN ts[i][m].kids |-> ts[i][ts[i][m].kids[a]].kind]
      BY <1>9, <3>2, <3>4
    <3>6. Suits(r[n].kind, r[n].type, [a \in DOMAIN r[n].kids |-> r[r[n].kids[a]].kind])
      <4>1. Suits(ts[i][m].kind, ts[i][m].type,
                  [a \in DOMAIN ts[i][m].kids |-> ts[i][ts[i][m].kids[a]].kind])
        BY <1>9, SuitsIs
      <4> QED
        BY <1>9, <3>2, <3>5, <4>1
    <3> QED
      BY <3>3, <3>6, SuitsIs
  <2> QED
    BY <2>1, <2>2
<1>11. \A n \in 2..Len(r) : \E m \in DOMAIN r : \E i \in DOMAIN r[m].kids : r[m].kids[i] = n
  <2> TAKE n \in 2..Len(r)
  <2>1. PICK i \in 1..c : \E m \in 1..len[i] : n = off[i] + m
    BY <1>5, <1>7
  <2>2. PICK m \in 1..len[i] : n = off[i] + m
    BY <2>1
  <2>3. CASE m = 1
    <3>1. i \in DOMAIN r[1].kids /\ r[1].kids[i] = n
      BY <1>8, <2>2, <2>3
    <3>2. 1 \in DOMAIN r
      BY <1>5
    <3> QED
      BY <3>1, <3>2
  <2>4. CASE m # 1
    <3>1. m \in 2..Len(ts[i]) /\ InOrder(ts[i])
      BY <1>2, <2>4 DEF IsTree
    <3>2. PICK p \in DOMAIN ts[i] : \E a \in DOMAIN ts[i][p].kids : ts[i][p].kids[a] = m
      BY <3>1 DEF InOrder
    <3>3. PICK a \in DOMAIN ts[i][p].kids : ts[i][p].kids[a] = m
      BY <3>2
    <3>4. p \in 1..len[i]
      BY <1>2
    <3>5. off[i] + p \in DOMAIN r
      <4>1. PICK o, l, t : o = off[i] /\ l = len[i] /\ t = Len(r)
        OBVIOUS
      <4>2. o \in Nat /\ l \in Nat /\ t \in Nat /\ o + l <= t /\ p \in 1..l
        BY <1>2, <1>5, <3>4, <4>1
      <4>3. o + p \in 1..t
        BY <4>2
      <4> QED
        BY <1>5, <4>1, <4>3
    <3>6. a \in DOMAIN r[off[i] + p].kids /\ r[off[i] + p].kids[a] = m + off[i]
      BY <1>9, <3>3, <3>4
    <3>7. m + off[i] = n
      BY <1>2, <1>5, <2>2
    <3> QED
      BY <3>5, <3>6, <3>7
  <2> QED
    BY <2>3, <2>4
<1>12. ASSUME NEW m \in DOMAIN r, NEW n \in DOMAIN r,
              NEW i \in DOMAIN r[m].kids, NEW j \in DOMAIN r[n].kids
       PROVE  /\ r[m].kids[i] = r[n].kids[j] => m = n
              /\ m = n /\ i < j => r[m].kids[i] < r[n].kids[j]
              /\ m < n /\ n < r[m].kids[i] => r[n].kids[j] < r[m].kids[i]
  <2>1. PICK k, l : k = r[m].kids[i] /\ l = r[n].kids[j]
    OBVIOUS
  <2>2. CASE m = 1 /\ n = 1
    <3>1. i \in 1..c /\ j \in 1..c /\ k = off[i] + 1 /\ l = off[j] + 1
      BY <1>8, <2>1, <2>2
    <3>2. i < j => off[i] < off[j]
      <4>1. len[i] \in Nat /\ 1 <= len[i] /\ off[i] \in Nat /\ off[j] \in Nat
        BY <1>2, <1>5, <3>1
      <4>2. i < j => off[i] + len[i] <= off[j]
        BY <1>2, <1>6, <3>1
      <4> QED
        BY <4>1, <4>2
    <3>3. PICK p, q : p = off[i] /\ q = off[j]
      OBVIOUS
    <3>4. p \in Nat /\ q \in Nat /\ k = p + 1 /\ l = q + 1 /\ (i < j => p < q)
      BY <1>5, <3>1, <3>2, <3>3
    <3>5. (i < j => k < l)
      BY <3>4
    <3> QED
      BY <2>1, <2>2, <3>5
  <2>3. CASE m = 1 /\ n # 1
    <3>1. PICK b \in 1..c : \E y \in 1..len[b] : n = off[b] + y
      BY <1>7, <2>3
    <3>2. PICK y \in 1..len[b] : n = off[b] + y
      BY <3>1
    <3>3. PICK z : z = ts[b][y].kids[j]
      OBVIOUS
    <3>4. l = z + off[b] /\ z \in (y + 1)..len[b]
      BY <1>9, <2>1, <3>2, <3>3
    <3>5. i \in 1..c /\ k = off[i] + 1
      BY <1>8, <2>1, <2>3
    <3>6. PICK oi, ob, li, lb : oi = off[i] /\ ob = off[b] /\ li = len[i] /\ lb = len[b]
      OBVIOUS
    <3>7. oi \in Nat /\ ob \in Nat /\ li \in Nat /\ lb \in Nat /\ 1 <= li /\ 1 <= oi /\ 1 <= ob
      BY <1>2, <1>5, <3>5, <3>6
    <3>8. (i = b /\ oi = ob /\ li = lb) \/ oi + li <= ob \/ ob + lb <= oi
      BY <1>6, <3>5, <3>6
    <3>9. /\ y \in 1..lb /\ z \in (y + 1)..lb /\ n = ob + y /\ l = z + ob /\ k = oi + 1
      BY <3>2, <3>4, <3>5, <3>6
    <3>10. k # l /\ (n < k => l < k)
      BY <3>7, <3>8, <3>9
    <3> QED
      BY <2>1, <2>3, <3>10
  <2>4. CASE m # 1 /\ n = 1
    <3>1. PICK a \in 1..c : \E x \in 1..len[a] : m = off[a] + x
      BY <1>7, <2>4
    <3>2. PICK x \in 1..len[a] : m = off[a] + x
      BY <3>1
    <3>3. PICK z : z = ts[a][x].kids[i]
      OBVIOUS
    <3>4. k = z + off[a] /\ z \in (x + 1)..len[a]
      BY <1>9, <2>1, <3>2, <3>3
    <3>5. j \in 1..c /\ l = off[j] + 1
      BY <1>8, <2>1, <2>4
    <3>6. PICK oj, oa, lj, la : oj = off[j] /\ oa = off[a] /\ lj = len[j] /\ la = len[a]
      OBVIOUS
    <3>7. oj \in Nat /\ oa \in Nat /\ lj \in Nat /\ la \in Nat /\ 1 <= lj /\ 1 <= oj /\ 1 <= oa
      BY <1>2, <1>5, <3>5, <3>6
    <3>8. (j = a /\ oj = oa /\ lj = la) \/ oj + lj <= oa \/ oa + la <= oj
      BY <1>6, <3>5, <3>6
    <3>9. x \in 1..la /\ z \in (x + 1)..la /\ k = z + oa /\ l = oj + 1 /\ m = oa + x
      BY <3>2, <3>4, <3>5, <3>6
    <3>10. k # l
      BY <3>7, <3>8, <3>9, ChildApart
    <3>11. ~(m < n)
      <4>1. n = 1 /\ m \in Nat /\ 1 <= m
        BY <2>4, <3>7, <3>9
      <4> QED
        BY <4>1
    <3> QED
      BY <2>1, <2>4, <3>10, <3>11
  <2>5. CASE m # 1 /\ n # 1
    <3>1. PICK a \in 1..c : \E x \in 1..len[a] : m = off[a] + x
      BY <1>7, <2>5
    <3>2. PICK x \in 1..len[a] : m = off[a] + x
      BY <3>1
    <3>3. PICK b \in 1..c : \E y \in 1..len[b] : n = off[b] + y
      BY <1>7, <2>5
    <3>4. PICK y \in 1..len[b] : n = off[b] + y
      BY <3>3
    <3>5. PICK u, v : u = ts[a][x].kids[i] /\ v = ts[b][y].kids[j]
      OBVIOUS
    <3>6. k = u + off[a] /\ u \in (x + 1)..len[a] /\ l = v + off[b] /\ v \in (y + 1)..len[b]
      <4>1. k = u + off[a] /\ u \in (x + 1)..len[a]
        <5>1. i \in DOMAIN ts[a][x].kids
          BY <1>9, <3>2
        <5>2. r[off[a] + x].kids[i] = u + off[a] /\ u \in (x + 1)..len[a]
          BY <1>9, <3>5, <5>1
        <5> QED
          BY <2>1, <3>2, <5>2
      <4>2. l = v + off[b] /\ v \in (y + 1)..len[b]
        <5>1. j \in DOMAIN ts[b][y].kids
          BY <1>9, <3>4
        <5>2. r[off[b] + y].kids[j] = v + off[b] /\ v \in (y + 1)..len[b]
          BY <1>9, <3>5, <5>1
        <5> QED
          BY <2>1, <3>4, <5>2
      <4> QED
        BY <4>1, <4>2
    <3>7. PICK oa, ob, la, lb : oa = off[a] /\ ob = off[b] /\ la = len[a] /\ lb = len[b]
      OBVIOUS
    <3>8. oa \in Nat /\ ob \in Nat /\ la \in Nat /\ lb \in Nat
      BY <1>2, <1>5, <3>7
    <3>9. /\ x \in 1..la /\ u \in (x + 1)..la /\ m = oa + x /\ k = u + oa
          /\ y \in 1..lb /\ v \in (y + 1)..lb /\ n = ob + y /\ l = v + ob
      BY <3>2, <3>4, <3>6, <3>7
    <3>10. CASE a # b
      <4>1. oa + la <= ob \/ ob + lb <= oa
        BY <1>6, <3>7, <3>10
      <4>2. k # l /\ m # n /\ ~(m < n /\ n < k)
        BY <3>8, <3>9, <4>1
      <4> QED
        BY <2>1, <4>2
    <3>11. CASE a = b
      <4>1. InOrder(ts[a]) /\ x \in DOMAIN ts[a] /\ y \in DOMAIN ts[a]
        BY <1>2, <3>11 DEF IsTree
      <4>2. i \in DOMAIN ts[a][x].kids /\ j \in DOMAIN ts[a][y].kids
        BY <1>9, <3>2, <3>4, <3>11
      <4>3. /\ u = v => x = y
            /\ x = y /\ i < j => u < v
            /\ x < y /\ y < u => v < u
        BY <3>5, <3>11, <4>1, <4>2 DEF InOrder
      <4>4. oa = ob /\ la = lb
        BY <3>7, <3>11
      <4>5. (k = l <=> u = v) /\ (m = n <=> x = y) /\ (m < n <=> x < y) /\ (n < k <=> y < u)
            /\ (k < l <=> u < v) /\ (l < k <=> v < u)
        BY <3>8, <3>9, <4>4
      <4> QED
        BY <2>1, <4>3, <4>5
    <3> QED
      BY <3>10, <3>11
  <2> QED
    BY <2>2, <2>3, <2>4, <2>5
<1>13. InOrder(r)
  BY <1>11, <1>12 DEF InOrder
<1>14. r # <<>>
  BY <1>5
<1> QED
  BY <1>1, <1>8, <1>10, <1>13, <1>14 DEF IsTree, Item

-----------------------------------------------------------------------------
(* What each function of the parser has made when it waits or runs, and   *)
(* what it returns (parser.cc): the stack of calls against the parts of   *)
(* trees that no node has taken yet.                                      *)

(* The functions of the parser by the kind of tree they return.            *)
ExprPlaces ==
    {"VarDecl", "EndVarDecl", "Binary", "Operators", "EndBinary", "Unary", "EndUnary",
     "Expr", "EndGroup", "MethodCall", "Arguments"}

Gives(place) ==
    CASE place \in {"Program", "InProgram"} -> {"Program"}
      [] place \in {"Block", "InBlock"} -> {"Block"}
      [] place = "EndArgument" -> {"Arg"}
      [] place = "Params" -> {"Param"}
      [] place \in ExprPlaces -> ExprKinds
      [] OTHER -> StmtKinds

(* ... and by what the calls they make return.                             *)
Awaits(place) ==
    CASE place \in {"InProgram", "StmtEnd", "Members", "InBlock", "Else", "EndElse",
                    "EndWhile"} -> StmtKinds
      [] place \in {"EndConstructor", "EndMethod"} -> {"Block"}
      [] place = "Block" -> {"Param"}
      [] place = "Arguments" -> {"Arg"}
      [] place \in {"Statement", "DeclEnd", "EndReturn", "EndExprStmt", "EndVarDecl",
                    "Operators", "EndBinary", "EndUnary", "EndGroup", "EndArgument"} ->
             ExprKinds
      [] OTHER -> {}

IsParam(t) == \E p \in [name : Names, type : Types] : t = <<p>>

(* What has been made since a list was opened.                             *)
ListOf(s, kinds) ==
    /\ Len(s) >= 1 /\ s[1] = <<>>
    /\ \A i \in 2..Len(s) : Item(s[i], kinds)

ParamList(s) ==
    /\ Len(s) >= 1 /\ s[1] = <<>>
    /\ \A i \in 2..Len(s) : IsParam(s[i])

One(s, k) == Len(s) = 1 /\ Item(s[1], k)
Two(s, k, l) == Len(s) = 2 /\ Item(s[1], k) /\ Item(s[2], l)
Three(s, k, l, m) == Len(s) = 3 /\ Item(s[1], k) /\ Item(s[2], l) /\ Item(s[3], m)

(* What a function has made while it waits for the one above it.  One that *)
(* has not been entered yet but already has its place on the stack waits   *)
(* for what the function under it needs first, and keeps that for it.      *)
Holds(place, above, under, s) ==
    /\ Gives(above) \subseteq Awaits(place)
    /\ place = "Statement" => under \in {"Else", "EndWhile"}
    /\ place = "Block" => under \in {"EndMethod", "EndConstructor"}
    /\ place \in {"InProgram", "InBlock", "Members"} => ListOf(s, StmtKinds)
    /\ place = "Arguments" => ListOf(s, {"Arg"})
    /\ place \in {"EndMethod", "EndConstructor"} =>
           IF above = "Block" THEN s = <<>> ELSE ParamList(s)
    /\ place \in {"Else", "EndWhile"} =>
           IF above = "Statement" THEN s = <<>> ELSE One(s, ExprKinds)
    /\ place = "EndElse" => Two(s, ExprKinds, StmtKinds)
    /\ place = "EndBinary" => One(s, ExprKinds)
    /\ place \in {"Block", "Statement", "StmtEnd", "DeclEnd", "EndReturn", "EndExprStmt",
                  "EndVarDecl", "Operators", "EndUnary", "EndGroup", "EndArgument"} =>
           s = <<>>

(* What it has made when it runs; current is the token the parser is at.   *)
Ready(file, current, place, under, s) ==
    /\ place # "SkipMember"
    /\ place \in {"InProgram", "InBlock", "Members"} => ListOf(s, StmtKinds)
    /\ place = "Arguments" => ListOf(s, {"Arg"})
    /\ place = "Params" => ParamList(s) /\ under = "Block"
    /\ place = "Block" =>
           IF under \in {"EndMethod", "EndConstructor"} THEN ParamList(s) ELSE s = <<>>
    /\ place = "Statement" =>
           IF under \in {"Else", "EndWhile"} THEN One(s, ExprKinds) ELSE s = <<>>
    /\ place \in {"EndMethod", "EndConstructor"} =>
           /\ Len(s) >= 2
           /\ ParamList(SubSeq(s, 1, Len(s) - 1))
           /\ Item(s[Len(s)], {"Block"})
    /\ place \in {"Else", "EndWhile"} => Two(s, ExprKinds, StmtKinds)
    /\ place = "EndElse" => Three(s, ExprKinds, StmtKinds, StmtKinds)
    /\ place = "EndBinary" => Two(s, ExprKinds, ExprKinds)
    /\ place = "StmtEnd" => One(s, StmtKinds)
    /\ place \in {"DeclEnd", "EndReturn", "EndExprStmt", "EndVarDecl", "Operators",
                  "EndUnary", "EndGroup", "EndArgument"} => One(s, ExprKinds)
    /\ place \in {"Program", "Class", "Member", "BareMember", "FieldDecl",
                  "ConstructorDecl", "MethodDecl", "If", "While", "Return", "ExprStmt",
                  "VarDecl", "Binary", "Unary", "Expr", "MethodCall"} => s = <<>>
    /\ place = "Unary" => B!TokenAt(file, current).type \in {"PLUS", "MINUS"}
    /\ place = "MethodCall" => B!TokenAt(file, current).type = "ID"

BinaryOperators ==
    {"DATA_TYPE", "MULTIPLY", "DIVIDE", "PLUS", "MINUS", "EQUALS", "DEQ", "NEQ", "GT",
     "GEQ", "LT", "LEQ"}

(* The local of a frame names the token that its node is made of.          *)
Fine(file, frame) ==
    /\ frame[1] \in {"Binary", "Operators"} => frame[2] \in Nat
    /\ frame[1] = "EndBinary" => B!TokenAt(file, frame[2]).type \in BinaryOperators
    /\ frame[1] = "EndUnary" => B!TokenAt(file, frame[2]).type \in {"PLUS", "MINUS"}
    /\ frame[1] \in {"EndVarDecl", "EndMethod", "Arguments"} =>
           B!TokenAt(file, frame[2]).type = "ID"

Seg(ps, from, to) == [i \in 1..(to - from) |-> ps[from + i]]

Under(cs) == IF cs = <<>> THEN "" ELSE cs[1][1]

(* The places of the waiting frames, the outermost first, up to g.         *)
PlaceAt(cs, g, d) ==
    IF d = 0 THEN "" ELSE IF d = Len(cs) + 1 THEN g ELSE cs[Len(cs) + 1 - d][1]

(* b says how many parts had been made when each frame under the running   *)
(* one was entered, the outermost first; the e parts there are below the   *)
(* running frame, of place g, are those they hold.                         *)
Base(file, cs, g, ps, e, b) ==
    LET m == Len(cs)
        place(d) == PlaceAt(cs, g, d)
    IN  /\ b \in [1..(m + 1) -> Nat]
        /\ b[1] = 0 /\ b[m + 1] = e /\ e <= Len(ps)
        /\ \A c, d \in 1..(m + 1) : c <= d => b[c] <= b[d]
        /\ Gives(place(1)) = {"Program"}
        /\ \A d \in 1..m : /\ Fine(file, cs[m + 1 - d])
                           /\ Holds(place(d), place(d + 1), place(d - 1),
                                 Seg(ps, b[d], b[d + 1]))

Beneath(file, cs, g, ps, e) == \E b : Base(file, cs, g, ps, e, b)

(* The parts that wait, and the frames that will take them.                *)
Shape(file, cs, ps, current) ==
    /\ IsSeq(cs) /\ IsSeq(ps)
    /\ IF cs = <<>> THEN One(ps, {"Program"})
       ELSE \E e \in 0..Len(ps) :
                /\ Fine(file, cs[1])
                /\ Beneath(file, Tail(cs), cs[1][1], ps, e)
                /\ Ready(file, current, cs[1][1], Under(Tail(cs)), Seg(ps, e, Len(ps)))

-----------------------------------------------------------------------------
LEMMA LengthOf ==
    ASSUME NEW s, IsSeq(s)
    PROVE  Len(s) \in Nat /\ DOMAIN s = 1..Len(s) /\ (s = <<>> <=> Len(s) = 0)
BY DEF IsSeq

IsSeg(s, ps, c, n) ==
    IsSeq(s) /\ Len(s) = n /\ \A i \in 1..n : s[i] = ps[c + i]

LEMMA SegIs ==
    ASSUME NEW ps, IsSeq(ps), NEW c \in Nat, NEW e \in Nat, c <= e, e <= Len(ps)
    PROVE  /\ IsSeg(Seg(ps, c, e), ps, c, e - c)
           /\ Seg(ps, c, e) = <<>> <=> c = e
<1>1. PICK S : ps \in Seq(S)
  BY DEF IsSeq
<1> DEFINE s == Seg(ps, c, e)
<1>2. s = [i \in 1..(e - c) |-> ps[c + i]]
  BY DEF Seg
<1>3. \A i \in 1..(e - c) : ps[c + i] \in S
  BY <1>1
<1>4. e - c \in Nat
  OBVIOUS
<1>5. s \in Seq(S) /\ Len(s) = e - c
  <2> HIDE DEF s
  <2>1. PICK n : n = e - c
    OBVIOUS
  <2>2. s = [i \in 1..n |-> s[i]]
    BY <1>2, <2>1
  <2> QED
    BY <1>2, <1>3, <1>4, <2>1, <2>2, SequenceOf
<1>6. s = <<>> <=> c = e
  BY <1>5
<1> QED
  BY <1>2, <1>5, <1>6 DEF IsSeq, IsSeg

(* A segment is the parts it is made of.                                   *)
LEMMA SegSame ==
    ASSUME NEW ps, NEW qs, NEW c \in Nat, NEW e \in Nat,
           \A i \in 1..e : qs[i] = ps[i]
    PROVE  Seg(qs, c, e) = Seg(ps, c, e)
<1>1. \A i \in 1..(e - c) : qs[c + i] = ps[c + i]
  OBVIOUS
<1> QED
  BY <1>1 DEF Seg

LEMMA BeneathNone ==
    ASSUME NEW file, NEW g, NEW ps, IsSeq(ps), NEW e
    PROVE  Beneath(file, <<>>, g, ps, e) <=> e = 0 /\ Gives(g) = {"Program"}
<1>1. Len(<<>>) = 0 /\ Len(ps) \in Nat /\ PlaceAt(<<>>, g, 1) = g
  BY LengthOf DEF PlaceAt
<1>2. ASSUME NEW b, Base(file, <<>>, g, ps, e, b) PROVE e = 0 /\ Gives(g) = {"Program"}
  BY <1>1, <1>2 DEF Base
<1>3. ASSUME e = 0, Gives(g) = {"Program"} PROVE Base(file, <<>>, g, ps, e, [i \in 1..1 |-> 0])
  BY <1>1, <1>3 DEF Base
<1> QED
  BY <1>2, <1>3 DEF Beneath

OnTop(ds, cs, place, g, m) ==
    /\ \A d \in 0..(m + 1) : PlaceAt(ds, g, d) = PlaceAt(cs, place, d)
    /\ PlaceAt(cs, place, m) = Under(cs)
    /\ PlaceAt(ds, g, m + 1 + 1) = g
    /\ PlaceAt(cs, place, m + 1) = place

LEMMA PlacesOf ==
    ASSUME NEW cs, IsSeq(cs), NEW frame, NEW g
    PROVE  OnTop(<<frame>> \o cs, cs, frame[1], g, Len(cs))
<1> PICK m : m = Len(cs)
  OBVIOUS
<1>1. PICK S : cs \in Seq(S)
  BY DEF IsSeq
<1>2. PICK ds : ds = <<frame>> \o cs
  OBVIOUS
<1>3. /\ m \in Nat /\ Len(ds) = m + 1 /\ ds[1] = frame
      /\ \A i \in 1..m : ds[i + 1] = cs[i]
  <2>1. cs \in Seq(S \union {frame}) /\ <<frame>> \in Seq(S \union {frame})
    BY <1>1
  <2> QED
    BY <1>1, <1>2, <2>1
<1>4. ASSUME NEW d \in 1..m
      PROVE  PlaceAt(ds, g, d) = PlaceAt(cs, frame[1], d)
  <2>1. m + 1 + 1 - d = (m + 1 - d) + 1 /\ m + 1 - d \in 1..m /\ d # 0 /\ d # m + 1 + 1 /\ d # m + 1
    BY <1>3
  <2>2. PlaceAt(ds, g, d) = ds[m + 1 + 1 - d][1]
    BY <1>3, <2>1 DEF PlaceAt
  <2>3. PlaceAt(cs, frame[1], d) = cs[m + 1 - d][1]
    BY <2>1 DEF PlaceAt
  <2> QED
    BY <1>3, <2>1, <2>2, <2>3
<1>5. PlaceAt(ds, g, m + 1) = frame[1]
  <2>1. m + 1 + 1 - (m + 1) = 1 /\ m + 1 # 0 /\ m + 1 # m + 1 + 1
    BY <1>3
  <2> QED
    BY <1>3, <2>1 DEF PlaceAt
<1>6. PlaceAt(cs, frame[1], m + 1) = frame[1] /\ PlaceAt(ds, g, m + 1 + 1) = g
  <2>1. m + 1 # 0 /\ m + 1 + 1 # 0
    BY <1>3
  <2>2. PlaceAt(cs, frame[1], m + 1) = frame[1]
    BY <2>1 DEF PlaceAt
  <2>3. PlaceAt(ds, g, m + 1 + 1) = g
    BY <1>3, <2>1 DEF PlaceAt
  <2> QED
    BY <2>2, <2>3
<1>7. PlaceAt(cs, frame[1], m) = Under(cs)
  <2>1. CASE m = 0
    <3>1. cs = <<>>
      BY <2>1, LengthOf
    <3> QED
      BY <2>1, <3>1 DEF Under, PlaceAt
  <2>2. CASE m # 0
    <3>1. m + 1 - m = 1 /\ m # m + 1
      BY <1>3
    <3>2. cs # <<>>
      BY <1>3, <2>2
    <3> QED
      BY <2>2, <3>1, <3>2 DEF Under, PlaceAt
  <2> QED
    BY <2>1, <2>2
<1>8. PlaceAt(ds, g, 0) = PlaceAt(cs, frame[1], 0)
  BY DEF PlaceAt
<1>9. \A d \in 0..(m + 1) : d = 0 \/ d = m + 1 \/ d \in 1..m
  BY <1>3
<1> QED
  BY <1>2, <1>4, <1>5, <1>6, <1>7, <1>8, <1>9 DEF OnTop

LEMMA BeneathOne ==
    ASSUME NEW file, NEW cs, IsSeq(cs), NEW frame, NEW g, NEW ps, IsSeq(ps),
           NEW e \in 0..Len(ps)
    PROVE  Beneath(file, <<frame>> \o cs, g, ps, e) <=>
               \E c \in 0..e : /\ Beneath(file, cs, frame[1], ps, c)
                               /\ Fine(file, frame)
                               /\ Holds(frame[1], g, Under(cs), Seg(ps, c, e))
<1>1. PICK S : cs \in Seq(S)
  BY DEF IsSeq
<1>2. PICK ds : ds = <<frame>> \o cs
  OBVIOUS
<1>3. PICK m : m = Len(cs)
  OBVIOUS
<1>4. /\ m \in Nat /\ Len(ds) = m + 1 /\ ds[1] = frame /\ Len(ps) \in Nat
      /\ \A i \in 1..m : ds[i + 1] = cs[i]
  <2>1. cs \in Seq(S \union {frame}) /\ <<frame>> \in Seq(S \union {frame})
    BY <1>1
  <2> QED
    BY <1>1, <1>2, <1>3, <2>1, LengthOf
<1>5. /\ ds[m + 1 + 1 - (m + 1)] = frame
      /\ \A d \in 1..m : ds[m + 1 + 1 - d] = cs[m + 1 - d]
  <2>1. \A d \in 1..m : m + 1 + 1 - d = (m + 1 - d) + 1 /\ m + 1 - d \in 1..m
    BY <1>4
  <2>2. m + 1 + 1 - (m + 1) = 1
    BY <1>4
  <2> QED
    BY <1>4, <2>1, <2>2
<1>6. OnTop(ds, cs, frame[1], g, m)
  BY <1>2, <1>3, PlacesOf
<1>7. ASSUME NEW b, Base(file, ds, g, ps, e, b)
      PROVE  \E c \in 0..e : /\ Beneath(file, cs, frame[1], ps, c)
                             /\ Fine(file, frame)
                             /\ Holds(frame[1], g, Under(cs), Seg(ps, c, e))
  <2> DEFINE a == [d \in 1..(m + 1) |-> b[d]]
             up(d) == PlaceAt(ds, g, d)
             lo(d) == PlaceAt(cs, frame[1], d)
  <2>1. /\ b \in [1..(m + 1 + 1) -> Nat]
        /\ b[1] = 0 /\ b[m + 1 + 1] = e /\ e <= Len(ps)
        /\ \A c, d \in 1..(m + 1 + 1) : c <= d => b[c] <= b[d]
        /\ Gives(up(1)) = {"Program"}
        /\ \A d \in 1..(m + 1) : /\ Fine(file, ds[m + 1 + 1 - d])
                                 /\ Holds(up(d), up(d + 1), up(d - 1),
                                         Seg(ps, b[d], b[d + 1]))
    BY <1>4, <1>7 DEF Base
  <2>2. /\ \A d \in 0..(m + 1) : up(d) = lo(d)
        /\ lo(m) = Under(cs) /\ up(m + 1 + 1) = g /\ lo(m + 1) = frame[1]
        /\ m + 1 - 1 = m
    <3>1. /\ \A d \in 0..(m + 1) : PlaceAt(ds, g, d) = PlaceAt(cs, frame[1], d)
          /\ PlaceAt(cs, frame[1], m) = Under(cs)
          /\ PlaceAt(ds, g, m + 1 + 1) = g
          /\ PlaceAt(cs, frame[1], m + 1) = frame[1]
      BY <1>6 DEF OnTop
    <3> QED
      BY <1>4, <3>1
  <2>4. PICK c : c = b[m + 1]
    OBVIOUS
  <2>5. m + 1 \in 1..(m + 1 + 1) /\ m + 1 + 1 \in 1..(m + 1 + 1) /\ m + 1 <= m + 1 + 1
        /\ 1 \in 1..(m + 1) /\ m + 1 \in 1..(m + 1)
        /\ 1..(m + 1) \subseteq 1..(m + 1 + 1)
        /\ \A d \in 1..m : d \in 1..(m + 1) /\ d + 1 \in 1..(m + 1) /\ d - 1 \in 0..(m + 1)
        /\ 0..(m + 1) = {0} \union 1..(m + 1) /\ m \in 0..(m + 1)
    BY <1>4
  <2>6. c \in Nat /\ c <= e /\ c \in 0..e
    <3>1. c \in Nat /\ c <= e
      BY <2>1, <2>4, <2>5
    <3> QED
      BY <3>1
  <2> HIDE DEF up, lo
  <2>7. /\ a \in [1..(m + 1) -> Nat]
        /\ a[1] = 0 /\ a[m + 1] = c /\ c <= Len(ps)
    <3>1. c <= Len(ps)
      BY <1>4, <2>1, <2>6
    <3> QED
      BY <2>1, <2>4, <2>5, <3>1
  <2>8. \A k, d \in 1..(m + 1) : k <= d => a[k] <= a[d]
    BY <2>1, <2>5
  <2>9. Gives(lo(1)) = {"Program"}
    BY <2>1, <2>2, <2>5
  <2>10. ASSUME NEW d \in 1..m
         PROVE  /\ Fine(file, cs[m + 1 - d])
                /\ Holds(lo(d), lo(d + 1), lo(d - 1), Seg(ps, a[d], a[d + 1]))
    <3>1. a[d] = b[d] /\ a[d + 1] = b[d + 1] /\ up(d) = lo(d) /\ up(d + 1) = lo(d + 1)
            /\ up(d - 1) = lo(d - 1)
      BY <2>2, <2>5
    <3> QED
      BY <1>5, <2>1, <2>5, <3>1
  <2>11. Base(file, cs, frame[1], ps, c, a)
    <3> HIDE DEF a
    <3> QED
      BY <1>3, <2>7, <2>8, <2>9, <2>10 DEF Base, lo
  <2>12. Fine(file, frame) /\ Holds(frame[1], g, Under(cs), Seg(ps, c, e))
    <3>1. PICK k \in 1..(m + 1) : k = m + 1
      BY <2>5
    <3>2. /\ Fine(file, ds[m + 1 + 1 - k])
          /\ Holds(up(k), up(k + 1), up(k - 1), Seg(ps, b[k], b[k + 1]))
      BY <2>1
    <3>3. m + 1 + 1 - k = 1 /\ k + 1 = m + 1 + 1 /\ k - 1 = m /\ k \in 0..(m + 1) /\ m \in 0..(m + 1)
      BY <1>4, <3>1
    <3>4. ds[m + 1 + 1 - k] = frame
      BY <1>4, <3>3
    <3>5. up(k) = frame[1]
      BY <2>2, <3>1, <3>3
    <3>6. up(k + 1) = g
      BY <2>2, <3>3
    <3>7. up(k - 1) = Under(cs)
      BY <2>2, <3>3
    <3>8. b[k] = c /\ b[k + 1] = e
      BY <2>1, <2>4, <3>1, <3>3
    <3> QED
      BY <3>2, <3>4, <3>5, <3>6, <3>7, <3>8
  <2> QED
    BY <2>6, <2>11, <2>12 DEF Beneath
<1>8. ASSUME NEW c \in 0..e, NEW b, Base(file, cs, frame[1], ps, c, b),
             Fine(file, frame), Holds(frame[1], g, Under(cs), Seg(ps, c, e))
      PROVE  Beneath(file, ds, g, ps, e)
  <2> DEFINE a == [d \in 1..(m + 1 + 1) |-> IF d = m + 1 + 1 THEN e ELSE b[d]]
             up(d) == PlaceAt(ds, g, d)
             lo(d) == PlaceAt(cs, frame[1], d)
  <2>1. /\ b \in [1..(m + 1) -> Nat]
        /\ b[1] = 0 /\ b[m + 1] = c /\ c <= Len(ps)
        /\ \A k, d \in 1..(m + 1) : k <= d => b[k] <= b[d]
        /\ Gives(lo(1)) = {"Program"}
        /\ \A d \in 1..m : /\ Fine(file, cs[m + 1 - d])
                           /\ Holds(lo(d), lo(d + 1), lo(d - 1),
                                    Seg(ps, b[d], b[d + 1]))
    BY <1>3, <1>8 DEF Base
  <2>2. /\ \A d \in 0..(m + 1) : up(d) = lo(d)
        /\ lo(m) = Under(cs) /\ up(m + 1 + 1) = g /\ lo(m + 1) = frame[1]
        /\ m + 1 - 1 = m
    <3>1. /\ \A d \in 0..(m + 1) : PlaceAt(ds, g, d) = PlaceAt(cs, frame[1], d)
          /\ PlaceAt(cs, frame[1], m) = Under(cs)
          /\ PlaceAt(ds, g, m + 1 + 1) = g
          /\ PlaceAt(cs, frame[1], m + 1) = frame[1]
      BY <1>6 DEF OnTop
    <3> QED
      BY <1>4, <3>1
  <2>4. /\ 1 \in 1..(m + 1) /\ m + 1 \in 1..(m + 1)
        /\ \A d \in 1..m : d \in 1..(m + 1) /\ d + 1 \in 1..(m + 1) /\ d - 1 \in 0..(m + 1)
        /\ 0..(m + 1) = {0} \union 1..(m + 1) /\ m \in 0..(m + 1)
        /\ \A d \in 1..(m + 1) : d = m + 1 \/ d \in 1..m
        /\ \A d \in 1..(m + 1 + 1) : d = m + 1 + 1 \/ d \in 1..(m + 1)
        /\ \A d \in 1..(m + 1) : d # m + 1 + 1 /\ d \in 1..(m + 1 + 1)
        /\ m + 1 + 1 \in 1..(m + 1 + 1)
    BY <1>4
  <2>5. e \in Nat /\ c \in Nat /\ c <= e
    BY <1>4
  <2> HIDE DEF up, lo
  <2>6. a[m + 1 + 1] = e /\ \A d \in 1..(m + 1) : a[d] = b[d]
    BY <2>4
  <2>7. a \in [1..(m + 1 + 1) -> Nat] /\ a[1] = 0 /\ e <= Len(ps)
    BY <1>4, <2>1, <2>4, <2>5, <2>6
  <2> HIDE DEF a
  <2>8. ASSUME NEW k \in 1..(m + 1 + 1), NEW d \in 1..(m + 1 + 1), k <= d
        PROVE  a[k] <= a[d]
    <3>1. CASE d \in 1..(m + 1)
      <4>1. k \in 1..(m + 1)
        BY <1>4, <2>8, <3>1
      <4> QED
        BY <2>1, <2>6, <2>8, <3>1, <4>1
    <3>2. CASE d = m + 1 + 1 /\ k = m + 1 + 1
      BY <2>5, <2>6, <3>2
    <3>3. CASE d = m + 1 + 1 /\ k \in 1..(m + 1)
      <4>1. k <= m + 1
        BY <1>4, <3>3
      <4>2. a[k] <= c /\ a[k] \in Nat
        BY <2>1, <2>4, <2>6, <3>3, <4>1
      <4> QED
        BY <2>5, <2>6, <3>3, <4>2
    <3> QED
      BY <2>4, <3>1, <3>2, <3>3
  <2>9. Gives(up(1)) = {"Program"}
    BY <2>1, <2>2, <2>4
  <2>10. ASSUME NEW d \in 1..(m + 1)
         PROVE  /\ Fine(file, ds[m + 1 + 1 - d])
                /\ Holds(up(d), up(d + 1), up(d - 1), Seg(ps, a[d], a[d + 1]))
    <3>1. CASE d = m + 1
      <4>1. a[d] = c /\ a[d + 1] = e /\ up(d) = frame[1] /\ up(d + 1) = g
        BY <2>1, <2>2, <2>4, <2>6, <3>1
      <4>2. up(d - 1) = Under(cs)
        BY <2>2, <2>4, <3>1
      <4> QED
        BY <1>5, <1>8, <3>1, <4>1, <4>2
    <3>2. CASE d \in 1..m
      <4>1. a[d] = b[d] /\ a[d + 1] = b[d + 1] /\ up(d) = lo(d) /\ up(d + 1) = lo(d + 1)
            /\ up(d - 1) = lo(d - 1)
        BY <2>2, <2>4, <2>6, <3>2
      <4> QED
        BY <1>5, <2>1, <3>2, <4>1
    <3> QED
      BY <2>4, <3>1, <3>2
  <2>11. Base(file, ds, g, ps, e, a)
    BY <1>4, <2>6, <2>7, <2>8, <2>9, <2>10 DEF Base, up
  <2> QED
    BY <2>11 DEF Beneath
<1> QED
  BY <1>2, <1>7, <1>8 DEF Beneath

(* What the frames hold is not disturbed by what comes after it.           *)
LEMMA BeneathSame ==
    ASSUME NEW file, NEW cs, IsSeq(cs), NEW g, NEW ps, NEW qs, NEW e \in Nat,
           Beneath(file, cs, g, ps, e), e <= Len(qs), \A i \in 1..e : qs[i] = ps[i]
    PROVE  Beneath(file, cs, g, qs, e)
<1>1. PICK b : Base(file, cs, g, ps, e, b)
  BY DEF Beneath
<1>2. PICK m : m = Len(cs) /\ m \in Nat
  BY LengthOf
<1>3. ASSUME NEW d \in 1..m PROVE Seg(qs, b[d], b[d + 1]) = Seg(ps, b[d], b[d + 1])
  <2>1. PICK k : k = b[d + 1]
    OBVIOUS
  <2>2. b[d] \in Nat /\ k \in Nat /\ k <= e
    <3>1. d \in 1..(m + 1) /\ d + 1 \in 1..(m + 1) /\ m + 1 \in 1..(m + 1) /\ d + 1 <= m + 1
      BY <1>2
    <3> QED
      BY <1>1, <1>2, <2>1, <3>1 DEF Base
  <2>3. \A i \in 1..k : qs[i] = ps[i]
    BY <2>2
  <2> QED
    BY <2>1, <2>2, SegSame
<1>4. Base(file, cs, g, qs, e, b)
  BY <1>1, <1>2, <1>3 DEF Base
<1> QED
  BY <1>4 DEF Beneath

LEMMA HeadAndTail ==
    ASSUME NEW cs, IsSeq(cs), cs # <<>>
    PROVE  /\ cs = <<cs[1]>> \o Tail(cs) /\ IsSeq(Tail(cs)) /\ Under(cs) = cs[1][1]
           /\ Len(Tail(cs)) = Len(cs) - 1
<1>1. PICK S : cs \in Seq(S)
  BY DEF IsSeq
<1>2. cs[1] \in S /\ Tail(cs) \in Seq(S) /\ Len(Tail(cs)) = Len(cs) - 1 /\ Len(cs) \in Nat \ {0}
  BY <1>1
<1>3. <<cs[1]>> \in Seq(S) /\ Len(<<cs[1]>>) = 1
  BY <1>2
<1>4. PICK ds : ds = <<cs[1]>> \o Tail(cs)
  OBVIOUS
<1>5. ds \in Seq(S) /\ Len(ds) = Len(cs)
  BY <1>2, <1>3, <1>4
<1>6. \A i \in 1..Len(cs) : ds[i] = cs[i]
  <2> TAKE i \in 1..Len(cs)
  <2>1. CASE i = 1
    BY <1>2, <1>3, <1>4, <2>1
  <2>2. CASE i # 1
    <3>1. i - 1 \in 1..Len(Tail(cs)) /\ i = (i - 1) + 1
      BY <1>2, <2>2
    <3>2. ds[i] = Tail(cs)[i - 1]
      BY <1>2, <1>3, <1>4, <3>1
    <3>3. Tail(cs)[i - 1] = cs[i]
      BY <1>1, <1>2, <3>1
    <3> QED
      BY <3>2, <3>3
  <2> QED
    BY <2>1, <2>2
<1>7. ds = cs
  BY <1>1, <1>5, <1>6
<1> QED
  BY <1>2, <1>4, <1>7 DEF IsSeq, Under

LEMMA BeneathTop ==
    ASSUME NEW file, NEW cs, IsSeq(cs), cs # <<>>, NEW g, NEW ps, IsSeq(ps),
           NEW e \in 0..Len(ps)
    PROVE  Beneath(file, cs, g, ps, e) <=>
               \E c \in 0..e : /\ Beneath(file, Tail(cs), cs[1][1], ps, c)
                               /\ Fine(file, cs[1])
                               /\ Holds(cs[1][1], g, Under(Tail(cs)), Seg(ps, c, e))
<1> PICK f, ds : f = cs[1] /\ ds = Tail(cs)
  OBVIOUS
<1>1. cs = <<f>> \o ds /\ IsSeq(ds)
  BY HeadAndTail
<1>2. Beneath(file, <<f>> \o ds, g, ps, e) <=>
          \E c \in 0..e : /\ Beneath(file, ds, f[1], ps, c)
                          /\ Fine(file, f)
                          /\ Holds(f[1], g, Under(ds), Seg(ps, c, e))
  BY <1>1, BeneathOne
<1> QED
  BY <1>1, <1>2

-----------------------------------------------------------------------------
LEMMA KindsApart ==
    /\ ExprKinds # {} /\ StmtKinds # {}
    /\ "Program" \notin ExprKinds \union StmtKinds
    /\ "Arg" \notin ExprKinds \union StmtKinds
    /\ "Param" \notin ExprKinds \union StmtKinds
    /\ "Block" \in StmtKinds /\ "Class" \in StmtKinds
    /\ ExprKinds \intersect StmtKinds = {}
BY DEF ExprKinds, StmtKinds

LEMMA GivesValue ==
    ASSUME NEW g
    PROVE  /\ g \in {"Program", "InProgram"} => Gives(g) = {"Program"}
           /\ g \in {"Block", "InBlock"} => Gives(g) = {"Block"}
           /\ g = "EndArgument" => Gives(g) = {"Arg"}
           /\ g = "Params" => Gives(g) = {"Param"}
           /\ g \in ExprPlaces => Gives(g) = ExprKinds
           /\ g \notin {"Program", "InProgram", "Block", "InBlock", "EndArgument", "Params"}
                          \union ExprPlaces => Gives(g) = StmtKinds
BY DEF Gives, ExprPlaces

LEMMA GivesIs ==
    ASSUME NEW g
    PROVE  /\ Gives(g) # {}
           /\ "Param" \in Gives(g) => g = "Params"
           /\ Gives(g) \subseteq {"Program"} => g \in {"Program", "InProgram"}
           /\ Gives(g) \in {{"Program"}, {"Block"}, {"Arg"}, {"Param"}, ExprKinds, StmtKinds}
<1>1. Gives(g) \in {{"Program"}, {"Block"}, {"Arg"}, {"Param"}, ExprKinds, StmtKinds}
  BY GivesValue
<1>2. Gives(g) = {"Program"} => g \in {"Program", "InProgram"}
  <2>1. "Program" \in Gives(g) => g \in {"Program", "InProgram"}
    BY GivesValue, KindsApart
  <2> QED
    BY <2>1
<1>3. "Param" \in Gives(g) => g = "Params"
  BY GivesValue, KindsApart
<1> QED
  BY <1>1, <1>2, <1>3, KindsApart

LEMMA AwaitsIs ==
    ASSUME NEW f
    PROVE  /\ f \in {"InProgram", "StmtEnd", "Members", "InBlock", "Else", "EndElse",
                     "EndWhile"} => Awaits(f) = StmtKinds
           /\ f \in {"EndConstructor", "EndMethod"} => Awaits(f) = {"Block"}
           /\ f = "Block" => Awaits(f) = {"Param"}
           /\ f = "Arguments" => Awaits(f) = {"Arg"}
           /\ f \in {"Statement", "DeclEnd", "EndReturn", "EndExprStmt", "EndVarDecl",
                     "Operators", "EndBinary", "EndUnary", "EndGroup", "EndArgument"} =>
                  Awaits(f) = ExprKinds
           /\ f \in {"Program", "Class", "Member", "BareMember", "SkipMember", "FieldDecl",
                     "ConstructorDecl", "MethodDecl", "Params", "If", "While", "Return",
                     "ExprStmt", "VarDecl", "Binary", "Unary", "Expr", "MethodCall"} =>
                  Awaits(f) = {}
BY DEF Awaits

-----------------------------------------------------------------------------
(* The function that waits does not care which function returns to it, if  *)
(* it returns the same.                                                    *)
LEMMA HoldsFor ==
    ASSUME NEW f, NEW g, NEW under, NEW s, Holds(f, g, under, s),
           NEW h, Gives(h) \subseteq Gives(g),
           g \notin {"Statement", "Block"}, h \notin {"Statement", "Block"}
    PROVE  Holds(f, h, under, s)
BY DEF Holds

LEMMA BeneathFor ==
    ASSUME NEW file, NEW cs, IsSeq(cs), NEW g, NEW ps, IsSeq(ps), NEW e \in 0..Len(ps),
           Beneath(file, cs, g, ps, e), NEW h, Gives(h) \subseteq Gives(g),
           g \notin {"Statement", "Block"}, h \notin {"Statement", "Block"}
    PROVE  Beneath(file, cs, h, ps, e)
<1>1. CASE cs = <<>>
  <2>1. e = 0 /\ Gives(g) = {"Program"}
    BY <1>1, BeneathNone
  <2>2. Gives(h) = {"Program"}
    BY <2>1, GivesIs
  <2> QED
    BY <1>1, <2>1, <2>2, BeneathNone
<1>2. CASE cs # <<>>
  <2>1. PICK c \in 0..e : /\ Beneath(file, Tail(cs), cs[1][1], ps, c)
                          /\ Fine(file, cs[1])
                          /\ Holds(cs[1][1], g, Under(Tail(cs)), Seg(ps, c, e))
    BY <1>2, BeneathTop
  <2>2. Holds(cs[1][1], h, Under(Tail(cs)), Seg(ps, c, e))
    BY <2>1, HoldsFor
  <2> QED
    BY <1>2, <2>1, <2>2, BeneathTop
<1> QED
  BY <1>1, <1>2

(* When a function is entered, what it has kept for the one under it goes  *)
(* to that one.                                                            *)
LEMMA HoldsEntered ==
    ASSUME NEW file, NEW current, NEW f, NEW g, NEW under, NEW r, NEW s,
           Holds(f, g, under, r), Ready(file, current, g, f, s),
           g \in {"Statement", "Block"},
           NEW h, Gives(h) \subseteq Gives(g), h # "Statement", h = "Block" => g = "Statement"
    PROVE  \/ r = <<>> /\ Holds(f, h, under, s)
           \/ s = <<>> /\ Holds(f, h, under, r)
<1>1. CASE g = "Statement"
  <2>1. Gives(g) = StmtKinds /\ StmtKinds \subseteq Awaits(f)
    BY <1>1 DEF Gives, ExprPlaces, Holds
  <2>2. f \notin {"EndMethod", "EndConstructor"}
    BY <2>1, AwaitsIs DEF StmtKinds
  <2> QED
    BY <1>1, <2>2 DEF Holds, Ready
<1>2. CASE g = "Block"
  BY <1>2 DEF Holds, Ready
<1> QED
  BY <1>1, <1>2

LEMMA Entered ==
    ASSUME NEW file, NEW current, NEW cs, IsSeq(cs), NEW g, NEW ps, IsSeq(ps),
           NEW e \in 0..Len(ps), Beneath(file, cs, g, ps, e),
           Ready(file, current, g, Under(cs), Seg(ps, e, Len(ps))),
           NEW h, Gives(h) \subseteq Gives(g), h # "Statement", h = "Block" => g = "Statement",
           g \in {"Statement", "Block"} \/ Seg(ps, e, Len(ps)) = <<>>
    PROVE  Beneath(file, cs, h, ps, Len(ps))
<1>1. Len(ps) \in Nat /\ Len(ps) \in 0..Len(ps) /\ e \in Nat /\ e <= Len(ps)
  BY LengthOf
<1>2. Seg(ps, e, Len(ps)) = <<>> => e = Len(ps)
  BY <1>1, SegIs
<1>3. CASE g \notin {"Statement", "Block"}
  BY <1>1, <1>2, <1>3, BeneathFor
<1>4. CASE g \in {"Statement", "Block"}
  <2>1. Gives(g) # {"Program"} /\ "Program" \notin Gives(g)
    BY <1>4, KindsApart DEF Gives, ExprPlaces
  <2>2. cs # <<>>
    BY <2>1, BeneathNone
  <2>3. PICK c \in 0..e : /\ Beneath(file, Tail(cs), cs[1][1], ps, c)
                          /\ Fine(file, cs[1])
                          /\ Holds(cs[1][1], g, Under(Tail(cs)), Seg(ps, c, e))
    BY <2>2, BeneathTop
  <2>4. Under(cs) = cs[1][1]
    BY <2>2, HeadAndTail
  <2>5. \/ /\ Seg(ps, c, e) = <<>>
           /\ Holds(cs[1][1], h, Under(Tail(cs)), Seg(ps, e, Len(ps)))
        \/ /\ Seg(ps, e, Len(ps)) = <<>>
           /\ Holds(cs[1][1], h, Under(Tail(cs)), Seg(ps, c, e))
    BY <1>4, <2>3, <2>4, HoldsEntered
  <2>6. Seg(ps, c, e) = <<>> => c = e
    BY <1>1, SegIs
  <2>7. PICK k \in 0..Len(ps) :
            /\ Beneath(file, Tail(cs), cs[1][1], ps, k)
            /\ Holds(cs[1][1], h, Under(Tail(cs)), Seg(ps, k, Len(ps)))
    BY <1>1, <1>2, <2>3, <2>5, <2>6
  <2> QED
    BY <1>1, <2>2, <2>3, <2>7, BeneathTop
<1> QED
  BY <1>3, <1>4

-----------------------------------------------------------------------------
(* What a function returns is what the one under it goes on with.          *)
LEMMA ReadyAfter ==
    ASSUME NEW file, NEW current, NEW f, NEW g, NEW under, NEW s, IsSeq(s), NEW r, IsSeq(r),
           NEW t, Holds(f, g, under, s), Item(t, Gives(g)),
           g \notin {"Params", "Block", "Statement"},
           Len(r) = Len(s) + 1, \A i \in 1..Len(s) : r[i] = s[i], r[Len(s) + 1] = t
    PROVE  Ready(file, current, f, under, r)
<1>1. Len(s) \in Nat /\ Len(<<>>) = 0
  BY LengthOf
<1>2. Item(t, Awaits(f)) /\ Awaits(f) # {} /\ Awaits(f) # {"Param"}
  <2>1. Gives(g) \subseteq Awaits(f) /\ Gives(g) # {} /\ "Param" \notin Gives(g)
    BY GivesIs DEF Holds
  <2> QED
    BY <2>1 DEF Item
<1>3. f \notin {"Program", "Class", "Member", "BareMember", "SkipMember", "FieldDecl",
                "ConstructorDecl", "MethodDecl", "Params", "If", "While", "Return",
                "ExprStmt", "VarDecl", "Binary", "Unary", "Expr", "MethodCall", "Block"}
  BY <1>2, AwaitsIs
<1>4. ASSUME NEW kinds, ListOf(s, kinds), Item(t, kinds)
      PROVE  ListOf(r, kinds)
  <2>1. \A i \in 2..Len(r) : i \in 2..Len(s) \/ i = Len(s) + 1
    BY <1>1
  <2>2. r[1] = s[1] /\ Len(r) >= 1
    BY <1>1, <1>4 DEF ListOf
  <2>3. \A i \in 2..Len(s) : r[i] = s[i]
    BY <1>1
  <2> QED
    BY <1>4, <2>1, <2>2, <2>3 DEF ListOf
<1>5. ASSUME NEW kinds, s = <<>>, Item(t, kinds)
      PROVE  One(r, kinds)
  BY <1>1, <1>5 DEF One
<1>6. ASSUME NEW k, NEW kinds, One(s, k), Item(t, kinds)
      PROVE  Two(r, k, kinds)
  BY <1>1, <1>6 DEF One, Two
<1>7. ASSUME NEW k, NEW l, NEW kinds, Two(s, k, l), Item(t, kinds)
      PROVE  Three(r, k, l, kinds)
  BY <1>1, <1>7 DEF Three, Two
<1>8. CASE f \in {"InProgram", "InBlock", "Members"}
  BY <1>2, <1>4, <1>8, AwaitsIs DEF Holds, Ready
<1>9. CASE f = "Arguments"
  <2>1. Awaits(f) = {"Arg"} /\ ListOf(s, {"Arg"})
    BY <1>9, AwaitsIs DEF Holds
  <2>2. Item(t, {"Arg"})
    BY <1>2, <2>1
  <2>3. ListOf(r, {"Arg"})
    BY <1>4, <2>1, <2>2
  <2> QED
    BY <1>9, <2>3 DEF Ready
<1>10. CASE f \in {"EndMethod", "EndConstructor"}
  <2>1. ParamList(s) /\ Item(t, {"Block"})
    <3>1. Awaits(f) = {"Block"}
      BY <1>10, AwaitsIs
    <3>2. g # "Block" /\ Item(t, {"Block"})
      BY <1>2, <3>1
    <3>3. ParamList(s)
      BY <1>10, <3>2 DEF Holds
    <3> QED
      BY <3>2, <3>3
  <2>2. Len(r) >= 2 /\ Len(r) - 1 = Len(s) /\ r[Len(r)] = t
    BY <1>1, <2>1 DEF ParamList
  <2>3. ParamList(SubSeq(r, 1, Len(r) - 1))
    <3>1. PICK q : q = SubSeq(r, 1, Len(r) - 1)
      OBVIOUS
    <3>2. Len(q) = Len(s) /\ \A i \in 1..Len(s) : q[i] = s[i]
      <4>1. PICK S : r \in Seq(S)
        BY DEF IsSeq
      <4> QED
        BY <1>1, <2>2, <3>1, <4>1
    <3>3. \A i \in 2..Len(s) : q[i] = s[i]
      BY <1>1, <3>2
    <3>4. q[1] = s[1]
      BY <1>1, <2>1, <3>2 DEF ParamList
    <3> QED
      BY <2>1, <3>1, <3>2, <3>3, <3>4 DEF ParamList
  <2> QED
    BY <1>10, <2>1, <2>2, <2>3 DEF Ready
<1>11. CASE f \in {"Else", "EndWhile"}
  BY <1>2, <1>6, <1>11, AwaitsIs DEF Holds, Ready
<1>12. CASE f = "EndElse"
  BY <1>2, <1>7, <1>12, AwaitsIs DEF Holds, Ready
<1>13. CASE f = "EndBinary"
  BY <1>2, <1>6, <1>13, AwaitsIs DEF Holds, Ready
<1>14. CASE f \in {"Statement", "StmtEnd", "DeclEnd", "EndReturn", "EndExprStmt",
                   "EndVarDecl", "Operators", "EndUnary", "EndGroup", "EndArgument"}
  <2>1. s = <<>> /\ (f = "Statement" => under \in {"Else", "EndWhile"})
    BY <1>14 DEF Holds
  <2>2. One(r, Awaits(f))
    BY <1>2, <1>5, <2>1
  <2> QED
    BY <1>14, <2>1, <2>2, AwaitsIs DEF Ready
<1>15. CASE f \notin {"InProgram", "InBlock", "Members", "Arguments", "EndMethod",
                      "EndConstructor", "Else", "EndWhile", "EndElse", "EndBinary",
                      "Statement", "StmtEnd", "DeclEnd", "EndReturn", "EndExprStmt",
                      "EndVarDecl", "Operators", "EndUnary", "EndGroup", "EndArgument"}
  BY <1>3, <1>15 DEF Ready
<1> QED
  BY <1>8, <1>9, <1>10, <1>11, <1>12, <1>13, <1>14, <1>15

LEMMA Returned ==
    ASSUME NEW file, NEW current, NEW cs, IsSeq(cs), NEW g, NEW ps, IsSeq(ps),
           NEW qs, IsSeq(qs), NEW e \in 0..Len(ps), Beneath(file, cs, g, ps, e),
           NEW t, Item(t, Gives(g)), g \notin {"Params", "Block", "Statement"},
           Len(qs) = e + 1, \A i \in 1..e : qs[i] = ps[i], qs[e + 1] = t
    PROVE  Shape(file, cs, qs, current)
<1>1. Len(ps) \in Nat /\ e \in Nat /\ e <= Len(ps)
  BY LengthOf
<1>2. CASE cs = <<>>
  <2>1. e = 0 /\ Gives(g) = {"Program"}
    BY <1>2, BeneathNone
  <2> QED
    BY <1>2, <2>1 DEF Shape, One
<1>3. CASE cs # <<>>
  <2>1. PICK c \in 0..e : /\ Beneath(file, Tail(cs), cs[1][1], ps, c)
                          /\ Fine(file, cs[1])
                          /\ Holds(cs[1][1], g, Under(Tail(cs)), Seg(ps, c, e))
    BY <1>3, BeneathTop
  <2>2. c \in Nat /\ c <= e /\ c <= Len(qs) /\ c \in 0..Len(qs)
    BY <1>1
  <2>3. Beneath(file, Tail(cs), cs[1][1], qs, c)
    <3>1. \A i \in 1..c : qs[i] = ps[i]
      BY <1>1, <2>2
    <3>2. PICK ds, f : ds = Tail(cs) /\ f = cs[1][1]
      OBVIOUS
    <3>3. IsSeq(ds)
      BY <1>3, <3>2, HeadAndTail
    <3>4. Beneath(file, ds, f, ps, c)
      BY <2>1, <3>2
    <3>5. Beneath(file, ds, f, qs, c)
      BY <2>2, <3>1, <3>3, <3>4, BeneathSame
    <3> QED
      BY <3>2, <3>5
  <2>4. PICK s, r : s = Seg(ps, c, e) /\ r = Seg(qs, c, Len(qs))
    OBVIOUS
  <2>5. IsSeq(s) /\ Len(s) = e - c /\ \A i \in 1..(e - c) : s[i] = ps[c + i]
    <3>1. e \in Nat /\ c \in Nat /\ c <= e /\ e <= Len(ps)
      BY <1>1, <2>2
    <3>2. IsSeg(Seg(ps, c, e), ps, c, e - c)
      BY <3>1, SegIs
    <3> QED
      BY <2>4, <3>2 DEF IsSeg
  <2>6. IsSeq(r) /\ Len(r) = (e + 1) - c /\ \A i \in 1..((e + 1) - c) : r[i] = qs[c + i]
    <3>1. PICK d : d = e + 1
      OBVIOUS
    <3>2. c \in Nat /\ d \in Nat /\ c <= d /\ d <= Len(qs) /\ Len(qs) = d
      BY <1>1, <2>2, <3>1
    <3>3. r = Seg(qs, c, d)
      BY <2>4, <3>2
    <3>4. IsSeq(r) /\ Len(r) = d - c /\ \A i \in 1..(d - c) : r[i] = qs[c + i]
      <4>1. IsSeg(Seg(qs, c, d), qs, c, d - c)
        BY <3>2, SegIs
      <4> QED
        BY <3>3, <4>1 DEF IsSeg
    <3> QED
      BY <3>1, <3>4
  <2>7. Len(r) = Len(s) + 1
    BY <1>1, <2>2, <2>5, <2>6
  <2>8. \A i \in 1..Len(s) : r[i] = s[i]
    <3> TAKE i \in 1..Len(s)
    <3>1. c + i \in 1..e /\ i \in 1..((e + 1) - c) /\ i \in 1..(e - c)
      BY <1>1, <2>2, <2>5
    <3> QED
      BY <2>5, <2>6, <3>1
  <2>9. r[Len(s) + 1] = t
    <3>1. Len(s) + 1 \in 1..((e + 1) - c) /\ c + (Len(s) + 1) = e + 1
      BY <1>1, <2>2, <2>5
    <3> QED
      BY <2>6, <3>1
  <2>10. Ready(file, current, cs[1][1], Under(Tail(cs)), r)
    <3>1. PICK f, under : f = cs[1][1] /\ under = Under(Tail(cs))
      OBVIOUS
    <3>2. Holds(f, g, under, s) /\ IsSeq(s) /\ IsSeq(r)
      BY <2>1, <2>4, <2>5, <2>6, <3>1
    <3>3. Ready(file, current, f, under, r)
      BY <2>7, <2>8, <2>9, <3>2, ReadyAfter
    <3> QED
      BY <3>1, <3>3
  <2> QED
    BY <1>3, <2>1, <2>2, <2>3, <2>4, <2>10 DEF Shape
<1> QED
  BY <1>2, <1>3

-----------------------------------------------------------------------------
(* The nodes that AstBuilder makes.                                       *)

(* The parts after a step that makes no node, or one.                      *)
LEMMA GreatestOfOne == B!Max({1}) = 1
<1>1. 1 \in {1} /\ \A y \in {1} : 1 >= y
  OBVIOUS
<1>2. \A x \in {1} : x = 1
  OBVIOUS
<1> QED
  BY <1>1, <1>2 DEF B!Max

LEMMA GrownByNone ==
    ASSUME NEW file, NEW ps
    PROVE  B!Grown(file, ps, <<>>) = ps
<1> DEFINE iter == CHOOSE iter : iter =
              [t \in SUBSET (DOMAIN <<>>) |->
                  IF t = {} THEN ps
                  ELSE B!Push(file, iter[t \ {B!Max(t)}], <<>>[B!Max(t)])]
<1>1. B!Grown(file, ps, <<>>) = iter[DOMAIN <<>>]
  BY DEF B!Grown, B!FoldLeft, B!MapThenFoldSet
<1>2. DOMAIN <<>> = {}
  OBVIOUS
<1>3. iter = [t \in SUBSET (DOMAIN <<>>) |->
                  IF t = {} THEN ps
                  ELSE B!Push(file, iter[t \ {B!Max(t)}], <<>>[B!Max(t)])]
  <2> DEFINE g == [t \in SUBSET (DOMAIN <<>>) |-> ps]
  <2>1. g = [t \in SUBSET (DOMAIN <<>>) |->
                  IF t = {} THEN ps
                  ELSE B!Push(file, g[t \ {B!Max(t)}], <<>>[B!Max(t)])]
    BY <1>2
  <2> HIDE DEF g
  <2> QED
    BY <2>1
<1> HIDE DEF iter
<1> QED
  BY <1>1, <1>2, <1>3

LEMMA GrownByOne ==
    ASSUME NEW file, NEW ps, NEW x
    PROVE  B!Grown(file, ps, <<x>>) = B!Push(file, ps, x)
<1> DEFINE iter == CHOOSE iter : iter =
              [t \in SUBSET (DOMAIN <<x>>) |->
                  IF t = {} THEN ps
                  ELSE B!Push(file, iter[t \ {B!Max(t)}], <<x>>[B!Max(t)])]
<1>1. B!Grown(file, ps, <<x>>) = iter[DOMAIN <<x>>]
  BY DEF B!Grown, B!FoldLeft, B!MapThenFoldSet
<1>2. DOMAIN <<x>> = {1} /\ <<x>>[1] = x
  OBVIOUS
<1>3. \A t \in SUBSET {1} : t = {} \/ t = {1}
  OBVIOUS
<1>4. iter = [t \in SUBSET (DOMAIN <<x>>) |->
                  IF t = {} THEN ps
                  ELSE B!Push(file, iter[t \ {B!Max(t)}], <<x>>[B!Max(t)])]
  <2> DEFINE g == [t \in SUBSET (DOMAIN <<x>>) |-> IF t = {} THEN ps ELSE B!Push(file, ps, x)]
  <2>1. ASSUME NEW t \in SUBSET (DOMAIN <<x>>)
        PROVE  g[t] = IF t = {} THEN ps
                      ELSE B!Push(file, g[t \ {B!Max(t)}], <<x>>[B!Max(t)])
    <3>1. CASE t = {}
      BY <3>1
    <3>2. CASE t = {1}
      <4>1. B!Max(t) = 1 /\ t \ {1} = {} /\ t # {} /\ {} \in SUBSET (DOMAIN <<x>>)
        BY <3>2, GreatestOfOne
      <4>2. g[{}] = ps
        BY <4>1
      <4>3. g[t] = B!Push(file, ps, x)
        BY <4>1
      <4> QED
        BY <1>2, <4>1, <4>2, <4>3
    <3> QED
      BY <1>2, <1>3, <3>1, <3>2
  <2>2. g = [t \in SUBSET (DOMAIN <<x>>) |->
                  IF t = {} THEN ps
                  ELSE B!Push(file, g[t \ {B!Max(t)}], <<x>>[B!Max(t)])]
    BY <2>1
  <2> HIDE DEF g
  <2> QED
    BY <2>2
<1> HIDE DEF iter
<1>5. {1} \in SUBSET (DOMAIN <<x>>) /\ {} \in SUBSET (DOMAIN <<x>>) /\ {1} # {} /\ {1} \ {1} = {}
  BY <1>2
<1>6. iter[{}] = ps
  BY <1>4, <1>5
<1>7. iter[{1}] = B!Push(file, iter[{1} \ {B!Max({1})}], <<x>>[B!Max({1})])
  BY <1>4, <1>5
<1> QED
  BY <1>1, <1>2, <1>5, <1>6, <1>7, GreatestOfOne

-----------------------------------------------------------------------------
(* All but the first e parts have been taken for t.                        *)
TakenFor(qs, ps, e, t) ==
    /\ IsSeq(qs) /\ Len(qs) = e + 1
    /\ \A i \in 1..e : qs[i] = ps[i]
    /\ qs[e + 1] = t

LEMMA TakesIs ==
    ASSUME NEW ps, IsSeq(ps), NEW e \in Nat, e <= Len(ps), NEW t
    PROVE  TakenFor(Append(SubSeq(ps, 1, e), t), ps, e, t)
<1>1. PICK S : ps \in Seq(S)
  BY DEF IsSeq
<1>2. PICK s : s = SubSeq(ps, 1, e)
  OBVIOUS
<1>3. s \in Seq(S) /\ Len(s) = e /\ \A i \in 1..e : s[i] = ps[i]
  BY <1>1, <1>2
<1>4. s \in Seq(S \union {t})
  BY <1>3
<1>5. PICK q : q = Append(s, t)
  OBVIOUS
<1>6. q \in Seq(S \union {t}) /\ Len(q) = e + 1 /\ q[e + 1] = t /\ \A i \in 1..e : q[i] = s[i]
  BY <1>3, <1>4, <1>5
<1> QED
  BY <1>2, <1>3, <1>5, <1>6 DEF TakenFor, IsSeq

LEMMA SubSeqIsSeg ==
    ASSUME NEW ps, IsSeq(ps), NEW e \in Nat, e <= Len(ps)
    PROVE  SubSeq(ps, e + 1, Len(ps)) = Seg(ps, e, Len(ps))
<1>1. PICK S : ps \in Seq(S)
  BY DEF IsSeq
<1>2. PICK n : n = Len(ps)
  OBVIOUS
<1>3. n \in Nat /\ e <= n
  BY <1>1, <1>2
<1>4. PICK s, r : s = SubSeq(ps, e + 1, n) /\ r = Seg(ps, e, n)
  OBVIOUS
<1>5. s \in Seq(S) /\ Len(s) = n - e /\ \A i \in 1..(n - e) : s[i] = ps[e + i]
  <2>1. \A i \in (e + 1)..n : i \in 1..n
    BY <1>3
  <2>2. s = [i \in 1..(n - e) |-> ps[e + i]]
    <3>1. IF e + 1 <= n THEN n - (e + 1) + 1 = n - e ELSE n - e = 0
      BY <1>3
    <3> QED
      BY <1>1, <1>2, <1>3, <1>4, <3>1
  <2> QED
    BY <1>1, <1>2, <1>3, <2>2
<1>6. r = [i \in 1..(n - e) |-> ps[e + i]]
  BY <1>4 DEF Seg
<1>7. s = [i \in 1..(n - e) |-> s[i]]
  BY <1>5, <1>3
<1> QED
  BY <1>2, <1>4, <1>5, <1>6, <1>7

LEMMA PushOpen ==
    ASSUME NEW file, NEW ps, NEW p
    PROVE  B!Push(file, ps, <<"Open", p>>) = Append(ps, <<>>)
BY DEF B!Push

LEMMA PushFixed ==
    ASSUME NEW file, NEW ps, IsSeq(ps), NEW kind, NEW p, kind \notin B!ListKinds,
           kind # "Open", NEW n \in Nat, B!Arity[kind] = n, n <= Len(ps),
           NEW e, e = Len(ps) - n
    PROVE  TakenFor(B!Push(file, ps, <<kind, p>>), ps, e, B!Made(file, kind, p, Seg(ps, e, Len(ps))))
<1>1. Len(ps) \in Nat /\ e \in Nat /\ e <= Len(ps)
  BY LengthOf
<1>2. Len(ps) - n = e
  OBVIOUS
<1>3. B!Push(file, ps, <<kind, p>>)
          = Append(SubSeq(ps, 1, e), B!Made(file, kind, p, SubSeq(ps, e + 1, Len(ps))))
  BY <1>2 DEF B!Push
<1> QED
  BY <1>1, <1>3, SubSeqIsSeg, TakesIs

LEMMA LastMarker ==
    ASSUME NEW ps, IsSeq(ps), NEW e \in Nat, e + 1 <= Len(ps), ps[e + 1] = <<>>,
           \A i \in (e + 2)..Len(ps) : ps[i] # <<>>
    PROVE  B!SelectLastInSeq(ps, LAMBDA t : t = <<>>) = e + 1
<1> DEFINE I == {i \in 1..Len(ps) : ps[i] = <<>>}
<1>1. Len(ps) \in Nat
  BY LengthOf
<1>2. e + 1 \in I
  BY <1>1
<1>3. \A i \in I : e + 1 >= i
  <2> TAKE i \in I
  <2>1. i \in Nat /\ i <= Len(ps) /\ ps[i] = <<>>
    BY <1>1
  <2>2. i \notin (e + 2)..Len(ps)
    BY <2>1
  <2> QED
    BY <1>1, <2>1, <2>2
<1>4. \A x \in I : (\A y \in I : x >= y) => x = e + 1
  <2> TAKE x \in I
  <2>1. x \in Nat /\ e + 1 >= x
    BY <1>1, <1>3
  <2> QED
    BY <1>2, <2>1
<1>5. B!Max(I) = e + 1
  <2> HIDE DEF I
  <2> QED
    BY <1>2, <1>3, <1>4 DEF B!Max
<1>6. B!SelectLastInSeq(ps, LAMBDA t : t = <<>>) = IF I # {} THEN B!Max(I) ELSE 0
  BY DEF B!SelectLastInSeq
<1> QED
  BY <1>2, <1>5, <1>6

LEMMA PushList ==
    ASSUME NEW file, NEW ps, IsSeq(ps), NEW kind \in B!ListKinds, NEW p,
           NEW e \in Nat, e + 1 <= Len(ps), ps[e + 1] = <<>>,
           \A i \in (e + 2)..Len(ps) : ps[i] # <<>>
    PROVE  TakenFor(B!Push(file, ps, <<kind, p>>), ps, e,
                 B!Made(file, kind, p, Seg(ps, e + 1, Len(ps))))
<1>1. Len(ps) \in Nat /\ e + 1 \in Nat /\ e <= Len(ps)
  BY LengthOf
<1>2. /\ Len(ps) - (Len(ps) - (e + 1)) = e + 1
      /\ (e + 1) - 1 = e
  BY <1>1
<1>3. kind # "Open"
  BY DEF B!ListKinds
<1>4. B!SelectLastInSeq(ps, LAMBDA t : t = <<>>) = e + 1
  BY LastMarker
<1>5. B!Push(file, ps, <<kind, p>>)
          = Append(SubSeq(ps, 1, e), B!Made(file, kind, p, SubSeq(ps, (e + 1) + 1, Len(ps))))
  BY <1>2, <1>3, <1>4 DEF B!Push
<1>6. SubSeq(ps, (e + 1) + 1, Len(ps)) = Seg(ps, e + 1, Len(ps))
  <2>1. PICK d : d = e + 1
    OBVIOUS
  <2>2. SubSeq(ps, d + 1, Len(ps)) = Seg(ps, d, Len(ps))
    BY <1>1, <2>1, SubSeqIsSeg
  <2> QED
    BY <2>1, <2>2
<1> QED
  BY <1>1, <1>5, <1>6, TakesIs

LEMMA SuitsFixed ==
    ASSUME NEW kind, kind \notin {"Program", "Block", "Call"}, NEW type,
           kind = "Literal" => type \in LiteralTypes,
           NEW ks, NEW allowed \in ChildKinds(kind), Len(ks) = Len(allowed),
           \A i \in DOMAIN ks : ks[i] \in allowed[i]
    PROVE  Suits(kind, type, ks)
BY DEF Suits

LEMMA ChildKindsAre ==
    /\ \A k \in {"Return", "ExprStmt", "Unary", "Arg", "VarDecl"} :
           <<ExprKinds>> \in ChildKinds(k)
    /\ \A k \in {"Binary", "Assign"} : <<ExprKinds, ExprKinds>> \in ChildKinds(k)
    /\ \A k \in {"If", "While"} : <<ExprKinds, StmtKinds>> \in ChildKinds(k)
    /\ <<ExprKinds, StmtKinds, StmtKinds>> \in ChildKinds("If")
    /\ <<{"Block"}>> \in ChildKinds("Method")
    /\ \A k \in {"VarDecl", "Literal", "Ident", "Class"} : <<>> \in ChildKinds(k)
BY DEF ChildKinds

LEMMA Defaults ==
    /\ "" \in Names /\ "void" \in Types /\ "+" \in Ops
    /\ <<>> \in Seq([name : Names, type : Types])
    /\ ExprKinds \subseteq Kinds /\ StmtKinds \subseteq Kinds
    /\ {"Program", "Arg", "Block", "Class"} \subseteq Kinds
    /\ LiteralTypes \subseteq Types
<1>1. "" \in Names
  BY AstAssumption
<1>2. "void" \in Types /\ "+" \in Ops
  BY DEF Types, Ops
<1>3. <<>> \in Seq([name : Names, type : Types])
  OBVIOUS
<1>4. ExprKinds \subseteq Kinds /\ StmtKinds \subseteq Kinds
  BY DEF ExprKinds, StmtKinds, Kinds
<1>5. {"Program", "Arg", "Block", "Class"} \subseteq Kinds
  BY DEF Kinds
<1>6. LiteralTypes \subseteq Types
  BY DEF Types, LiteralTypes
<1> QED
  BY <1>1, <1>2, <1>3, <1>4, <1>5, <1>6

(* Trees put together from no, one, two and three trees, and from a list.  *)
LEMMA TreeOfList ==
    ASSUME NEW r, IsSeq(r), \A i \in 1..Len(r) : IsTree(r[i]),
           NEW kind \in Kinds, NEW name \in Names, NEW type \in Types,
           NEW params \in Seq([name : Names, type : Types]), NEW op \in Ops,
           Suits(kind, type, KindsOf(r))
    PROVE  Item(B!Tree(kind, name, type, params, op, r), {kind})
<1>1. r \in Seq(Seq(Node))
  <2>1. PICK S : r \in Seq(S)
    BY DEF IsSeq
  <2>2. \A i \in 1..Len(r) : r[i] \in Seq(Node)
    BY DEF IsTree
  <2> QED
    BY <2>1, <2>2
<1>2. \A i \in 1..Len(r) : IsTree(r[i])
  OBVIOUS
<1> QED
  BY <1>1, <1>2, PutTogether

LEMMA TreeOfNone ==
    ASSUME NEW kind \in {"VarDecl", "Literal", "Ident", "Class"}, NEW name \in Names,
           NEW type \in Types, kind = "Literal" => type \in LiteralTypes
    PROVE  Item(B!Tree(kind, name, type, <<>>, "+", <<>>), {kind})
<1> PICK r : r = <<>>
  OBVIOUS
<1>1. IsSeq(r) /\ Len(r) = 0
  <2>1. <<>> \in Seq({})
    OBVIOUS
  <2> QED
    BY <2>1 DEF IsSeq
<1>2. Suits(kind, type, KindsOf(r))
  <2>1. PICK ks : ks = KindsOf(r)
    OBVIOUS
  <2>k. ks = [i \in 1..Len(r) |-> r[i][1].kind]
    BY <2>1 DEF KindsOf
  <2>2. Len(ks) = 0 /\ DOMAIN ks = {}
    BY <1>1, <2>k
  <2>3. <<>> \in ChildKinds(kind) /\ Len(<<>>) = 0
    BY ChildKindsAre
  <2> QED
    BY <2>1, <2>2, <2>3, SuitsFixed
<1>3. kind \in Kinds
  BY DEF Kinds
<1>4. \A i \in 1..Len(r) : IsTree(r[i])
  BY <1>1
<1>5. PICK ps, op : ps = <<>> /\ op = "+"
  OBVIOUS
<1>6. ps \in Seq([name : Names, type : Types]) /\ op \in Ops
  BY <1>5, Defaults
<1>7. Item(B!Tree(kind, name, type, ps, op, r), {kind})
  BY <1>1, <1>2, <1>3, <1>4, <1>6, TreeOfList
<1> QED
  BY <1>5, <1>7

LEMMA TreeOfOne ==
    ASSUME NEW kind \in {"Return", "ExprStmt", "Unary", "Arg", "VarDecl", "Method"},
           NEW name \in Names, NEW type \in Types,
           NEW params \in Seq([name : Names, type : Types]), NEW op \in Ops,
           NEW a, IF kind = "Method" THEN Item(a, {"Block"}) ELSE Item(a, ExprKinds)
    PROVE  Item(B!Tree(kind, name, type, params, op, <<a>>), {kind})
<1> PICK r : r = <<a>>
  OBVIOUS
<1>1. IsSeq(r) /\ Len(r) = 1 /\ r[1] = a
  <2>1. <<a>> \in Seq({a})
    OBVIOUS
  <2> QED
    BY <2>1 DEF IsSeq
<1>2. Suits(kind, type, KindsOf(r))
  <2>1. PICK ks : ks = KindsOf(r)
    OBVIOUS
  <2>k. ks = [i \in 1..Len(r) |-> r[i][1].kind]
    BY <2>1 DEF KindsOf
  <2>2. Len(ks) = 1 /\ DOMAIN ks = {1} /\ ks[1] = a[1].kind
    BY <1>1, <2>k
  <2>3. PICK e : e \in ChildKinds(kind) /\ Len(e) = 1 /\ a[1].kind \in e[1]
    <3>1. CASE kind = "Method"
      <4>1. Len(<<{"Block"}>>) = 1 /\ a[1].kind \in <<{"Block"}>>[1]
        BY <3>1 DEF Item
      <4> QED
        BY <3>1, <4>1, ChildKindsAre
    <3>2. CASE kind # "Method"
      <4>1. Len(<<ExprKinds>>) = 1 /\ a[1].kind \in <<ExprKinds>>[1]
        BY <3>2 DEF Item
      <4> QED
        BY <3>2, <4>1, ChildKindsAre
    <3> QED
      BY <3>1, <3>2
  <2> QED
    BY <2>1, <2>2, <2>3, SuitsFixed
<1>3. kind \in Kinds
  BY DEF Kinds
<1>4. \A i \in 1..Len(r) : IsTree(r[i])
  BY <1>1 DEF Item
<1>5. Item(B!Tree(kind, name, type, params, op, r), {kind})
  BY <1>1, <1>2, <1>3, <1>4, TreeOfList
<1> QED
  BY <1>5

LEMMA TreeOfTwo ==
    ASSUME NEW kind \in {"Binary", "Assign", "If", "While"}, NEW op \in Ops,
           NEW a, Item(a, ExprKinds),
           NEW b, Item(b, IF kind \in {"If", "While"} THEN StmtKinds ELSE ExprKinds)
    PROVE  Item(B!Tree(kind, "", "void", <<>>, op, <<a, b>>), {kind})
<1> PICK r : r = <<a, b>>
  OBVIOUS
<1>1. IsSeq(r) /\ Len(r) = 2 /\ r[1] = a /\ r[2] = b
  <2>1. <<a, b>> \in Seq({a, b})
    OBVIOUS
  <2> QED
    BY <2>1 DEF IsSeq
<1>2. Suits(kind, "void", KindsOf(r))
  <2>1. PICK ks : ks = KindsOf(r)
    OBVIOUS
  <2>k. ks = [i \in 1..Len(r) |-> r[i][1].kind]
    BY <2>1 DEF KindsOf
  <2>2. Len(ks) = 2 /\ DOMAIN ks = {1, 2} /\ ks[1] = a[1].kind /\ ks[2] = b[1].kind
    BY <1>1, <2>k
  <2>3. PICK e : e \in ChildKinds(kind) /\ Len(e) = 2 /\ a[1].kind \in e[1] /\ b[1].kind \in e[2]
    <3>1. CASE kind \in {"If", "While"}
      <4>1. PICK e : e = <<ExprKinds, StmtKinds>>
        OBVIOUS
      <4>2. Len(e) = 2 /\ a[1].kind \in e[1] /\ b[1].kind \in e[2]
        BY <3>1, <4>1 DEF Item
      <4> QED
        BY <3>1, <4>1, <4>2, ChildKindsAre
    <3>2. CASE kind \in {"Binary", "Assign"}
      <4>1. PICK e : e = <<ExprKinds, ExprKinds>>
        OBVIOUS
      <4>2. Len(e) = 2 /\ a[1].kind \in e[1] /\ b[1].kind \in e[2]
        BY <3>2, <4>1 DEF Item
      <4> QED
        BY <3>2, <4>1, <4>2, ChildKindsAre
    <3> QED
      BY <3>1, <3>2
  <2>4. \A i \in DOMAIN ks : ks[i] \in e[i]
    BY <2>2, <2>3
  <2>5. Len(ks) = Len(e)
    BY <2>2, <2>3
  <2> QED
    BY <2>1, <2>3, <2>4, <2>5, SuitsFixed
<1>3. kind \in Kinds
  BY DEF Kinds
<1>4. \A i \in 1..Len(r) : IsTree(r[i])
  <2>1. \A i \in 1..Len(r) : i = 1 \/ i = 2
    BY <1>1
  <2> QED
    BY <1>1, <2>1 DEF Item
<1>5. Item(B!Tree(kind, "", "void", <<>>, op, r), {kind})
  BY <1>1, <1>2, <1>3, <1>4, Defaults, TreeOfList
<1> QED
  BY <1>5

LEMMA TreeOfThree ==
    ASSUME NEW a, Item(a, ExprKinds), NEW b, Item(b, StmtKinds), NEW c, Item(c, StmtKinds)
    PROVE  Item(B!Tree("If", "", "void", <<>>, "+", <<a, b, c>>), {"If"})
<1> PICK r : r = <<a, b, c>>
  OBVIOUS
<1>1. IsSeq(r) /\ Len(r) = 3 /\ r[1] = a /\ r[2] = b /\ r[3] = c
  <2>1. <<a, b, c>> \in Seq({a, b, c})
    OBVIOUS
  <2> QED
    BY <2>1 DEF IsSeq
<1>2. Suits("If", "void", KindsOf(r))
  <2>1. PICK ks : ks = KindsOf(r)
    OBVIOUS
  <2>k. ks = [i \in 1..Len(r) |-> r[i][1].kind]
    BY <2>1 DEF KindsOf
  <2>2. /\ Len(ks) = 3 /\ DOMAIN ks = {1, 2, 3}
        /\ ks[1] = a[1].kind /\ ks[2] = b[1].kind /\ ks[3] = c[1].kind
    BY <1>1, <2>k
  <2>3. PICK e : e = <<ExprKinds, StmtKinds, StmtKinds>>
    OBVIOUS
  <2>4. e \in ChildKinds("If") /\ Len(e) = 3
    BY <2>3, ChildKindsAre
  <2>5. \A i \in DOMAIN ks : ks[i] \in e[i]
    BY <2>2, <2>3 DEF Item
  <2>6. Len(ks) = Len(e)
    BY <2>2, <2>4
  <2> QED
    BY <2>1, <2>4, <2>5, <2>6, SuitsFixed
<1>3. "If" \in Kinds
  BY DEF Kinds
<1>4. \A i \in 1..Len(r) : IsTree(r[i])
  <2>1. \A i \in 1..Len(r) : i = 1 \/ i = 2 \/ i = 3
    BY <1>1
  <2> QED
    BY <1>1, <2>1 DEF Item
<1>5. Item(B!Tree("If", "", "void", <<>>, "+", r), {"If"})
  BY <1>1, <1>2, <1>3, <1>4, Defaults, TreeOfList
<1> QED
  BY <1>5

(* A list of statements makes a program or a block, one of arguments a     *)
(* call.                                                                   *)
LEMMA TreeOfStmts ==
    ASSUME NEW kind \in {"Program", "Block"}, NEW r, IsSeq(r),
           \A i \in 1..Len(r) : Item(r[i], StmtKinds)
    PROVE  Item(B!Tree(kind, "", "void", <<>>, "+", r), {kind})
<1>1. Suits(kind, "void", KindsOf(r))
  <2>1. PICK ks : ks = KindsOf(r)
    OBVIOUS
  <2>k. ks = [i \in 1..Len(r) |-> r[i][1].kind]
    BY <2>1 DEF KindsOf
  <2>2. \A i \in DOMAIN ks : ks[i] \in StmtKinds
    BY <2>k DEF Item
  <2> QED
    BY <2>1, <2>2 DEF Suits
<1>2. kind \in Kinds
  BY DEF Kinds
<1>3. \A i \in 1..Len(r) : IsTree(r[i])
  BY DEF Item
<1> QED
  BY <1>1, <1>2, <1>3, Defaults, TreeOfList

LEMMA TreeOfArgs ==
    ASSUME NEW name \in Names, NEW r, IsSeq(r), \A i \in 1..Len(r) : Item(r[i], {"Arg"})
    PROVE  Item(B!Tree("Call", name, "void", <<>>, "+", r), {"Call"})
<1>1. Suits("Call", "void", KindsOf(r))
  <2>1. PICK ks : ks = KindsOf(r)
    OBVIOUS
  <2>k. ks = [i \in 1..Len(r) |-> r[i][1].kind]
    BY <2>1 DEF KindsOf
  <2>2. \A i \in DOMAIN ks : ks[i] = "Arg"
    BY <2>k DEF Item
  <2> QED
    BY <2>1, <2>2 DEF Suits
<1>2. "Call" \in Kinds
  BY DEF Kinds
<1>3. \A i \in 1..Len(r) : IsTree(r[i])
  BY DEF Item
<1> QED
  BY <1>1, <1>2, <1>3, Defaults, TreeOfList

(* What the parser makes of the parts, kind by kind. *)
MadePlain(file, p, s) ==
    /\ B!Made(file, "Program", p, s) = B!Tree("Program", "", "void", <<>>, "+", s)
    /\ B!Made(file, "Block", p, s) = B!Tree("Block", "", "void", <<>>, "+", s)
    /\ \A k \in {"Class", "FieldDecl", "ConstructorDecl"} :
           B!Made(file, k, p, s) = B!Tree("Class", "", "void", <<>>, "+", <<>>)
    /\ B!Made(file, "If", p, s) = B!Tree("If", "", "void", <<>>, "+", <<s[1], s[2]>>)
    /\ B!Made(file, "IfElse", p, s)
           = B!Tree("If", "", "void", <<>>, "+", <<s[1], s[2], s[3]>>)
    /\ B!Made(file, "While", p, s)
           = B!Tree("While", "", "void", <<>>, "+", <<s[1], s[2]>>)
    /\ B!Made(file, "Return", p, s) = B!Tree("Return", "", "void", <<>>, "+", <<s[1]>>)
    /\ B!Made(file, "ExprStmt", p, s)
           = B!Tree("ExprStmt", "", "void", <<>>, "+", <<s[1]>>)
    /\ B!Made(file, "Assignment", p, s)
           = B!Tree("Assign", "", "void", <<>>, "+", <<s[1], s[2]>>)
    /\ B!Made(file, "Argument", p, s) = B!Tree("Arg", "", "void", <<>>, "+", <<s[1]>>)

LEMMA MadeValue ==
    ASSUME NEW file, NEW p, NEW s
    PROVE  MadePlain(file, p, s)
<1>1. /\ B!Made(file, "Program", p, s) = B!Program(s)
      /\ B!Made(file, "Block", p, s) = B!Block(s)
      /\ \A k \in {"Class", "FieldDecl", "ConstructorDecl"} : B!Made(file, k, p, s) = B!Class
  BY DEF B!Made
<1>2. /\ B!Made(file, "If", p, s) = B!If(s[1], s[2])
      /\ B!Made(file, "IfElse", p, s) = B!IfElse(s[1], s[2], s[3])
      /\ B!Made(file, "While", p, s) = B!While(s[1], s[2])
      /\ B!Made(file, "Return", p, s) = B!Return(s[1])
  BY DEF B!Made
<1>3. /\ B!Made(file, "ExprStmt", p, s) = B!Do(s[1])
      /\ B!Made(file, "Assignment", p, s) = B!Assign(s[1], s[2])
      /\ B!Made(file, "Argument", p, s) = B!Arg(s[1])
  BY DEF B!Made
<1>4. /\ B!Program(s) = B!Tree("Program", "", "void", <<>>, "+", s)
      /\ B!Block(s) = B!Tree("Block", "", "void", <<>>, "+", s)
      /\ B!Class = B!Tree("Class", "", "void", <<>>, "+", <<>>)
  BY DEF B!Program, B!Block, B!Class, B!Plain
<1>5. /\ B!If(s[1], s[2]) = B!Tree("If", "", "void", <<>>, "+", <<s[1], s[2]>>)
      /\ B!IfElse(s[1], s[2], s[3]) = B!Tree("If", "", "void", <<>>, "+", <<s[1], s[2], s[3]>>)
      /\ B!While(s[1], s[2]) = B!Tree("While", "", "void", <<>>, "+", <<s[1], s[2]>>)
      /\ B!Return(s[1]) = B!Tree("Return", "", "void", <<>>, "+", <<s[1]>>)
      /\ B!Do(s[1]) = B!Tree("ExprStmt", "", "void", <<>>, "+", <<s[1]>>)
      /\ B!Assign(s[1], s[2]) = B!Tree("Assign", "", "void", <<>>, "+", <<s[1], s[2]>>)
      /\ B!Arg(s[1]) = B!Tree("Arg", "", "void", <<>>, "+", <<s[1]>>)
  BY DEF B!If, B!IfElse, B!While, B!Return, B!Do, B!Assign, B!Arg, B!Plain
<1> QED
  BY <1>1, <1>2, <1>3, <1>4, <1>5 DEF MadePlain

MadeNamed(file, p, s, value, type) ==
    /\ B!Made(file, "MethodDecl", p, s)
           = B!Tree("Method", value, type, [i \in 1..(Len(s) - 1) |-> s[i][1]], "+",
                    <<B!Last(s)>>)
    /\ B!Made(file, "Param", p, s) = <<[name |-> value, type |-> type]>>
    /\ B!Made(file, "VarDecl", p, s) = B!Tree("VarDecl", value, type, <<>>, "+", <<>>)
    /\ B!Made(file, "VarDeclInit", p, s)
           = B!Tree("VarDecl", value, type, <<>>, "+", <<s[1]>>)
    /\ B!Made(file, "Identifier", p, s) = B!Tree("Ident", value, "void", <<>>, "+", <<>>)
    /\ B!Made(file, "MethodCall", p, s) = B!Tree("Call", value, "void", <<>>, "+", s)

LEMMA MadeOfToken ==
    ASSUME NEW file, NEW p, NEW s,
           NEW value, value = B!TokenAt(file, p).value,
           NEW type, type = B!NamedType(B!TokenAt(file, p - 1).value)
    PROVE  MadeNamed(file, p, s, value, type)
<1>1. /\ B!Made(file, "MethodDecl", p, s)
             = B!Tree("Method", value, type, [i \in 1..(Len(s) - 1) |-> s[i][1]], "+",
                      <<B!Last(s)>>)
      /\ B!Made(file, "Param", p, s) = <<B!Param(type, value)>>
      /\ B!Made(file, "VarDecl", p, s) = B!Decl(type, value)
  BY DEF B!Made
<1>2. /\ B!Made(file, "VarDeclInit", p, s) = B!DeclInit(type, value, s[1])
      /\ B!Made(file, "Identifier", p, s) = B!Id(value)
      /\ B!Made(file, "MethodCall", p, s) = B!Tree("Call", value, "void", <<>>, "+", s)
  BY DEF B!Made
<1>3. /\ B!Param(type, value) = [name |-> value, type |-> type]
      /\ B!Decl(type, value) = B!Tree("VarDecl", value, type, <<>>, "+", <<>>)
      /\ B!DeclInit(type, value, s[1]) = B!Tree("VarDecl", value, type, <<>>, "+", <<s[1]>>)
      /\ B!Id(value) = B!Tree("Ident", value, "void", <<>>, "+", <<>>)
  BY DEF B!Param, B!Decl, B!DeclInit, B!Id
<1> QED
  BY <1>1, <1>2, <1>3 DEF MadeNamed

MadeOperated(file, p, s, op, type) ==
    /\ B!Made(file, "Binary", p, s)
           = B!Tree("Binary", "", "void", <<>>, op, <<s[1], s[2]>>)
    /\ B!Made(file, "Unary", p, s) = B!Tree("Unary", "", "void", <<>>, op, <<s[1]>>)
    /\ B!Made(file, "Literal", p, s) = B!Tree("Literal", "", type, <<>>, "+", <<>>)

LEMMA MadeOfOperator ==
    ASSUME NEW file, NEW p, NEW s, NEW op, op = B!Operator(B!TokenAt(file, p).type),
           NEW type, type = B!LiteralType(B!TokenAt(file, p).type)
    PROVE  MadeOperated(file, p, s, op, type)
<1>1. /\ B!Made(file, "Binary", p, s) = B!Binary(s[1], op, s[2])
      /\ B!Made(file, "Unary", p, s) = B!Unary(op, s[1])
      /\ B!Made(file, "Literal", p, s) = B!Lit(type)
  BY DEF B!Made
<1> QED
  BY <1>1 DEF B!Binary, B!Unary, B!Lit, MadeOperated

-----------------------------------------------------------------------------
(* The types and the operators are those of the syntax tree, whatever the  *)
(* token is; a name is one if the token is an identifier.                  *)
NamesAreKnown(file) ==
    \A p \in DOMAIN file : file[p].type = "ID" => file[p].value \in Names

LEMMA NameAt ==
    ASSUME NEW file, NamesAreKnown(file), NEW p, B!TokenAt(file, p).type = "ID"
    PROVE  B!TokenAt(file, p).value \in Names
BY DEF NamesAreKnown, B!TokenAt

LEMMA TypeAt ==
    ASSUME NEW value
    PROVE  B!NamedType(value) \in Types /\ B!LiteralType(value) \in LiteralTypes
BY DEF B!NamedType, B!LiteralType, Types, LiteralTypes

LEMMA OperatorOf ==
    ASSUME NEW type \in BinaryOperators, type # "EQUALS"
    PROVE  B!Operator(type) \in Ops
BY DEF B!Operator, BinaryOperators, Ops

-----------------------------------------------------------------------------
LEMMA MadeList ==
    ASSUME NEW file, NEW p, NEW s, IsSeq(s), NEW kind \in {"Program", "Block"},
           \A i \in 1..Len(s) : Item(s[i], StmtKinds)
    PROVE  Item(B!Made(file, kind, p, s), {kind})
<1>1. Item(B!Tree(kind, "", "void", <<>>, "+", s), {kind})
  BY TreeOfStmts
<1>2. MadePlain(file, p, s)
  BY MadeValue
<1> QED
  BY <1>1, <1>2 DEF MadePlain

LEMMA MadeMember ==
    ASSUME NEW file, NEW p, NEW s, NEW kind \in {"Class", "FieldDecl", "ConstructorDecl"}
    PROVE  Item(B!Made(file, kind, p, s), StmtKinds)
<1> PICK k, name, type : k = "Class" /\ name = "" /\ type = "void"
  OBVIOUS
<1>1. k \in {"VarDecl", "Literal", "Ident", "Class"} /\ name \in Names /\ type \in Types
      /\ k # "Literal"
  BY Defaults
<1>2. Item(B!Tree(k, name, type, <<>>, "+", <<>>), {k})
  BY <1>1, TreeOfNone
<1>3. Item(B!Tree("Class", "", "void", <<>>, "+", <<>>), {"Class"})
  BY <1>2
<1>4. MadePlain(file, p, s)
  BY MadeValue
<1> QED
  BY <1>3, <1>4, KindsApart DEF Item, MadePlain

LEMMA MadeParam ==
    ASSUME NEW file, NamesAreKnown(file), NEW p, NEW s, B!TokenAt(file, p).type = "ID"
    PROVE  IsParam(B!Made(file, "Param", p, s))
<1> PICK value, type : /\ value = B!TokenAt(file, p).value
                       /\ type = B!NamedType(B!TokenAt(file, p - 1).value)
  OBVIOUS
<1>1. value \in Names /\ type \in Types
  BY NameAt, TypeAt
<1>2a. MadeNamed(file, p, s, value, type)
  BY MadeOfToken
<1>2. B!Made(file, "Param", p, s) = <<[name |-> value, type |-> type]>>
  BY <1>2a DEF MadeNamed
<1> QED
  BY <1>1, <1>2 DEF IsParam

LEMMA MadeMethod ==
    ASSUME NEW file, NamesAreKnown(file), NEW p, B!TokenAt(file, p).type = "ID",
           NEW s, IsSeq(s), Len(s) >= 1,
           \A i \in 1..(Len(s) - 1) : IsParam(s[i]), Item(s[Len(s)], {"Block"})
    PROVE  Item(B!Made(file, "MethodDecl", p, s), StmtKinds)
<1> PICK value, type : /\ value = B!TokenAt(file, p).value
                       /\ type = B!NamedType(B!TokenAt(file, p - 1).value)
  OBVIOUS
<1> PICK a, n, ps : a = s[Len(s)] /\ n = Len(s) - 1 /\ ps = [i \in 1..n |-> s[i][1]]
  OBVIOUS
<1>1. value \in Names /\ type \in Types
  BY NameAt, TypeAt
<1>2. ps \in Seq([name : Names, type : Types])
  <2>1. n \in Nat
    BY LengthOf
  <2>2. \A i \in 1..n : s[i][1] \in [name : Names, type : Types]
    BY DEF IsParam
  <2> QED
    BY <2>1, <2>2
<1>3. B!Made(file, "MethodDecl", p, s) = B!Tree("Method", value, type, ps, "+", <<a>>)
  <2>1. B!Last(s) = a
    BY DEF B!Last
  <2>2a. MadeNamed(file, p, s, value, type)
    BY MadeOfToken
  <2>2. B!Made(file, "MethodDecl", p, s)
             = B!Tree("Method", value, type, [i \in 1..(Len(s) - 1) |-> s[i][1]], "+",
                      <<B!Last(s)>>)
    BY <2>2a DEF MadeNamed
  <2> QED
    BY <2>1, <2>2
<1>4. PICK k, op : k = "Method" /\ op = "+"
  OBVIOUS
<1>5. Item(B!Tree(k, value, type, ps, op, <<a>>), {k})
  <2>1. k \in {"Return", "ExprStmt", "Unary", "Arg", "VarDecl", "Method"} /\ op \in Ops
    BY <1>4, Defaults
  <2>2. IF k = "Method" THEN Item(a, {"Block"}) ELSE Item(a, ExprKinds)
    BY <1>4
  <2> QED
    BY <1>1, <1>2, <2>1, <2>2, TreeOfOne
<1> QED
  BY <1>3, <1>4, <1>5 DEF Item, StmtKinds

LEMMA MadeCall ==
    ASSUME NEW file, NamesAreKnown(file), NEW p, B!TokenAt(file, p).type = "ID",
           NEW s, IsSeq(s), \A i \in 1..Len(s) : Item(s[i], {"Arg"})
    PROVE  Item(B!Made(file, "MethodCall", p, s), ExprKinds)
<1> PICK value, type : /\ value = B!TokenAt(file, p).value
                       /\ type = B!NamedType(B!TokenAt(file, p - 1).value)
  OBVIOUS
<1>1. value \in Names
  BY NameAt
<1>2. Item(B!Tree("Call", value, "void", <<>>, "+", s), {"Call"})
  BY <1>1, TreeOfArgs
<1>3a. MadeNamed(file, p, s, value, type)
  BY MadeOfToken
<1>3. B!Made(file, "MethodCall", p, s) = B!Tree("Call", value, "void", <<>>, "+", s)
  BY <1>3a DEF MadeNamed
<1> QED
  BY <1>2, <1>3 DEF Item, ExprKinds

LEMMA MadeName ==
    ASSUME NEW file, NamesAreKnown(file), NEW p, B!TokenAt(file, p).type = "ID", NEW s
    PROVE  /\ Item(B!Made(file, "VarDecl", p, s), ExprKinds)
           /\ Item(B!Made(file, "Identifier", p, s), ExprKinds)
           /\ One(s, ExprKinds) => Item(B!Made(file, "VarDeclInit", p, s), ExprKinds)
<1> PICK value, type, t : /\ value = B!TokenAt(file, p).value
                          /\ type = B!NamedType(B!TokenAt(file, p - 1).value)
                          /\ t = "void"
  OBVIOUS
<1> PICK d, i, a, ps, op : d = "VarDecl" /\ i = "Ident" /\ a = s[1] /\ ps = <<>> /\ op = "+"
  OBVIOUS
<1>1. value \in Names /\ type \in Types /\ t \in Types /\ op \in Ops
      /\ ps \in Seq([name : Names, type : Types])
  BY NameAt, TypeAt, Defaults
<1>2. /\ d \in {"VarDecl", "Literal", "Ident", "Class"} /\ d # "Literal"
      /\ i \in {"VarDecl", "Literal", "Ident", "Class"} /\ i # "Literal"
      /\ d \in {"Return", "ExprStmt", "Unary", "Arg", "VarDecl", "Method"} /\ d # "Method"
      /\ d \in ExprKinds /\ i \in ExprKinds
  BY DEF ExprKinds
<1>3. Item(B!Tree(d, value, type, <<>>, "+", <<>>), {d})
  BY <1>1, <1>2, TreeOfNone
<1>4. Item(B!Tree(i, value, t, <<>>, "+", <<>>), {i})
  BY <1>1, <1>2, TreeOfNone
<1>5. One(s, ExprKinds) => Item(B!Tree(d, value, type, ps, op, <<a>>), {d})
  <2> SUFFICES ASSUME One(s, ExprKinds) PROVE Item(B!Tree(d, value, type, ps, op, <<a>>), {d})
    OBVIOUS
  <2>1. IF d = "Method" THEN Item(a, {"Block"}) ELSE Item(a, ExprKinds)
    BY <1>2 DEF One
  <2> QED
    BY <1>1, <1>2, <2>1, TreeOfOne
<1>6a. MadeNamed(file, p, s, value, type)
  BY MadeOfToken
<1>6. /\ B!Made(file, "VarDecl", p, s) = B!Tree(d, value, type, <<>>, "+", <<>>)
      /\ B!Made(file, "VarDeclInit", p, s) = B!Tree(d, value, type, ps, op, <<a>>)
      /\ B!Made(file, "Identifier", p, s) = B!Tree(i, value, t, <<>>, "+", <<>>)
  BY <1>6a DEF MadeNamed
<1> QED
  BY <1>2, <1>3, <1>4, <1>5, <1>6 DEF Item

-----------------------------------------------------------------------------
(* One function: it runs, it waits, it returns.                           *)

LEMMA MadeOne ==
    ASSUME NEW file, NEW p, NEW s, One(s, ExprKinds)
    PROVE  /\ Item(B!Made(file, "Return", p, s), StmtKinds)
           /\ Item(B!Made(file, "ExprStmt", p, s), StmtKinds)
           /\ Item(B!Made(file, "Argument", p, s), {"Arg"})
<1> PICK a, n, t, ps, op : a = s[1] /\ n = "" /\ t = "void" /\ ps = <<>> /\ op = "+"
  OBVIOUS
<1>1. /\ n \in Names /\ t \in Types /\ op \in Ops
      /\ ps \in Seq([name : Names, type : Types]) /\ Item(a, ExprKinds)
  BY Defaults DEF One
<1>2. ASSUME NEW k \in {"Return", "ExprStmt", "Arg"}
      PROVE  Item(B!Tree(k, n, t, ps, op, <<a>>), {k})
  <2>1. k \in {"Return", "ExprStmt", "Unary", "Arg", "VarDecl", "Method"}
    OBVIOUS
  <2>2. IF k = "Method" THEN Item(a, {"Block"}) ELSE Item(a, ExprKinds)
    BY <1>1
  <2> QED
    BY <1>1, <2>1, <2>2, TreeOfOne
<1>3. MadePlain(file, p, s)
  BY MadeValue
<1>4. /\ B!Made(file, "Return", p, s) = B!Tree("Return", n, t, ps, op, <<a>>)
      /\ B!Made(file, "ExprStmt", p, s) = B!Tree("ExprStmt", n, t, ps, op, <<a>>)
      /\ B!Made(file, "Argument", p, s) = B!Tree("Arg", n, t, ps, op, <<a>>)
  BY <1>3 DEF MadePlain
<1> QED
  BY <1>2, <1>4 DEF Item, StmtKinds

LEMMA MadeTwo ==
    ASSUME NEW file, NEW p, NEW s
    PROVE  /\ Two(s, ExprKinds, ExprKinds) => Item(B!Made(file, "Assignment", p, s), ExprKinds)
           /\ Two(s, ExprKinds, StmtKinds) => Item(B!Made(file, "If", p, s), StmtKinds)
           /\ Two(s, ExprKinds, StmtKinds) => Item(B!Made(file, "While", p, s), StmtKinds)
<1> PICK a, b, op : a = s[1] /\ b = s[2] /\ op = "+"
  OBVIOUS
<1>1. op \in Ops
  BY Defaults
<1>2. ASSUME NEW k \in {"Assign", "If", "While"}, Item(a, ExprKinds),
             Item(b, IF k \in {"If", "While"} THEN StmtKinds ELSE ExprKinds)
      PROVE  Item(B!Tree(k, "", "void", <<>>, op, <<a, b>>), {k})
  <2>1. k \in {"Binary", "Assign", "If", "While"}
    OBVIOUS
  <2> QED
    BY <1>1, <1>2, <2>1, TreeOfTwo
<1>3. MadePlain(file, p, s)
  BY MadeValue
<1>4. /\ B!Made(file, "Assignment", p, s) = B!Tree("Assign", "", "void", <<>>, op, <<a, b>>)
      /\ B!Made(file, "If", p, s) = B!Tree("If", "", "void", <<>>, op, <<a, b>>)
      /\ B!Made(file, "While", p, s) = B!Tree("While", "", "void", <<>>, op, <<a, b>>)
  BY <1>3 DEF MadePlain
<1>5. Two(s, ExprKinds, ExprKinds) => Item(B!Made(file, "Assignment", p, s), ExprKinds)
  BY <1>2, <1>4 DEF Item, ExprKinds, Two
<1>6. Two(s, ExprKinds, StmtKinds) => Item(B!Made(file, "If", p, s), StmtKinds)
  BY <1>2, <1>4 DEF Item, StmtKinds, Two
<1>7. Two(s, ExprKinds, StmtKinds) => Item(B!Made(file, "While", p, s), StmtKinds)
  BY <1>2, <1>4 DEF Item, StmtKinds, Two
<1> QED
  BY <1>5, <1>6, <1>7

LEMMA MadeThree ==
    ASSUME NEW file, NEW p, NEW s, Three(s, ExprKinds, StmtKinds, StmtKinds)
    PROVE  Item(B!Made(file, "IfElse", p, s), StmtKinds)
<1> PICK a, b, c : a = s[1] /\ b = s[2] /\ c = s[3]
  OBVIOUS
<1>1. Item(B!Tree("If", "", "void", <<>>, "+", <<a, b, c>>), {"If"})
  BY TreeOfThree DEF Three
<1>2. MadePlain(file, p, s)
  BY MadeValue
<1>3. B!Made(file, "IfElse", p, s) = B!Tree("If", "", "void", <<>>, "+", <<a, b, c>>)
  BY <1>2 DEF MadePlain
<1> QED
  BY <1>1, <1>3 DEF Item, StmtKinds

LEMMA MadeBinary ==
    ASSUME NEW file, NEW p, NEW s, Two(s, ExprKinds, ExprKinds),
           B!TokenAt(file, p).type \in BinaryOperators, B!TokenAt(file, p).type # "EQUALS"
    PROVE  Item(B!Made(file, "Binary", p, s), ExprKinds)
<1> PICK a, b, k, op, type :
         /\ a = s[1] /\ b = s[2] /\ k = "Binary"
         /\ op = B!Operator(B!TokenAt(file, p).type)
         /\ type = B!LiteralType(B!TokenAt(file, p).type)
  OBVIOUS
<1>1. op \in Ops
  BY OperatorOf
<1>2. /\ k \in {"Binary", "Assign", "If", "While"} /\ Item(a, ExprKinds)
      /\ Item(b, IF k \in {"If", "While"} THEN StmtKinds ELSE ExprKinds)
  BY DEF Two
<1>3. Item(B!Tree(k, "", "void", <<>>, op, <<a, b>>), {k})
  BY <1>1, <1>2, TreeOfTwo
<1>4. MadeOperated(file, p, s, op, type)
  BY MadeOfOperator
<1>5. B!Made(file, "Binary", p, s) = B!Tree(k, "", "void", <<>>, op, <<a, b>>)
  BY <1>4 DEF MadeOperated
<1> QED
  BY <1>3, <1>5 DEF Item, ExprKinds

LEMMA MadeUnary ==
    ASSUME NEW file, NEW p, NEW s, One(s, ExprKinds),
           B!TokenAt(file, p).type \in {"PLUS", "MINUS"}
    PROVE  Item(B!Made(file, "Unary", p, s), ExprKinds)
<1> PICK a, k, op, type, n, t, ps :
         /\ a = s[1] /\ k = "Unary" /\ n = "" /\ t = "void" /\ ps = <<>>
         /\ op = B!Operator(B!TokenAt(file, p).type)
         /\ type = B!LiteralType(B!TokenAt(file, p).type)
  OBVIOUS
<1>1. op \in Ops
  BY OperatorOf DEF BinaryOperators
<1>2. /\ k \in {"Return", "ExprStmt", "Unary", "Arg", "VarDecl", "Method"}
      /\ IF k = "Method" THEN Item(a, {"Block"}) ELSE Item(a, ExprKinds)
  BY DEF One
<1>3. n \in Names /\ t \in Types /\ ps \in Seq([name : Names, type : Types])
  BY Defaults
<1>4. Item(B!Tree(k, n, t, ps, op, <<a>>), {k})
  BY <1>1, <1>2, <1>3, TreeOfOne
<1>5. MadeOperated(file, p, s, op, type)
  BY MadeOfOperator
<1>6. B!Made(file, "Unary", p, s) = B!Tree(k, n, t, ps, op, <<a>>)
  BY <1>5 DEF MadeOperated
<1> QED
  BY <1>4, <1>6 DEF Item, ExprKinds

LEMMA MadeLiteral ==
    ASSUME NEW file, NEW p, NEW s
    PROVE  Item(B!Made(file, "Literal", p, s), ExprKinds)
<1> PICK k, op, type, n :
         /\ k = "Literal" /\ n = ""
         /\ op = B!Operator(B!TokenAt(file, p).type)
         /\ type = B!LiteralType(B!TokenAt(file, p).type)
  OBVIOUS
<1>1. type \in LiteralTypes /\ type \in Types /\ n \in Names
  BY TypeAt, Defaults
<1>2. k \in {"VarDecl", "Literal", "Ident", "Class"}
  OBVIOUS
<1>3. Item(B!Tree(k, n, type, <<>>, "+", <<>>), {k})
  BY <1>1, <1>2, TreeOfNone
<1>4. MadeOperated(file, p, s, op, type)
  BY MadeOfOperator
<1>5. B!Made(file, "Literal", p, s) = B!Tree(k, n, type, <<>>, "+", <<>>)
  BY <1>4 DEF MadeOperated
<1> QED
  BY <1>3, <1>5 DEF Item, ExprKinds
-----------------------------------------------------------------------------
(* A function runs, with what it has made from the part after e on. *)
Runs(file, current, cs, g, ps, e) ==
    /\ e \in 0..Len(ps)
    /\ Beneath(file, cs, g, ps, e)
    /\ Ready(file, current, g, Under(cs), Seg(ps, e, Len(ps)))

Tops(ds, frame, cs) ==
    /\ IsSeq(ds) /\ ds # <<>> /\ ds[1] = frame
    /\ Tail(ds) = cs /\ Under(ds) = frame[1]

LEMMA OnStack ==
    ASSUME NEW cs, IsSeq(cs), NEW frame, NEW ds, ds = <<frame>> \o cs
    PROVE  Tops(ds, frame, cs)
<1>1. PICK S : cs \in Seq(S)
  BY DEF IsSeq
<1>2. cs \in Seq(S \union {frame}) /\ <<frame>> \in Seq(S \union {frame})
  BY <1>1
<1>3. ds \in Seq(S \union {frame}) /\ ds[1] = frame /\ ds # <<>>
  BY <1>2
<1>4. Tail(ds) = cs
  <2>1. Len(ds) = Len(cs) + 1 /\ Len(Tail(ds)) = Len(cs) /\ Tail(ds) \in Seq(S \union {frame})
    BY <1>2, <1>3
  <2>2. \A i \in 1..Len(cs) : Tail(ds)[i] = cs[i]
    <3> TAKE i \in 1..Len(cs)
    <3>1. Tail(ds)[i] = ds[i + 1]
      BY <1>2, <1>3, <2>1
    <3>2. ds[i + 1] = cs[i]
      BY <1>2
    <3> QED
      BY <3>1, <3>2
  <2> QED
    BY <1>2, <2>1, <2>2
<1> QED
  BY <1>3, <1>4 DEF IsSeq, Under, Tops

LEMMA Running ==
    ASSUME NEW file, NEW current, NEW cs, IsSeq(cs), NEW frame, Fine(file, frame),
           NEW ps, IsSeq(ps), NEW e, Runs(file, current, cs, frame[1], ps, e)
    PROVE  Shape(file, <<frame>> \o cs, ps, current)
<1> PICK ds : ds = <<frame>> \o cs
  OBVIOUS
<1>1. Tops(ds, frame, cs)
  BY OnStack
<1> QED
  BY <1>1 DEF Shape, Runs, Tops

LEMMA Runner ==
    ASSUME NEW file, NEW current, NEW cs, cs # <<>>, NEW ps, Shape(file, cs, ps, current)
    PROVE  /\ IsSeq(cs) /\ IsSeq(Tail(cs)) /\ IsSeq(ps) /\ Fine(file, cs[1])
           /\ \E e \in 0..Len(ps) : Runs(file, current, Tail(cs), cs[1][1], ps, e)
BY HeadAndTail DEF Shape, Runs

LEMMA Waiting ==
    ASSUME NEW file, NEW cs, IsSeq(cs), NEW frame, Fine(file, frame), NEW g,
           NEW ps, IsSeq(ps), NEW e \in 0..Len(ps), NEW c \in 0..e,
           Beneath(file, cs, frame[1], ps, c), Holds(frame[1], g, Under(cs), Seg(ps, c, e))
    PROVE  Beneath(file, <<frame>> \o cs, g, ps, e)
BY BeneathOne

LEMMA EmptySeg ==
    ASSUME NEW ps, IsSeq(ps), NEW e \in 0..Len(ps)
    PROVE  /\ Seg(ps, e, e) = <<>>
           /\ Seg(ps, e, Len(ps)) = <<>> => e = Len(ps)
           /\ Len(ps) \in 0..Len(ps)
<1>1. Len(ps) \in Nat /\ e \in Nat /\ e <= Len(ps)
  BY LengthOf
<1>2. Seg(ps, e, e) = <<>>
  BY <1>1, SegIs
<1>3. Seg(ps, e, Len(ps)) = <<>> => e = Len(ps)
  BY <1>1, SegIs
<1> QED
  BY <1>1, <1>2, <1>3
-----------------------------------------------------------------------------
(* A function returns: with the one tree there is, or a node made of all   *)
(* it has.                                                                 *)
LEMMA ReturnsPart ==
    ASSUME NEW file, NEW current, NEW next, NEW cs, IsSeq(cs), NEW g, NEW ps, IsSeq(ps), NEW e,
           Runs(file, current, cs, g, ps, e), One(Seg(ps, e, Len(ps)), Gives(g)),
           g \notin {"Params", "Block", "Statement"}
    PROVE  Shape(file, cs, ps, next)
<1>1. Len(ps) \in Nat /\ e \in Nat /\ e <= Len(ps)
  BY LengthOf DEF Runs
<1>2. IsSeg(Seg(ps, e, Len(ps)), ps, e, Len(ps) - e)
  BY <1>1, SegIs
<1>3. PICK t : t = Seg(ps, e, Len(ps))[1]
  OBVIOUS
<1>4. Len(ps) - e = 1 /\ Item(t, Gives(g)) /\ t = ps[e + 1]
  BY <1>2, <1>3 DEF One, IsSeg
<1>5. Len(ps) = e + 1 /\ \A i \in 1..e : ps[i] = ps[i]
  BY <1>1, <1>4
<1>6. e \in 0..Len(ps) /\ Beneath(file, cs, g, ps, e)
  BY DEF Runs
<1> QED
  BY <1>4, <1>5, <1>6, Returned

LEMMA ReturnsTaken ==
    ASSUME NEW file, NEW current, NEW next, NEW cs, IsSeq(cs), NEW g, NEW ps, IsSeq(ps), NEW e,
           Runs(file, current, cs, g, ps, e), NEW qs, NEW t, TakenFor(qs, ps, e, t),
           Item(t, Gives(g)), g \notin {"Params", "Block", "Statement"}
    PROVE  Shape(file, cs, qs, next)
<1>1. /\ IsSeq(qs) /\ Len(qs) = e + 1 /\ \A i \in 1..e : qs[i] = ps[i]
      /\ qs[e + 1] = t
  BY DEF TakenFor
<1>2. e \in 0..Len(ps) /\ Beneath(file, cs, g, ps, e)
  BY DEF Runs
<1> QED
  BY <1>1, <1>2, Returned

LEMMA ReturnsNode ==
    ASSUME NEW file, NEW current, NEW next, NEW cs, IsSeq(cs), NEW g, NEW ps, IsSeq(ps), NEW e,
           Runs(file, current, cs, g, ps, e), g \notin {"Params", "Block", "Statement"},
           NEW kind, kind \notin B!ListKinds, kind # "Open", NEW p,
           NEW s, s = Seg(ps, e, Len(ps)), Len(s) = B!Arity[kind],
           Item(B!Made(file, kind, p, s), Gives(g))
    PROVE  Shape(file, cs, B!Push(file, ps, <<kind, p>>), next)
<1>1. Len(ps) \in Nat /\ e \in Nat /\ e <= Len(ps)
  BY LengthOf DEF Runs
<1>2. IsSeg(s, ps, e, Len(ps) - e)
  BY <1>1, SegIs
<1>3. PICK n : n = Len(s)
  OBVIOUS
<1>4. n \in Nat /\ B!Arity[kind] = n /\ n <= Len(ps) /\ e = Len(ps) - n
  <2>1. n = Len(ps) - e
    BY <1>2, <1>3 DEF IsSeg
  <2> QED
    BY <1>1, <1>3, <2>1
<1>5. TakenFor(B!Push(file, ps, <<kind, p>>), ps, e, B!Made(file, kind, p, Seg(ps, e, Len(ps))))
  BY <1>4, PushFixed
<1>6. PICK qs, t : qs = B!Push(file, ps, <<kind, p>>) /\ t = B!Made(file, kind, p, s)
  OBVIOUS
<1>7. TakenFor(qs, ps, e, t) /\ Item(t, Gives(g))
  BY <1>5, <1>6
<1>8. Shape(file, cs, qs, next)
  BY <1>7, ReturnsTaken
<1> QED
  BY <1>6, <1>8

LEMMA ReturnsList ==
    ASSUME NEW file, NEW current, NEW next, NEW cs, IsSeq(cs), NEW g, NEW ps, IsSeq(ps), NEW e,
           Runs(file, current, cs, g, ps, e), g \notin {"Params", "Block", "Statement"},
           NEW kind \in B!ListKinds, NEW p,
           NEW s, s = Seg(ps, e, Len(ps)), Len(s) >= 1, s[1] = <<>>,
           \A i \in 2..Len(s) : s[i] # <<>>,
           Item(B!Made(file, kind, p, Seg(ps, e + 1, Len(ps))), Gives(g))
    PROVE  Shape(file, cs, B!Push(file, ps, <<kind, p>>), next)
<1>1. Len(ps) \in Nat /\ e \in Nat /\ e <= Len(ps)
  BY LengthOf DEF Runs
<1>2. IsSeg(s, ps, e, Len(ps) - e)
  BY <1>1, SegIs
<1>3. e + 1 <= Len(ps) /\ ps[e + 1] = <<>>
  <2>1. Len(s) = Len(ps) - e /\ s[1] = ps[e + 1]
    BY <1>1, <1>2 DEF IsSeg
  <2> QED
    BY <1>1, <2>1
<1>4. \A i \in (e + 2)..Len(ps) : ps[i] # <<>>
  <2> TAKE i \in (e + 2)..Len(ps)
  <2>1. PICK j : j = i - e
    OBVIOUS
  <2>2. j \in 2..(Len(ps) - e) /\ j \in 1..(Len(ps) - e) /\ e + j = i
    BY <1>1, <2>1
  <2>3. Len(s) = Len(ps) - e /\ s[j] = ps[e + j]
    BY <1>2, <2>2 DEF IsSeg
  <2> QED
    BY <2>2, <2>3
<1>5. TakenFor(B!Push(file, ps, <<kind, p>>), ps, e,
            B!Made(file, kind, p, Seg(ps, e + 1, Len(ps))))
  BY <1>1, <1>3, <1>4, PushList
<1>6. PICK qs, t : qs = B!Push(file, ps, <<kind, p>>)
                   /\ t = B!Made(file, kind, p, Seg(ps, e + 1, Len(ps)))
  OBVIOUS
<1>7. TakenFor(qs, ps, e, t) /\ Item(t, Gives(g))
  BY <1>5, <1>6
<1>8. Shape(file, cs, qs, next)
  BY <1>7, ReturnsTaken
<1> QED
  BY <1>6, <1>8

-----------------------------------------------------------------------------
(* One function calls others.                                             *)

(* A list that has just been opened is empty.                              *)
LEMMA Opened ==
    ASSUME NEW file, NEW cs, IsSeq(cs), NEW h, NEW ps, IsSeq(ps), NEW e, e = Len(ps),
           Beneath(file, cs, h, ps, e), NEW qs, qs = Append(ps, <<>>), NEW kinds
    PROVE  /\ IsSeq(qs) /\ e \in 0..Len(qs)
           /\ Beneath(file, cs, h, qs, e)
           /\ ListOf(Seg(qs, e, Len(qs)), kinds)
           /\ ParamList(Seg(qs, e, Len(qs)))
<1>1. PICK S : ps \in Seq(S)
  BY DEF IsSeq
<1>2. e \in Nat /\ qs \in Seq(S \union {<<>>}) /\ Len(qs) = e + 1 /\ qs[e + 1] = <<>>
      /\ \A i \in 1..e : qs[i] = ps[i]
  <2>1. ps \in Seq(S \union {<<>>})
    BY <1>1
  <2> QED
    BY <1>1, <2>1
<1>3. IsSeq(qs) /\ e \in 0..Len(qs) /\ e <= Len(qs) /\ e <= Len(ps) /\ e \in 0..Len(ps)
  BY <1>2 DEF IsSeq
<1>4. Beneath(file, cs, h, qs, e)
  <2>1. \A i \in 1..e : qs[i] = ps[i]
    BY <1>2
  <2> QED
    BY <1>2, <1>3, <2>1, BeneathSame
<1>5. PICK s, d : s = Seg(qs, e, Len(qs)) /\ d = Len(qs)
  OBVIOUS
<1>6. Len(s) = 1 /\ s[1] = <<>>
  <2>1. d \in Nat /\ e <= d /\ d = e + 1 /\ d <= Len(qs)
    BY <1>2, <1>5
  <2>2. IsSeg(Seg(qs, e, d), qs, e, d - e)
    BY <1>2, <1>3, <2>1, SegIs
  <2>3. d - e = 1 /\ e + 1 \in Nat
    BY <1>2, <2>1
  <2> QED
    BY <1>2, <1>5, <2>2, <2>3 DEF IsSeg
<1>7. ListOf(s, kinds) /\ ParamList(s)
  BY <1>6 DEF ListOf, ParamList
<1> QED
  BY <1>3, <1>4, <1>5, <1>7

LEMMA Stacked ==
    ASSUME NEW cs, IsSeq(cs), NEW a, NEW b
    PROVE  <<a>> \o (<<b>> \o cs) = <<a, b>> \o cs
<1>1. PICK S : cs \in Seq(S)
  BY DEF IsSeq
<1>2. PICK T : T = S \union {a, b}
  OBVIOUS
<1>3. cs \in Seq(T) /\ <<a>> \in Seq(T) /\ <<b>> \in Seq(T) /\ <<a, b>> \in Seq(T)
  BY <1>1, <1>2
<1>4. PICK ds, l, r, n : ds = <<b>> \o cs /\ l = <<a>> \o ds /\ r = <<a, b>> \o cs /\ n = Len(cs)
  OBVIOUS
<1>5. n \in Nat /\ ds \in Seq(T) /\ Len(ds) = n + 1 /\ ds[1] = b
      /\ \A i \in 1..n : ds[i + 1] = cs[i]
  BY <1>3, <1>4
<1>6. l \in Seq(T) /\ Len(l) = n + 2 /\ l[1] = a /\ \A i \in 1..(n + 1) : l[i + 1] = ds[i]
  BY <1>3, <1>4, <1>5
<1>7. r \in Seq(T) /\ Len(r) = n + 2 /\ r[1] = a /\ r[2] = b
      /\ \A i \in 1..n : r[i + 2] = cs[i]
  BY <1>3, <1>4, <1>5
<1>8. \A i \in 1..(n + 2) : l[i] = r[i]
  <2> TAKE i \in 1..(n + 2)
  <2>1. CASE i = 1
    BY <1>6, <1>7, <2>1
  <2>2. CASE i = 2
    <3>1. 1 \in 1..(n + 1) /\ 1 + 1 = 2
      BY <1>5
    <3>2. l[2] = ds[1]
      BY <1>6, <3>1
    <3> QED
      BY <1>5, <1>7, <2>2, <3>2
  <2>3. CASE i > 2
    <3>1. PICK k : k = i - 2
      OBVIOUS
    <3>2. k \in 1..n /\ k + 1 \in 1..(n + 1) /\ i = k + 2 /\ (k + 1) + 1 = i
      BY <1>5, <2>3, <3>1
    <3>3. l[(k + 1) + 1] = ds[k + 1]
      BY <1>6, <3>2
    <3>4. ds[k + 1] = cs[k] /\ r[k + 2] = cs[k]
      BY <1>5, <1>7, <3>2
    <3> QED
      BY <3>2, <3>3, <3>4
  <2> QED
    BY <1>5, <2>1, <2>2, <2>3
<1>9. l = r
  <2>1. PICK k : k = n + 2
    OBVIOUS
  <2>2. l \in Seq(T) /\ r \in Seq(T) /\ Len(l) = k /\ Len(r) = k
    BY <1>6, <1>7, <2>1
  <2>3. l = [i \in 1..k |-> l[i]] /\ r = [i \in 1..k |-> r[i]]
    BY <2>2
  <2>4. \A i \in 1..k : l[i] = r[i]
    BY <1>8, <2>1
  <2> QED
    BY <2>3, <2>4
<1> QED
  BY <1>4, <1>9

LEMMA StackedTwo ==
    ASSUME NEW cs, IsSeq(cs), NEW a, NEW b, NEW c, NEW ds, ds = <<c>> \o cs
    PROVE  <<a, b>> \o ds = <<a, b, c>> \o cs
BY DEF IsSeq

LEMMA TwoFrames ==
    ASSUME NEW file, NEW next, NEW cs, IsSeq(cs), NEW ps, IsSeq(ps), NEW c \in 0..Len(ps),
           NEW wait, NEW top, Beneath(file, cs, wait[1], ps, c),
           Fine(file, wait), Fine(file, top),
           Holds(wait[1], top[1], Under(cs), Seg(ps, c, Len(ps))),
           Ready(file, next, top[1], wait[1], <<>>)
    PROVE  Shape(file, <<top, wait>> \o cs, ps, next)
<1> PICK ds, e : ds = <<wait>> \o cs /\ e = Len(ps)
  OBVIOUS
<1>1. IsSeq(ds) /\ Under(ds) = wait[1]
  <2>1. Tops(ds, wait, cs)
    BY OnStack
  <2> QED
    BY <2>1 DEF Tops
<1>2. e \in 0..Len(ps) /\ c \in 0..e /\ Seg(ps, e, Len(ps)) = <<>>
  BY EmptySeg
<1>3. Holds(wait[1], top[1], Under(cs), Seg(ps, c, e))
  OBVIOUS
<1>4. Beneath(file, ds, top[1], ps, e)
  BY <1>2, <1>3, Waiting
<1>5. Runs(file, next, ds, top[1], ps, e)
  BY <1>1, <1>2, <1>4 DEF Runs
<1>6. Shape(file, <<top>> \o ds, ps, next)
  BY <1>1, <1>5, Running
<1>7. <<top>> \o ds = <<top, wait>> \o cs
  BY Stacked
<1> QED
  BY <1>6, <1>7

LEMMA ThreeFrames ==
    ASSUME NEW file, NEW next, NEW cs, IsSeq(cs), NEW ps, IsSeq(ps), NEW c \in 0..Len(ps),
           NEW d \in 0..Len(ps), c <= d,
           NEW low, NEW wait, NEW top, Beneath(file, cs, low[1], ps, c),
           Fine(file, low), Fine(file, wait), Fine(file, top),
           Holds(low[1], wait[1], Under(cs), Seg(ps, c, d)),
           Holds(wait[1], top[1], low[1], Seg(ps, d, Len(ps))),
           Ready(file, next, top[1], wait[1], <<>>)
    PROVE  Shape(file, <<top, wait, low>> \o cs, ps, next)
<1> PICK ds : ds = <<low>> \o cs
  OBVIOUS
<1>1. IsSeq(ds) /\ Under(ds) = low[1]
  <2>1. Tops(ds, low, cs)
    BY OnStack
  <2> QED
    BY <2>1 DEF Tops
<1>2. c \in 0..d
  <2>1. Len(ps) \in Nat
    BY LengthOf
  <2> QED
    BY <2>1
<1>3. Beneath(file, ds, wait[1], ps, d)
  BY <1>2, Waiting
<1>4. Holds(wait[1], top[1], Under(ds), Seg(ps, d, Len(ps)))
  BY <1>1
<1>5. Shape(file, <<top, wait>> \o ds, ps, next)
  BY <1>1, <1>3, <1>4, TwoFrames
<1>6. <<top, wait>> \o ds = <<top, wait, low>> \o cs
  BY StackedTwo
<1> QED
  BY <1>5, <1>6

-----------------------------------------------------------------------------
(* One function gives way to another.                                      *)
LEMMA GivesWay ==
    ASSUME NEW file, NEW current, NEW cs, IsSeq(cs), NEW g, NEW ps, IsSeq(ps), NEW e,
           Runs(file, current, cs, g, ps, e),
           NEW h, h # "Statement", h = "Block" => g = "Statement",
           g \in {"Statement", "Block"} \/ Seg(ps, e, Len(ps)) = <<>>,
           Gives(h) \subseteq Gives(g)
    PROVE  Beneath(file, cs, h, ps, Len(ps))
BY Entered DEF Runs

Pairs ==
    {<<"Statement", "Block">>, <<"Statement", "MethodDecl">>, <<"Statement", "If">>,
     <<"Statement", "While">>, <<"Statement", "Class">>, <<"Member", "BareMember">>,
     <<"BareMember", "MethodDecl">>, <<"BareMember", "FieldDecl">>,
     <<"BareMember", "ConstructorDecl">>, <<"Expr", "VarDecl">>, <<"Expr", "MethodCall">>}

LEMMA PlainFine ==
    ASSUME NEW file, NEW h, NEW l,
           h \notin {"Binary", "Operators", "EndBinary", "EndUnary", "EndVarDecl", "EndMethod",
                     "Arguments"}
    PROVE  Fine(file, <<h, l>>)
BY DEF Fine

LEMMA StepsInto ==
    ASSUME NEW file, NEW current, NEW next, NEW cs, IsSeq(cs), NEW ps, IsSeq(ps), NEW e,
           NEW g, NEW h, <<g, h>> \in Pairs, Runs(file, current, cs, g, ps, e),
           h = "MethodCall" => B!TokenAt(file, next).type = "ID"
    PROVE  Shape(file, <<<<h, 0>>>> \o cs, ps, next)
<1>1. /\ g \in {"Statement", "Member", "BareMember", "Expr"}
      /\ h \in {"Block", "MethodDecl", "If", "While", "Class", "BareMember", "FieldDecl",
                "ConstructorDecl", "VarDecl", "MethodCall"}
      /\ (h = "Block" => g = "Statement")
      /\ (g = "Expr" <=> h \in {"VarDecl", "MethodCall"})
  BY DEF Pairs
<1>2. Gives(h) \subseteq Gives(g)
  <2>1. CASE g = "Expr"
    <3>1. g \in ExprPlaces /\ h \in ExprPlaces
      BY <1>1, <2>1 DEF ExprPlaces
    <3> QED
      BY <3>1, GivesValue
  <2>2. CASE g # "Expr"
    <3>1. Gives(g) = StmtKinds
      <4>1. g \notin {"Program", "InProgram", "Block", "InBlock", "EndArgument", "Params"}
                        \union ExprPlaces
        BY <1>1, <2>2 DEF ExprPlaces
      <4> QED
        BY <4>1, GivesValue
    <3>2. CASE h = "Block"
      BY <3>1, <3>2, GivesValue, KindsApart
    <3>3. CASE h # "Block"
      <4>1. h \notin {"Program", "InProgram", "Block", "InBlock", "EndArgument", "Params"}
                        \union ExprPlaces
        BY <1>1, <2>2, <3>3 DEF ExprPlaces
      <4> QED
        BY <3>1, <4>1, GivesValue
    <3> QED
      BY <3>2, <3>3
  <2> QED
    BY <2>1, <2>2
<1>3. g \in {"Statement", "Block"} \/ Seg(ps, e, Len(ps)) = <<>>
  BY <1>1 DEF Runs, Ready
<1>4. Beneath(file, cs, h, ps, Len(ps))
  <2>1. h # "Statement"
    BY <1>1
  <2> QED
    BY <1>1, <1>2, <1>3, <2>1, GivesWay
<1>5. h = "Block" => Under(cs) \notin {"EndMethod", "EndConstructor"}
  <2> SUFFICES ASSUME h = "Block", Under(cs) \in {"EndMethod", "EndConstructor"} PROVE FALSE
    OBVIOUS
  <2>1. g = "Statement" /\ cs # <<>>
    BY <1>1 DEF Under
  <2>2. Beneath(file, cs, g, ps, e) /\ e \in 0..Len(ps)
    BY DEF Runs
  <2>3. PICK c \in 0..e : Holds(cs[1][1], g, Under(Tail(cs)), Seg(ps, c, e))
    BY <2>1, <2>2, BeneathTop
  <2>4. Gives(g) \subseteq Awaits(cs[1][1]) /\ Under(cs) = cs[1][1]
    BY <2>1, <2>3, HeadAndTail DEF Holds
  <2>5. Awaits(cs[1][1]) = {"Block"}
    BY <2>4, AwaitsIs
  <2>6. Gives(g) = StmtKinds
    <3>1. g \notin {"Program", "InProgram", "Block", "InBlock", "EndArgument", "Params"}
                      \union ExprPlaces
      BY <2>1 DEF ExprPlaces
    <3> QED
      BY <3>1, GivesValue
  <2> QED
    BY <2>4, <2>5, <2>6, KindsApart
<1>6. Ready(file, next, h, Under(cs), <<>>)
  BY <1>1, <1>5 DEF Ready
<1>7. PICK m : m = Len(ps)
  OBVIOUS
<1>8. m \in 0..Len(ps) /\ Seg(ps, m, Len(ps)) = <<>>
  <2>1. Len(ps) \in 0..Len(ps)
    BY LengthOf
  <2> QED
    BY <1>7, <2>1, EmptySeg
<1>9. PICK frame : frame = <<h, 0>>
  OBVIOUS
<1>10. frame[1] = h /\ Fine(file, frame)
  BY <1>1, <1>9, PlainFine
<1>11. Runs(file, next, cs, frame[1], ps, m)
  BY <1>4, <1>6, <1>7, <1>8, <1>10 DEF Runs
<1> QED
  BY <1>9, <1>10, <1>11, Running

StmtPlaces ==
    {"Statement", "StmtEnd", "DeclEnd", "Class", "Members", "Member", "BareMember",
     "FieldDecl", "ConstructorDecl", "EndConstructor", "MethodDecl", "EndMethod", "If",
     "Else", "EndElse", "While", "EndWhile", "Return", "EndReturn", "ExprStmt",
     "EndExprStmt"}

LEMMA GivesAll ==
    /\ \A g \in StmtPlaces : Gives(g) = StmtKinds
    /\ \A g \in ExprPlaces : Gives(g) = ExprKinds
<1>1. \A g \in StmtPlaces : g \notin {"Program", "InProgram", "Block", "InBlock",
                                       "EndArgument", "Params"} \union ExprPlaces
  BY DEF StmtPlaces, ExprPlaces
<1> QED
  BY <1>1, GivesValue

(* ... which opens a list.                                                 *)
LEMMA StepsOpen ==
    ASSUME NEW file, NEW current, NEW next, NEW cs, IsSeq(cs), NEW ps, IsSeq(ps), NEW e,
           NEW g, NEW h, NEW l,
           <<g, h>> \in {<<"Program", "InProgram">>, <<"Class", "Members">>,
                         <<"Block", "InBlock">>, <<"MethodCall", "Arguments">>},
           Runs(file, current, cs, g, ps, e),
           h = "Arguments" => B!TokenAt(file, l).type = "ID"
    PROVE  Shape(file, <<<<h, l>>>> \o cs, Append(ps, <<>>), next)
<1>1. /\ h \in {"InProgram", "Members", "InBlock", "Arguments"}
      /\ g \in {"Program", "Class", "Block", "MethodCall"}
  OBVIOUS
<1>2. Gives(h) \subseteq Gives(g)
  <2>1. CASE g \in {"Program", "Block"}
    BY <2>1, GivesValue
  <2>2. CASE g = "Class"
    <3>1. h \in StmtPlaces /\ g \in StmtPlaces
      BY <2>2 DEF StmtPlaces
    <3> QED
      BY <3>1, GivesAll
  <2>3. CASE g = "MethodCall"
    <3>1. h \in ExprPlaces /\ g \in ExprPlaces
      BY <2>3 DEF ExprPlaces
    <3> QED
      BY <3>1, GivesAll
  <2> QED
    BY <1>1, <2>1, <2>2, <2>3
<1>3. g \in {"Statement", "Block"} \/ Seg(ps, e, Len(ps)) = <<>>
  BY <1>1 DEF Runs, Ready
<1>4. Beneath(file, cs, h, ps, Len(ps))
  <2>1. h # "Statement" /\ h # "Block"
    BY <1>1
  <2> QED
    BY <1>2, <1>3, <2>1, GivesWay
<1>5. PICK m, qs, frame : m = Len(ps) /\ qs = Append(ps, <<>>) /\ frame = <<h, l>>
  OBVIOUS
<1>6. /\ IsSeq(qs) /\ m \in 0..Len(qs) /\ Beneath(file, cs, h, qs, m)
      /\ ListOf(Seg(qs, m, Len(qs)), StmtKinds)
  BY <1>4, <1>5, Opened
<1>7. ListOf(Seg(qs, m, Len(qs)), {"Arg"})
  BY <1>4, <1>5, Opened
<1>8. Ready(file, next, h, Under(cs), Seg(qs, m, Len(qs)))
  BY <1>1, <1>6, <1>7 DEF Ready
<1>9. frame[1] = h /\ Fine(file, frame)
  BY <1>1, <1>5 DEF Fine
<1>10. Runs(file, next, cs, frame[1], qs, m)
  BY <1>6, <1>8, <1>9 DEF Runs
<1> QED
  BY <1>5, <1>6, <1>9, <1>10, Running

(* A function calls another and waits for it.                              *)
Calls ==
    {<<"Statement", "DeclEnd", "VarDecl">>, <<"Statement", "StmtEnd", "Return">>,
     <<"Statement", "StmtEnd", "ExprStmt">>, <<"Return", "EndReturn", "Binary">>,
     <<"ExprStmt", "EndExprStmt", "Binary">>, <<"ExprStmt", "EndExprStmt", "MethodCall">>,
     <<"VarDecl", "EndVarDecl", "Binary">>, <<"Binary", "Operators", "Unary">>,
     <<"Binary", "Operators", "Expr">>, <<"Unary", "EndUnary", "Binary">>,
     <<"Expr", "EndGroup", "Binary">>}

LEMMA StepsIntoTwo ==
    ASSUME NEW file, NEW current, NEW next, NEW cs, IsSeq(cs), NEW ps, IsSeq(ps), NEW e,
           NEW g, NEW w, NEW h, <<g, w, h>> \in Calls,
           Runs(file, current, cs, g, ps, e),
           NEW l, NEW m, Fine(file, <<w, l>>), Fine(file, <<h, m>>),
           h = "MethodCall" => B!TokenAt(file, next).type = "ID",
           h = "Unary" => B!TokenAt(file, next).type \in {"PLUS", "MINUS"}
    PROVE  Shape(file, <<<<h, m>>, <<w, l>>>> \o cs, ps, next)
<1>1. /\ g \in {"Statement", "Return", "ExprStmt", "VarDecl", "Binary", "Unary", "Expr"}
      /\ w \in {"DeclEnd", "StmtEnd", "EndReturn", "EndExprStmt", "EndVarDecl", "Operators",
                "EndUnary", "EndGroup"}
      /\ h \in {"VarDecl", "Return", "ExprStmt", "Binary", "MethodCall", "Unary", "Expr"}
      /\ g \in {"Statement", "Return", "ExprStmt"} <=>
             w \in {"DeclEnd", "StmtEnd", "EndReturn", "EndExprStmt"}
      /\ w = "StmtEnd" <=> h \in {"Return", "ExprStmt"}
  BY DEF Calls
<1>2. Gives(w) \subseteq Gives(g)
  <2>1. CASE g \in {"Statement", "Return", "ExprStmt"}
    <3>1. w \in StmtPlaces /\ g \in StmtPlaces
      BY <1>1, <2>1 DEF StmtPlaces
    <3> QED
      BY <3>1, GivesAll
  <2>2. CASE g \notin {"Statement", "Return", "ExprStmt"}
    <3>1. w \in ExprPlaces /\ g \in ExprPlaces
      BY <1>1, <2>2 DEF ExprPlaces
    <3> QED
      BY <3>1, GivesAll
  <2> QED
    BY <2>1, <2>2
<1>3. g \in {"Statement", "Block"} \/ Seg(ps, e, Len(ps)) = <<>>
  BY <1>1 DEF Runs, Ready
<1>4. Beneath(file, cs, w, ps, Len(ps))
  <2>1. w # "Statement" /\ w # "Block"
    BY <1>1
  <2> QED
    BY <1>2, <1>3, <2>1, GivesWay
<1>5. Gives(h) \subseteq Awaits(w)
  <2>1. CASE w = "StmtEnd"
    <3>1. h \in StmtPlaces
      BY <1>1, <2>1 DEF StmtPlaces
    <3> QED
      BY <2>1, <3>1, GivesAll, AwaitsIs
  <2>2. CASE w # "StmtEnd"
    <3>1. h \in ExprPlaces
      BY <1>1, <2>2 DEF ExprPlaces
    <3>2. Awaits(w) = ExprKinds
      BY <1>1, <2>2, AwaitsIs
    <3> QED
      BY <3>1, <3>2, GivesAll
  <2> QED
    BY <2>1, <2>2
<1>6. Holds(w, h, Under(cs), <<>>)
  BY <1>1, <1>5 DEF Holds
<1>7. Ready(file, next, h, w, <<>>)
  BY <1>1 DEF Ready
<1>8. PICK c, wait, top : c = Len(ps) /\ wait = <<w, l>> /\ top = <<h, m>>
  OBVIOUS
<1>9. c \in 0..Len(ps) /\ Seg(ps, c, Len(ps)) = <<>> /\ wait[1] = w /\ top[1] = h
  <2>1. Len(ps) \in 0..Len(ps)
    BY LengthOf
  <2> QED
    BY <1>8, <2>1, EmptySeg
<1>10. Shape(file, <<top, wait>> \o cs, ps, next)
  <2>1. Beneath(file, cs, wait[1], ps, c) /\ Fine(file, wait) /\ Fine(file, top)
    BY <1>4, <1>8, <1>9
  <2>2. Holds(wait[1], top[1], Under(cs), Seg(ps, c, Len(ps)))
    BY <1>6, <1>9
  <2>3. Ready(file, next, top[1], wait[1], <<>>)
    BY <1>7, <1>9
  <2> QED
    BY <1>9, <2>1, <2>2, <2>3, TwoFrames
<1> QED
  BY <1>8, <1>10

(* ... and keeps what it has made.                                         *)
LEMMA StepsOver ==
    ASSUME NEW file, NEW current, NEW next, NEW cs, IsSeq(cs), NEW ps, IsSeq(ps), NEW e,
           NEW g, NEW wait, NEW h,
           <<g, wait[1], h>> \in {<<"InProgram", "InProgram", "Statement">>,
                                  <<"InBlock", "InBlock", "Statement">>,
                                  <<"Members", "Members", "Member">>,
                                  <<"Else", "EndElse", "Statement">>},
           Runs(file, current, cs, g, ps, e), Fine(file, wait)
    PROVE  Shape(file, <<<<h, 0>>, wait>> \o cs, ps, next)
<1> PICK w : w = wait[1]
  OBVIOUS
<1>1. /\ g \in {"InProgram", "InBlock", "Members", "Else"}
      /\ w \in {"InProgram", "InBlock", "Members", "EndElse"}
      /\ h \in {"Statement", "Member"}
      /\ (g = w \/ (g = "Else" /\ w = "EndElse"))
  OBVIOUS
<1>2. Gives(w) \subseteq Gives(g)
  <2>1. CASE g = w
    BY <2>1
  <2>2. CASE g = "Else" /\ w = "EndElse"
    <3>1. w \in StmtPlaces /\ g \in StmtPlaces
      BY <2>2 DEF StmtPlaces
    <3> QED
      BY <3>1, GivesAll
  <2> QED
    BY <1>1, <2>1, <2>2
<1>3. e \in 0..Len(ps) /\ Beneath(file, cs, g, ps, e)
      /\ Ready(file, current, g, Under(cs), Seg(ps, e, Len(ps)))
  BY DEF Runs
<1>4. Beneath(file, cs, w, ps, e)
  <2>1. g \notin {"Statement", "Block"} /\ w \notin {"Statement", "Block"}
    BY <1>1
  <2> QED
    BY <1>2, <1>3, <2>1, BeneathFor
<1>5. Gives(h) \subseteq Awaits(w)
  <2>1. h \in StmtPlaces
    BY <1>1 DEF StmtPlaces
  <2> QED
    BY <1>1, <2>1, GivesAll, AwaitsIs
<1>6. Holds(w, h, Under(cs), Seg(ps, e, Len(ps)))
  BY <1>1, <1>3, <1>5 DEF Holds, Ready
<1>7. Ready(file, next, h, w, <<>>)
  BY <1>1 DEF Ready
<1>8. PICK top : top = <<h, 0>>
  OBVIOUS
<1>9. top[1] = h /\ Fine(file, top)
  BY <1>1, <1>8, PlainFine
<1>10. Shape(file, <<top, wait>> \o cs, ps, next)
  BY <1>3, <1>4, <1>6, <1>7, <1>9, TwoFrames
<1> QED
  BY <1>8, <1>10

(* An if and a while call twice.                                           *)
LEMMA StepsIf ==
    ASSUME NEW file, NEW current, NEW next, NEW cs, IsSeq(cs), NEW ps, IsSeq(ps), NEW e,
           NEW g, NEW w, <<g, w>> \in {<<"If", "Else">>, <<"While", "EndWhile">>},
           Runs(file, current, cs, g, ps, e)
    PROVE  Shape(file, <<<<"Binary", 0>>, <<"Statement", 0>>, <<w, 0>>>> \o cs, ps, next)
<1>1. g \in {"If", "While"} /\ w \in {"Else", "EndWhile"}
  OBVIOUS
<1>2. Gives(w) \subseteq Gives(g)
  <2>1. w \in StmtPlaces /\ g \in StmtPlaces
    BY <1>1 DEF StmtPlaces
  <2> QED
    BY <2>1, GivesAll
<1>3. Seg(ps, e, Len(ps)) = <<>>
  BY <1>1 DEF Runs, Ready
<1>4. Beneath(file, cs, w, ps, Len(ps))
  <2>1. w # "Statement" /\ w # "Block"
    BY <1>1
  <2> QED
    BY <1>2, <1>3, <2>1, GivesWay
<1>5. Holds(w, "Statement", Under(cs), <<>>)
  <2>1. "Statement" \in StmtPlaces
    BY DEF StmtPlaces
  <2>2. Gives("Statement") \subseteq Awaits(w)
    BY <1>1, <2>1, GivesAll, AwaitsIs
  <2> QED
    BY <1>1, <2>2 DEF Holds
<1>6. Holds("Statement", "Binary", w, <<>>)
  <2>1. "Binary" \in ExprPlaces
    BY DEF ExprPlaces
  <2>2. Gives("Binary") \subseteq Awaits("Statement")
    BY <2>1, GivesAll, AwaitsIs
  <2> QED
    BY <1>1, <2>2 DEF Holds
<1>7. Ready(file, next, "Binary", "Statement", <<>>)
  BY DEF Ready
<1>8. PICK c, low, wait, top : /\ c = Len(ps) /\ low = <<w, 0>>
                               /\ wait = <<"Statement", 0>> /\ top = <<"Binary", 0>>
  OBVIOUS
<1>9. c \in 0..Len(ps) /\ Seg(ps, c, c) = <<>> /\ Seg(ps, c, Len(ps)) = <<>> /\ c <= c
  <2>1. Len(ps) \in Nat /\ Len(ps) \in 0..Len(ps)
    BY LengthOf
  <2> QED
    BY <1>8, <2>1, EmptySeg
<1>10. low[1] = w /\ wait[1] = "Statement" /\ top[1] = "Binary"
       /\ Fine(file, low) /\ Fine(file, wait) /\ Fine(file, top)
  BY <1>1, <1>8 DEF Fine
<1>11. Shape(file, <<top, wait, low>> \o cs, ps, next)
  <2>1. Holds(low[1], wait[1], Under(cs), Seg(ps, c, c))
    BY <1>5, <1>9, <1>10
  <2>2. Holds(wait[1], top[1], low[1], Seg(ps, c, Len(ps)))
    BY <1>6, <1>9, <1>10
  <2>3. Ready(file, next, top[1], wait[1], <<>>)
    BY <1>7, <1>10
  <2>4. Beneath(file, cs, low[1], ps, c)
    BY <1>4, <1>8, <1>10
  <2> QED
    BY <1>9, <1>10, <2>1, <2>2, <2>3, <2>4, ThreeFrames
<1> QED
  BY <1>8, <1>11

(* A method or a constructor keeps its parameters for its end.             *)
BeginDecls == {<<"ConstructorDecl", "EndConstructor">>, <<"MethodDecl", "EndMethod">>}

LEMMA StepsDecl ==
    ASSUME NEW file, NEW current, NEW next, NEW cs, IsSeq(cs), NEW ps, IsSeq(ps), NEW e,
           NEW g, NEW w, <<g, w>> \in BeginDecls,
           Runs(file, current, cs, g, ps, e), NEW l, Fine(file, <<w, l>>)
    PROVE  Shape(file, <<<<"Params", 0>>, <<"Block", 0>>, <<w, l>>>> \o cs,
                 Append(ps, <<>>), next)
<1>1. g \in {"ConstructorDecl", "MethodDecl"} /\ w \in {"EndConstructor", "EndMethod"}
  BY DEF BeginDecls
<1>2. Gives(w) \subseteq Gives(g)
  <2>1. w \in StmtPlaces /\ g \in StmtPlaces
    BY <1>1 DEF StmtPlaces
  <2> QED
    BY <2>1, GivesAll
<1>3. Seg(ps, e, Len(ps)) = <<>>
  BY <1>1 DEF Runs, Ready
<1>4. Beneath(file, cs, w, ps, Len(ps))
  <2>1. w # "Statement" /\ w # "Block"
    BY <1>1
  <2> QED
    BY <1>2, <1>3, <2>1, GivesWay
<1>5. PICK c, low, wait, top : /\ c = Len(ps) /\ low = <<w, l>>
                               /\ wait = <<"Block", 0>> /\ top = <<"Params", 0>>
  OBVIOUS
<1>6. c \in 0..Len(ps) /\ Seg(ps, c, c) = <<>> /\ c \in 0..c
  <2>1. Len(ps) \in Nat /\ Len(ps) \in 0..Len(ps)
    BY LengthOf
  <2> QED
    BY <1>5, <2>1, EmptySeg
<1>7. low[1] = w /\ wait[1] = "Block" /\ top[1] = "Params"
      /\ Fine(file, low) /\ Fine(file, wait) /\ Fine(file, top)
  <2>1. low[1] = w /\ wait[1] = "Block" /\ top[1] = "Params" /\ Fine(file, low)
    BY <1>5
  <2>2. Fine(file, wait) /\ Fine(file, top)
    BY <1>5 DEF Fine
  <2> QED
    BY <2>1, <2>2
<1>8. PICK ds, es : ds = <<low>> \o cs /\ es = <<wait>> \o ds
  OBVIOUS
<1>9. IsSeq(ds) /\ Under(ds) = w
  <2>1. Tops(ds, low, cs)
    BY <1>8, OnStack
  <2> QED
    BY <1>7, <2>1 DEF Tops
<1>10. IsSeq(es) /\ Under(es) = "Block"
  <2>1. es = <<wait>> \o ds
    BY <1>8
  <2>2. Tops(es, wait, ds)
    BY <1>9, <2>1, OnStack
  <2> QED
    BY <1>7, <2>2 DEF Tops
<1>11. Beneath(file, ds, "Block", ps, c)
  <2>1. Holds(low[1], "Block", Under(cs), Seg(ps, c, c))
    <3>1. Gives("Block") \subseteq Awaits(w)
      BY <1>1, GivesValue, AwaitsIs
    <3> QED
      BY <1>1, <1>6, <1>7, <3>1 DEF Holds
  <2>2. Beneath(file, cs, low[1], ps, c)
    BY <1>4, <1>5, <1>7
  <2> QED
    BY <1>6, <1>7, <1>8, <2>1, <2>2, Waiting
<1>12. Beneath(file, es, "Params", ps, c)
  <2>1. Holds(wait[1], "Params", Under(ds), Seg(ps, c, c))
    <3>1. Gives("Params") \subseteq Awaits("Block")
      BY GivesValue, AwaitsIs
    <3> QED
      BY <1>1, <1>6, <1>7, <1>9, <3>1 DEF Holds
  <2>2. Beneath(file, ds, wait[1], ps, c)
    BY <1>7, <1>11
  <2> QED
    BY <1>6, <1>7, <1>8, <1>9, <2>1, <2>2, Waiting
<1>13. PICK qs : qs = Append(ps, <<>>)
  OBVIOUS
<1>14. /\ IsSeq(qs) /\ c \in 0..Len(qs) /\ Beneath(file, es, "Params", qs, c)
       /\ ParamList(Seg(qs, c, Len(qs)))
  BY <1>5, <1>10, <1>12, <1>13, Opened
<1>15. Ready(file, next, "Params", Under(es), Seg(qs, c, Len(qs)))
  BY <1>10, <1>14 DEF Ready
<1>16. Runs(file, next, es, top[1], qs, c)
  BY <1>7, <1>14, <1>15 DEF Runs
<1>17. Shape(file, <<top>> \o es, qs, next)
  BY <1>7, <1>10, <1>14, <1>16, Running
<1>18. <<top>> \o es = <<top, wait, low>> \o cs
  <2>1. ds = <<low>> \o cs
    BY <1>8
  <2>2. <<top>> \o (<<wait>> \o ds) = <<top, wait>> \o ds
    BY <1>9, Stacked
  <2>3. <<top, wait>> \o ds = <<top, wait, low>> \o cs
    BY <2>1, StackedTwo
  <2> QED
    BY <1>8, <2>2, <2>3
<1> QED
  BY <1>5, <1>13, <1>17, <1>18

(* The next argument, and the right operand.                               *)
LEMMA StepsArgument ==
    ASSUME NEW file, NEW current, NEW next, NEW cs, IsSeq(cs), NEW ps, IsSeq(ps), NEW e,
           NEW frame, frame[1] = "Arguments", Fine(file, frame),
           Runs(file, current, cs, "Arguments", ps, e)
    PROVE  Shape(file, <<<<"Expr", 0>>, <<"EndArgument", 0>>, frame>> \o cs, ps, next)
<1>1. e \in 0..Len(ps) /\ Beneath(file, cs, frame[1], ps, e)
      /\ ListOf(Seg(ps, e, Len(ps)), {"Arg"})
  BY DEF Runs, Ready
<1>2. PICK c, wait, top : c = Len(ps) /\ wait = <<"EndArgument", 0>> /\ top = <<"Expr", 0>>
  OBVIOUS
<1>3. c \in 0..Len(ps) /\ Seg(ps, c, Len(ps)) = <<>> /\ e <= c
  <2>1. Len(ps) \in Nat /\ Len(ps) \in 0..Len(ps)
    BY LengthOf
  <2> QED
    BY <1>1, <1>2, <2>1, EmptySeg
<1>4. wait[1] = "EndArgument" /\ top[1] = "Expr" /\ Fine(file, wait) /\ Fine(file, top)
  BY <1>2 DEF Fine
<1>5. Holds(frame[1], wait[1], Under(cs), Seg(ps, e, c))
  <2>1. Gives("EndArgument") \subseteq Awaits("Arguments")
    BY GivesValue, AwaitsIs
  <2> QED
    BY <1>1, <1>2, <1>4, <2>1 DEF Holds
<1>6. Holds(wait[1], top[1], frame[1], Seg(ps, c, Len(ps)))
  <2>1. "Expr" \in ExprPlaces
    BY DEF ExprPlaces
  <2>2. Gives("Expr") \subseteq Awaits("EndArgument")
    BY <2>1, GivesAll, AwaitsIs
  <2> QED
    BY <1>3, <1>4, <2>2 DEF Holds
<1>7. Ready(file, next, top[1], wait[1], <<>>)
  BY <1>4 DEF Ready
<1>8. Shape(file, <<top, wait, frame>> \o cs, ps, next)
  BY <1>1, <1>3, <1>4, <1>5, <1>6, <1>7, ThreeFrames
<1> QED
  BY <1>2, <1>8

LEMMA StepsOperator ==
    ASSUME NEW file, NEW current, NEW next, NEW cs, IsSeq(cs), NEW ps, IsSeq(ps), NEW e,
           NEW frame, frame[1] = "Operators", Fine(file, frame),
           Runs(file, current, cs, "Operators", ps, e),
           NEW n \in Nat, NEW l, B!TokenAt(file, l).type \in BinaryOperators
    PROVE  Shape(file, <<<<"Binary", n>>, <<"EndBinary", l>>, frame>> \o cs, ps, next)
<1>1. e \in 0..Len(ps) /\ Beneath(file, cs, frame[1], ps, e)
      /\ One(Seg(ps, e, Len(ps)), ExprKinds)
  BY DEF Runs, Ready
<1>2. PICK wait, top : wait = <<"EndBinary", l>> /\ top = <<"Binary", n>>
  OBVIOUS
<1>3. Seg(ps, e, e) = <<>> /\ e <= e
  <2>1. Len(ps) \in Nat
    BY LengthOf
  <2> QED
    BY <1>1, <2>1, EmptySeg
<1>4. wait[1] = "EndBinary" /\ top[1] = "Binary" /\ Fine(file, wait) /\ Fine(file, top)
  BY <1>2 DEF Fine
<1>5. Holds(frame[1], wait[1], Under(cs), Seg(ps, e, e))
  <2>1. "EndBinary" \in ExprPlaces
    BY DEF ExprPlaces
  <2>2. Gives("EndBinary") \subseteq Awaits("Operators")
    BY <2>1, GivesAll, AwaitsIs
  <2> QED
    BY <1>3, <1>4, <2>2 DEF Holds
<1>6. Holds(wait[1], top[1], frame[1], Seg(ps, e, Len(ps)))
  <2>1. "Binary" \in ExprPlaces
    BY DEF ExprPlaces
  <2>2. Gives("Binary") \subseteq Awaits("EndBinary")
    BY <2>1, GivesAll, AwaitsIs
  <2> QED
    BY <1>1, <1>4, <2>2 DEF Holds
<1>7. Ready(file, next, top[1], wait[1], <<>>)
  BY <1>4 DEF Ready
<1>8. Shape(file, <<top, wait, frame>> \o cs, ps, next)
  BY <1>1, <1>3, <1>4, <1>5, <1>6, <1>7, ThreeFrames
<1> QED
  BY <1>2, <1>8

-----------------------------------------------------------------------------
(* A list goes on; a function makes its node.                             *)

(* A list goes on.                                                         *)
LEMMA ListStays ==
    ASSUME NEW file, NEW current, NEW next, NEW cs, IsSeq(cs), NEW ps, IsSeq(ps), NEW e,
           NEW g \in {"Params", "Arguments"}, NEW frame, frame[1] = g, Fine(file, frame),
           Runs(file, current, cs, g, ps, e)
    PROVE  Shape(file, <<frame>> \o cs, ps, next)
<1>1. Runs(file, next, cs, frame[1], ps, e)
  BY DEF Runs, Ready
<1> QED
  BY <1>1, Running

LEMMA StepsParam ==
    ASSUME NEW file, NamesAreKnown(file), NEW current, NEW next, NEW cs, IsSeq(cs),
           NEW ps, IsSeq(ps), NEW e,
           NEW frame, frame[1] = "Params", Fine(file, frame),
           Runs(file, current, cs, "Params", ps, e),
           NEW p, B!TokenAt(file, p).type = "ID"
    PROVE  Shape(file, <<frame>> \o cs, B!Push(file, ps, <<"Param", p>>), next)
<1> PICK m, kind, qs, t :
        /\ m = Len(ps) /\ kind = "Param" /\ qs = B!Push(file, ps, <<kind, p>>)
        /\ t = B!Made(file, kind, p, Seg(ps, m, Len(ps)))
  OBVIOUS
<1>1. m \in Nat /\ e \in Nat /\ e <= m /\ e \in 0..Len(ps) /\ m <= Len(ps)
  BY LengthOf DEF Runs
<1>2. TakenFor(qs, ps, m, t)
  <2>1. kind \notin B!ListKinds /\ kind # "Open" /\ B!Arity[kind] = 0
    BY DEF B!ListKinds, B!Arity
  <2>2. PICK n : n = 0
    OBVIOUS
  <2>3. n \in Nat /\ B!Arity[kind] = n /\ n <= Len(ps) /\ m = Len(ps) - n
    BY <1>1, <2>1, <2>2
  <2>4. TakenFor(B!Push(file, ps, <<kind, p>>), ps, m, B!Made(file, kind, p, Seg(ps, m, Len(ps))))
    BY <2>1, <2>3, PushFixed
  <2> QED
    BY <2>4
<1>3. IsParam(t)
  BY MadeParam
<1>4. /\ IsSeq(qs) /\ Len(qs) = m + 1 /\ \A i \in 1..m : qs[i] = ps[i]
      /\ qs[m + 1] = t
  BY <1>2 DEF TakenFor
<1>5. Beneath(file, cs, "Params", qs, e)
  <2>1. \A i \in 1..e : qs[i] = ps[i]
    BY <1>1, <1>4
  <2>2. e <= Len(qs)
    BY <1>1, <1>4
  <2>3. Beneath(file, cs, "Params", ps, e)
    BY DEF Runs
  <2> QED
    BY <1>1, <2>1, <2>2, <2>3, BeneathSame
<1>6. PICK s, r, k : s = Seg(ps, e, m) /\ r = Seg(qs, e, k) /\ k = Len(qs)
  OBVIOUS
<1>7. k \in Nat /\ k = m + 1 /\ e <= k /\ k <= Len(qs)
  BY <1>1, <1>4, <1>6
<1>8. IsSeg(s, ps, e, m - e)
  BY <1>1, <1>6, SegIs
<1>9. IsSeg(r, qs, e, k - e)
  BY <1>1, <1>4, <1>6, <1>7, SegIs
<1>10. ParamList(s) /\ Under(cs) = "Block"
  BY <1>6 DEF Runs, Ready
<1>11. Len(s) = m - e /\ Len(r) = (m - e) + 1
  BY <1>1, <1>7, <1>8, <1>9 DEF IsSeg
<1>12. ParamList(r)
  <2>1. \A i \in 1..(m - e) : r[i] = s[i]
    <3> TAKE i \in 1..(m - e)
    <3>1. e + i \in 1..m /\ i \in 1..(k - e)
      BY <1>1, <1>7
    <3> QED
      BY <1>4, <1>8, <1>9, <3>1 DEF IsSeg
  <2>2. r[(m - e) + 1] = t
    <3>1. PICK i : i = (m - e) + 1
      OBVIOUS
    <3>2. i \in 1..(k - e) /\ e + i = m + 1
      BY <1>1, <1>7, <3>1
    <3> QED
      BY <1>4, <1>9, <3>1, <3>2 DEF IsSeg
  <2>3. \A i \in 2..Len(r) : i \in 2..Len(s) \/ i = (m - e) + 1
    BY <1>1, <1>11
  <2>4. 1 \in 1..(m - e) /\ Len(r) >= 1 /\ \A i \in 2..Len(s) : i \in 1..(m - e)
    BY <1>1, <1>10, <1>11 DEF ParamList
  <2> QED
    BY <1>3, <1>10, <2>1, <2>2, <2>3, <2>4 DEF ParamList
<1>13. Ready(file, next, "Params", Under(cs), Seg(qs, e, Len(qs)))
  BY <1>6, <1>10, <1>12 DEF Ready
<1>14. e \in 0..Len(qs)
  BY <1>1, <1>4
<1>15. Runs(file, next, cs, frame[1], qs, e)
  BY <1>5, <1>13, <1>14 DEF Runs
<1> QED
  BY <1>4, <1>15, Running

(* The parameters are there, and the body comes next.                      *)
LEMMA StepsBody ==
    ASSUME NEW file, NEW current, NEW next, NEW cs, IsSeq(cs), NEW ps, IsSeq(ps), NEW e,
           Runs(file, current, cs, "Params", ps, e)
    PROVE  Shape(file, cs, ps, next)
<1>1. e \in 0..Len(ps) /\ Beneath(file, cs, "Params", ps, e)
      /\ ParamList(Seg(ps, e, Len(ps))) /\ Under(cs) = "Block"
  BY DEF Runs, Ready
<1>2. cs # <<>>
  BY <1>1 DEF Under
<1>3. PICK f, ds : f = cs[1] /\ ds = Tail(cs)
  OBVIOUS
<1>4. cs = <<f>> \o ds /\ IsSeq(ds) /\ f[1] = "Block"
  BY <1>1, <1>2, <1>3, HeadAndTail
<1>5. PICK c \in 0..e : /\ Beneath(file, ds, f[1], ps, c)
                        /\ Fine(file, f)
                        /\ Holds(f[1], "Params", Under(ds), Seg(ps, c, e))
  BY <1>1, <1>2, <1>3, BeneathTop
<1>6. Seg(ps, c, e) = <<>> /\ Under(ds) \in {"EndMethod", "EndConstructor"}
  BY <1>4, <1>5 DEF Holds
<1>7. c = e
  <2>1. c \in Nat /\ e \in Nat /\ c <= e /\ e <= Len(ps)
    BY <1>1, <1>5, LengthOf
  <2> QED
    BY <1>6, <2>1, SegIs
<1>8. Ready(file, next, "Block", Under(ds), Seg(ps, e, Len(ps)))
  BY <1>1, <1>6 DEF Ready
<1>9. Runs(file, next, ds, f[1], ps, e)
  BY <1>1, <1>4, <1>5, <1>7, <1>8 DEF Runs
<1>10. Shape(file, <<f>> \o ds, ps, next)
  BY <1>4, <1>5, <1>9, Running
<1> QED
  BY <1>4, <1>10
-----------------------------------------------------------------------------
(* The ends of the functions.                                              *)
EndNodes ==
    {<<"DeclEnd", "ExprStmt">>, <<"EndReturn", "Return">>, <<"EndExprStmt", "ExprStmt">>,
     <<"EndArgument", "Argument">>, <<"EndVarDecl", "VarDeclInit">>, <<"EndUnary", "Unary">>,
     <<"Else", "If">>, <<"EndWhile", "While">>, <<"EndBinary", "Assignment">>,
     <<"EndBinary", "Binary">>, <<"EndElse", "IfElse">>, <<"FieldDecl", "FieldDecl">>,
     <<"VarDecl", "VarDecl">>, <<"Expr", "Identifier">>, <<"Expr", "Literal">>}

Completes(file, g, kind, p, s) ==
    /\ kind \notin B!ListKinds /\ kind # "Open"
    /\ Len(s) = B!Arity[kind]
    /\ Item(B!Made(file, kind, p, s), Gives(g))

LEMMA CompletesWith ==
    ASSUME NEW file, NamesAreKnown(file), NEW current, NEW under, NEW g, NEW kind,
           <<g, kind>> \in EndNodes, NEW s, Ready(file, current, g, under, s), NEW p,
           kind \in {"VarDecl", "Identifier", "VarDeclInit"} => B!TokenAt(file, p).type = "ID",
           kind = "Binary" => /\ B!TokenAt(file, p).type \in BinaryOperators
                              /\ B!TokenAt(file, p).type # "EQUALS",
           kind = "Unary" => B!TokenAt(file, p).type \in {"PLUS", "MINUS"}
    PROVE  Completes(file, g, kind, p, s)
<1>1. kind \notin B!ListKinds /\ kind # "Open"
  BY DEF EndNodes, B!ListKinds
<1>2. CASE <<g, kind>> \in {<<"DeclEnd", "ExprStmt">>, <<"EndReturn", "Return">>,
                            <<"EndExprStmt", "ExprStmt">>, <<"EndArgument", "Argument">>}
  <2>1. One(s, ExprKinds)
    BY <1>2 DEF Ready
  <2>2. B!Arity[kind] = 1
    BY <1>2 DEF B!Arity
  <2>3. CASE g = "EndArgument"
    <3>1. kind = "Argument" /\ Gives(g) = {"Arg"}
      BY <1>2, <2>3, GivesValue
    <3>2. Item(B!Made(file, kind, p, s), Gives(g))
      BY <2>1, <3>1, MadeOne
    <3> QED
      BY <1>1, <2>1, <2>2, <3>2 DEF Completes, One
  <2>4. CASE g # "EndArgument"
    <3>1. kind \in {"ExprStmt", "Return"} /\ g \in StmtPlaces
      BY <1>2, <2>4 DEF StmtPlaces
    <3>2. Item(B!Made(file, kind, p, s), Gives(g))
      BY <2>1, <3>1, MadeOne, GivesAll
    <3> QED
      BY <1>1, <2>1, <2>2, <3>2 DEF Completes, One
  <2> QED
    BY <2>3, <2>4
<1>3. CASE <<g, kind>> \in {<<"EndVarDecl", "VarDeclInit">>, <<"EndUnary", "Unary">>}
  <2>1. One(s, ExprKinds) /\ g \in ExprPlaces
    BY <1>3 DEF Ready, ExprPlaces
  <2>2. B!Arity[kind] = 1
    BY <1>3 DEF B!Arity
  <2>3. Item(B!Made(file, kind, p, s), Gives(g))
    BY <1>3, <2>1, MadeName, MadeUnary, GivesAll
  <2> QED
    BY <1>1, <2>1, <2>2, <2>3 DEF Completes, One
<1>4. CASE <<g, kind>> \in {<<"Else", "If">>, <<"EndWhile", "While">>}
  <2>1. Two(s, ExprKinds, StmtKinds) /\ g \in StmtPlaces
    BY <1>4 DEF Ready, StmtPlaces
  <2>2. B!Arity[kind] = 2
    BY <1>4 DEF B!Arity
  <2>3. Item(B!Made(file, kind, p, s), Gives(g))
    BY <1>4, <2>1, MadeTwo, GivesAll
  <2> QED
    BY <1>1, <2>1, <2>2, <2>3 DEF Completes, Two
<1>5. CASE <<g, kind>> \in {<<"EndBinary", "Assignment">>, <<"EndBinary", "Binary">>}
  <2>1. Two(s, ExprKinds, ExprKinds) /\ g \in ExprPlaces
    BY <1>5 DEF Ready, ExprPlaces
  <2>2. B!Arity[kind] = 2
    BY <1>5 DEF B!Arity
  <2>3. Item(B!Made(file, kind, p, s), Gives(g))
    BY <1>5, <2>1, MadeTwo, MadeBinary, GivesAll
  <2> QED
    BY <1>1, <2>1, <2>2, <2>3 DEF Completes, Two
<1>6. CASE <<g, kind>> = <<"EndElse", "IfElse">>
  <2>1. Three(s, ExprKinds, StmtKinds, StmtKinds) /\ g \in StmtPlaces
    BY <1>6 DEF Ready, StmtPlaces
  <2>2. B!Arity[kind] = 3
    BY <1>6 DEF B!Arity
  <2>3. Item(B!Made(file, kind, p, s), Gives(g))
    BY <1>6, <2>1, MadeThree, GivesAll
  <2> QED
    BY <1>1, <2>1, <2>2, <2>3 DEF Completes, Three
<1>7. CASE <<g, kind>> = <<"FieldDecl", "FieldDecl">>
  <2>1. s = <<>> /\ g \in StmtPlaces
    BY <1>7 DEF Ready, StmtPlaces
  <2>2. B!Arity[kind] = 0
    BY <1>7 DEF B!Arity
  <2>3. Item(B!Made(file, kind, p, s), Gives(g))
    BY <1>7, <2>1, MadeMember, GivesAll
  <2> QED
    BY <1>1, <2>1, <2>2, <2>3 DEF Completes
<1>8. CASE <<g, kind>> \in {<<"VarDecl", "VarDecl">>, <<"Expr", "Identifier">>,
                            <<"Expr", "Literal">>}
  <2>1. s = <<>> /\ g \in ExprPlaces
    BY <1>8 DEF Ready, ExprPlaces
  <2>2. B!Arity[kind] = 0
    BY <1>8 DEF B!Arity
  <2>3. Item(B!Made(file, kind, p, s), Gives(g))
    BY <1>8, <2>1, MadeName, MadeLiteral, GivesAll
  <2> QED
    BY <1>1, <2>1, <2>2, <2>3 DEF Completes
<1> QED
  BY <1>2, <1>3, <1>4, <1>5, <1>6, <1>7, <1>8 DEF EndNodes

LEMMA Finishes ==
    ASSUME NEW file, NamesAreKnown(file), NEW current, NEW next, NEW cs, IsSeq(cs),
           NEW ps, IsSeq(ps), NEW e, NEW g, Runs(file, current, cs, g, ps, e),
           NEW kind, <<g, kind>> \in EndNodes, NEW p,
           kind \in {"VarDecl", "Identifier", "VarDeclInit"} => B!TokenAt(file, p).type = "ID",
           kind = "Binary" => /\ B!TokenAt(file, p).type \in BinaryOperators
                              /\ B!TokenAt(file, p).type # "EQUALS",
           kind = "Unary" => B!TokenAt(file, p).type \in {"PLUS", "MINUS"}
    PROVE  Shape(file, cs, B!Push(file, ps, <<kind, p>>), next)
<1> PICK s : s = Seg(ps, e, Len(ps))
  OBVIOUS
<1>1. Ready(file, current, g, Under(cs), s)
  BY DEF Runs
<1>2. Completes(file, g, kind, p, s)
  BY <1>1, CompletesWith
<1>3. g \notin {"Params", "Block", "Statement"}
  BY DEF EndNodes
<1> QED
  BY <1>2, <1>3, ReturnsNode DEF Completes

(* What is left of a list when it has been closed.                         *)
LEMMA ListClosed ==
    ASSUME NEW ps, IsSeq(ps), NEW e \in 0..Len(ps), NEW s, s = Seg(ps, e, Len(ps)), Len(s) >= 1,
           NEW r, r = Seg(ps, e + 1, Len(ps))
    PROVE  /\ IsSeq(s) /\ IsSeq(r) /\ Len(s) = Len(r) + 1
           /\ \A i \in 1..Len(r) : r[i] = s[i + 1]
<1>1. Len(ps) \in Nat /\ e \in Nat /\ e <= Len(ps)
  BY LengthOf
<1>2. IsSeg(s, ps, e, Len(ps) - e)
  BY <1>1, SegIs
<1>3. PICK d, n : d = e + 1 /\ n = Len(ps)
  OBVIOUS
<1>4. d \in Nat /\ n \in Nat /\ d <= n /\ n <= Len(ps)
  BY <1>1, <1>2, <1>3 DEF IsSeg
<1>5. IsSeg(Seg(ps, d, n), ps, d, n - d)
  BY <1>4, SegIs
<1>6. IsSeg(r, ps, d, n - d)
  BY <1>3, <1>5
<1>7. ASSUME NEW i \in 1..(n - d) PROVE r[i] = s[i + 1]
  <2>1. i + 1 \in 1..(n - e) /\ d + i = e + (i + 1)
    BY <1>1, <1>3, <1>4
  <2> QED
    BY <1>2, <1>3, <1>6, <2>1 DEF IsSeg
<1>8. Len(s) = n - e /\ Len(r) = n - d /\ n - e = (n - d) + 1
  <2>1. Len(s) = n - e
    BY <1>2, <1>3 DEF IsSeg
  <2>2. Len(r) = n - d
    BY <1>6 DEF IsSeg
  <2>3. n - e = (n - d) + 1
    BY <1>1, <1>3, <1>4
  <2> QED
    BY <2>1, <2>2, <2>3
<1> QED
  BY <1>2, <1>6, <1>7, <1>8 DEF IsSeg

LEMMA NotMarkers ==
    ASSUME NEW t
    PROVE  /\ \A kinds : Item(t, kinds) => t # <<>>
           /\ IsParam(t) => t # <<>>
<1>1. IsParam(t) => t # <<>>
  <2> SUFFICES ASSUME IsParam(t), t = <<>> PROVE FALSE
    OBVIOUS
  <2>1. PICK p : <<>> = <<p>>
    BY DEF IsParam
  <2>2. Len(<<>>) = 0 /\ Len(<<p>>) = 1
    OBVIOUS
  <2> QED
    BY <2>1, <2>2
<1>2. \A kinds : Item(t, kinds) => t # <<>>
  BY DEF Item, IsTree
<1> QED
  BY <1>1, <1>2

Lists ==
    {<<"InProgram", "Program">>, <<"InBlock", "Block">>, <<"Members", "Class">>,
     <<"Arguments", "MethodCall">>}

LEMMA FinishesList ==
    ASSUME NEW file, NamesAreKnown(file), NEW current, NEW next, NEW cs, IsSeq(cs),
           NEW ps, IsSeq(ps), NEW e, NEW g, Runs(file, current, cs, g, ps, e),
           NEW kind, <<g, kind>> \in Lists, NEW p,
           kind = "MethodCall" => B!TokenAt(file, p).type = "ID"
    PROVE  Shape(file, cs, B!Push(file, ps, <<kind, p>>), next)
<1> PICK s, r, kinds :
        /\ s = Seg(ps, e, Len(ps)) /\ r = Seg(ps, e + 1, Len(ps))
        /\ kinds = IF g = "Arguments" THEN {"Arg"} ELSE StmtKinds
  OBVIOUS
<1>1. /\ g \in {"InProgram", "InBlock", "Members", "Arguments"} /\ kind \in B!ListKinds
      /\ e \in 0..Len(ps)
  BY DEF Lists, B!ListKinds, Runs
<1>2. ListOf(s, kinds)
  BY <1>1 DEF Runs, Ready
<1>3. /\ IsSeq(s) /\ IsSeq(r) /\ Len(s) = Len(r) + 1
      /\ \A i \in 1..Len(r) : r[i] = s[i + 1]
  BY <1>1, <1>2, ListClosed DEF ListOf
<1>4. \A i \in 2..Len(s) : s[i] # <<>>
  BY <1>2, NotMarkers DEF ListOf
<1>5. \A i \in 1..Len(r) : Item(r[i], kinds)
  <2> TAKE i \in 1..Len(r)
  <2>1. i + 1 \in 2..Len(s)
    BY <1>3, LengthOf
  <2> QED
    BY <1>2, <1>3, <2>1 DEF ListOf
<1>6. Item(B!Made(file, kind, p, r), Gives(g))
  <2>1. CASE kind \in {"Program", "Block"}
    <3>1. kinds = StmtKinds /\ Gives(g) = {kind}
      BY <2>1, GivesValue DEF Lists
    <3> QED
      BY <1>3, <1>5, <2>1, <3>1, MadeList
  <2>2. CASE kind = "Class"
    <3>1. g \in StmtPlaces
      BY <2>2 DEF Lists, StmtPlaces
    <3> QED
      BY <2>2, <3>1, MadeMember, GivesAll
  <2>3. CASE kind = "MethodCall"
    <3>1. g \in ExprPlaces /\ kinds = {"Arg"}
      BY <2>3 DEF Lists, ExprPlaces
    <3>2. \A i \in 1..Len(r) : Item(r[i], {"Arg"})
      BY <1>5, <3>1
    <3> QED
      BY <1>3, <2>3, <3>1, <3>2, MadeCall, GivesAll
  <2> QED
    BY <2>1, <2>2, <2>3 DEF Lists
<1>7. Len(s) >= 1 /\ s[1] = <<>>
  BY <1>2 DEF ListOf
<1> QED
  BY <1>1, <1>4, <1>6, <1>7, ReturnsList

EndDecls == {<<"EndConstructor", "ConstructorDecl">>, <<"EndMethod", "MethodDecl">>}

LEMMA FinishesDecl ==
    ASSUME NEW file, NamesAreKnown(file), NEW current, NEW next, NEW cs, IsSeq(cs),
           NEW ps, IsSeq(ps), NEW e, NEW g, Runs(file, current, cs, g, ps, e),
           NEW kind, <<g, kind>> \in EndDecls,
           NEW p, kind = "MethodDecl" => B!TokenAt(file, p).type = "ID"
    PROVE  Shape(file, cs, B!Push(file, ps, <<kind, p>>), next)
<1> PICK s, r, q, n :
        /\ s = Seg(ps, e, Len(ps)) /\ r = Seg(ps, e + 1, Len(ps))
        /\ n = Len(s) /\ q = SubSeq(s, 1, n - 1)
  OBVIOUS
<1>1. /\ g \in {"EndConstructor", "EndMethod"} /\ kind \in B!ListKinds
      /\ e \in 0..Len(ps)
  BY DEF B!ListKinds, Runs, EndDecls
<1>2. n >= 2 /\ ParamList(q) /\ Item(s[n], {"Block"})
  BY <1>1 DEF Runs, Ready
<1>3. /\ IsSeq(s) /\ IsSeq(r) /\ Len(s) = Len(r) + 1
      /\ \A i \in 1..Len(r) : r[i] = s[i + 1]
  <2>1. Len(s) >= 1
    <3>1. IsSeg(s, ps, e, Len(ps) - e) /\ Len(ps) - e \in Nat
      BY <1>1, LengthOf, SegIs
    <3>2. n \in Nat
      BY <3>1 DEF IsSeg
    <3> QED
      BY <1>2, <3>2
  <2> QED
    BY <1>1, <2>1, ListClosed
<1>4. n \in Nat /\ Len(r) = n - 1 /\ Len(r) \in Nat
  BY <1>3, LengthOf
<1>5. Len(q) = n - 1 /\ \A i \in 1..(n - 1) : q[i] = s[i]
  <2>1. PICK S : s \in Seq(S)
    BY <1>3 DEF IsSeq
  <2> QED
    BY <1>2, <1>4, <2>1
<1>6. s[1] = <<>> /\ \A i \in 2..(n - 1) : IsParam(s[i])
  <2>1. 1 \in 1..(n - 1) /\ \A i \in 2..(n - 1) : i \in 1..(n - 1)
    BY <1>2, <1>4
  <2> QED
    BY <1>2, <1>5, <2>1 DEF ParamList
<1>7. \A i \in 2..n : s[i] # <<>>
  <2>1. \A i \in 2..n : i \in 2..(n - 1) \/ i = n
    BY <1>4
  <2> QED
    BY <1>2, <1>6, <2>1, NotMarkers
<1>8. Item(B!Made(file, kind, p, r), Gives(g))
  <2>1. Gives(g) = StmtKinds
    BY <1>1, GivesAll DEF StmtPlaces
  <2>2. CASE kind = "ConstructorDecl"
    BY <2>1, <2>2, MadeMember
  <2>3. CASE kind = "MethodDecl"
    <3>1. \A i \in 1..(Len(r) - 1) : IsParam(r[i])
      <4> TAKE i \in 1..(Len(r) - 1)
      <4>1. i \in 1..Len(r) /\ i + 1 \in 2..(n - 1)
        BY <1>4
      <4> QED
        BY <1>3, <1>6, <4>1
    <3>2. Item(r[Len(r)], {"Block"})
      <4>1. Len(r) \in 1..Len(r) /\ Len(r) + 1 = n
        BY <1>2, <1>4
      <4> QED
        BY <1>2, <1>3, <4>1
    <3>3. Len(r) >= 1
      BY <1>2, <1>4
    <3>4. B!TokenAt(file, p).type = "ID"
      BY <2>3
    <3> QED
      BY <1>3, <2>1, <2>3, <3>1, <3>2, <3>3, <3>4, MadeMethod
  <2> QED
    BY <2>2, <2>3 DEF EndDecls
<1>9. Len(s) >= 1 /\ \A i \in 2..Len(s) : s[i] # <<>>
  BY <1>2, <1>4, <1>7
<1>10. g \notin {"Params", "Block", "Statement"}
  BY <1>1
<1> QED
  BY <1>1, <1>6, <1>8, <1>9, <1>10, ReturnsList

(* ... and those that return what they have been returned.                 *)
LEMMA HandsOn ==
    ASSUME NEW file, NEW current, NEW next, NEW cs, IsSeq(cs), NEW ps, IsSeq(ps), NEW e,
           NEW g \in {"StmtEnd", "Operators", "EndGroup"}, Runs(file, current, cs, g, ps, e)
    PROVE  Shape(file, cs, ps, next)
<1>1. One(Seg(ps, e, Len(ps)), Gives(g))
  <2>1. CASE g = "StmtEnd"
    <3>1. g \in StmtPlaces
      BY <2>1 DEF StmtPlaces
    <3> QED
      BY <2>1, <3>1, GivesAll DEF Runs, Ready
  <2>2. CASE g \in {"Operators", "EndGroup"}
    <3>1. g \in ExprPlaces
      BY <2>2 DEF ExprPlaces
    <3> QED
      BY <2>2, <3>1, GivesAll DEF Runs, Ready
  <2> QED
    BY <2>1, <2>2
<1> QED
  BY <1>1, ReturnsPart

-----------------------------------------------------------------------------
(* The steps of the parser.                                               *)

(* A step of the parser that reports nothing, from where the parts fit.    *)
Stepping ==
    /\ IsSeq(out)
    /\ Shape(source.tokens, calls, parts, tokens.current)
    /\ NamesAreKnown(source.tokens)
    /\ syntaxErrors' = {}
    /\ parts' = B!Grown(source.tokens, parts, SubSeq(out', Len(out) + 1, Len(out')))

FitsThen == IsSeq(out') /\ Shape(source.tokens, calls', parts', tokens'.current)

LEMMA TypeOfToken ==
    ASSUME NEW p
    PROVE  P!Type(p) = B!TokenAt(source.tokens, p).type
BY DEF P!Type, TypesOf, B!TokenAt

LEMMA PeekStays ==
    ASSUME NEW t, NEW n
    PROVE  P!Peek(t, n).current = t.current
<1>1. \A r : P!Filled(r).current = r.current
  BY DEF P!Filled
<1>2. P!Peek(t, n) \in {t, P!Filled(t), P!Filled(P!Filled(t))}
  BY DEF P!Peek
<1> QED
  BY <1>1, <1>2

LEMMA Reported ==
    ASSUME Stepping, NEW t, NEW frames, NEW nodes, NEW reported,
           P!Do(t, frames, nodes, reported)
    PROVE  reported = {}
BY DEF Stepping, P!Do

LEMMA RequiredIs ==
    ASSUME NEW type, NEW t, NEW error, P!Require(type, t, error) = {}
    PROVE  B!TokenAt(source.tokens, t.current).type = type
BY TypeOfToken DEF P!Require

LEMMA NewNodes ==
    ASSUME NEW s, IsSeq(s), NEW n
    PROVE  /\ SubSeq(s \o <<>>, Len(s) + 1, Len(s \o <<>>)) = <<>>
           /\ SubSeq(s \o <<n>>, Len(s) + 1, Len(s \o <<n>>)) = <<n>>
<1>1. PICK S : s \in Seq(S)
  BY DEF IsSeq
<1>2. PICK k : k = Len(s)
  OBVIOUS
<1>3. k \in Nat
  BY <1>1, <1>2
<1>4. s \o <<>> = s
  BY <1>1
<1>5. SubSeq(s, k + 1, k) = <<>>
  BY <1>1, <1>2, <1>3
<1>6. PICK r : r = s \o <<n>>
  OBVIOUS
<1>7. r \in Seq(S \union {n}) /\ Len(r) = k + 1 /\ r[k + 1] = n
  <2>1. s \in Seq(S \union {n}) /\ <<n>> \in Seq(S \union {n})
    BY <1>1
  <2> QED
    BY <1>2, <1>6, <2>1
<1>8. SubSeq(r, k + 1, k + 1) = <<n>>
  <2>1. PICK q : q = SubSeq(r, k + 1, k + 1)
    OBVIOUS
  <2>2. q \in Seq(S \union {n}) /\ Len(q) = 1 /\ q[1] = n
    BY <1>3, <1>7, <2>1
  <2>3. q = [i \in 1..1 |-> q[i]] /\ <<n>> = [i \in 1..1 |-> <<n>>[i]]
    BY <2>2
  <2>4. \A i \in 1..1 : q[i] = <<n>>[i]
    BY <2>2
  <2> QED
    BY <2>1, <2>3, <2>4
<1> QED
  BY <1>2, <1>4, <1>5, <1>6, <1>7, <1>8

LEMMA JoinedSeq ==
    ASSUME NEW s, IsSeq(s), NEW n
    PROVE  IsSeq(s \o <<>>) /\ IsSeq(s \o <<n>>)
<1>1. PICK S : s \in Seq(S)
  BY DEF IsSeq
<1>2. s \o <<>> \in Seq(S)
  BY <1>1
<1>3. s \o <<n>> \in Seq(S \union {n})
  <2>1. s \in Seq(S \union {n}) /\ <<n>> \in Seq(S \union {n})
    BY <1>1
  <2> QED
    BY <2>1
<1> QED
  BY <1>2, <1>3 DEF IsSeq

(* It goes on in other functions, without a node or with one.              *)
LEMMA GoesOn ==
    ASSUME Stepping, NEW t, NEW frames, NEW reported, P!Do(t, frames, <<>>, reported),
           Shape(source.tokens, frames \o Tail(calls), parts, t.current)
    PROVE  FitsThen
<1>1. tokens' = t /\ calls' = frames \o Tail(calls) /\ out' = out \o <<>>
  BY DEF P!Do
<1>2. SubSeq(out', Len(out) + 1, Len(out')) = <<>>
  BY <1>1, NewNodes DEF Stepping
<1>3. parts' = parts
  BY <1>2, GrownByNone DEF Stepping
<1>4. IsSeq(out')
  BY <1>1, JoinedSeq DEF Stepping
<1> QED
  BY <1>1, <1>3, <1>4 DEF FitsThen

LEMMA MakesOne ==
    ASSUME Stepping, NEW t, NEW frames, NEW node, NEW reported,
           P!Do(t, frames, <<node>>, reported),
           Shape(source.tokens, frames \o Tail(calls), B!Push(source.tokens, parts, node),
                 t.current)
    PROVE  FitsThen
<1>1. tokens' = t /\ calls' = frames \o Tail(calls) /\ out' = out \o <<node>>
  BY DEF P!Do
<1>2. SubSeq(out', Len(out) + 1, Len(out')) = <<node>>
  BY <1>1, NewNodes DEF Stepping
<1>3. parts' = B!Push(source.tokens, parts, node)
  BY <1>2, GrownByOne DEF Stepping
<1>4. IsSeq(out')
  BY <1>1, JoinedSeq DEF Stepping
<1> QED
  BY <1>1, <1>3, <1>4 DEF FitsThen

LEMMA OpensOne ==
    ASSUME Stepping, NEW t, NEW frames, NEW reported,
           P!Do(t, frames, <<P!Open>>, reported),
           Shape(source.tokens, frames \o Tail(calls), Append(parts, <<>>), t.current)
    PROVE  FitsThen
<1>1. PICK node : node = <<"Open", 0>>
  OBVIOUS
<1>2. P!Do(t, frames, <<node>>, reported)
  BY <1>1 DEF P!Open
<1>3. B!Push(source.tokens, parts, node) = Append(parts, <<>>)
  BY <1>1, PushOpen
<1>4. Shape(source.tokens, frames \o Tail(calls), B!Push(source.tokens, parts, node), t.current)
  BY <1>3
<1> QED
  BY <1>2, <1>4, MakesOne

LEMMA LeavesNone ==
    ASSUME NEW cs, IsSeq(cs)
    PROVE  <<>> \o cs = cs
BY DEF IsSeq

(* What holds of the running frame.                                        *)
Now(g, e) ==
    /\ IsSeq(Tail(calls)) /\ IsSeq(parts) /\ NamesAreKnown(source.tokens)
    /\ Fine(source.tokens, calls[1]) /\ calls[1][1] = g
    /\ Runs(source.tokens, tokens.current, Tail(calls), g, parts, e)

LEMMA AtIsNow ==
    ASSUME Stepping, NEW g, P!At(g)
    PROVE  \E e : Now(g, e)
<1>1. calls # <<>> /\ calls[1][1] = g
  BY DEF P!At
<1>2. Shape(source.tokens, calls, parts, tokens.current)
  BY DEF Stepping
<1>3. /\ IsSeq(Tail(calls)) /\ IsSeq(parts) /\ Fine(source.tokens, calls[1])
      /\ \E e \in 0..Len(parts) : Runs(source.tokens, tokens.current, Tail(calls),
                                        calls[1][1], parts, e)
  BY <1>1, <1>2, Runner
<1> QED
  BY <1>1, <1>3 DEF Now, Stepping

-----------------------------------------------------------------------------
LEMMA ProgramFits ==
    ASSUME Stepping, P!ParseProgram
    PROVE  FitsThen
<1>1. CASE P!At("Program") /\ P!Do(P!Advance(tokens), <<<<"InProgram", 0>>>>, <<P!Open>>, {})
  <2>1. PICK e : Now("Program", e)
    BY <1>1, AtIsNow
  <2>2. \A next : Shape(source.tokens, <<<<"InProgram", 0>>>> \o Tail(calls),
                        Append(parts, <<>>), next)
    BY <2>1, StepsOpen DEF Now
  <2> QED
    BY <1>1, <2>2, OpensOne
<1>2. CASE P!At("InProgram") /\ P!Make(tokens, "Program", 0)
  <2>1. PICK e : Now("InProgram", e)
    BY <1>2, AtIsNow
  <2>2. \A next : Shape(source.tokens, Tail(calls),
                        B!Push(source.tokens, parts, <<"Program", 0>>), next)
    <3>1. <<"InProgram", "Program">> \in Lists /\ "Program" # "MethodCall"
      BY DEF Lists
    <3> QED
      BY <2>1, <3>1, FinishesList DEF Now
  <2>3. <<>> \o Tail(calls) = Tail(calls)
    BY <2>1, LeavesNone DEF Now
  <2>4. P!Do(tokens, <<>>, <<<<"Program", 0>>>>, {})
    BY <1>2 DEF P!Make
  <2> QED
    BY <2>2, <2>3, <2>4, MakesOne
<1>3. CASE P!At("InProgram")
           /\ P!Call(tokens, <<<<"Statement", 0>>, <<"InProgram", 0>>>>)
  <2>1. PICK e : Now("InProgram", e)
    BY <1>3, AtIsNow
  <2>2. PICK wait : wait = <<"InProgram", 0>>
    OBVIOUS
  <2>3. Fine(source.tokens, wait) /\ wait[1] = "InProgram"
    BY <2>2, PlainFine
  <2>4. \A next : Shape(source.tokens, <<<<"Statement", 0>>, wait>> \o Tail(calls), parts, next)
    BY <2>1, <2>3, StepsOver DEF Now
  <2>5. P!Do(tokens, <<<<"Statement", 0>>, wait>>, <<>>, {})
    BY <1>3, <2>2 DEF P!Call
  <2> QED
    BY <2>4, <2>5, GoesOn
<1> QED
  BY <1>1, <1>2, <1>3 DEF P!ParseProgram

(* The ways a function goes on, for the running one.                       *)
LEMMA GoesInto ==
    ASSUME Stepping, NEW g, P!At(g), NEW h, <<g, h>> \in Pairs, NEW t,
           P!Call(t, <<<<h, 0>>>>),
           h = "MethodCall" => B!TokenAt(source.tokens, t.current).type = "ID"
    PROVE  FitsThen
<1>1. PICK e : Now(g, e)
  BY AtIsNow
<1>2. Shape(source.tokens, <<<<h, 0>>>> \o Tail(calls), parts, t.current)
  BY <1>1, StepsInto DEF Now
<1>3. P!Do(t, <<<<h, 0>>>>, <<>>, {})
  BY DEF P!Call
<1> QED
  BY <1>2, <1>3, GoesOn

LEMMA GoesIntoTwo ==
    ASSUME Stepping, NEW g, P!At(g), NEW w, NEW h, <<g, w, h>> \in Calls, NEW l, NEW m,
           Fine(source.tokens, <<w, l>>), Fine(source.tokens, <<h, m>>), NEW t, NEW reported,
           P!Do(t, <<<<h, m>>, <<w, l>>>>, <<>>, reported),
           h = "MethodCall" => B!TokenAt(source.tokens, t.current).type = "ID",
           h = "Unary" => B!TokenAt(source.tokens, t.current).type \in {"PLUS", "MINUS"}
    PROVE  FitsThen
<1>1. PICK e : Now(g, e)
  BY AtIsNow
<1>2. PICK next : next = t.current
  OBVIOUS
<1>3. /\ h = "MethodCall" => B!TokenAt(source.tokens, next).type = "ID"
      /\ h = "Unary" => B!TokenAt(source.tokens, next).type \in {"PLUS", "MINUS"}
  BY <1>2
<1>4. Shape(source.tokens, <<<<h, m>>, <<w, l>>>> \o Tail(calls), parts, next)
  BY <1>1, <1>3, StepsIntoTwo DEF Now
<1> QED
  BY <1>2, <1>4, GoesOn

LEMMA GoesOver ==
    ASSUME Stepping, NEW g, P!At(g), NEW wait, NEW h,
           <<g, wait[1], h>> \in {<<"InProgram", "InProgram", "Statement">>,
                                  <<"InBlock", "InBlock", "Statement">>,
                                  <<"Members", "Members", "Member">>,
                                  <<"Else", "EndElse", "Statement">>},
           Fine(source.tokens, wait), NEW t, P!Call(t, <<<<h, 0>>, wait>>)
    PROVE  FitsThen
<1>1. PICK e : Now(g, e)
  BY AtIsNow
<1>2. Shape(source.tokens, <<<<h, 0>>, wait>> \o Tail(calls), parts, t.current)
  BY <1>1, StepsOver DEF Now
<1>3. P!Do(t, <<<<h, 0>>, wait>>, <<>>, {})
  BY DEF P!Call
<1> QED
  BY <1>2, <1>3, GoesOn

LEMMA OpensList ==
    ASSUME Stepping, NEW g, P!At(g), NEW h, NEW l,
           <<g, h>> \in {<<"Program", "InProgram">>, <<"Class", "Members">>,
                         <<"Block", "InBlock">>, <<"MethodCall", "Arguments">>},
           NEW t, NEW reported, P!Do(t, <<<<h, l>>>>, <<P!Open>>, reported),
           h = "Arguments" => B!TokenAt(source.tokens, l).type = "ID"
    PROVE  FitsThen
<1>1. PICK e : Now(g, e)
  BY AtIsNow
<1>2. Shape(source.tokens, <<<<h, l>>>> \o Tail(calls), Append(parts, <<>>), t.current)
  BY <1>1, StepsOpen DEF Now
<1> QED
  BY <1>2, OpensOne

LEMMA ReturnsWith ==
    ASSUME Stepping, NEW g, P!At(g), NEW node, NEW t, NEW reported,
           P!Do(t, <<>>, <<node>>, reported),
           Shape(source.tokens, Tail(calls), B!Push(source.tokens, parts, node), t.current)
    PROVE  FitsThen
<1>1. PICK e : Now(g, e)
  BY AtIsNow
<1>2. <<>> \o Tail(calls) = Tail(calls)
  BY <1>1, LeavesNone DEF Now
<1>3. Shape(source.tokens, <<>> \o Tail(calls), B!Push(source.tokens, parts, node), t.current)
  BY <1>2
<1> QED
  BY <1>3, MakesOne

LEMMA ReturnsFixed ==
    ASSUME Stepping, NEW g, P!At(g), NEW kind, <<g, kind>> \in EndNodes, NEW p, NEW t,
           NEW reported, P!Do(t, <<>>, <<<<kind, p>>>>, reported),
           kind \in {"VarDecl", "Identifier", "VarDeclInit"} =>
               B!TokenAt(source.tokens, p).type = "ID",
           kind = "Binary" => /\ B!TokenAt(source.tokens, p).type \in BinaryOperators
                              /\ B!TokenAt(source.tokens, p).type # "EQUALS",
           kind = "Unary" => B!TokenAt(source.tokens, p).type \in {"PLUS", "MINUS"}
    PROVE  FitsThen
<1>1. PICK e : Now(g, e)
  BY AtIsNow
<1>2. Shape(source.tokens, Tail(calls), B!Push(source.tokens, parts, <<kind, p>>), t.current)
  BY <1>1, Finishes DEF Now
<1>3. PICK node : node = <<kind, p>>
  OBVIOUS
<1>4. /\ P!Do(t, <<>>, <<node>>, reported)
      /\ Shape(source.tokens, Tail(calls), B!Push(source.tokens, parts, node), t.current)
  BY <1>2, <1>3
<1> QED
  BY <1>4, ReturnsWith

LEMMA ReturnsAll ==
    ASSUME Stepping, NEW g, P!At(g), NEW kind, <<g, kind>> \in Lists, NEW p, NEW t,
           NEW reported, P!Do(t, <<>>, <<<<kind, p>>>>, reported),
           kind = "MethodCall" => B!TokenAt(source.tokens, p).type = "ID"
    PROVE  FitsThen
<1>1. PICK e : Now(g, e)
  BY AtIsNow
<1>2. Shape(source.tokens, Tail(calls), B!Push(source.tokens, parts, <<kind, p>>), t.current)
  BY <1>1, FinishesList DEF Now
<1>3. PICK node : node = <<kind, p>>
  OBVIOUS
<1>4. /\ P!Do(t, <<>>, <<node>>, reported)
      /\ Shape(source.tokens, Tail(calls), B!Push(source.tokens, parts, node), t.current)
  BY <1>2, <1>3
<1> QED
  BY <1>4, ReturnsWith

LEMMA ReturnsDecl ==
    ASSUME Stepping, NEW g, P!At(g), NEW kind,
           <<g, kind>> \in EndDecls, NEW p, NEW t, NEW reported, P!Do(t, <<>>, <<<<kind, p>>>>, reported),
           kind = "MethodDecl" => B!TokenAt(source.tokens, p).type = "ID"
    PROVE  FitsThen
<1>1. PICK e : Now(g, e)
  BY AtIsNow
<1>2. Shape(source.tokens, Tail(calls), B!Push(source.tokens, parts, <<kind, p>>), t.current)
  <2>1. PICK cs, ps, file, current, next :
           /\ cs = Tail(calls) /\ ps = parts /\ file = source.tokens
           /\ current = tokens.current /\ next = t.current
    OBVIOUS
  <2>2. /\ NamesAreKnown(file) /\ IsSeq(cs) /\ IsSeq(ps)
        /\ Runs(file, current, cs, g, ps, e)
        /\ kind = "MethodDecl" => B!TokenAt(file, p).type = "ID"
    BY <1>1, <2>1 DEF Now
  <2>3. Shape(file, cs, B!Push(file, ps, <<kind, p>>), next)
    BY <2>2, FinishesDecl
  <2> QED
    BY <2>1, <2>3
<1>3. PICK node : node = <<kind, p>>
  OBVIOUS
<1>4. /\ P!Do(t, <<>>, <<node>>, reported)
      /\ Shape(source.tokens, Tail(calls), B!Push(source.tokens, parts, node), t.current)
  BY <1>2, <1>3
<1> QED
  BY <1>4, ReturnsWith

LEMMA ReturnsOnly ==
    ASSUME Stepping, NEW g, P!At(g), NEW t, NEW reported, P!Do(t, <<>>, <<>>, reported),
           Shape(source.tokens, Tail(calls), parts, t.current)
    PROVE  FitsThen
<1>1. PICK e : Now(g, e)
  BY AtIsNow
<1>2. <<>> \o Tail(calls) = Tail(calls)
  BY <1>1, LeavesNone DEF Now
<1>3. Shape(source.tokens, <<>> \o Tail(calls), parts, t.current)
  BY <1>2
<1> QED
  BY <1>3, GoesOn

LEMMA ReturnsSame ==
    ASSUME Stepping, NEW g \in {"StmtEnd", "Operators", "EndGroup"}, P!At(g), NEW t,
           NEW reported, P!Do(t, <<>>, <<>>, reported)
    PROVE  FitsThen
<1>1. PICK e : Now(g, e)
  BY AtIsNow
<1>2. Shape(source.tokens, Tail(calls), parts, t.current)
  BY <1>1, HandsOn DEF Now
<1> QED
  BY <1>2, ReturnsOnly

-----------------------------------------------------------------------------
LEMMA StatementFits ==
    ASSUME Stepping, P!ParseStatement
    PROVE  FitsThen
<1> PICK g : g = "Statement"
  OBVIOUS
<1>1. P!At(g)
  BY DEF P!ParseStatement
<1>2. ASSUME NEW h \in {"Block", "If", "While", "Class", "MethodDecl"}, NEW t,
             P!Call(t, <<<<h, 0>>>>)
      PROVE  FitsThen
  <2>1. <<g, h>> \in Pairs /\ h # "MethodCall"
    BY <1>2 DEF Pairs
  <2> QED
    BY <1>1, <1>2, <2>1, GoesInto
<1>3. ASSUME NEW h, NEW w, <<g, w, h>> \in {<<"Statement", "DeclEnd", "VarDecl">>,
                                            <<"Statement", "StmtEnd", "Return">>,
                                            <<"Statement", "StmtEnd", "ExprStmt">>},
             NEW t, P!Call(t, <<<<h, 0>>, <<w, 0>>>>)
      PROVE  FitsThen
  <2>1. <<g, w, h>> \in Calls /\ h # "MethodCall" /\ h # "Unary"
    BY <1>3 DEF Calls
  <2>2. Fine(source.tokens, <<w, 0>>) /\ Fine(source.tokens, <<h, 0>>)
    BY <1>3, PlainFine
  <2>3. P!Do(t, <<<<h, 0>>, <<w, 0>>>>, <<>>, {})
    BY <1>3 DEF P!Call
  <2> QED
    BY <1>1, <2>1, <2>2, <2>3, GoesIntoTwo
<1>4. \/ \E h \in {"Block", "If", "While", "Class", "MethodDecl"}, t \in {tokens, P!Peek(tokens, 2)} :
             P!Call(t, <<<<h, 0>>>>)
      \/ \E x \in {<<"Statement", "DeclEnd", "VarDecl">>, <<"Statement", "StmtEnd", "Return">>,
                   <<"Statement", "StmtEnd", "ExprStmt">>}, t \in {tokens, P!Peek(tokens, 2)} :
             P!Call(t, <<<<x[3], 0>>, <<x[2], 0>>>>)
  BY DEF P!ParseStatement
<1>5. CASE \E h \in {"Block", "If", "While", "Class", "MethodDecl"},
             t \in {tokens, P!Peek(tokens, 2)} : P!Call(t, <<<<h, 0>>>>)
  BY <1>2, <1>5
<1>6. CASE \E x \in {<<"Statement", "DeclEnd", "VarDecl">>,
                     <<"Statement", "StmtEnd", "Return">>,
                     <<"Statement", "StmtEnd", "ExprStmt">>},
             t \in {tokens, P!Peek(tokens, 2)} : P!Call(t, <<<<x[3], 0>>, <<x[2], 0>>>>)
  <2>1. PICK x \in {<<"Statement", "DeclEnd", "VarDecl">>,
                    <<"Statement", "StmtEnd", "Return">>,
                    <<"Statement", "StmtEnd", "ExprStmt">>},
             t \in {tokens, P!Peek(tokens, 2)} : P!Call(t, <<<<x[3], 0>>, <<x[2], 0>>>>)
    BY <1>6
  <2>2. PICK h, w : h = x[3] /\ w = x[2]
    OBVIOUS
  <2>3. <<g, w, h>> \in {<<"Statement", "DeclEnd", "VarDecl">>,
                         <<"Statement", "StmtEnd", "Return">>,
                         <<"Statement", "StmtEnd", "ExprStmt">>}
    BY <2>1, <2>2
  <2> QED
    BY <1>3, <2>1, <2>2, <2>3
<1> QED
  BY <1>4, <1>5, <1>6

LEMMA EndStatementFits ==
    ASSUME Stepping, P!EndStatement
    PROVE  FitsThen
<1>1. CASE P!At("StmtEnd")
           /\ P!Do(P!Advance(tokens), <<>>, <<>>, P!Require("SEMICOLON", tokens, "semicolon"))
  BY <1>1, ReturnsSame
<1>2. CASE P!At("DeclEnd")
           /\ P!Do(P!Advance(tokens), <<>>, <<<<"ExprStmt", 0>>>>,
                   P!Require("SEMICOLON", tokens, "semicolon"))
  <2>1. PICK kind, g, p : kind = "ExprStmt" /\ g = "DeclEnd" /\ p = 0
    OBVIOUS
  <2>2. <<g, kind>> \in EndNodes
    BY <2>1 DEF EndNodes
  <2>3. P!At(g) /\ P!Do(P!Advance(tokens), <<>>, <<<<kind, p>>>>,
                        P!Require("SEMICOLON", tokens, "semicolon"))
    BY <1>2, <2>1
  <2>4. kind \notin {"VarDecl", "Identifier", "VarDeclInit", "Binary", "Unary"}
    BY <2>1
  <2> QED
    BY <2>2, <2>3, <2>4, ReturnsFixed
<1> QED
  BY <1>1, <1>2 DEF P!EndStatement

LEMMA ClassFits ==
    ASSUME Stepping, P!ParseClass
    PROVE  FitsThen
<1> PICK name, brace : name = P!Advance(tokens) /\ brace = P!Advance(name)
  OBVIOUS
<1>1. CASE P!At("Class")
           /\ P!Do(P!Advance(brace), <<<<"Members", name.current>>>>, <<P!Open>>,
                   P!Require("ID", name, "identifier")
                     \union P!Require("LBRACE", brace, "class body"))
  <2>1. PICK g, h, l, t : /\ g = "Class" /\ h = "Members" /\ l = name.current
                          /\ t = P!Advance(brace)
    OBVIOUS
  <2>2. PICK reported : reported = P!Require("ID", name, "identifier")
                                       \union P!Require("LBRACE", brace, "class body")
    OBVIOUS
  <2>3. P!At(g) /\ P!Do(t, <<<<h, l>>>>, <<P!Open>>, reported) /\ h # "Arguments"
    BY <1>1, <2>1, <2>2
  <2>4. <<g, h>> \in {<<"Program", "InProgram">>, <<"Class", "Members">>,
                      <<"Block", "InBlock">>, <<"MethodCall", "Arguments">>}
    BY <2>1
  <2> QED
    BY <2>3, <2>4, OpensList
<1>2. CASE P!At("Members") /\ P!Call(tokens, <<<<"Member", 0>>, calls[1]>>)
  <2>1. PICK g, wait, h, t : /\ g = "Members" /\ wait = calls[1] /\ h = "Member"
                             /\ t = tokens
    OBVIOUS
  <2>2. P!At(g) /\ P!Call(t, <<<<h, 0>>, wait>>)
    BY <1>2, <2>1
  <2>3. wait[1] = g /\ Fine(source.tokens, wait)
    <3>1. PICK e : Now(g, e)
      BY <2>2, AtIsNow
    <3> QED
      BY <2>1, <3>1 DEF Now
  <2>4. <<g, wait[1], h>> \in {<<"InProgram", "InProgram", "Statement">>,
                               <<"InBlock", "InBlock", "Statement">>,
                               <<"Members", "Members", "Member">>,
                               <<"Else", "EndElse", "Statement">>}
    BY <2>1, <2>3
  <2> QED
    BY <2>2, <2>3, <2>4, GoesOver
<1>3. CASE P!At("Members") /\ P!Make(P!Advance(tokens), "Class", P!Local)
  <2>1. PICK g, kind, p, t : /\ g = "Members" /\ kind = "Class" /\ p = P!Local
                             /\ t = P!Advance(tokens)
    OBVIOUS
  <2>2. P!At(g) /\ P!Do(t, <<>>, <<<<kind, p>>>>, {}) /\ kind # "MethodCall"
    BY <1>3, <2>1 DEF P!Make
  <2>3. <<g, kind>> \in Lists
    BY <2>1 DEF Lists
  <2> QED
    BY <2>2, <2>3, ReturnsAll
<1> QED
  BY <1>1, <1>2, <1>3 DEF P!ParseClass

LEMMA MemberFits ==
    ASSUME Stepping, P!ParseClassMember
    PROVE  FitsThen
<1>1. ASSUME NEW g, NEW h, P!At(g), <<g, h>> \in Pairs, h # "MethodCall", NEW t,
             P!Call(t, <<<<h, 0>>>>)
      PROVE  FitsThen
  BY <1>1, GoesInto
<1>2. CASE P!At("Member") /\ \E t : P!Call(t, <<<<"BareMember", 0>>>>)
  <2>1. PICK g, h : g = "Member" /\ h = "BareMember"
    OBVIOUS
  <2>2. PICK t : P!Call(t, <<<<h, 0>>>>)
    BY <1>2, <2>1
  <2>3. P!At(g) /\ <<g, h>> \in Pairs /\ h # "MethodCall"
    BY <1>2, <2>1 DEF Pairs
  <2> QED
    BY <1>1, <2>2, <2>3
<1>3. CASE P!At("BareMember") /\ \E h \in {"MethodDecl", "FieldDecl", "ConstructorDecl"} : \E t :
               P!Call(t, <<<<h, 0>>>>)
  <2>1. PICK g : g = "BareMember"
    OBVIOUS
  <2>2. PICK h \in {"MethodDecl", "FieldDecl", "ConstructorDecl"} :
                 \E t : P!Call(t, <<<<h, 0>>>>)
    BY <1>3
  <2>3. PICK t : P!Call(t, <<<<h, 0>>>>)
    BY <2>2
  <2>4. P!At(g) /\ <<g, h>> \in Pairs /\ h # "MethodCall"
    BY <1>3, <2>1, <2>2 DEF Pairs
  <2> QED
    BY <1>1, <2>3, <2>4
<1>4. ASSUME NEW t, P!Do(t, <<<<"SkipMember", 0>>>>, <<>>, {"class member"})
      PROVE  FALSE
  <2>1. {"class member"} = {}
    BY <1>4, Reported
  <2> QED
    BY <2>1
<1>5. ~P!At("SkipMember")
  <2> SUFFICES ASSUME P!At("SkipMember") PROVE FALSE
    OBVIOUS
  <2>1. PICK e : Now("SkipMember", e)
    BY AtIsNow
  <2> QED
    BY <2>1 DEF Now, Runs, Ready
<1>6. ASSUME P!At("Member"),
             P!Call(IF P!Current = "KW_ACCESS_MODIFIER" THEN P!Advance(tokens) ELSE tokens,
                    <<<<"BareMember", 0>>>>)
      PROVE  FitsThen
  BY <1>2, <1>6
<1>7. ASSUME P!At("BareMember"),
             P!Call(P!Peek(tokens, 2),
                    IF P!Peeked(2) = "LPAREN" THEN <<<<"MethodDecl", 0>>>>
                    ELSE <<<<"FieldDecl", 0>>>>)
      PROVE  FitsThen
  <2>1. \E h \in {"MethodDecl", "FieldDecl", "ConstructorDecl"} : \E t : P!Call(t, <<<<h, 0>>>>)
    <3>1. CASE P!Peeked(2) = "LPAREN"
      BY <1>7, <3>1
    <3>2. CASE P!Peeked(2) # "LPAREN"
      BY <1>7, <3>2
    <3> QED
      BY <3>1, <3>2
  <2> QED
    BY <1>3, <1>7, <2>1
<1>8. ASSUME P!At("BareMember"), P!Call(P!Peek(tokens, 1), <<<<"ConstructorDecl", 0>>>>)
      PROVE  FitsThen
  BY <1>3, <1>8
<1> QED
  BY <1>4, <1>5, <1>6, <1>7, <1>8 DEF P!ParseClassMember

LEMMA FieldFits ==
    ASSUME Stepping, P!ParseFieldDecl
    PROVE  FitsThen
<1>1. PICK g, kind, name, p, t, reported :
        /\ g = "FieldDecl" /\ kind = "FieldDecl" /\ name = P!Advance(tokens)
        /\ p = name.current /\ t = P!Advance(name)
        /\ reported = P!Require("ID", name, "identifier")
  OBVIOUS
<1>2. P!At(g) /\ P!Do(t, <<>>, <<<<kind, p>>>>, reported)
  BY <1>1 DEF P!ParseFieldDecl
<1>3. <<g, kind>> \in EndNodes
  BY <1>1 DEF EndNodes
<1>4. kind \notin {"VarDecl", "Identifier", "VarDeclInit", "Binary", "Unary"}
  BY <1>1
<1> QED
  BY <1>2, <1>3, <1>4, ReturnsFixed

(* The parameters of a constructor or a method.                            *)
LEMMA GoesThroughDecl ==
    ASSUME Stepping, NEW g, P!At(g), NEW w,
           <<g, w>> \in BeginDecls, NEW l, Fine(source.tokens, <<w, l>>), NEW t, NEW reported,
           P!Do(t, <<<<"Params", 0>>, <<"Block", 0>>, <<w, l>>>>, <<P!Open>>, reported)
    PROVE  FitsThen
<1>1. PICK e : Now(g, e)
  BY AtIsNow
<1>2. Shape(source.tokens, <<<<"Params", 0>>, <<"Block", 0>>, <<w, l>>>> \o Tail(calls),
            Append(parts, <<>>), t.current)
  BY <1>1, StepsDecl DEF Now
<1> QED
  BY <1>2, OpensOne

LEMMA ConstructorFits ==
    ASSUME Stepping, P!ParseConstructorDecl
    PROVE  FitsThen
<1>1. CASE P!At("ConstructorDecl")
           /\ P!Do(P!Advance(tokens),
                   <<<<"Params", 0>>, <<"Block", 0>>, <<"EndConstructor", tokens.current>>>>,
                   <<P!Open>>, {})
  <2>1. PICK g, w, l : g = "ConstructorDecl" /\ w = "EndConstructor" /\ l = tokens.current
    OBVIOUS
  <2>2. /\ P!At(g)
        /\ P!Do(P!Advance(tokens), <<<<"Params", 0>>, <<"Block", 0>>, <<w, l>>>>, <<P!Open>>, {})
    BY <1>1, <2>1
  <2>3. Fine(source.tokens, <<w, l>>)
    BY <2>1, PlainFine
  <2>4. <<g, w>> \in BeginDecls
    BY <2>1 DEF BeginDecls
  <2> QED
    BY <2>2, <2>3, <2>4, GoesThroughDecl
<1>2. CASE P!At("EndConstructor") /\ P!Make(tokens, "ConstructorDecl", P!Local)
  <2>1. PICK g, kind, p : g = "EndConstructor" /\ kind = "ConstructorDecl" /\ p = P!Local
    OBVIOUS
  <2>2. P!At(g) /\ P!Do(tokens, <<>>, <<<<kind, p>>>>, {}) /\ kind # "MethodDecl"
    BY <1>2, <2>1 DEF P!Make
  <2>3. <<g, kind>> \in EndDecls
    BY <2>1 DEF EndDecls
  <2> QED
    BY <2>2, <2>3, ReturnsDecl
<1> QED
  BY <1>1, <1>2 DEF P!ParseConstructorDecl

LEMMA MethodFits ==
    ASSUME Stepping, P!ParseMethodDecl
    PROVE  FitsThen
<1>1. PICK name : name = P!Advance(tokens)
  OBVIOUS
<1>2. CASE P!At("MethodDecl")
           /\ P!Do(P!Advance(name),
                   <<<<"Params", 0>>, <<"Block", 0>>, <<"EndMethod", name.current>>>>,
                   <<P!Open>>, P!Require("ID", name, "identifier"))
  <2>1. PICK g, w, l, t, reported :
          /\ g = "MethodDecl" /\ w = "EndMethod" /\ l = name.current
          /\ t = P!Advance(name) /\ reported = P!Require("ID", name, "identifier")
    OBVIOUS
  <2>2. /\ P!At(g)
        /\ P!Do(t, <<<<"Params", 0>>, <<"Block", 0>>, <<w, l>>>>, <<P!Open>>, reported)
    BY <1>2, <2>1
  <2>3. B!TokenAt(source.tokens, l).type = "ID"
    BY <2>1, <2>2, Reported, RequiredIs
  <2>4. Fine(source.tokens, <<w, l>>)
    BY <2>1, <2>3 DEF Fine
  <2>5. <<g, w>> \in BeginDecls
    BY <2>1 DEF BeginDecls
  <2> QED
    BY <2>2, <2>4, <2>5, GoesThroughDecl
<1>3. CASE P!At("EndMethod") /\ P!Make(tokens, "MethodDecl", P!Local)
  <2>1. PICK g, kind, p : g = "EndMethod" /\ kind = "MethodDecl" /\ p = P!Local
    OBVIOUS
  <2>2. P!At(g) /\ P!Do(tokens, <<>>, <<<<kind, p>>>>, {})
    BY <1>3, <2>1 DEF P!Make
  <2>3. <<g, kind>> \in EndDecls
    BY <2>1 DEF EndDecls
  <2>4. B!TokenAt(source.tokens, p).type = "ID"
    <3>1. PICK e : Now("EndMethod", e)
      BY <1>3, AtIsNow
    <3> QED
      BY <2>1, <3>1 DEF Now, Fine, P!Local
  <2> QED
    BY <2>2, <2>3, <2>4, ReturnsDecl
<1> QED
  BY <1>1, <1>2, <1>3 DEF P!ParseMethodDecl

LEMMA ParamsFit ==
    ASSUME Stepping, P!ParseParams
    PROVE  FitsThen
<1> PICK t, name, g, frame, reported :
      /\ t = P!Advance(tokens) /\ name = P!Advance(t) /\ g = "Params" /\ frame = calls[1]
      /\ reported = P!Require("DATA_TYPE", t, "parameter type")
                       \union P!Require("ID", name, "parameter name")
  OBVIOUS
<1>1. P!At(g)
  BY DEF P!ParseParams
<1>2. PICK e : Now(g, e)
  BY <1>1, AtIsNow
<1>3. frame[1] = "Params" /\ Fine(source.tokens, frame)
  BY <1>2 DEF Now
<1>4. /\ IsSeq(Tail(calls)) /\ IsSeq(parts) /\ NamesAreKnown(source.tokens)
      /\ Runs(source.tokens, tokens.current, Tail(calls), "Params", parts, e)
  BY <1>2 DEF Now
<1>5. ASSUME NEW next
      PROVE  Shape(source.tokens, <<frame>> \o Tail(calls), parts, next)
  <2>1. PICK file, current, cs, ps :
          /\ file = source.tokens /\ current = tokens.current /\ cs = Tail(calls)
          /\ ps = parts
    OBVIOUS
  <2>2. frame[1] = "Params" /\ "Params" \in {"Params", "Arguments"}
    BY <1>3
  <2>3. /\ IsSeq(cs) /\ IsSeq(ps) /\ Fine(file, frame)
        /\ Runs(file, current, cs, "Params", ps, e)
    BY <1>3, <1>4, <2>1
  <2>4. Shape(file, <<frame>> \o cs, ps, next)
    BY <2>2, <2>3, ListStays
  <2> QED
    BY <2>1, <2>4
<1>6. CASE P!Call(P!Advance(t), <<>>)
  <2>1. Shape(source.tokens, Tail(calls), parts, P!Advance(t).current)
    BY <1>4, StepsBody
  <2>2. P!Do(P!Advance(t), <<>>, <<>>, {})
    BY <1>6 DEF P!Call
  <2> QED
    BY <1>1, <2>1, <2>2, ReturnsOnly
<1>7. ASSUME NEW s, NEW r, P!Do(s, <<frame>>, <<>>, r)
      PROVE  FitsThen
  <2>1. Shape(source.tokens, <<frame>> \o Tail(calls), parts, s.current)
    BY <1>5
  <2> QED
    BY <1>7, <2>1, GoesOn
<1>8. CASE P!Call(t, <<frame>>)
  <2>1. P!Do(t, <<frame>>, <<>>, {})
    BY <1>8 DEF P!Call
  <2> QED
    BY <1>7, <2>1
<1>9. CASE P!Do(name, <<frame>>, <<<<"Param", name.current>>>>, reported)
  <2>1. PICK p, node : p = name.current /\ node = <<"Param", p>>
    OBVIOUS
  <2>2. P!Do(name, <<frame>>, <<node>>, reported)
    BY <1>9, <2>1
  <2>3. P!Require("ID", name, "parameter name") = {}
    <3>1. reported = {}
      BY <2>2, Reported
    <3> QED
      BY <3>1
  <2>4. B!TokenAt(source.tokens, p).type = "ID"
    BY <2>1, <2>3, RequiredIs
  <2>5. Shape(source.tokens, <<frame>> \o Tail(calls),
              B!Push(source.tokens, parts, <<"Param", p>>), name.current)
    BY <1>3, <1>4, <2>4, StepsParam
  <2>6. Shape(source.tokens, <<frame>> \o Tail(calls),
              B!Push(source.tokens, parts, node), name.current)
    BY <2>1, <2>5
  <2> QED
    BY <2>2, <2>6, MakesOne
<1>10. \/ P!Call(P!Advance(t), <<>>)
       \/ P!Call(t, <<frame>>)
       \/ P!Do(name, <<frame>>, IF name.current = P!End THEN <<>>
                                ELSE <<<<"Param", name.current>>>>, reported)
  BY DEF P!ParseParams
<1>11. CASE P!Do(name, <<frame>>, IF name.current = P!End THEN <<>>
                                  ELSE <<<<"Param", name.current>>>>, reported)
  <2>1. CASE name.current = P!End
    <3>1. P!Do(name, <<frame>>, <<>>, reported)
      BY <1>11, <2>1
    <3> QED
      BY <1>7, <3>1
  <2>2. CASE name.current # P!End
    <3>1. P!Do(name, <<frame>>, <<<<"Param", name.current>>>>, reported)
      BY <1>11, <2>2
    <3> QED
      BY <1>9, <3>1
  <2> QED
    BY <2>1, <2>2
<1> QED
  BY <1>6, <1>8, <1>10, <1>11

(* A node of a fixed number of parts whose token does not matter.          *)
LEMMA MakesFixed ==
    ASSUME Stepping, NEW g, P!At(g), NEW kind, <<g, kind>> \in EndNodes, NEW p, NEW t,
           P!Make(t, kind, p),
           kind \notin {"VarDecl", "Identifier", "VarDeclInit", "Binary", "Unary"}
    PROVE  FitsThen
<1>1. P!Do(t, <<>>, <<<<kind, p>>>>, {})
  BY DEF P!Make
<1> QED
  BY <1>1, ReturnsFixed

LEMMA BlockFits ==
    ASSUME Stepping, P!ParseBlock
    PROVE  FitsThen
<1>1. CASE P!At("Block")
           /\ P!Do(P!Advance(tokens), <<<<"InBlock", 0>>>>, <<P!Open>>,
                   P!Require("LBRACE", tokens, "opening brace"))
  <2>1. PICK g, h, l, t, reported :
          /\ g = "Block" /\ h = "InBlock" /\ l = 0 /\ t = P!Advance(tokens)
          /\ reported = P!Require("LBRACE", tokens, "opening brace")
    OBVIOUS
  <2>2. P!At(g) /\ P!Do(t, <<<<h, l>>>>, <<P!Open>>, reported) /\ h # "Arguments"
    BY <1>1, <2>1
  <2>3. <<g, h>> \in {<<"Program", "InProgram">>, <<"Class", "Members">>,
                      <<"Block", "InBlock">>, <<"MethodCall", "Arguments">>}
    BY <2>1
  <2> QED
    BY <2>2, <2>3, OpensList
<1>2. CASE P!At("InBlock") /\ P!Make(P!Advance(tokens), "Block", 0)
  <2>1. PICK g, kind, p, t : g = "InBlock" /\ kind = "Block" /\ p = 0 /\ t = P!Advance(tokens)
    OBVIOUS
  <2>2. P!At(g) /\ P!Do(t, <<>>, <<<<kind, p>>>>, {}) /\ kind # "MethodCall"
    BY <1>2, <2>1 DEF P!Make
  <2>3. <<g, kind>> \in Lists
    BY <2>1 DEF Lists
  <2> QED
    BY <2>2, <2>3, ReturnsAll
<1>3. ASSUME P!Do(tokens, <<>>, <<<<"Block", 0>>>>, {"closing brace"})
      PROVE  FALSE
  <2>1. {"closing brace"} = {}
    BY <1>3, Reported
  <2> QED
    BY <2>1
<1>4. CASE P!At("InBlock") /\ P!Call(tokens, <<<<"Statement", 0>>, <<"InBlock", 0>>>>)
  <2>1. PICK g, wait, h, t : g = "InBlock" /\ wait = <<"InBlock", 0>> /\ h = "Statement"
                             /\ t = tokens
    OBVIOUS
  <2>2. P!At(g) /\ P!Call(t, <<<<h, 0>>, wait>>)
    BY <1>4, <2>1
  <2>3. Fine(source.tokens, wait) /\ wait[1] = "InBlock"
    BY <2>1, PlainFine
  <2>4. <<g, wait[1], h>> \in {<<"InProgram", "InProgram", "Statement">>,
                               <<"InBlock", "InBlock", "Statement">>,
                               <<"Members", "Members", "Member">>,
                               <<"Else", "EndElse", "Statement">>}
    BY <2>1, <2>3
  <2> QED
    BY <2>2, <2>3, <2>4, GoesOver
<1> QED
  BY <1>1, <1>2, <1>3, <1>4 DEF P!ParseBlock

(* The condition, and what depends on it.                                  *)
LEMMA GoesThroughIf ==
    ASSUME Stepping, NEW g, P!At(g), NEW w,
           <<g, w>> \in {<<"If", "Else">>, <<"While", "EndWhile">>},
           NEW t, NEW reported,
           P!Do(t, <<<<"Binary", 0>>, <<"Statement", 0>>, <<w, 0>>>>, <<>>, reported)
    PROVE  FitsThen
<1>1. PICK e : Now(g, e)
  BY AtIsNow
<1>2. Shape(source.tokens, <<<<"Binary", 0>>, <<"Statement", 0>>, <<w, 0>>>> \o Tail(calls),
            parts, t.current)
  BY <1>1, StepsIf DEF Now
<1> QED
  BY <1>2, GoesOn

LEMMA IfFits ==
    ASSUME Stepping, P!ParseIfStmt
    PROVE  FitsThen
<1>1. CASE P!At("If")
           /\ P!Do(P!Advance(tokens),
                   <<<<"Binary", 0>>, <<"Statement", 0>>, <<"Else", 0>>>>, <<>>,
                   P!Require("LPAREN", P!Advance(tokens), "opening parenthesis"))
  <2>1. PICK g, w, t, reported :
          /\ g = "If" /\ w = "Else" /\ t = P!Advance(tokens)
          /\ reported = P!Require("LPAREN", P!Advance(tokens), "opening parenthesis")
    OBVIOUS
  <2>2. /\ P!At(g)
        /\ P!Do(t, <<<<"Binary", 0>>, <<"Statement", 0>>, <<w, 0>>>>, <<>>, reported)
    BY <1>1, <2>1
  <2>3. <<g, w>> \in {<<"If", "Else">>, <<"While", "EndWhile">>}
    BY <2>1
  <2> QED
    BY <2>2, <2>3, GoesThroughIf
<1>2. CASE P!At("Else")
           /\ P!Call(P!Advance(tokens), <<<<"Statement", 0>>, <<"EndElse", 0>>>>)
  <2>1. PICK g, wait, h, t : g = "Else" /\ wait = <<"EndElse", 0>> /\ h = "Statement"
                             /\ t = P!Advance(tokens)
    OBVIOUS
  <2>2. P!At(g) /\ P!Call(t, <<<<h, 0>>, wait>>)
    BY <1>2, <2>1
  <2>3. Fine(source.tokens, wait) /\ wait[1] = "EndElse"
    BY <2>1, PlainFine
  <2>4. <<g, wait[1], h>> \in {<<"InProgram", "InProgram", "Statement">>,
                               <<"InBlock", "InBlock", "Statement">>,
                               <<"Members", "Members", "Member">>,
                               <<"Else", "EndElse", "Statement">>}
    BY <2>1, <2>3
  <2> QED
    BY <2>2, <2>3, <2>4, GoesOver
<1>3. ASSUME NEW g, NEW kind, P!At(g), P!Make(tokens, kind, 0),
             <<g, kind>> \in {<<"Else", "If">>, <<"EndElse", "IfElse">>}
      PROVE  FitsThen
  <2>1. /\ <<g, kind>> \in EndNodes
        /\ kind \notin {"VarDecl", "Identifier", "VarDeclInit", "Binary", "Unary"}
    BY <1>3 DEF EndNodes
  <2> QED
    BY <1>3, <2>1, MakesFixed
<1> QED
  BY <1>1, <1>2, <1>3 DEF P!ParseIfStmt

LEMMA WhileFits ==
    ASSUME Stepping, P!ParseWhileStmt
    PROVE  FitsThen
<1>1. CASE P!At("While")
           /\ P!Do(P!Advance(tokens),
                   <<<<"Binary", 0>>, <<"Statement", 0>>, <<"EndWhile", 0>>>>, <<>>,
                   P!Require("LPAREN", P!Advance(tokens), "opening parenthesis"))
  <2>1. PICK g, w, t, reported :
          /\ g = "While" /\ w = "EndWhile" /\ t = P!Advance(tokens)
          /\ reported = P!Require("LPAREN", P!Advance(tokens), "opening parenthesis")
    OBVIOUS
  <2>2. /\ P!At(g)
        /\ P!Do(t, <<<<"Binary", 0>>, <<"Statement", 0>>, <<w, 0>>>>, <<>>, reported)
    BY <1>1, <2>1
  <2>3. <<g, w>> \in {<<"If", "Else">>, <<"While", "EndWhile">>}
    BY <2>1
  <2> QED
    BY <2>2, <2>3, GoesThroughIf
<1>2. CASE P!At("EndWhile") /\ P!Make(tokens, "While", 0)
  <2>1. PICK g, kind : g = "EndWhile" /\ kind = "While"
    OBVIOUS
  <2>2. /\ <<g, kind>> \in EndNodes /\ P!At(g) /\ P!Make(tokens, kind, 0)
        /\ kind \notin {"VarDecl", "Identifier", "VarDeclInit", "Binary", "Unary"}
    BY <1>2, <2>1 DEF EndNodes
  <2> QED
    BY <2>2, MakesFixed
<1> QED
  BY <1>1, <1>2 DEF P!ParseWhileStmt

LEMMA ReturnFits ==
    ASSUME Stepping, P!ParseReturnStmt
    PROVE  FitsThen
<1>1. CASE P!At("Return")
           /\ P!Call(P!Advance(tokens), <<<<"Binary", 0>>, <<"EndReturn", 0>>>>)
  <2>1. PICK g, w, h, t, l : g = "Return" /\ w = "EndReturn" /\ h = "Binary" /\ l = 0
                             /\ t = P!Advance(tokens)
    OBVIOUS
  <2>2. P!At(g) /\ P!Do(t, <<<<h, l>>, <<w, l>>>>, <<>>, {})
    BY <1>1, <2>1 DEF P!Call
  <2>3. Fine(source.tokens, <<h, l>>) /\ Fine(source.tokens, <<w, l>>)
    BY <2>1 DEF Fine
  <2>4. <<g, w, h>> \in Calls /\ h \notin {"MethodCall", "Unary"}
    BY <2>1 DEF Calls
  <2> QED
    BY <2>2, <2>3, <2>4, GoesIntoTwo
<1>2. CASE P!At("EndReturn") /\ P!Make(tokens, "Return", 0)
  <2>1. PICK g, kind : g = "EndReturn" /\ kind = "Return"
    OBVIOUS
  <2>2. /\ <<g, kind>> \in EndNodes /\ P!At(g) /\ P!Make(tokens, kind, 0)
        /\ kind \notin {"VarDecl", "Identifier", "VarDeclInit", "Binary", "Unary"}
    BY <1>2, <2>1 DEF EndNodes
  <2> QED
    BY <2>2, MakesFixed
<1> QED
  BY <1>1, <1>2 DEF P!ParseReturnStmt

LEMMA TypeOfCurrent == P!Current = B!TokenAt(source.tokens, tokens.current).type
BY TypeOfToken DEF P!Current

LEMMA ExprStmtFits ==
    ASSUME Stepping, P!ParseExprStmt
    PROVE  FitsThen
<1>1. ASSUME P!At("ExprStmt"), NEW h \in {"MethodCall", "Binary"}, NEW t,
             P!Call(t, <<<<h, 0>>, <<"EndExprStmt", 0>>>>),
             h = "MethodCall" => B!TokenAt(source.tokens, t.current).type = "ID"
      PROVE  FitsThen
  <2>1. PICK g, w, l : g = "ExprStmt" /\ w = "EndExprStmt" /\ l = 0
    OBVIOUS
  <2>2. P!At(g) /\ P!Do(t, <<<<h, l>>, <<w, l>>>>, <<>>, {})
    BY <1>1, <2>1 DEF P!Call
  <2>3. Fine(source.tokens, <<h, l>>) /\ Fine(source.tokens, <<w, l>>)
    BY <2>1 DEF Fine
  <2>4. <<g, w, h>> \in Calls /\ h # "Unary"
    BY <2>1 DEF Calls
  <2> QED
    BY <1>1, <2>2, <2>3, <2>4, GoesIntoTwo
<1>2. CASE P!At("EndExprStmt") /\ P!Make(tokens, "ExprStmt", 0)
  <2>1. PICK g, kind : g = "EndExprStmt" /\ kind = "ExprStmt"
    OBVIOUS
  <2>2. /\ <<g, kind>> \in EndNodes /\ P!At(g) /\ P!Make(tokens, kind, 0)
        /\ kind \notin {"VarDecl", "Identifier", "VarDeclInit", "Binary", "Unary"}
    BY <1>2, <2>1 DEF EndNodes
  <2> QED
    BY <2>2, MakesFixed
<1>3. CASE P!At("ExprStmt") /\ P!Current # "ID"
           /\ P!Call(tokens, <<<<"Binary", 0>>, <<"EndExprStmt", 0>>>>)
  <2>1. "Binary" \in {"MethodCall", "Binary"} /\ "Binary" # "MethodCall"
    OBVIOUS
  <2> QED
    BY <1>1, <1>3, <2>1
<1>4. CASE P!At("ExprStmt") /\ P!Current = "ID"
           /\ P!Call(P!Peek(tokens, 1),
                     <<IF P!Peeked(1) = "LPAREN" THEN <<"MethodCall", 0>> ELSE <<"Binary", 0>>,
                       <<"EndExprStmt", 0>>>>)
  <2>1. PICK h, t : /\ h = (IF P!Peeked(1) = "LPAREN" THEN "MethodCall" ELSE "Binary")
                    /\ t = P!Peek(tokens, 1)
    OBVIOUS
  <2>2. h \in {"MethodCall", "Binary"} /\ P!Call(t, <<<<h, 0>>, <<"EndExprStmt", 0>>>>)
    <3>1. CASE P!Peeked(1) = "LPAREN"
      BY <1>4, <2>1, <3>1
    <3>2. CASE P!Peeked(1) # "LPAREN"
      BY <1>4, <2>1, <3>2
    <3> QED
      BY <3>1, <3>2
  <2>3. B!TokenAt(source.tokens, t.current).type = "ID"
    BY <1>4, <2>1, PeekStays, TypeOfCurrent
  <2> QED
    BY <1>1, <1>4, <2>2, <2>3
<1> QED
  BY <1>2, <1>3, <1>4 DEF P!ParseExprStmt

LEMMA VarDeclFits ==
    ASSUME Stepping, P!ParseVarDecl
    PROVE  FitsThen
<1>1. PICK name, after, wrong :
        /\ name = P!Advance(tokens) /\ after = P!Advance(name)
        /\ wrong = P!Require("ID", name, "identifier")
  OBVIOUS
<1>2. CASE P!At("VarDecl")
           /\ P!Do(P!Advance(after), <<<<"Binary", 0>>, <<"EndVarDecl", name.current>>>>, <<>>,
                   wrong)
  <2>1. PICK g, w, h, t, l, m :
          /\ g = "VarDecl" /\ w = "EndVarDecl" /\ h = "Binary" /\ l = name.current /\ m = 0
          /\ t = P!Advance(after)
    OBVIOUS
  <2>2. P!At(g) /\ P!Do(t, <<<<h, m>>, <<w, l>>>>, <<>>, wrong)
    BY <1>2, <2>1
  <2>3. B!TokenAt(source.tokens, l).type = "ID"
    BY <1>1, <2>1, <2>2, Reported, RequiredIs
  <2>4. Fine(source.tokens, <<h, m>>) /\ Fine(source.tokens, <<w, l>>)
    BY <2>1, <2>3 DEF Fine
  <2>5. <<g, w, h>> \in Calls /\ h \notin {"MethodCall", "Unary"}
    BY <2>1 DEF Calls
  <2> QED
    BY <2>2, <2>4, <2>5, GoesIntoTwo
<1>3. CASE P!At("VarDecl") /\ P!Do(after, <<>>, <<<<"VarDecl", name.current>>>>, wrong)
  <2>1. PICK g, kind, p : g = "VarDecl" /\ kind = "VarDecl" /\ p = name.current
    OBVIOUS
  <2>2. P!At(g) /\ P!Do(after, <<>>, <<<<kind, p>>>>, wrong)
    BY <1>3, <2>1
  <2>3. B!TokenAt(source.tokens, p).type = "ID"
    BY <1>1, <2>1, <2>2, Reported, RequiredIs
  <2>4. <<g, kind>> \in EndNodes /\ kind \notin {"Binary", "Unary"}
    BY <2>1 DEF EndNodes
  <2> QED
    BY <2>2, <2>3, <2>4, ReturnsFixed
<1>4. CASE P!At("EndVarDecl") /\ P!Make(tokens, "VarDeclInit", P!Local)
  <2>1. PICK g, kind, p : g = "EndVarDecl" /\ kind = "VarDeclInit" /\ p = P!Local
    OBVIOUS
  <2>2. P!At(g) /\ P!Do(tokens, <<>>, <<<<kind, p>>>>, {})
    BY <1>4, <2>1 DEF P!Make
  <2>3. B!TokenAt(source.tokens, p).type = "ID"
    <3>1. PICK e : Now("EndVarDecl", e)
      BY <1>4, AtIsNow
    <3> QED
      BY <2>1, <3>1 DEF Now, Fine, P!Local
  <2>4. <<g, kind>> \in EndNodes /\ kind \notin {"Binary", "Unary"}
    BY <2>1 DEF EndNodes
  <2> QED
    BY <2>2, <2>3, <2>4, ReturnsFixed
<1> QED
  BY <1>1, <1>2, <1>3, <1>4 DEF P!ParseVarDecl

LEMMA BinaryFits ==
    ASSUME Stepping, P!ParseBinaryExpr
    PROVE  FitsThen
<1>1. PICK g, w, h, l, m :
        /\ g = "Binary" /\ w = "Operators" /\ l = P!Local /\ m = 0
        /\ h = (IF P!UnaryPrecedence(P!Current) > P!Local THEN "Unary" ELSE "Expr")
  OBVIOUS
<1>2. P!At(g) /\ P!Do(tokens, <<<<h, m>>, <<w, l>>>>, <<>>, {})
  <2>1. CASE P!UnaryPrecedence(P!Current) > P!Local
    BY <1>1, <2>1 DEF P!ParseBinaryExpr, P!Call
  <2>2. CASE ~(P!UnaryPrecedence(P!Current) > P!Local)
    BY <1>1, <2>2 DEF P!ParseBinaryExpr, P!Call
  <2> QED
    BY <2>1, <2>2
<1>3. l \in Nat
  <2>1. PICK e : Now(g, e)
    BY <1>2, AtIsNow
  <2> QED
    BY <1>1, <2>1 DEF Now, Fine, P!Local
<1>4. h = "Unary" => B!TokenAt(source.tokens, tokens.current).type \in {"PLUS", "MINUS"}
  <2> SUFFICES ASSUME h = "Unary"
               PROVE  P!Current \in {"PLUS", "MINUS"}
    BY TypeOfCurrent
  <2>1. P!UnaryPrecedence(P!Current) > l
    BY <1>1
  <2> QED
    BY <1>3, <2>1 DEF P!UnaryPrecedence
<1>5. Fine(source.tokens, <<h, m>>) /\ Fine(source.tokens, <<w, l>>)
  BY <1>1, <1>3 DEF Fine
<1>6. <<g, w, h>> \in Calls /\ h # "MethodCall"
  BY <1>1 DEF Calls
<1> QED
  BY <1>2, <1>4, <1>5, <1>6, GoesIntoTwo

LEMMA TakenIsOperator ==
    ASSUME NEW type, NEW l \in Nat, P!Takes(type, l)
    PROVE  type \in BinaryOperators /\ P!BinaryPrecedence(type) \in Nat
<1>1. P!BinaryPrecedence(type) > l
  BY DEF P!Takes
<1>2. \/ type \in BinaryOperators /\ P!BinaryPrecedence(type) \in {1, 2, 3, 4, 5}
      \/ P!BinaryPrecedence(type) = -1
  BY DEF P!BinaryPrecedence, BinaryOperators
<1> QED
  BY <1>1, <1>2

LEMMA OperatorsFit ==
    ASSUME Stepping, P!ParseOperators
    PROVE  FitsThen
<1>1. CASE P!At("Operators") /\ P!Takes(P!Current, P!Local)
           /\ P!Call(P!Advance(tokens),
                     <<<<"Binary", P!BinaryPrecedence(P!Current)>>,
                       <<"EndBinary", tokens.current>>, calls[1]>>)
  <2>1. PICK n, l, frame, t :
          /\ n = P!BinaryPrecedence(P!Current) /\ l = tokens.current /\ frame = calls[1]
          /\ t = P!Advance(tokens)
    OBVIOUS
  <2>2. PICK e : Now("Operators", e)
    BY <1>1, AtIsNow
  <2>3. /\ frame[1] = "Operators" /\ Fine(source.tokens, frame) /\ P!Local \in Nat
        /\ IsSeq(Tail(calls)) /\ IsSeq(parts)
        /\ Runs(source.tokens, tokens.current, Tail(calls), "Operators", parts, e)
    BY <2>1, <2>2 DEF Now, Fine, P!Local
  <2>4. n \in Nat /\ B!TokenAt(source.tokens, l).type \in BinaryOperators
    BY <1>1, <2>1, <2>3, TakenIsOperator, TypeOfCurrent
  <2>5. Shape(source.tokens,
              <<<<"Binary", n>>, <<"EndBinary", l>>, frame>> \o Tail(calls), parts, t.current)
    BY <2>3, <2>4, StepsOperator
  <2>6. P!Do(t, <<<<"Binary", n>>, <<"EndBinary", l>>, frame>>, <<>>, {})
    BY <1>1, <2>1 DEF P!Call
  <2> QED
    BY <2>5, <2>6, GoesOn
<1>2. CASE P!At("Operators") /\ P!Call(tokens, <<>>)
  <2>1. P!Do(tokens, <<>>, <<>>, {})
    BY <1>2 DEF P!Call
  <2> QED
    BY <1>2, <2>1, ReturnsSame
<1>3. CASE P!At("EndBinary")
           /\ P!Make(tokens, IF P!Type(P!Local) = "EQUALS" THEN "Assignment" ELSE "Binary",
                     P!Local)
  <2>1. PICK g, kind, p :
          /\ g = "EndBinary" /\ p = P!Local
          /\ kind = (IF P!Type(P!Local) = "EQUALS" THEN "Assignment" ELSE "Binary")
    OBVIOUS
  <2>2. P!At(g) /\ P!Do(tokens, <<>>, <<<<kind, p>>>>, {})
    BY <1>3, <2>1 DEF P!Make
  <2>3. B!TokenAt(source.tokens, p).type \in BinaryOperators
    <3>1. PICK e : Now("EndBinary", e)
      BY <1>3, AtIsNow
    <3> QED
      BY <2>1, <3>1 DEF Now, Fine, P!Local
  <2>4. kind = "Binary" => B!TokenAt(source.tokens, p).type # "EQUALS"
    BY <2>1, TypeOfToken
  <2>5. <<g, kind>> \in EndNodes
        /\ kind \notin {"VarDecl", "Identifier", "VarDeclInit", "Unary"}
    BY <2>1 DEF EndNodes
  <2> QED
    BY <2>2, <2>3, <2>4, <2>5, ReturnsFixed
<1> QED
  BY <1>1, <1>2, <1>3 DEF P!ParseOperators

LEMMA UnaryFits ==
    ASSUME Stepping, P!ParseUnaryExpr
    PROVE  FitsThen
<1>1. CASE P!At("Unary")
           /\ P!Call(P!Advance(tokens), <<<<"Binary", P!UnaryPrecedence(P!Current)>>,
                                          <<"EndUnary", tokens.current>>>>)
  <2>1. PICK g, w, h, t, l, m :
          /\ g = "Unary" /\ w = "EndUnary" /\ h = "Binary" /\ l = tokens.current
          /\ m = P!UnaryPrecedence(P!Current) /\ t = P!Advance(tokens)
    OBVIOUS
  <2>2. P!At(g) /\ P!Do(t, <<<<h, m>>, <<w, l>>>>, <<>>, {})
    BY <1>1, <2>1 DEF P!Call
  <2>3. B!TokenAt(source.tokens, l).type \in {"PLUS", "MINUS"}
    <3>1. PICK e : Now("Unary", e)
      BY <1>1, AtIsNow
    <3> QED
      BY <2>1, <3>1 DEF Now, Runs, Ready
  <2>4. m \in Nat
    BY <2>1, <2>3, TypeOfCurrent DEF P!UnaryPrecedence
  <2>5. Fine(source.tokens, <<h, m>>) /\ Fine(source.tokens, <<w, l>>)
    BY <2>1, <2>3, <2>4 DEF Fine
  <2>6. <<g, w, h>> \in Calls /\ h \notin {"MethodCall", "Unary"}
    BY <2>1 DEF Calls
  <2> QED
    BY <2>2, <2>5, <2>6, GoesIntoTwo
<1>2. CASE P!At("EndUnary") /\ P!Make(tokens, "Unary", P!Local)
  <2>1. PICK g, kind, p : g = "EndUnary" /\ kind = "Unary" /\ p = P!Local
    OBVIOUS
  <2>2. P!At(g) /\ P!Do(tokens, <<>>, <<<<kind, p>>>>, {})
    BY <1>2, <2>1 DEF P!Make
  <2>3. B!TokenAt(source.tokens, p).type \in {"PLUS", "MINUS"}
    <3>1. PICK e : Now("EndUnary", e)
      BY <1>2, AtIsNow
    <3> QED
      BY <2>1, <3>1 DEF Now, Fine, P!Local
  <2>4. <<g, kind>> \in EndNodes
        /\ kind \notin {"VarDecl", "Identifier", "VarDeclInit", "Binary"}
    BY <2>1 DEF EndNodes
  <2> QED
    BY <2>2, <2>3, <2>4, ReturnsFixed
<1> QED
  BY <1>1, <1>2 DEF P!ParseUnaryExpr

LEMMA ExprFits ==
    ASSUME Stepping, P!ParseExpr
    PROVE  FitsThen
<1>1. CASE P!At("Expr")
           /\ P!Call(P!Advance(tokens), <<<<"Binary", 0>>, <<"EndGroup", 0>>>>)
  <2>1. PICK g, w, h, t, l : g = "Expr" /\ w = "EndGroup" /\ h = "Binary" /\ l = 0
                             /\ t = P!Advance(tokens)
    OBVIOUS
  <2>2. P!At(g) /\ P!Do(t, <<<<h, l>>, <<w, l>>>>, <<>>, {})
    BY <1>1, <2>1 DEF P!Call
  <2>3. Fine(source.tokens, <<h, l>>) /\ Fine(source.tokens, <<w, l>>)
    BY <2>1 DEF Fine
  <2>4. <<g, w, h>> \in Calls /\ h \notin {"MethodCall", "Unary"}
    BY <2>1 DEF Calls
  <2> QED
    BY <2>2, <2>3, <2>4, GoesIntoTwo
<1>2. CASE P!At("EndGroup")
           /\ P!Call(IF P!Current = "RPAREN" THEN P!Advance(tokens) ELSE tokens, <<>>)
  <2>1. PICK t : t = IF P!Current = "RPAREN" THEN P!Advance(tokens) ELSE tokens
    OBVIOUS
  <2>2. P!Do(t, <<>>, <<>>, {})
    BY <1>2, <2>1 DEF P!Call
  <2> QED
    BY <1>2, <2>2, ReturnsSame
<1>3. CASE P!At("Expr") /\ P!Call(tokens, <<<<"VarDecl", 0>>>>)
  <2>1. PICK g, h : g = "Expr" /\ h = "VarDecl"
    OBVIOUS
  <2>2. P!At(g) /\ P!Call(tokens, <<<<h, 0>>>>) /\ <<g, h>> \in Pairs /\ h # "MethodCall"
    BY <1>3, <2>1 DEF Pairs
  <2> QED
    BY <2>2, GoesInto
<1>4. CASE P!At("Expr") /\ P!Current = "ID"
           /\ P!Call(P!Peek(tokens, 1), <<<<"MethodCall", 0>>>>)
  <2>1. PICK g, h, t : g = "Expr" /\ h = "MethodCall" /\ t = P!Peek(tokens, 1)
    OBVIOUS
  <2>2. P!At(g) /\ P!Call(t, <<<<h, 0>>>>) /\ <<g, h>> \in Pairs
    BY <1>4, <2>1 DEF Pairs
  <2>3. B!TokenAt(source.tokens, t.current).type = "ID"
    BY <1>4, <2>1, PeekStays, TypeOfCurrent
  <2> QED
    BY <2>2, <2>3, GoesInto
<1>5. CASE P!At("Expr") /\ P!Current = "ID"
           /\ P!Make(P!Advance(P!Peek(tokens, 1)), "Identifier", tokens.current)
  <2>1. PICK g, kind, p, t : g = "Expr" /\ kind = "Identifier" /\ p = tokens.current
                             /\ t = P!Advance(P!Peek(tokens, 1))
    OBVIOUS
  <2>2. P!At(g) /\ P!Do(t, <<>>, <<<<kind, p>>>>, {})
    BY <1>5, <2>1 DEF P!Make
  <2>3. B!TokenAt(source.tokens, p).type = "ID"
    BY <1>5, <2>1, TypeOfCurrent
  <2>4. <<g, kind>> \in EndNodes /\ kind \notin {"Binary", "Unary"}
    BY <2>1 DEF EndNodes
  <2> QED
    BY <2>2, <2>3, <2>4, ReturnsFixed
<1>6. CASE P!At("Expr") /\ P!Make(P!Advance(tokens), "Literal", tokens.current)
  <2>1. PICK g, kind, p, t : g = "Expr" /\ kind = "Literal" /\ p = tokens.current
                             /\ t = P!Advance(tokens)
    OBVIOUS
  <2>2. /\ <<g, kind>> \in EndNodes /\ P!At(g) /\ P!Make(t, kind, p)
        /\ kind \notin {"VarDecl", "Identifier", "VarDeclInit", "Binary", "Unary"}
    BY <1>6, <2>1 DEF EndNodes
  <2> QED
    BY <2>2, MakesFixed
<1> QED
  BY <1>1, <1>2, <1>3, <1>4, <1>5, <1>6 DEF P!ParseExpr

LEMMA MethodCallFits ==
    ASSUME Stepping, P!ParseMethodCall
    PROVE  FitsThen
<1>1. PICK g, h, l, t : /\ g = "MethodCall" /\ h = "Arguments" /\ l = tokens.current
                        /\ t = P!Advance(P!Advance(tokens))
  OBVIOUS
<1>2. P!At(g) /\ P!Do(t, <<<<h, l>>>>, <<P!Open>>, {})
  BY <1>1 DEF P!ParseMethodCall
<1>3. <<g, h>> \in {<<"Program", "InProgram">>, <<"Class", "Members">>,
                    <<"Block", "InBlock">>, <<"MethodCall", "Arguments">>}
  BY <1>1
<1>4. B!TokenAt(source.tokens, l).type = "ID"
  <2>1. PICK e : Now("MethodCall", e)
    BY <1>1, <1>2, AtIsNow
  <2> QED
    BY <1>1, <2>1 DEF Now, Runs, Ready
<1> QED
  BY <1>2, <1>3, <1>4, OpensList

LEMMA ArgumentsFit ==
    ASSUME Stepping, P!ParseArguments
    PROVE  FitsThen
<1> PICK file, current, cs, ps, frame :
      /\ file = source.tokens /\ current = tokens.current /\ cs = Tail(calls)
      /\ ps = parts /\ frame = calls[1]
  OBVIOUS
<1>1. ASSUME P!At("Arguments")
      PROVE  /\ frame[1] = "Arguments" /\ Fine(file, frame) /\ IsSeq(cs) /\ IsSeq(ps)
             /\ \E e : Runs(file, current, cs, "Arguments", ps, e)
  <2>1. PICK e : Now("Arguments", e)
    BY <1>1, AtIsNow
  <2> QED
    BY <2>1 DEF Now
<1>2. CASE P!At("Arguments") /\ P!Call(P!Advance(tokens), <<frame>>)
  <2>1. PICK e : Runs(file, current, cs, "Arguments", ps, e)
    BY <1>1, <1>2
  <2>2. PICK t, next : t = P!Advance(tokens) /\ next = t.current
    OBVIOUS
  <2>3. frame[1] = "Arguments" /\ "Arguments" \in {"Params", "Arguments"}
    BY <1>1, <1>2
  <2>4. Fine(file, frame) /\ IsSeq(cs) /\ IsSeq(ps)
    BY <1>1, <1>2
  <2>5. Shape(file, <<frame>> \o cs, ps, next)
    BY <2>1, <2>3, <2>4, ListStays
  <2>6. P!Do(t, <<frame>>, <<>>, {}) /\ Shape(source.tokens, <<frame>> \o Tail(calls), parts, t.current)
    BY <1>2, <2>2, <2>5 DEF P!Call
  <2> QED
    BY <2>6, GoesOn
<1>3. ASSUME P!At("Arguments"), NEW t, NEW reported,
             P!Do(t, <<>>, <<<<"MethodCall", P!Local>>>>, reported)
      PROVE  FitsThen
  <2>1. PICK g, kind, p : g = "Arguments" /\ kind = "MethodCall" /\ p = P!Local
    OBVIOUS
  <2>2. P!At(g) /\ P!Do(t, <<>>, <<<<kind, p>>>>, reported)
    BY <1>3, <2>1
  <2>3. <<g, kind>> \in Lists
    BY <2>1 DEF Lists
  <2>4. B!TokenAt(source.tokens, p).type = "ID"
    BY <1>1, <1>3, <2>1 DEF Fine, P!Local
  <2> QED
    BY <2>2, <2>3, <2>4, ReturnsAll
<1>4. CASE P!At("Arguments") /\ P!Make(P!Advance(tokens), "MethodCall", P!Local)
  <2>1. P!Do(P!Advance(tokens), <<>>, <<<<"MethodCall", P!Local>>>>, {})
    BY <1>4 DEF P!Make
  <2> QED
    BY <1>3, <1>4, <2>1
<1>5. CASE P!At("Arguments")
           /\ P!Do(P!Advance(tokens), <<>>, <<<<"MethodCall", P!Local>>>>,
                   {"end of file", "closing parenthesis"})
  BY <1>3, <1>5
<1>6. CASE P!At("Arguments")
           /\ P!Call(tokens, <<<<"Expr", 0>>, <<"EndArgument", 0>>, frame>>)
  <2>1. PICK e : Runs(file, current, cs, "Arguments", ps, e)
    BY <1>1, <1>6
  <2>2. frame[1] = "Arguments" /\ Fine(file, frame) /\ IsSeq(cs) /\ IsSeq(ps)
    BY <1>1, <1>6
  <2>3. Shape(file, <<<<"Expr", 0>>, <<"EndArgument", 0>>, frame>> \o cs, ps, current)
    BY <2>1, <2>2, StepsArgument
  <2>4. PICK frames : frames = <<<<"Expr", 0>>, <<"EndArgument", 0>>, frame>>
    OBVIOUS
  <2>5. P!Do(tokens, frames, <<>>, {}) /\ Shape(source.tokens, frames \o Tail(calls), parts, tokens.current)
    BY <1>6, <2>3, <2>4 DEF P!Call
  <2> QED
    BY <2>5, GoesOn
<1>7. CASE P!At("EndArgument")
           /\ P!Make(IF P!Current \in {"COMMA", "RPAREN"} THEN tokens ELSE P!Advance(tokens),
                     "Argument", 0)
  <2>1. PICK g, kind, t :
          /\ g = "EndArgument" /\ kind = "Argument"
          /\ t = IF P!Current \in {"COMMA", "RPAREN"} THEN tokens ELSE P!Advance(tokens)
    OBVIOUS
  <2>2. /\ <<g, kind>> \in EndNodes /\ P!At(g) /\ P!Make(t, kind, 0)
        /\ kind \notin {"VarDecl", "Identifier", "VarDeclInit", "Binary", "Unary"}
    BY <1>7, <2>1 DEF EndNodes
  <2> QED
    BY <2>2, MakesFixed
<1> QED
  BY <1>2, <1>4, <1>5, <1>6, <1>7 DEF P!ParseArguments, P!ParseComma

LEMMA ParserFits ==
    ASSUME Stepping, P!Next
    PROVE  FitsThen
BY ProgramFits, StatementFits, EndStatementFits, ClassFits, MemberFits, FieldFits,
   ConstructorFits, MethodFits, ParamsFit, BlockFits, IfFits, WhileFits, ReturnFits,
   ExprStmtFits, VarDeclFits, BinaryFits, OperatorsFit, UnaryFits, ExprFits,
   MethodCallFits, ArgumentsFit DEF P!Next

LEMMA ErrorsStay ==
    ASSUME P!Next
    PROVE  syntaxErrors \subseteq syntaxErrors'
<1>1. ASSUME NEW t, NEW frames, NEW nodes, NEW reported, P!Do(t, frames, nodes, reported)
      PROVE  syntaxErrors \subseteq syntaxErrors'
  BY <1>1 DEF P!Do
<1>2. ASSUME NEW t, NEW frames, P!Call(t, frames)
      PROVE  syntaxErrors \subseteq syntaxErrors'
  BY <1>1, <1>2 DEF P!Call
<1>3. ASSUME NEW t, NEW kind, NEW p, P!Make(t, kind, p)
      PROVE  syntaxErrors \subseteq syntaxErrors'
  BY <1>1, <1>3 DEF P!Make
<1>4. CASE P!ParseProgram \/ P!ParseStatement \/ P!EndStatement
  BY <1>1, <1>2, <1>3, <1>4 DEF P!ParseProgram, P!ParseStatement, P!EndStatement
<1>5. CASE P!ParseClass \/ P!ParseClassMember \/ P!ParseFieldDecl
  BY <1>1, <1>2, <1>3, <1>5 DEF P!ParseClass, P!ParseClassMember, P!ParseFieldDecl
<1>6. CASE P!ParseConstructorDecl \/ P!ParseMethodDecl \/ P!ParseParams
  BY <1>1, <1>2, <1>3, <1>6 DEF P!ParseConstructorDecl, P!ParseMethodDecl, P!ParseParams
<1>7. CASE P!ParseBlock \/ P!ParseIfStmt \/ P!ParseWhileStmt \/ P!ParseReturnStmt
  BY <1>1, <1>2, <1>3, <1>7
     DEF P!ParseBlock, P!ParseIfStmt, P!ParseWhileStmt, P!ParseReturnStmt
<1>8. CASE P!ParseExprStmt \/ P!ParseVarDecl \/ P!ParseBinaryExpr \/ P!ParseOperators
  BY <1>1, <1>2, <1>3, <1>8
     DEF P!ParseExprStmt, P!ParseVarDecl, P!ParseBinaryExpr, P!ParseOperators
<1>9. CASE P!ParseUnaryExpr \/ P!ParseExpr \/ P!ParseMethodCall \/ P!ParseArguments
  BY <1>1, <1>2, <1>3, <1>9
     DEF P!ParseUnaryExpr, P!ParseExpr, P!ParseMethodCall, P!ParseArguments, P!ParseComma
<1> QED
  BY <1>4, <1>5, <1>6, <1>7, <1>8, <1>9 DEF P!Next
=============================================================================
