----------------------- MODULE NeighborSelectionProofs -----------------------
(***************************************************************************)
(* What the selection of neighbours returns, for any vectors and any       *)
(* finite set of candidates: candidates, each at most once, no more than   *)
(* were asked for; and which slot of a neighbour's list an edge may take.  *)
(***************************************************************************)
EXTENDS NeighborSelection, FiniteSetTheorems, SequenceTheorems, NaturalsInduction, TLAPS

-----------------------------------------------------------------------------
(* Distances *)

(* A distance is an integer, the same both ways, and tells rows apart.     *)
LEMMA Distances ==
  ASSUME SelectionAssumption, NEW e \in Elements
  PROVE  /\ \A x \in Elements : Dist(x, e) \in Int /\ Dist(x, e) = Dist(e, x)
         /\ \A x, y \in Elements : Dist(x, e) = Dist(y, e) => x = y
<1>1. \A x \in Elements : Position[x] \in Int
  BY DEF SelectionAssumption
<1>2. \A x \in Elements : Dist(x, e) \in Int /\ Dist(x, e) = Dist(e, x)
  BY <1>1 DEF Dist, Abs
<1>3. \A x, y \in Elements : Dist(e, x) = Dist(e, y) => x = y
  BY DEF SelectionAssumption
<1> QED
  BY <1>2, <1>3

(* A non-empty set of natural numbers has a least element.                 *)
LEMMA LeastIn ==
  ASSUME NEW S \in SUBSET Nat, S # {}
  PROVE  LeastOf(S) \in S /\ \A y \in S : LeastOf(S) <= y
<1> DEFINE R == {ss \in Nat \X Nat : ss[1] < ss[2]}
<1>1. OpToRel(<, Nat) = R
  BY Zenon DEF OpToRel
<1>2. IsWellFoundedOn(R, Nat)
  BY <1>1, NatLessThanWellFounded, Zenon
<1>3. PICK x \in S : \A y \in S : ~(<<y, x>> \in R)
  <2> HIDE DEF R
  <2> QED BY <1>2, WFMin, Zenon
<1>4. ASSUME NEW y \in S PROVE x <= y
  <2>1. y \in Nat /\ x \in Nat
    OBVIOUS
  <2>2. <<y, x>> \in R <=> y < x
    BY <2>1
  <2> QED
    BY <1>3, <2>1, <2>2
<1> QED
  BY <1>4 DEF LeastOf

(* Of a set of natural numbers that has 0 and, with each number below n,   *)
(* the next one, every number up to n is a member.                         *)
LEMMA UpTo ==
  ASSUME NEW n \in Nat, NEW P, 0 \in P, \A i \in 1..n : i - 1 \in P => i \in P
  PROVE  \A i \in 0..n : i \in P
<1> DEFINE Bad == (0..n) \ P
<1> SUFFICES ASSUME Bad # {} PROVE FALSE
  OBVIOUS
<1>1. Bad \in SUBSET Nat
  OBVIOUS
<1> DEFINE i == LeastOf(Bad)
<1>2. i \in Bad /\ \A y \in Bad : i <= y
  BY <1>1, LeastIn
<1> HIDE DEF i
<1>3. i \in 1..n
  BY <1>2
<1>4. i - 1 \in P
  BY <1>2, <1>3
<1> QED
  BY <1>2, <1>3, <1>4

-----------------------------------------------------------------------------
(* The nearest ones *)

Below(e, S, x) == {y \in S : Dist(y, e) < Dist(x, e)}

(* Every place among the candidates is taken by exactly one of them.       *)
LEMMA NthIn ==
  ASSUME SelectionAssumption, NEW e \in Elements,
         NEW S \in SUBSET Elements, IsFiniteSet(S)
  PROVE  /\ Cardinality(S) \in Nat
         /\ \A k \in 0..(Cardinality(S) - 1) :
              Nth(e, S, k) \in S /\ Cardinality(Below(e, S, Nth(e, S, k))) = k
<1> DEFINE n == Cardinality(S)
           rank == [x \in S |-> Cardinality(Below(e, S, x))]
<1>1. n \in Nat
  BY FS_CardinalityType
<1>2. ASSUME NEW x \in S
      PROVE  /\ IsFiniteSet(Below(e, S, x)) /\ Cardinality(Below(e, S, x)) \in 0..(n - 1)
  <2>1. Below(e, S, x) \subseteq S /\ x \notin Below(e, S, x)
    BY Distances DEF Below
  <2>2. IsFiniteSet(Below(e, S, x)) /\ Cardinality(Below(e, S, x)) <= n
    BY <2>1, FS_Subset
  <2>3. Cardinality(Below(e, S, x)) # n
    BY <2>1, FS_Subset
  <2>4. Cardinality(Below(e, S, x)) \in Nat
    BY <2>2, FS_CardinalityType
  <2> QED
    BY <2>2, <2>3, <2>4, <1>1
<1>3. ASSUME NEW x \in S, NEW y \in S, Dist(x, e) < Dist(y, e)
      PROVE  Cardinality(Below(e, S, x)) # Cardinality(Below(e, S, y))
  <2>1. Below(e, S, x) \subseteq Below(e, S, y)
    BY <1>3, Distances DEF Below
  <2>2. x \in Below(e, S, y) /\ x \notin Below(e, S, x)
    BY <1>3, Distances DEF Below
  <2> QED
    BY <1>2, <2>1, <2>2, FS_Subset
<1>4. IsInjective(rank)
  <2> SUFFICES ASSUME NEW x \in S, NEW y \in S, rank[x] = rank[y], x # y
               PROVE  FALSE
    BY DEF IsInjective
  <2>1. Dist(x, e) < Dist(y, e) \/ Dist(y, e) < Dist(x, e)
    BY Distances
  <2> QED
    BY <1>3, <2>1
<1>5. rank \in Injection(S, 0..(n - 1))
  BY <1>2, <1>4 DEF Injection
<1>6. IsFiniteSet(0..(n - 1)) /\ Cardinality(0..(n - 1)) = n
  <2>1. n - 1 \in Int /\ 0 \in Int
    BY <1>1
  <2> HIDE DEF n
  <2>2. IsFiniteSet(0..(n - 1)) /\ Cardinality(0..(n - 1)) = IF 0 > n - 1 THEN 0 ELSE (n - 1) - 0 + 1
    BY <2>1, FS_Interval
  <2> QED
    BY <1>1, <2>2
<1>7. rank \in Surjection(S, 0..(n - 1))
  <2> HIDE DEF rank
  <2> QED
    BY <1>5, <1>6, FS_Injection
<1>8. \A k \in 0..(n - 1) : \E x \in S : Cardinality(Below(e, S, x)) = k
  BY <1>7 DEF Surjection
<1> QED
  BY <1>1, <1>8 DEF Nth, Below

(* The nearest and the furthest of some candidates are among them.         *)
LEMMA EndsIn ==
  ASSUME SelectionAssumption, NEW e \in Elements,
         NEW S \in SUBSET Elements, IsFiniteSet(S), S # {}
  PROVE  Closest(e, S) \in S /\ Furthest(e, S) \in S
<1>1. Cardinality(S) \in Nat /\ Cardinality(S) # 0
  BY FS_EmptySet, FS_CardinalityType
<1>2. 0 \in 0..(Cardinality(S) - 1) /\ Cardinality(S) - 1 \in 0..(Cardinality(S) - 1)
  BY <1>1
<1> QED
  BY <1>2, NthIn DEF Closest, Furthest

(* The nearest is nearer than the others, and only the nearest is.         *)
LEMMA ClosestIs ==
  ASSUME SelectionAssumption, NEW e \in Elements,
         NEW S \in SUBSET Elements, IsFiniteSet(S), S # {}
  PROVE  /\ \A x \in S : Dist(Closest(e, S), e) <= Dist(x, e)
         /\ \A c \in S : (\A x \in S : Dist(c, e) <= Dist(x, e)) => c = Closest(e, S)
<1> DEFINE near == Closest(e, S)
<1>1. near \in S /\ \A x \in S : Dist(x, e) \in Int
  BY EndsIn, Distances
<1>2. Cardinality(Below(e, S, near)) = 0
  <2>1. Cardinality(S) \in Nat /\ Cardinality(S) # 0
    BY FS_EmptySet, FS_CardinalityType
  <2>2. 0 \in 0..(Cardinality(S) - 1)
    BY <2>1
  <2> QED
    BY <2>2, NthIn DEF Closest
<1> HIDE DEF near
<1>3. \A x \in S : ~(Dist(x, e) < Dist(near, e))
  <2>1. Below(e, S, near) \subseteq S
    BY DEF Below
  <2>2. IsFiniteSet(Below(e, S, near))
    BY <2>1, FS_Subset
  <2>3. Below(e, S, near) = {}
    BY <1>2, <2>2, FS_EmptySet
  <2> QED
    BY <2>3 DEF Below
<1>4. \A x \in S : Dist(near, e) <= Dist(x, e)
  BY <1>1, <1>3
<1>5. ASSUME NEW c \in S, \A x \in S : Dist(c, e) <= Dist(x, e) PROVE c = near
  <2>1. Dist(c, e) = Dist(near, e)
    BY <1>1, <1>4, <1>5
  <2> QED
    BY <1>1, <2>1, Distances
<1> QED
  BY <1>4, <1>5 DEF near

(* A selection: candidates, each at most once, at most k.                  *)
Chosen(sel, S, k) ==
  /\ sel \in Seq(S) /\ Len(sel) <= k
  /\ \A i, j \in 1..Len(sel) : sel[i] = sel[j] => i = j

(* The k nearest are a selection. *)
LEMMA NearestChosen ==
  ASSUME SelectionAssumption, NEW e \in Elements,
         NEW S \in SUBSET Elements, IsFiniteSet(S), NEW k \in Nat
  PROVE  Chosen(Nearest(e, S, k), S, k)
<1> DEFINE n == IF Cardinality(S) < k THEN Cardinality(S) ELSE k
           sel == Nearest(e, S, k)
<1>1. n \in Nat /\ n <= k /\ Cardinality(S) \in Nat /\ n <= Cardinality(S)
  BY NthIn
<1>2. sel = [i \in 1..n |-> Nth(e, S, i - 1)]
  BY DEF Nearest
<1> HIDE DEF n, sel
<1>3. ASSUME NEW i \in 1..n
      PROVE  sel[i] \in S /\ Cardinality(Below(e, S, sel[i])) = i - 1
  <2>1. i - 1 \in 0..(Cardinality(S) - 1)
    BY <1>1
  <2> QED
    BY <1>2, <2>1, NthIn
<1>4. sel \in [1..n -> S]
  BY <1>2, <1>3
<1>5. sel \in Seq(S) /\ Len(sel) = n
  BY <1>1, <1>4, SeqDef, LenProperties
<1>6. \A i, j \in 1..n : sel[i] = sel[j] => i = j
  BY <1>1, <1>3
<1> QED
  BY <1>1, <1>5, <1>6 DEF Chosen, sel

-----------------------------------------------------------------------------
(* The diverse ones *)

(* A turn of acorn_select_diverse_tids: candidate c joins the kept ones.   *)
Add(e, k, A, c) ==
  IF /\ Cardinality(A) < k
     /\ \A j \in A : Dist(c, j) > Dist(c, e)
  THEN A \cup {c} ELSE A

(* What has been kept after each turn.                                     *)
Turns(e, S, k, n) ==
  {g \in [0..n -> SUBSET S] :
     g[0] = {} /\ \A i \in 1..n : g[i] = Add(e, k, g[i - 1], Nth(e, S, i - 1))}

(* The turns can be taken one after the other: the recursion defines       *)
(* something.                                                              *)
LEMMA TurnsExist ==
  ASSUME SelectionAssumption, NEW e \in Elements,
         NEW S \in SUBSET Elements, IsFiniteSet(S), NEW k \in Nat
  PROVE  Turns(e, S, k, Cardinality(S)) # {}
<1> DEFINE n == Cardinality(S)
           P == {i \in 0..n : Turns(e, S, k, i) # {}}
<1>1. n \in Nat
  BY NthIn
<1>2. 0 \in P
  <2>1. [i \in 0..0 |-> {}] \in Turns(e, S, k, 0)
    BY DEF Turns
  <2> QED
    BY <1>1, <2>1
<1>3. ASSUME NEW i \in 1..n, i - 1 \in P PROVE i \in P
  <2>1. PICK g : g \in Turns(e, S, k, i - 1)
    BY <1>3
  <2>2. g \in [0..(i - 1) -> SUBSET S] /\ g[0] = {}
        /\ \A j \in 1..(i - 1) : g[j] = Add(e, k, g[j - 1], Nth(e, S, j - 1))
    BY <2>1 DEF Turns
  <2> DEFINE last == Add(e, k, g[i - 1], Nth(e, S, i - 1))
             h == [j \in 0..i |-> IF j = i THEN last ELSE g[j]]
  <2>3. last \in SUBSET S
    <3>1. i - 1 \in 0..(n - 1) /\ i - 1 \in 0..(i - 1)
      BY <1>1
    <3>2. Nth(e, S, i - 1) \in S /\ g[i - 1] \in SUBSET S
      BY <2>2, <3>1, NthIn
    <3> QED
      BY <3>2 DEF Add
  <2> HIDE DEF last
  <2>4. h \in [0..i -> SUBSET S] /\ h[0] = {}
    BY <2>2, <2>3
  <2>5. ASSUME NEW j \in 1..i PROVE h[j] = Add(e, k, h[j - 1], Nth(e, S, j - 1))
    <3>1. j - 1 \in 0..i /\ j - 1 # i /\ h[j - 1] = g[j - 1]
      OBVIOUS
    <3>2. CASE j = i
      BY <3>1, <3>2 DEF last
    <3>3. CASE j # i
      <4>1. j \in 1..(i - 1) /\ h[j] = g[j]
        BY <3>3
      <4> QED
        BY <2>2, <3>1, <4>1
    <3> QED
      BY <3>2, <3>3
  <2>6. h \in Turns(e, S, k, i)
    <3> HIDE DEF h
    <3> QED
      BY <2>4, <2>5 DEF Turns
  <2> QED
    BY <2>6
<1>4. n \in P
  <2> HIDE DEF P, n
  <2>1. n \in 0..n
    BY <1>1
  <2> QED
    BY <1>1, <1>2, <1>3, <2>1, UpTo
<1> QED
  BY <1>4

(* Kept keeps candidates, no more than k, and always the nearest.          *)
LEMMA KeptIn ==
  ASSUME SelectionAssumption, NEW e \in Elements,
         NEW S \in SUBSET Elements, IsFiniteSet(S), NEW k \in Nat
  PROVE  /\ Kept(e, S, k) \subseteq S
         /\ IsFiniteSet(Kept(e, S, k)) /\ Cardinality(Kept(e, S, k)) <= k
         /\ S # {} /\ k # 0 => Closest(e, S) \in Kept(e, S, k)
<1> DEFINE n == Cardinality(S)
           F(g) == [i \in 0..n |-> IF i = 0 THEN {}
                                   ELSE Add(e, k, g[i - 1], Nth(e, S, i - 1))]
           after == CHOOSE g : g = F(g)
           near == Closest(e, S)
<1>1. n \in Nat
  BY NthIn
<1>2. Kept(e, S, k) = after[n]
  BY DEF Kept, Add
<1>3. \E g : g = F(g)
  <2>1. PICK g : g \in Turns(e, S, k, n)
    BY TurnsExist
  <2>2. /\ g \in [0..n -> SUBSET S] /\ g[0] = {}
        /\ \A i \in 1..n : g[i] = Add(e, k, g[i - 1], Nth(e, S, i - 1))
    BY <2>1 DEF Turns
  <2>3. \A i \in 0..n : i = 0 \/ i \in 1..n
    BY <1>1
  <2>4. g = F(g)
    <3>1. \A i \in 0..n : g[i] = F(g)[i]
      BY <2>2, <2>3
    <3> QED
      BY <2>2, <3>1
  <2> QED
    BY <2>4
<1>4. after = F(after)
  BY <1>3
<1> HIDE DEF after
<1> DEFINE P == {i \in 0..n : after[i] \subseteq S /\ IsFiniteSet(after[i])
                              /\ Cardinality(after[i]) <= k
                              /\ (i # 0 /\ k # 0 => near \in after[i])}
<1> HIDE DEF near
<1>0. after[0] = {} /\ 0 \in 0..n
  <2>1. 0 \in 0..n
    BY <1>1
  <2> HIDE DEF n
  <2> QED
    BY <2>1, <1>4
<1>5. 0 \in P
  BY <1>0, FS_EmptySet
<1>6. ASSUME NEW i \in 1..n, i - 1 \in P PROVE i \in P
  <2> DEFINE c == Nth(e, S, i - 1)
             A == after[i - 1]
  <2>1. after[i] = Add(e, k, A, c)
    <3>1. i \in 0..n /\ i # 0
      BY <1>1
    <3> HIDE DEF n
    <3> QED
      BY <3>1, <1>4
  <2>2. /\ A \subseteq S /\ IsFiniteSet(A) /\ Cardinality(A) <= k
        /\ (i # 1 /\ k # 0 => near \in A)
    BY <1>6
  <2>3. c \in S
    <3>1. i - 1 \in 0..(n - 1)
      BY <1>1
    <3> QED
      BY <3>1, NthIn
  <2> HIDE DEF c, A
  <2>4. Cardinality(A) \in Nat
    BY <2>2, FS_CardinalityType
  <2>5. /\ IsFiniteSet(A \cup {c})
        /\ Cardinality(A \cup {c}) = IF c \in A THEN Cardinality(A) ELSE Cardinality(A) + 1
    BY <2>2, FS_AddElement
  <2>6. after[i] \subseteq S /\ IsFiniteSet(after[i]) /\ Cardinality(after[i]) <= k
    BY <2>1, <2>2, <2>3, <2>4, <2>5 DEF Add
  <2>7. ASSUME k # 0 PROVE near \in after[i]
    <3>1. CASE i = 1
      <4>1. A = {} /\ c = near /\ Cardinality(A) = 0
        <5>1. i - 1 = 0
          BY <3>1
        <5>2. A = {}
          BY <1>0, <5>1 DEF A
        <5> QED
          BY <5>1, <5>2, FS_EmptySet DEF c, near, Closest
      <4> QED
        BY <2>1, <2>7, <4>1 DEF Add
    <3>2. CASE i # 1
      BY <2>1, <2>2, <2>7, <3>2 DEF Add
    <3> QED
      BY <3>1, <3>2
  <2> QED
    BY <2>6, <2>7
<1>7. n \in P
  <2> HIDE DEF P, n
  <2>1. n \in 0..n
    BY <1>1
  <2> QED
    BY <1>1, <1>5, <1>6, <2>1, UpTo
<1>8. S # {} => n # 0
  BY FS_EmptySet
<1> HIDE DEF n
<1> QED
  BY <1>2, <1>7, <1>8 DEF near

(* What a function takes on over a finite set is finite.                   *)
LEMMA FiniteRange ==
  ASSUME NEW D, IsFiniteSet(D), NEW f, DOMAIN f = D, f = [x \in D |-> f[x]]
  PROVE  IsFiniteSet(Range(f)) /\ Cardinality(Range(f)) <= Cardinality(D)
<1>1. f \in Surjection(D, Range(f))
  BY DEF Surjection, Range
<1> QED
  BY <1>1, FS_Surjection

(* A selection has at most k members, all of them candidates.              *)
LEMMA ChosenRange ==
  ASSUME NEW S, NEW k \in Nat, NEW sel, Chosen(sel, S, k)
  PROVE  /\ Range(sel) \subseteq S /\ Range(sel) = {sel[i] : i \in 1..Len(sel)}
         /\ IsFiniteSet(Range(sel)) /\ Cardinality(Range(sel)) <= k
<1>1. sel \in Seq(S) /\ Len(sel) <= k /\ Len(sel) \in Nat /\ DOMAIN sel = 1..Len(sel)
      /\ sel = [i \in 1..Len(sel) |-> sel[i]]
  BY DEF Chosen
<1>2. 1 \in Int /\ Len(sel) \in Int
  BY <1>1
<1>3. IsFiniteSet(1..Len(sel))
      /\ Cardinality(1..Len(sel)) = IF 1 > Len(sel) THEN 0 ELSE Len(sel) - 1 + 1
  BY <1>2, FS_Interval
<1>4. IsFiniteSet(Range(sel)) /\ Cardinality(Range(sel)) <= Cardinality(1..Len(sel))
  BY <1>1, <1>3, FiniteRange
<1>5. Cardinality(Range(sel)) \in Nat
  BY <1>4, FS_CardinalityType
<1>6. Range(sel) \subseteq S /\ Range(sel) = {sel[i] : i \in 1..Len(sel)}
  BY <1>1 DEF Range
<1> QED
  BY <1>1, <1>3, <1>4, <1>5, <1>6

(* Two selections that share nothing make one.                             *)
LEMMA Joined ==
  ASSUME NEW S, NEW a, NEW b, NEW i \in Nat, NEW j \in Nat, Chosen(a, S, i), Chosen(b, S, j),
         \A x \in 1..Len(a), y \in 1..Len(b) : a[x] # b[y]
  PROVE  Chosen(a \o b, S, Len(a) + j)
<1> DEFINE sel == a \o b
<1>1. /\ a \in Seq(S) /\ b \in Seq(S) /\ Len(b) <= j
      /\ Len(a) \in Nat /\ Len(b) \in Nat
      /\ \A x, y \in 1..Len(a) : a[x] = a[y] => x = y
      /\ \A x, y \in 1..Len(b) : b[x] = b[y] => x = y
  BY DEF Chosen
<1>2. /\ sel \in Seq(S) /\ Len(sel) = Len(a) + Len(b)
      /\ \A x \in 1..Len(sel) : sel[x] = IF x <= Len(a) THEN a[x] ELSE b[x - Len(a)]
  BY <1>1
<1>3. ASSUME NEW x \in 1..Len(sel), NEW y \in 1..Len(sel), sel[x] = sel[y]
      PROVE  x = y
  <2> HIDE DEF sel
  <2>1. /\ sel[x] = IF x <= Len(a) THEN a[x] ELSE b[x - Len(a)]
        /\ sel[y] = IF y <= Len(a) THEN a[y] ELSE b[y - Len(a)]
        /\ x \in 1..(Len(a) + Len(b)) /\ y \in 1..(Len(a) + Len(b))
    BY <1>2
  <2>2. CASE x <= Len(a) /\ y <= Len(a)
    <3>1. x \in 1..Len(a) /\ y \in 1..Len(a)
      BY <1>1, <2>1, <2>2
    <3>2. a[x] = a[y]
      BY <1>3, <2>1, <2>2
    <3> QED
      BY <1>1, <3>1, <3>2
  <2>3. CASE x <= Len(a) /\ ~(y <= Len(a))
    <3>1. x \in 1..Len(a) /\ y - Len(a) \in 1..Len(b)
      BY <1>1, <2>1, <2>3
    <3>2. a[x] = b[y - Len(a)]
      BY <1>3, <2>1, <2>3
    <3> QED
      BY <3>1, <3>2
  <2>4. CASE ~(x <= Len(a)) /\ y <= Len(a)
    <3>1. y \in 1..Len(a) /\ x - Len(a) \in 1..Len(b)
      BY <1>1, <2>1, <2>4
    <3>2. a[y] = b[x - Len(a)]
      BY <1>3, <2>1, <2>4
    <3> QED
      BY <3>1, <3>2
  <2>5. CASE ~(x <= Len(a)) /\ ~(y <= Len(a))
    <3>1. x - Len(a) \in 1..Len(b) /\ y - Len(a) \in 1..Len(b)
      BY <1>1, <2>1, <2>5
    <3>2. b[x - Len(a)] = b[y - Len(a)]
      BY <1>3, <2>1, <2>5
    <3>3. x - Len(a) = y - Len(a)
      BY <1>1, <3>1, <3>2
    <3> QED
      BY <1>1, <2>1, <3>3
  <2> QED
    BY <2>2, <2>3, <2>4, <2>5
<1>4. Len(sel) <= Len(a) + j
  BY <1>1, <1>2
<1> QED
  BY <1>2, <1>3, <1>4 DEF Chosen

(* So does the heuristic as a whole, which refills with the pruned ones.   *)
THEOREM DiverseChosen ==
  ASSUME SelectionAssumption, NEW e \in Elements,
         NEW S \in SUBSET Elements, IsFiniteSet(S), NEW k \in Nat
  PROVE  Chosen(SelectDiverse(e, S, k), S, k)
<1> DEFINE kept == Kept(e, S, k)
           rest == S \ kept
           n == k - Cardinality(kept)
           first == Nearest(e, kept, k)
           more == Nearest(e, rest, n)
<1>1. kept \subseteq S /\ IsFiniteSet(kept) /\ Cardinality(kept) <= k /\ Cardinality(kept) \in Nat
  BY KeptIn, FS_CardinalityType
<1>2. IsFiniteSet(rest) /\ rest \subseteq S /\ n \in Nat
  BY <1>1, FS_Subset
<1>3. Chosen(first, kept, k) /\ Chosen(more, rest, n)
  BY <1>1, <1>2, NearestChosen
<1>4. Chosen(Nearest(e, S, k), S, k)
  BY NearestChosen
<1>5. Len(first) = Cardinality(kept)
  <2>1. first = [i \in 1..Cardinality(kept) |-> Nth(e, kept, i - 1)]
    BY <1>1 DEF Nearest
  <2>2. first \in Seq(kept)
    BY <1>3 DEF Chosen
  <2> HIDE DEF first
  <2> QED
    BY <1>1, <2>1, <2>2, LenProperties
<1>6. Chosen(first \o more, S, k)
  <2> HIDE DEF first, more, n
  <2>1. /\ \A i \in 1..Len(first) : first[i] \in kept
        /\ \A i \in 1..Len(more) : more[i] \in rest
    BY <1>3 DEF Chosen
  <2>2. Chosen(first, S, k) /\ Chosen(more, S, n)
    BY <1>1, <1>2, <1>3 DEF Chosen
  <2>3. Chosen(first \o more, S, Len(first) + n)
    BY <1>2, <2>1, <2>2, Joined
  <2>4. Len(first) + n = k
    BY <1>1, <1>5 DEF n
  <2> QED
    BY <2>3, <2>4
<1> QED
  BY <1>4, <1>6 DEF SelectDiverse

-----------------------------------------------------------------------------
(* Which slot of a full list gives way *)

(* A list that does not hold an edge names one of its slots for it, or     *)
(* none: an empty one, a stranger's, the heuristic's, or the furthest.     *)
THEOREM TargetIn ==
  ASSUME SelectionAssumption, NEW e \in Elements, NEW n \in Elements,
         NEW D \in SUBSET Nat, IsFiniteSet(D), NEW snap \in [D -> Elements \cup {None}],
         NEW diversify, NEW payload
  PROVE  TargetSlot(diversify, e, n, snap, payload) \in D \cup {None}
<1> DEFINE occupants == Range(snap) \ {None}
           strangers == {x \in occupants : payload /\ Partition[x] # Partition[e]}
           at(x) == CHOOSE s \in DOMAIN snap : snap[s] = x
           kept == Range(SelectDiverse(n, occupants \cup {e}, Cardinality(occupants)))
           empty == {s \in DOMAIN snap : snap[s] = None}
           out == {s \in DOMAIN snap : snap[s] \notin kept}
<1>1. occupants \subseteq Elements /\ IsFiniteSet(occupants)
  <2>1. DOMAIN snap = D /\ snap = [s \in D |-> snap[s]]
    OBVIOUS
  <2>2. IsFiniteSet(Range(snap))
    BY <2>1, FiniteRange
  <2>3. occupants \subseteq Elements
    BY DEF Range
  <2> QED
    BY <2>2, <2>3, FS_Subset
<1>2. ASSUME NEW x \in occupants PROVE at(x) \in D
  BY <1>2 DEF Range
<1>3. CASE e \in occupants \/ DOMAIN snap = {}
  BY <1>3 DEF TargetSlot
<1>4. CASE ~(e \in occupants \/ DOMAIN snap = {}) /\ None \in Range(snap)
  <2>1. empty # {} /\ empty \in SUBSET Nat /\ empty \subseteq D
    BY <1>4 DEF Range
  <2>2. LeastOf(empty) \in D
    <3> HIDE DEF empty
    <3> QED
      BY <2>1, LeastIn
  <2> QED
    BY <1>4, <2>2 DEF TargetSlot
<1>5. CASE ~(e \in occupants \/ DOMAIN snap = {}) /\ None \notin Range(snap)
  <2>1. occupants # {}
    <3>1. PICK s \in D : TRUE
      BY <1>5
    <3>2. snap[s] \in Range(snap)
      BY DEF Range
    <3> QED
      BY <1>5, <3>2
  <2>2. Furthest(n, occupants) \in occupants
    <3> HIDE DEF occupants
    <3> QED
      BY <1>1, <2>1, EndsIn
  <2>3. CASE strangers # {}
    <3>1. strangers \subseteq occupants /\ strangers \subseteq Elements
      BY <1>1
    <3>2. IsFiniteSet(strangers)
      <4> HIDE DEF strangers, occupants
      <4> QED
        BY <1>1, <3>1, FS_Subset
    <3>3. Furthest(n, strangers) \in strangers
      <4> HIDE DEF strangers
      <4> QED
        BY <2>3, <3>1, <3>2, EndsIn
    <3>4. at(Furthest(n, strangers)) \in D
      <4> HIDE DEF at, strangers, occupants
      <4> QED
        BY <1>2, <3>1, <3>3
    <3>5. TargetSlot(diversify, e, n, snap, payload) = at(Furthest(n, strangers))
      BY <1>5, <2>3 DEF TargetSlot
    <3> QED
      BY <3>4, <3>5
  <2>4. CASE strangers = {} /\ diversify /\ e \in kept
    <3> DEFINE k == Cardinality(occupants)
               S == occupants \cup {e}
    <3>1. k \in Nat /\ IsFiniteSet(S) /\ S \in SUBSET Elements
      <4> HIDE DEF occupants
      <4> QED
        BY <1>1, FS_CardinalityType, FS_AddElement
    <3>2. Chosen(SelectDiverse(n, S, k), S, k)
      <4> HIDE DEF S, k
      <4> QED
        BY <3>1, DiverseChosen
    <3>3. IsFiniteSet(kept) /\ Cardinality(kept) <= k /\ kept \subseteq S
      <4>1. kept = Range(SelectDiverse(n, S, k))
        OBVIOUS
      <4> HIDE DEF S, k, kept
      <4> QED
        BY <3>1, <3>2, <4>1, ChosenRange
    <3>4. ~(occupants \subseteq kept)
      <4> SUFFICES ASSUME occupants \subseteq kept PROVE FALSE
        OBVIOUS
      <4>1. e \notin occupants
        BY <1>5
      <4> HIDE DEF kept, occupants
      <4>2. IsFiniteSet(occupants) /\ Cardinality(occupants) <= Cardinality(kept)
            /\ (Cardinality(kept) = Cardinality(occupants) => kept = occupants)
        BY <3>3, FS_Subset
      <4>3. Cardinality(kept) \in Nat
        BY <3>3, FS_CardinalityType
      <4> QED
        BY <2>4, <3>1, <3>3, <4>1, <4>2, <4>3
    <3>5. out # {} /\ out \in SUBSET Nat /\ out \subseteq D
      <4>1. PICK x \in occupants : x \notin kept
        BY <3>4
      <4>2. PICK s \in DOMAIN snap : snap[s] = x
        BY <4>1 DEF Range
      <4>3. out \subseteq D
        OBVIOUS
      <4>4. s \in out
        BY <4>1, <4>2
      <4> HIDE DEF out, kept, occupants
      <4> QED
        BY <4>3, <4>4
    <3>6. LeastOf(out) \in D
      <4> HIDE DEF out
      <4> QED
        BY <3>5, LeastIn
    <3>7. TargetSlot(diversify, e, n, snap, payload) = LeastOf(out)
      BY <1>5, <2>4 DEF TargetSlot
    <3> QED
      BY <3>6, <3>7
  <2>5. CASE strangers = {} /\ diversify /\ e \notin kept
    BY <1>5, <2>5 DEF TargetSlot
  <2>6. CASE strangers = {} /\ ~diversify
    <3>1. at(Furthest(n, occupants)) \in D
      <4> HIDE DEF at, occupants
      <4> QED
        BY <1>2, <2>2
    <3>2. TargetSlot(diversify, e, n, snap, payload) \in {at(Furthest(n, occupants)), None}
      BY <1>5, <2>6 DEF TargetSlot
    <3> QED
      BY <3>1, <3>2
  <2> QED
    BY <2>3, <2>4, <2>5, <2>6
<1> QED
  BY <1>3, <1>4, <1>5

(* The heuristic chooses the nearest candidate. *)
LEMMA DiverseNearest ==
  ASSUME SelectionAssumption, NEW e \in Elements,
         NEW S \in SUBSET Elements, IsFiniteSet(S), S # {}, NEW k \in Nat, k # 0
  PROVE  Closest(e, S) \in Range(SelectDiverse(e, S, k))
<1> DEFINE near == Closest(e, S)
           K == Kept(e, S, k)
           more == Nearest(e, S \ K, k - Cardinality(K))
<1>1. ASSUME NEW T \in SUBSET Elements, IsFiniteSet(T), T # {}
      PROVE  /\ Nearest(e, T, k)[1] = Closest(e, T)
             /\ 1 \in 1..Len(Nearest(e, T, k))
             /\ Len(Nearest(e, T, k)) \in Nat
  <2> DEFINE n == IF Cardinality(T) < k THEN Cardinality(T) ELSE k
             sel == Nearest(e, T, k)
  <2>1. n \in Nat /\ 1 <= n
    <3>1. Cardinality(T) \in Nat /\ Cardinality(T) # 0
      BY <1>1, FS_EmptySet, FS_CardinalityType
    <3> QED
      BY <3>1
  <2>2. sel = [i \in 1..n |-> Nth(e, T, i - 1)]
    BY DEF Nearest
  <2>3. sel \in Seq(T)
    BY <1>1, NearestChosen DEF Chosen
  <2> HIDE DEF n, sel
  <2>4. Len(sel) = n
    BY <2>1, <2>2, <2>3, LenProperties
  <2>5. sel[1] = Nth(e, T, 0)
    <3>1. 1 \in 1..n /\ 1 - 1 = 0
      BY <2>1
    <3> QED
      BY <2>2, <3>1
  <2> QED
    BY <2>1, <2>4, <2>5 DEF sel, Closest
<1>2. CASE Cardinality(S) <= k
  <2>1. SelectDiverse(e, S, k) = Nearest(e, S, k)
    BY <1>2 DEF SelectDiverse
  <2>2. Chosen(Nearest(e, S, k), S, k)
    BY NearestChosen
  <2> DEFINE sel == Nearest(e, S, k)
  <2>3. sel[1] = near /\ 1 \in 1..Len(sel)
    BY <1>1
  <2>4. Range(sel) = {sel[i] : i \in 1..Len(sel)}
    BY <2>2, ChosenRange
  <2> HIDE DEF sel, near
  <2>5. near \in Range(sel)
    BY <2>3, <2>4
  <2> QED
    BY <2>1, <2>5 DEF sel, near
<1>3. CASE ~(Cardinality(S) <= k)
  <2>1. K \subseteq S /\ IsFiniteSet(K) /\ Cardinality(K) <= k /\ near \in K
        /\ Cardinality(K) \in Nat
    BY KeptIn, FS_CardinalityType
  <2>2. near = Closest(e, K)
    <3>1. near \in S /\ \A x \in S : Dist(near, e) <= Dist(x, e)
      BY EndsIn, ClosestIs
    <3> HIDE DEF near, K
    <3>2. K \in SUBSET Elements /\ K # {}
      BY <2>1
    <3>3. \A x \in K : Dist(near, e) <= Dist(x, e)
      BY <2>1, <3>1
    <3> QED
      BY <2>1, <3>2, <3>3, ClosestIs
  <2> DEFINE first == Nearest(e, K, k)
  <2>3. /\ first[1] = near /\ 1 \in 1..Len(first) /\ Len(first) \in Nat
        /\ Chosen(first, K, k)
    <3> HIDE DEF near, K
    <3> QED
      BY <1>1, <2>1, <2>2, NearestChosen
  <2>4. SelectDiverse(e, S, k) = first \o more
    BY <1>3 DEF SelectDiverse
  <2>5. more \in Seq(S)
    <3>1. k - Cardinality(K) \in Nat
      BY <2>1
    <3>2. IsFiniteSet(S \ K) /\ S \ K \in SUBSET Elements
      BY FS_Subset
    <3> HIDE DEF K
    <3>3. Chosen(more, S \ K, k - Cardinality(K))
      BY <3>1, <3>2, NearestChosen
    <3> QED
      BY <3>3 DEF Chosen
  <2>6. first \in Seq(S)
    BY <2>1, <2>3 DEF Chosen
  <2> HIDE DEF near, first, more
  <2>7. (first \o more)[1] = near /\ Len(first \o more) = Len(first) + Len(more)
        /\ Len(more) \in Nat
    BY <2>3, <2>5, <2>6
  <2>8. 1 \in DOMAIN (first \o more)
    BY <2>3, <2>5, <2>6, <2>7
  <2>9. near \in Range(first \o more)
    BY <2>7, <2>8 DEF Range
  <2> QED
    BY <2>4, <2>9 DEF near
<1> QED
  BY <1>2, <1>3

(* What a full list outside the payload half gives up for a new one is not *)
(* its nearest, unless the new one is nearer.                              *)
LEMMA TargetSpares ==
  ASSUME SelectionAssumption, NEW e \in Elements, NEW n \in Elements,
         NEW D \in SUBSET Nat, IsFiniteSet(D), NEW snap \in [D -> Elements \cup {None}],
         NEW diversify, NEW payload, ~payload,
         NEW t, t = TargetSlot(diversify, e, n, snap, payload), t # None, snap[t] # None
  PROVE  t \in D /\ \E y \in ({snap[u] : u \in D \ {t}} \ {None}) \cup {e} :
                       Dist(y, n) <= Dist(snap[t], n)
<1> DEFINE occupants == Range(snap) \ {None}
           strangers == {x \in occupants : payload /\ Partition[x] # Partition[e]}
           at(x) == CHOOSE s \in DOMAIN snap : snap[s] = x
           kept == Range(SelectDiverse(n, occupants \cup {e}, Cardinality(occupants)))
           empty == {s \in DOMAIN snap : snap[s] = None}
           out == {s \in DOMAIN snap : snap[s] \notin kept}
           far == Furthest(n, occupants)
<1>1. occupants \subseteq Elements /\ IsFiniteSet(occupants)
  <2>1. DOMAIN snap = D /\ snap = [s \in D |-> snap[s]]
    OBVIOUS
  <2>2. IsFiniteSet(Range(snap))
    BY <2>1, FiniteRange
  <2>3. occupants \subseteq Elements
    BY DEF Range
  <2> QED
    BY <2>2, <2>3, FS_Subset
<1>2. t \in D
  BY TargetIn
<1>3. ~(e \in occupants \/ DOMAIN snap = {})
  <2> SUFFICES ASSUME e \in occupants \/ DOMAIN snap = {} PROVE FALSE
    OBVIOUS
  <2> QED
    BY DEF TargetSlot
<1>4. None \notin Range(snap)
  <2> SUFFICES ASSUME None \in Range(snap) PROVE FALSE
    OBVIOUS
  <2>1. t = LeastOf(empty)
    BY <1>3 DEF TargetSlot
  <2>2. empty # {} /\ empty \in SUBSET Nat
    BY DEF Range
  <2>3. t \in empty
    <3> HIDE DEF empty
    <3> QED
      BY <2>1, <2>2, LeastIn
  <2> QED
    BY <2>3
<1>5. strangers = {}
  OBVIOUS
<1>6. snap[t] \in occupants
  BY <1>2 DEF Range
<1>7. CASE ~diversify
  <2>1. Dist(n, e) < Dist(n, far) /\ t = at(far)
    <3>1. TargetSlot(diversify, e, n, snap, payload) =
            IF Dist(n, e) < Dist(n, far) THEN at(far) ELSE None
      BY <1>3, <1>4, <1>5, <1>7 DEF TargetSlot
    <3> HIDE DEF at, far
    <3> QED
      BY <3>1
  <2>2. far \in occupants
    <3> HIDE DEF occupants
    <3> QED
      BY <1>1, <1>6, EndsIn
  <2>3. snap[t] = far
    <3>1. \E s \in DOMAIN snap : snap[s] = far
      BY <2>2 DEF Range
    <3> HIDE DEF far
    <3> QED
      BY <2>1, <3>1
  <2>4. Dist(e, n) = Dist(n, e) /\ Dist(far, n) = Dist(n, far)
        /\ Dist(e, n) \in Int /\ Dist(far, n) \in Int
    <3> HIDE DEF far, occupants
    <3> QED
      BY <1>1, <2>2, Distances
  <2> HIDE DEF far, at, occupants
  <2> QED
    BY <1>2, <2>1, <2>3, <2>4
<1>8. CASE diversify
  <2>1. t = LeastOf(out) /\ e \in kept
    <3>1. TargetSlot(diversify, e, n, snap, payload) =
            IF e \in kept THEN LeastOf(out) ELSE None
      BY <1>3, <1>4, <1>5, <1>8 DEF TargetSlot
    <3> HIDE DEF kept, out
    <3> QED
      BY <3>1
  <2> DEFINE S == occupants \cup {e}
             k == Cardinality(occupants)
             near == Closest(n, S)
  <2>2. k \in Nat /\ k # 0 /\ IsFiniteSet(S) /\ S \in SUBSET Elements /\ S # {}
    <3> HIDE DEF occupants
    <3> QED
      BY <1>1, <1>6, FS_CardinalityType, FS_AddElement, FS_EmptySet
  <2>3. near \in kept /\ near \in S /\ \A x \in S : Dist(near, n) <= Dist(x, n)
    <3>1. kept = Range(SelectDiverse(n, S, k))
      OBVIOUS
    <3> HIDE DEF kept, S, k
    <3> QED
      BY <2>2, <3>1, DiverseNearest, EndsIn, ClosestIs
  <2>4. out # {}
    <3>1. Chosen(SelectDiverse(n, S, k), S, k)
      <4> HIDE DEF S, k
      <4> QED
        BY <2>2, DiverseChosen
    <3>2. IsFiniteSet(kept) /\ Cardinality(kept) <= k /\ kept \subseteq S
      <4>1. kept = Range(SelectDiverse(n, S, k))
        OBVIOUS
      <4> HIDE DEF S, k, kept
      <4> QED
        BY <2>2, <3>1, <4>1, ChosenRange
    <3>3. ~(occupants \subseteq kept)
      <4> SUFFICES ASSUME occupants \subseteq kept PROVE FALSE
        OBVIOUS
      <4>1. e \notin occupants
        BY <1>3
      <4> HIDE DEF kept, occupants
      <4>2. IsFiniteSet(occupants) /\ Cardinality(occupants) <= Cardinality(kept)
            /\ (Cardinality(kept) = Cardinality(occupants) => kept = occupants)
        BY <3>2, FS_Subset
      <4>3. Cardinality(kept) \in Nat
        BY <3>2, FS_CardinalityType
      <4> QED
        BY <2>1, <2>2, <3>2, <4>1, <4>2, <4>3
    <3>4. PICK x \in occupants : x \notin kept
      BY <3>3
    <3>5. PICK s \in DOMAIN snap : snap[s] = x
      BY <3>4 DEF Range
    <3>6. s \in out
      BY <3>4, <3>5
    <3> QED
      BY <3>6
  <2>5. snap[t] \notin kept
    <3>1. out \in SUBSET Nat
      OBVIOUS
    <3>2. t \in out
      <4> HIDE DEF out
      <4> QED
        BY <2>1, <2>4, <3>1, LeastIn
    <3> HIDE DEF kept
    <3> QED
      BY <3>2
  <2>6. near \in ({snap[u] : u \in D \ {t}} \ {None}) \cup {e}
    <3>1. CASE near = e
      BY <3>1
    <3>2. CASE near # e
      <4>1. near \in occupants
        <5> HIDE DEF near
        <5> QED
          BY <2>3, <3>2
      <4> HIDE DEF near, kept
      <4>2. PICK u \in D : snap[u] = near
        BY <4>1 DEF Range
      <4>3. u # t /\ near # None
        BY <2>3, <2>5, <4>1, <4>2
      <4> QED
        BY <4>2, <4>3
    <3> QED
      BY <3>1, <3>2
  <2>7. snap[t] \in S
    BY <1>6
  <2> HIDE DEF near, S, kept, occupants
  <2> QED
    BY <1>2, <2>3, <2>6, <2>7
<1> QED
  BY <1>7, <1>8
=============================================================================
