------------------------ MODULE HistoryBudgetProofs ------------------------
(***************************************************************************)
(* The budget of rows holds for any number of cameras and operations, any  *)
(* limits, and any reserve that is enough for one operation's transitions. *)
(*                                                                         *)
(* Nothing asks for room but what is new, so the invariant (IInv) counts   *)
(* what is there at what it may still become: every operation costs its    *)
(* row, its facts and their projections, and all the rows its state leaves *)
(* to come (Cost).  Those costs fit in the limits.  A transition moves a   *)
(* cost from the future to the present, a resolution pays the audit row of *)
(* its own, and what is admitted was held against more than it costs       *)
(* (PutAsideIsEnough).                                                     *)
(***************************************************************************)
EXTENDS HistoryBudget, FiniteSetTheorems, FunctionTheorems, TLAPS

-----------------------------------------------------------------------------
(* Sums                                                                    *)

(* Total counts the pairs <<i, 1>>, ..., <<i, n[i]>>.                      *)
Pieces(S, n) == UNION {{i} \X (1..n[i]) : i \in S}
Countable(S, n) == IsFiniteSet(S) /\ \A i \in S : n[i] \in Nat

LEMMA PieceOf ==
    ASSUME NEW S, NEW n, NEW x
    PROVE  x \in Pieces(S, n) <=> \E i \in S : \E k \in 1..n[i] : x = <<i, k>>
BY DEF Pieces

LEMMA OneBlock ==
    ASSUME NEW i, NEW m \in Nat
    PROVE  IsFiniteSet({i} \X (1..m)) /\ Cardinality({i} \X (1..m)) = m
<1>1. IsFiniteSet(1..m) /\ Cardinality(1..m) = m
  BY FS_Interval
<1>2. IsFiniteSet({i}) /\ Cardinality({i}) = 1
  BY FS_Singleton
<1>3. /\ IsFiniteSet({i} \X (1..m))
      /\ Cardinality({i} \X (1..m)) = Cardinality({i}) * Cardinality(1..m)
  BY <1>1, <1>2, FS_Product
<1> QED  BY <1>1, <1>2, <1>3

LEMMA TotalIsNat ==
    ASSUME NEW S, NEW n, Countable(S, n)
    PROVE  IsFiniteSet(Pieces(S, n)) /\ Total(S, n) \in Nat
<1> DEFINE block == [i \in S |-> {i} \X (1..n[i])]
           blocks == {{i} \X (1..n[i]) : i \in S}
<1>1. block \in Surjection(S, blocks)
  BY DEF Surjection
<1>2. IsFiniteSet(blocks)
  BY <1>1, FS_Surjection DEF Countable
<1>3. ASSUME NEW b \in blocks PROVE IsFiniteSet(b)
  <2>1. PICK i \in S : b = {i} \X (1..n[i])
    OBVIOUS
  <2>2. n[i] \in Nat
    BY DEF Countable
  <2>3. IsFiniteSet({i} \X (1..n[i]))
    BY <2>2, OneBlock
  <2> QED  BY <2>1, <2>3
<1>4. IsFiniteSet(UNION blocks)
  <2> HIDE DEF blocks
  <2> QED  BY <1>2, <1>3, FS_UNION
<1>5. Pieces(S, n) = UNION blocks /\ Total(S, n) = Cardinality(UNION blocks)
  BY DEF Pieces, Total
<1> HIDE DEF blocks
<1> QED  BY <1>4, <1>5, FS_CardinalityType

(* A sum over one element more.                                            *)
LEMMA TotalSplits ==
    ASSUME NEW S, NEW n, Countable(S, n), NEW i \in S
    PROVE  Total(S, n) = Total(S \ {i}, n) + n[i]
<1>1. Countable(S \ {i}, n)
  BY FS_Difference DEF Countable
<1>2. Pieces(S, n) = Pieces(S \ {i}, n) \cup ({i} \X (1..n[i]))
  BY DEF Pieces
<1>3. Pieces(S \ {i}, n) \cap ({i} \X (1..n[i])) = {}
  BY PieceOf
<1>4. n[i] \in Nat
  BY DEF Countable
<1> DEFINE rest  == Pieces(S \ {i}, n)
           block == {i} \X (1..n[i])
<1>5. IsFiniteSet(rest) /\ Total(S \ {i}, n) \in Nat
  BY <1>1, TotalIsNat
<1>6. IsFiniteSet(block) /\ Cardinality(block) = n[i]
  BY <1>4, OneBlock
<1>7. Total(S \ {i}, n) = Cardinality(rest) /\ Total(S, n) = Cardinality(Pieces(S, n))
  BY DEF Total, Pieces
<1>8. Pieces(S, n) = rest \cup block /\ rest \cap block = {}
  BY <1>2, <1>3
<1> HIDE DEF rest, block
<1>9. Cardinality(rest \cup block)
        = Cardinality(rest) + Cardinality(block) - Cardinality(rest \cap block)
  BY <1>5, <1>6, FS_Union
<1>10. Cardinality(rest \cap block) = 0
  BY <1>8, FS_EmptySet
<1> QED  BY <1>4, <1>5, <1>6, <1>7, <1>8, <1>9, <1>10

(* A sum does not shrink if its terms do not, or if more are added up.     *)
LEMMA TotalGrows ==
    ASSUME NEW S, NEW T, NEW n, NEW m, Countable(T, m), S \subseteq T,
           \A i \in S : n[i] \in Nat /\ n[i] <= m[i]
    PROVE  Total(S, n) <= Total(T, m)
<1>1. Pieces(S, n) \subseteq Pieces(T, m)
  <2> SUFFICES ASSUME NEW x \in Pieces(S, n) PROVE x \in Pieces(T, m)
    OBVIOUS
  <2>1. PICK i \in S : \E k \in 1..n[i] : x = <<i, k>>
    BY PieceOf
  <2>2. PICK k \in 1..n[i] : x = <<i, k>>
    BY <2>1
  <2>3. k \in 1..m[i]
    BY DEF Countable
  <2> QED  BY <2>2, <2>3, PieceOf
<1>2. IsFiniteSet(Pieces(T, m))
  BY TotalIsNat
<1> QED  BY <1>1, <1>2, FS_Subset DEF Total, Pieces

LEMMA TotalSame ==
    ASSUME NEW S, NEW n, NEW m, \A i \in S : n[i] = m[i]
    PROVE  Total(S, n) = Total(S, m)
<1>1. Pieces(S, n) = Pieces(S, m)
  BY DEF Pieces
<1> QED  BY <1>1 DEF Total, Pieces

(* One term more, one term changed.                                        *)
LEMMA TotalWith ==
    ASSUME NEW S, NEW n, Countable(S, n), NEW m, NEW i, m[i] \in Nat,
           \A j \in S \ {i} : m[j] = n[j]
    PROVE  /\ Countable(S \cup {i}, m)
           /\ i \in S => Total(S, m) = Total(S, n) + m[i] - n[i]
           /\ i \notin S => Total(S \cup {i}, m) = Total(S, n) + m[i]
<1>1. Countable(S \cup {i}, m)
  BY FS_AddElement DEF Countable
<1>2. ASSUME i \in S PROVE Total(S, m) = Total(S, n) + m[i] - n[i]
  <2>1. Total(S, n) = Total(S \ {i}, n) + n[i]
    BY <1>2, TotalSplits
  <2>2. S \cup {i} = S
    BY <1>2
  <2>3. Total(S, m) = Total(S \ {i}, m) + m[i]
    BY <1>1, <1>2, <2>2, TotalSplits
  <2>4. Total(S \ {i}, m) = Total(S \ {i}, n)
    BY TotalSame
  <2>5. Countable(S \ {i}, n)
    BY FS_Difference DEF Countable
  <2>6. Total(S \ {i}, n) \in Nat /\ n[i] \in Nat
    BY <1>2, <2>5, TotalIsNat DEF Countable
  <2> QED  BY <2>1, <2>3, <2>4, <2>6
<1>3. ASSUME i \notin S PROVE Total(S \cup {i}, m) = Total(S, n) + m[i]
  <2>1. (S \cup {i}) \ {i} = S
    BY <1>3
  <2>2. Total(S \cup {i}, m) = Total((S \cup {i}) \ {i}, m) + m[i]
    BY <1>1, TotalSplits
  <2>3. Total(S, m) = Total(S, n)
    BY <1>3, TotalSame
  <2> QED  BY <2>1, <2>2, <2>3
<1> QED  BY <1>1, <1>2, <1>3

(* One more of one.                                                        *)
LEMMA TotalPlusOne ==
    ASSUME NEW S, NEW n \in [S -> Nat], Countable(S, n), NEW i \in S
    PROVE  Total(S, [n EXCEPT ![i] = @ + 1]) = Total(S, n) + 1
<1> DEFINE m == [n EXCEPT ![i] = @ + 1]
<1>0. m[i] = n[i] + 1 /\ \A j \in S : m[j] = IF j = i THEN n[i] + 1 ELSE n[j]
  OBVIOUS
<1> HIDE DEF m
<1>1. n[i] \in Nat /\ m[i] \in Nat
  BY <1>0 DEF Countable
<1>2. Total(S, n) = Total(S \ {i}, n) + n[i]
  BY TotalSplits
<1>3. Countable(S, m)
  BY <1>0, <1>1 DEF Countable
<1>4. Total(S, m) = Total(S \ {i}, m) + m[i]
  BY <1>3, TotalSplits
<1>5. Total(S \ {i}, m) = Total(S \ {i}, n)
  BY <1>0, TotalSame
<1>6. Countable(S \ {i}, n)
  BY FS_Difference DEF Countable
<1>7. Total(S \ {i}, n) \in Nat
  BY <1>6, TotalIsNat
<1>8. Total(S, m) = Total(S, n) + 1
  BY <1>0, <1>1, <1>2, <1>4, <1>5, <1>7
<1> QED  BY <1>8 DEF m

(* Two sums over the same elements are one.                                *)
LEMMA TotalAdds ==
    ASSUME NEW S, NEW n, NEW m, NEW s, Countable(S, n), Countable(S, m),
           \A i \in S : s[i] = n[i] + m[i]
    PROVE  Total(S, s) = Total(S, n) + Total(S, m)
<1> DEFINE A == Pieces(S, n)
           B == Pieces(S, m)
           C == Pieces(S, s)
           D == C \ A
           up == [x \in B |-> <<x[1], x[2] + n[x[1]]>>]
<1>0. \A i \in S : n[i] \in Nat /\ m[i] \in Nat /\ s[i] \in Nat /\ s[i] = n[i] + m[i]
  BY DEF Countable
<1>1. A \subseteq C
  <2>1. \A i \in S : \A k \in 1..n[i] : <<i, k>> \in C
    <3> SUFFICES ASSUME NEW i \in S, NEW k \in 1..n[i] PROVE <<i, k>> \in C
      OBVIOUS
    <3>1. k \in 1..s[i]
      BY <1>0
    <3> QED  BY <3>1, PieceOf
  <2> HIDE DEF C
  <2> QED  BY <2>1, PieceOf
<1>2. \A x : x \in B <=> \E i \in S : \E k \in 1..m[i] : x = <<i, k>>
  BY PieceOf
<1>3. \A x : x \in D <=> \E i \in S : \E k \in 1..s[i] : x = <<i, k>> /\ k > n[i]
  <2> SUFFICES ASSUME NEW x
               PROVE  x \in D <=> \E i \in S : \E k \in 1..s[i] : x = <<i, k>> /\ k > n[i]
    OBVIOUS
  <2>1. x \in A <=> \E i \in S : \E k \in 1..n[i] : x = <<i, k>>
    BY PieceOf
  <2>2. x \in C <=> \E i \in S : \E k \in 1..s[i] : x = <<i, k>>
    BY PieceOf
  <2>3. x \in D <=> x \in C /\ x \notin A
    OBVIOUS
  <2> HIDE DEF A, C, D
  <2> QED  BY <1>0, <2>1, <2>2, <2>3
<1>4. \A i \in S : \A k \in 1..m[i] : <<i, k>> \in B /\ up[<<i, k>>] = <<i, k + n[i]>>
  BY <1>2
<1>5. up \in [B -> {up[x] : x \in B}]
  OBVIOUS
<1>6. /\ D = C \ A
      /\ Total(S, n) = Cardinality(A) /\ Total(S, m) = Cardinality(B)
      /\ Total(S, s) = Cardinality(C)
  BY DEF Total, Pieces
<1>7. IsFiniteSet(A) /\ IsFiniteSet(B) /\ IsFiniteSet(C)
  <2>1. Countable(S, s)
    BY <1>0 DEF Countable
  <2> QED  BY <2>1, TotalIsNat
<1> HIDE DEF A, B, C, D, up
<1>8. ASSUME NEW x \in B PROVE up[x] \in D
  <2>1. PICK i \in S : \E k \in 1..m[i] : x = <<i, k>>
    BY <1>2, <1>8
  <2>2. PICK k \in 1..m[i] : x = <<i, k>>
    BY <2>1
  <2>3. up[x] = <<i, k + n[i]>> /\ k + n[i] \in 1..s[i] /\ k + n[i] > n[i]
    BY <1>0, <1>4, <2>2
  <2> QED  BY <1>3, <2>3
<1>9. ASSUME NEW x \in B, NEW y \in B, up[x] = up[y] PROVE x = y
  <2>1. PICK i \in S : \E k \in 1..m[i] : x = <<i, k>>
    BY <1>2, <1>9
  <2>2. PICK k \in 1..m[i] : x = <<i, k>>
    BY <2>1
  <2>3. PICK j \in S : \E l \in 1..m[j] : y = <<j, l>>
    BY <1>2, <1>9
  <2>4. PICK l \in 1..m[j] : y = <<j, l>>
    BY <2>3
  <2>5. <<i, k + n[i]>> = <<j, l + n[j]>>
    BY <1>4, <1>9, <2>2, <2>4
  <2> QED  BY <1>0, <2>2, <2>4, <2>5
<1>10. ASSUME NEW y \in D PROVE \E x \in B : up[x] = y
  <2>1. PICK i \in S : \E k \in 1..s[i] : y = <<i, k>> /\ k > n[i]
    BY <1>3, <1>10
  <2>2. PICK k \in 1..s[i] : y = <<i, k>> /\ k > n[i]
    BY <2>1
  <2>3. k - n[i] \in 1..m[i] /\ k - n[i] + n[i] = k
    BY <1>0, <2>2
  <2> QED  BY <1>4, <2>2, <2>3
<1>11. up \in [B -> D]
  BY <1>5, <1>8
<1>12. up \in Bijection(B, D)
  BY <1>9, <1>10, <1>11, Fun_IsBij
<1>13. Cardinality(D) = Cardinality(B)
  BY <1>7, <1>12, FS_Bijection DEF ExistsBijection
<1>14. C \cap A = A
  BY <1>1 DEF A, C
<1>15. Cardinality(D) = Cardinality(C) - Cardinality(A)
  BY <1>6, <1>7, <1>14, FS_Difference
<1>16. Cardinality(A) \in Nat /\ Cardinality(C) \in Nat /\ Cardinality(B) \in Nat
  BY <1>7, FS_CardinalityType
<1> QED  BY <1>6, <1>13, <1>15, <1>16

(* A sum of c for some of the elements.                                    *)
LEMMA TotalOfSome ==
    ASSUME NEW S, IsFiniteSet(S), NEW O \in SUBSET S, NEW c \in Nat, NEW n,
           \A i \in S : n[i] = IF i \in O THEN c ELSE 0
    PROVE  Countable(S, n) /\ Total(S, n) = c * Cardinality(O)
<1>1. Countable(S, n)
  BY DEF Countable
<1>2. Pieces(S, n) = O \X (1..c)
  <2>1. ASSUME NEW x \in Pieces(S, n) PROVE x \in O \X (1..c)
    <3>1. PICK i \in S : \E k \in 1..n[i] : x = <<i, k>>
      BY <2>1, PieceOf
    <3>2. PICK k \in 1..n[i] : x = <<i, k>>
      BY <3>1
    <3>3. i \in O /\ n[i] = c
      BY <3>2
    <3> QED  BY <3>2, <3>3
  <2>2. ASSUME NEW i \in O, NEW k \in 1..c PROVE <<i, k>> \in Pieces(S, n)
    <3>1. i \in S /\ k \in 1..n[i]
      OBVIOUS
    <3> QED  BY <3>1, PieceOf
  <2> QED  BY <2>1, <2>2
<1>3. IsFiniteSet(O) /\ IsFiniteSet(1..c) /\ Cardinality(1..c) = c
  BY FS_Subset, FS_Interval
<1>4. Cardinality(O \X (1..c)) = Cardinality(O) * Cardinality(1..c) /\ Cardinality(O) \in Nat
  BY <1>3, FS_Product, FS_CardinalityType
<1>5. Total(S, n) = Cardinality(Pieces(S, n))
  BY DEF Total, Pieces
<1> QED  BY <1>1, <1>2, <1>3, <1>4, <1>5

-----------------------------------------------------------------------------
(* What every row may still become                                         *)

(* The rows that a state leaves to come: two of every transition, one of   *)
(* an audit row for every resolution.                                      *)
Future(i) ==
    IF ops[i].state \in {"pending", "running"}
    THEN 4 * (MaxAttempts - ops[i].attempt) + (IF ops[i].state = "running" THEN 8 ELSE 6)
    ELSE IF ops[i].state = "unknown" THEN 6
    ELSE IF ops[i].state = "dead_letter" THEN 3 ELSE 0

(* An operation's rows when all is over: itself, its facts, their          *)
(* projections.                                                            *)
Cost == [i \in Operations |-> 1 + 2 * ops[i].facts + Future(i)]

Shape ==
    /\ kept \in [Owners \cup {NoOwner} -> Nat]
    /\ ops \in [Operations -> Operation]
    /\ flushing \in BOOLEAN

Sensible(i) ==
    /\ ops[i].projected <= ops[i].facts
    /\ ops[i].state = "pending" => ops[i].attempt < MaxAttempts
    /\ ops[i].state = "running" => ops[i].attempt > 0

FitsInAll == Total(Owners \cup {NoOwner}, kept) + Total(Stored, Cost) <= Limit
FitsOwner(o) == kept[o] + Total(Of(o), Cost) <= OwnerLimit

IInv ==
    /\ Shape
    /\ \A i \in Operations : Sensible(i)
    /\ FitsInAll
    /\ \A o \in Owners : FitsOwner(o)

(* Reading the state, and the sums over it.                                *)
LEMMA Counted ==
    ASSUME Shape, \A i \in Operations : Sensible(i)
    PROVE  /\ Countable(Owners \cup {NoOwner}, kept)
           /\ \A S \in SUBSET Operations :
                Countable(S, Cost) /\ Countable(S, Rows) /\ Countable(S, Undelivered)
           /\ Stored \in SUBSET Operations /\ \A o : Of(o) \in SUBSET Stored
<1>1. IsFiniteSet(Owners \cup {NoOwner})
  BY OwnersAssumption, FS_AddElement
<1>2. Countable(Owners \cup {NoOwner}, kept)
  BY <1>1 DEF Countable, Shape
<1>3. \A S \in SUBSET Operations : IsFiniteSet(S)
  BY OwnersAssumption, FS_Subset
<1>4. ASSUME NEW i \in Operations
      PROVE  Cost[i] \in Nat /\ Rows[i] \in Nat /\ Undelivered[i] \in Nat
  <2>1. ops[i].facts \in Nat /\ ops[i].projected \in Nat /\ ops[i].attempt \in 0..MaxAttempts
    BY DEF Shape, Operation
  <2>2. Future(i) \in Nat
    BY <2>1, LimitsAssumption DEF Future
  <2> QED  BY <2>1, <2>2 DEF Cost, Rows, Undelivered, Sensible
<1>5. \A S \in SUBSET Operations :
        Countable(S, Cost) /\ Countable(S, Rows) /\ Countable(S, Undelivered)
  BY <1>3, <1>4 DEF Countable
<1>6. Stored \in SUBSET Operations /\ \A o : Of(o) \in SUBSET Stored
  BY DEF Stored, Of
<1> QED  BY <1>2, <1>5, <1>6

(* What there is and what is put aside pay for all that may come.          *)
LEMMA PutAsideIsEnough ==
    ASSUME Shape, \A i \in Operations : Sensible(i), NEW S \in SUBSET Stored
    PROVE  /\ Total(S, Rows) \in Nat /\ Total(S, Cost) \in Nat /\ Reserved(S) \in Nat
           /\ Total(S, Rows) <= Total(S, Cost)
           /\ Total(S, Cost) <= Total(S, Rows) + Reserved(S)
<1> DEFINE O    == {i \in S : ops[i].state \in Outstanding}
           held == [i \in Operations |-> IF i \in O THEN Reserve ELSE 0]
           left == [i \in Operations |-> held[i] + Undelivered[i]]
           all  == [i \in Operations |-> Rows[i] + left[i]]
<1>1. S \in SUBSET Operations
  BY Counted
<1>2. Countable(S, Cost) /\ Countable(S, Rows) /\ Countable(S, Undelivered)
  BY <1>1, Counted
<1>3. Countable(S, held) /\ Total(S, held) = Reserve * Cardinality(O)
  <2>1. \A i \in S : held[i] = IF i \in O THEN Reserve ELSE 0
    BY <1>1
  <2>2. O \in SUBSET S /\ IsFiniteSet(S) /\ Reserve \in Nat
    BY <1>2, LimitsAssumption DEF Countable
  <2> HIDE DEF held, O
  <2> QED  BY <2>1, <2>2, TotalOfSome
<1>4. \A i \in S : left[i] = held[i] + Undelivered[i] /\ all[i] = Rows[i] + left[i]
  BY <1>1
<1>5. ASSUME NEW i \in S
      PROVE  Rows[i] <= Cost[i] /\ Cost[i] <= Rows[i] + Undelivered[i] + held[i]
  <2>1. /\ ops[i].facts \in Nat /\ ops[i].projected \in Nat /\ ops[i].attempt \in 0..MaxAttempts
        /\ i \in Operations
    BY <1>1 DEF Shape, Operation
  <2>2. Future(i) \in Nat /\ (ops[i].state \in Outstanding => Future(i) <= Reserve)
    BY <2>1, LimitsAssumption DEF Future, Sensible, Outstanding
  <2>3. ops[i].state \notin Outstanding => Future(i) = 0
    BY DEF Future, Outstanding
  <2>4. held[i] = IF ops[i].state \in Outstanding THEN Reserve ELSE 0
    BY <2>1
  <2>5. ops[i].projected <= ops[i].facts
    BY <2>1 DEF Sensible
  <2>6. Future(i) <= held[i] /\ held[i] \in Nat
    BY <2>2, <2>3, <2>4, LimitsAssumption
  <2>7. /\ Cost[i] = 1 + 2 * ops[i].facts + Future(i)
        /\ Rows[i] = 1 + ops[i].facts + ops[i].projected
        /\ Undelivered[i] = ops[i].facts - ops[i].projected
    BY <2>1 DEF Cost, Rows, Undelivered
  <2> HIDE DEF held
  <2> QED  BY <2>1, <2>2, <2>5, <2>6, <2>7
<1>6. Reserved(S) = Total(S, held) + Total(S, Undelivered)
  BY <1>3 DEF Reserved
<1> HIDE DEF held, left, all, O
<1>7. Countable(S, left)
  BY <1>2, <1>3, <1>4 DEF Countable
<1>8. Total(S, left) = Total(S, held) + Total(S, Undelivered)
  BY <1>2, <1>3, <1>4, TotalAdds
<1>9. Total(S, all) = Total(S, Rows) + Total(S, left)
  BY <1>2, <1>4, <1>7, TotalAdds
<1>10. Countable(S, all)
  BY <1>2, <1>4, <1>7 DEF Countable
<1>11. \A i \in S : Cost[i] \in Nat /\ Rows[i] \in Nat /\ Undelivered[i] \in Nat /\ held[i] \in Nat
  BY <1>2, <1>3 DEF Countable
<1>12. \A i \in S : Cost[i] <= all[i]
  BY <1>4, <1>5, <1>11
<1>13. Total(S, Cost) <= Total(S, all)
  BY <1>10, <1>11, <1>12, TotalGrows
<1>14. Total(S, Rows) <= Total(S, Cost)
  BY <1>2, <1>5, <1>11, TotalGrows
<1>15. /\ Total(S, Cost) \in Nat /\ Total(S, Rows) \in Nat
       /\ Total(S, held) \in Nat /\ Total(S, Undelivered) \in Nat
  BY <1>2, <1>3, TotalIsNat
<1> QED  BY <1>6, <1>8, <1>9, <1>13, <1>14, <1>15

(* So what is admitted fits with all that may come.                        *)
LEMMA AdmittedFits ==
    ASSUME IInv, NEW o, NEW new \in BOOLEAN, Admitted(o, new)
    PROVE  /\ Total(Owners \cup {NoOwner}, kept) + Total(Stored, Cost) + Added(new) <= Limit
           /\ o \in Owners => kept[o] + Total(Of(o), Cost) + Added(new) <= OwnerLimit
<1>1. Shape /\ \A i \in Operations : Sensible(i)
  BY DEF IInv
<1>2. Total(Owners \cup {NoOwner}, kept) \in Nat
  BY <1>1, Counted, TotalIsNat
<1>3. Added(new) \in Nat
  BY LimitsAssumption DEF Added
<1>4. /\ Total(Stored, Cost) <= Total(Stored, Rows) + Reserved(Stored)
      /\ Total(Stored, Cost) \in Nat /\ Total(Stored, Rows) \in Nat /\ Reserved(Stored) \in Nat
  <2>1. Stored \in SUBSET Stored
    OBVIOUS
  <2> QED  BY <1>1, <2>1, PutAsideIsEnough
<1>5. Total(Owners \cup {NoOwner}, kept) + Total(Stored, Rows) + Reserved(Stored) + Added(new)
        <= Limit
  BY DEF Admitted, AllRows
<1>6. ASSUME o \in Owners PROVE kept[o] + Total(Of(o), Cost) + Added(new) <= OwnerLimit
  <2>1. Of(o) \in SUBSET Stored
    BY <1>1, Counted
  <2>2. /\ Total(Of(o), Cost) <= Total(Of(o), Rows) + Reserved(Of(o))
        /\ Total(Of(o), Cost) \in Nat /\ Total(Of(o), Rows) \in Nat /\ Reserved(Of(o)) \in Nat
    BY <1>1, <2>1, PutAsideIsEnough
  <2>3. o # NoOwner /\ kept[o] \in Nat
    BY <1>1, <1>6, OwnersAssumption DEF Shape
  <2>4. kept[o] + Total(Of(o), Rows) + Reserved(Of(o)) + Added(new) <= OwnerLimit
    BY <2>3 DEF Admitted, OwnRows
  <2> QED  BY <1>3, <2>2, <2>3, <2>4, LimitsAssumption
<1> QED  BY <1>2, <1>3, <1>4, <1>5, <1>6, LimitsAssumption

-----------------------------------------------------------------------------
(* No step makes the costs exceed what they fit in                         *)

(* A step among the operations leaves the owners' lists as they are.       *)
SameOwners ==
    \A i \in Operations : /\ ops'[i].owner = ops[i].owner
                          /\ ops'[i].state = "none" <=> ops[i].state = "none"

LEMMA SameLists ==
    ASSUME SameOwners
    PROVE  Stored' = Stored /\ \A o : Of(o)' = Of(o)
BY DEF SameOwners, Stored, Of

LEMMA CountedNext ==
    ASSUME Shape', \A i \in Operations : Sensible(i)'
    PROVE  \A S \in SUBSET Operations : Countable(S, Cost')
<1>1. \A S \in SUBSET Operations : IsFiniteSet(S)
  BY OwnersAssumption, FS_Subset
<1>2. ASSUME NEW i \in Operations PROVE Cost'[i] \in Nat
  <2>1. ops'[i].facts \in Nat /\ ops'[i].attempt \in 0..MaxAttempts
    BY DEF Shape, Operation
  <2>2. Future(i)' \in Nat
    BY <2>1, LimitsAssumption DEF Future
  <2> QED  BY <2>1, <2>2 DEF Cost
<1> QED  BY <1>1, <1>2 DEF Countable

(* A step that costs nothing more.                                         *)
LEMMA PaidBefore ==
    ASSUME IInv, Shape', \A i \in Operations : Sensible(i)', SameOwners, kept' = kept,
           \A i \in Operations : Cost'[i] <= Cost[i]
    PROVE  IInv'
<1>1. Shape /\ \A i \in Operations : Sensible(i)
  BY DEF IInv
<1>2. Stored \in SUBSET Operations /\ \A o : Of(o) \in SUBSET Stored
  BY <1>1, Counted
<1>3. ASSUME NEW S \in SUBSET Operations
      PROVE  Total(S, Cost') <= Total(S, Cost) /\ Total(S, Cost') \in Nat /\ Total(S, Cost) \in Nat
  <2>1. Countable(S, Cost) /\ Countable(S, Cost')
    BY <1>1, Counted, CountedNext
  <2>2. \A i \in S : Cost'[i] \in Nat /\ Cost'[i] <= Cost[i]
    BY <2>1 DEF Countable
  <2> QED  BY <2>1, <2>2, TotalGrows, TotalIsNat
<1>4. Stored' = Stored /\ \A o : Of(o)' = Of(o)
  BY SameLists
<1>5. Total(Owners \cup {NoOwner}, kept) \in Nat
  BY <1>1, Counted, TotalIsNat
<1>6. FitsInAll'
  <2>1. Total(Owners \cup {NoOwner}, kept) + Total(Stored, Cost) <= Limit
    BY DEF IInv, FitsInAll
  <2>2. Total(Owners \cup {NoOwner}, kept) + Total(Stored, Cost') <= Limit
    BY <1>2, <1>3, <1>5, <2>1, LimitsAssumption
  <2> QED  BY <1>4, <2>2 DEF FitsInAll
<1>7. ASSUME NEW o \in Owners PROVE FitsOwner(o)'
  <2>1. kept[o] + Total(Of(o), Cost) <= OwnerLimit /\ kept[o] \in Nat
    BY DEF IInv, FitsOwner, Shape
  <2>2. Of(o) \in SUBSET Operations
    BY <1>2
  <2>3. kept[o] + Total(Of(o), Cost') <= OwnerLimit
    BY <1>3, <2>1, <2>2, LimitsAssumption
  <2> QED  BY <1>4, <2>3 DEF FitsOwner
<1> QED  BY <1>6, <1>7 DEF IInv

(* A row of its own, paid by the operation it is about.                    *)
LEMMA PaidByOne ==
    ASSUME IInv, Shape', \A i \in Operations : Sensible(i)', SameOwners,
           NEW i \in Stored, kept' = [kept EXCEPT ![ops[i].owner] = @ + 1],
           \A j \in Operations \ {i} : Cost'[j] = Cost[j],
           Cost'[i] + 1 <= Cost[i]
    PROVE  IInv'
<1> DEFINE w   == ops[i].owner
           all == Owners \cup {NoOwner}
<1>1. Shape /\ \A j \in Operations : Sensible(j)
  BY DEF IInv
<1>2. Stored \in SUBSET Operations /\ \A o : Of(o) \in SUBSET Stored
  BY <1>1, Counted
<1>3. w \in all /\ i \in Operations
  BY <1>1, <1>2 DEF Shape, Operation
<1>4. Stored' = Stored /\ \A o : Of(o)' = Of(o)
  BY SameLists
<1>5. Countable(all, kept)
  BY <1>1, Counted
<1>6. kept'[w] = kept[w] + 1 /\ kept[w] \in Nat /\ \A o \in all \ {w} : kept'[o] = kept[o]
  BY <1>1, <1>3 DEF Shape
<1>7. Total(all, kept') = Total(all, kept) + 1
  <2>1. kept \in [all -> Nat] /\ kept' = [kept EXCEPT ![w] = @ + 1]
    BY <1>1 DEF Shape
  <2>2. Total(all, [kept EXCEPT ![w] = @ + 1]) = Total(all, kept) + 1
    <3> HIDE DEF all, w
    <3> QED  BY <1>3, <1>5, <2>1, TotalPlusOne
  <2> QED  BY <2>1, <2>2
<1>8. ASSUME NEW S \in SUBSET Operations, i \in S
      PROVE  /\ Total(S, Cost') + 1 <= Total(S, Cost)
             /\ Total(S, Cost') \in Nat /\ Total(S, Cost) \in Nat
  <2>1. Countable(S, Cost) /\ Countable(S, Cost')
    BY <1>1, Counted, CountedNext
  <2>2. Cost[i] \in Nat /\ Cost'[i] \in Nat /\ \A j \in S \ {i} : Cost'[j] = Cost[j]
    BY <1>8, <2>1 DEF Countable
  <2>3. Total(S, Cost') = Total(S, Cost) + Cost'[i] - Cost[i]
    BY <1>8, <2>1, <2>2, TotalWith
  <2>4. Total(S, Cost) \in Nat /\ Total(S, Cost') \in Nat
    BY <2>1, TotalIsNat
  <2> QED  BY <2>2, <2>3, <2>4
<1>9. FitsInAll'
  <2>1. Total(all, kept) + Total(Stored, Cost) <= Limit
    BY DEF IInv, FitsInAll
  <2>2. Total(all, kept) \in Nat
    BY <1>5, TotalIsNat
  <2>3. /\ Total(Stored, Cost') + 1 <= Total(Stored, Cost)
        /\ Total(Stored, Cost') \in Nat /\ Total(Stored, Cost) \in Nat
    BY <1>2, <1>8
  <2>4. Total(all, kept') + Total(Stored, Cost') <= Limit
    BY <1>7, <2>1, <2>2, <2>3, LimitsAssumption
  <2> QED  BY <1>4, <2>4 DEF FitsInAll
<1>10. ASSUME NEW o \in Owners PROVE FitsOwner(o)'
  <2>1. kept[o] + Total(Of(o), Cost) <= OwnerLimit /\ kept[o] \in Nat
    BY DEF IInv, FitsOwner, Shape
  <2>2. Of(o) \in SUBSET Operations
    BY <1>2
  <2>3. CASE o = w
    <3>1. i \in Of(o)
      BY <2>3 DEF Of
    <3>2. /\ Total(Of(o), Cost') + 1 <= Total(Of(o), Cost)
          /\ Total(Of(o), Cost') \in Nat /\ Total(Of(o), Cost) \in Nat
      BY <1>8, <2>2, <3>1
    <3>3. kept'[o] = kept[o] + 1
      BY <1>6, <2>3
    <3>4. kept'[o] + Total(Of(o), Cost') <= OwnerLimit
      BY <2>1, <3>2, <3>3, LimitsAssumption
    <3> QED  BY <1>4, <3>4 DEF FitsOwner
  <2>4. CASE o # w
    <3>1. \A j \in Of(o) : Cost'[j] = Cost[j]
      BY <2>2, <2>4 DEF Of
    <3>2. Total(Of(o), Cost') = Total(Of(o), Cost)
      BY <3>1, TotalSame
    <3>3. kept'[o] = kept[o]
      BY <1>6, <2>4
    <3> QED  BY <1>4, <2>1, <3>2, <3>3 DEF FitsOwner
  <2> QED  BY <2>3, <2>4
<1> QED  BY <1>9, <1>10 DEF IInv

(* A row more of one owner.                                                *)
LEMMA RecordFits ==
    ASSUME IInv, NEW o \in Owners \cup {NoOwner}, Record(o)
    PROVE  IInv'
<1> DEFINE all == Owners \cup {NoOwner}
<1>1. Shape /\ Shape' /\ \A i \in Operations : Sensible(i) /\ Sensible(i)'
  BY DEF IInv, Record, Shape, Sensible
<1>2. Stored' = Stored /\ Cost' = Cost /\ \A p : Of(p)' = Of(p)
  BY DEF Record, Stored, Of, Cost, Future
<1>3. Added(FALSE) = 1
  BY DEF Added
<1>4. /\ Total(all, kept) + Total(Stored, Cost) + 1 <= Limit
      /\ o \in Owners => kept[o] + Total(Of(o), Cost) + 1 <= OwnerLimit
  BY <1>3, AdmittedFits DEF Record
<1>5. Countable(all, kept)
  BY <1>1, Counted
<1>6. kept'[o] = kept[o] + 1 /\ kept[o] \in Nat /\ \A p \in all \ {o} : kept'[p] = kept[p]
  BY <1>1 DEF Shape, Record
<1>7. Total(all, kept') = Total(all, kept) + 1
  <2>1. o \in all /\ kept \in [all -> Nat] /\ kept' = [kept EXCEPT ![o] = @ + 1]
    BY <1>1 DEF Shape, Record
  <2>2. Total(all, [kept EXCEPT ![o] = @ + 1]) = Total(all, kept) + 1
    <3> HIDE DEF all
    <3> QED  BY <1>5, <2>1, TotalPlusOne
  <2> QED  BY <2>1, <2>2
<1>8. Total(all, kept) \in Nat /\ \A S \in SUBSET Operations : Total(S, Cost) \in Nat
  BY <1>1, <1>5, Counted, TotalIsNat
<1>9. Stored \in SUBSET Operations /\ \A p : Of(p) \in SUBSET Operations
  BY <1>1, Counted
<1>10. FitsInAll'
  <2>1. Total(all, kept') + Total(Stored, Cost) <= Limit
    BY <1>4, <1>7, <1>8, <1>9
  <2> QED  BY <1>2, <2>1 DEF FitsInAll
<1>11. ASSUME NEW p \in Owners PROVE FitsOwner(p)'
  <2>1. kept[p] + Total(Of(p), Cost) <= OwnerLimit
    BY DEF IInv, FitsOwner
  <2>2. kept'[p] = (IF p = o THEN kept[p] + 1 ELSE kept[p])
    BY <1>6
  <2>3. Total(Of(p), Cost) \in Nat
    BY <1>8, <1>9
  <2>4. kept'[p] + Total(Of(p), Cost) <= OwnerLimit
    BY <1>4, <1>6, <2>1, <2>2, <2>3
  <2> QED  BY <1>2, <2>4 DEF FitsOwner
<1> QED  BY <1>1, <1>10, <1>11 DEF IInv

(* A camera's events become nobody's: no more rows in all.                 *)
LEMMA PurgeFits ==
    ASSUME IInv, NEW o \in Owners, NEW events \in 1..kept[o], PurgeCamera(o, events)
    PROVE  IInv'
<1> DEFINE all  == Owners \cup {NoOwner}
           less == [kept EXCEPT ![o] = @ - events]
<1>1. Shape /\ \A i \in Operations : Sensible(i)
  BY DEF IInv
<1>2. o # NoOwner /\ kept[o] \in Nat /\ kept[NoOwner] \in Nat /\ events \in Nat /\ events <= kept[o]
  BY <1>1, OwnersAssumption DEF Shape
<1>3. kept' = [less EXCEPT ![NoOwner] = @ + events] /\ ops' = ops /\ flushing' = flushing
  BY <1>2 DEF PurgeCamera
<1>4. less \in [all -> Nat] /\ less[o] = kept[o] - events /\ less[NoOwner] = kept[NoOwner]
      /\ \A p \in all \ {o} : less[p] = kept[p]
  BY <1>1, <1>2 DEF Shape
<1> HIDE DEF less
<1>5. kept' \in [all -> Nat] /\ kept'[NoOwner] = kept[NoOwner] + events
      /\ \A p \in all \ {NoOwner} : kept'[p] = less[p]
  BY <1>2, <1>3, <1>4
<1>6. Shape' /\ \A i \in Operations : Sensible(i)'
  BY <1>1, <1>3, <1>5 DEF Shape, Sensible
<1>7. Stored' = Stored /\ Cost' = Cost /\ \A p : Of(p)' = Of(p)
  BY <1>3 DEF Stored, Of, Cost, Future
<1>8. Countable(all, kept)
  BY <1>1, Counted
<1>9. Countable(all, less)
  BY <1>4, <1>8 DEF Countable
<1>10. Total(all, less) = Total(all, kept) + less[o] - kept[o]
  <2>1. less[o] \in Nat
    BY <1>4
  <2> QED  BY <1>4, <1>8, <2>1, TotalWith
<1>11. Total(all, kept') = Total(all, less) + kept'[NoOwner] - less[NoOwner]
  <2>1. kept'[NoOwner] \in Nat
    BY <1>5
  <2> QED  BY <1>5, <1>9, <2>1, TotalWith
<1>12. Total(all, kept) \in Nat /\ Total(all, less) \in Nat
  BY <1>8, <1>9, TotalIsNat
<1>13. Total(all, kept') = Total(all, kept)
  BY <1>2, <1>4, <1>5, <1>10, <1>11, <1>12
<1>14. FitsInAll'
  BY <1>7, <1>13 DEF IInv, FitsInAll
<1>15. ASSUME NEW p \in Owners PROVE FitsOwner(p)'
  <2>1. kept[p] + Total(Of(p), Cost) <= OwnerLimit /\ kept[p] \in Nat
    BY <1>1 DEF IInv, FitsOwner, Shape
  <2>2. kept'[p] <= kept[p] /\ kept'[p] \in Nat
    BY <1>2, <1>4, <1>5, <2>1, OwnersAssumption
  <2>3. Total(Of(p), Cost) \in Nat
    <3>1. Of(p) \in SUBSET Operations
      BY <1>1, Counted
    <3> QED  BY <1>1, <3>1, Counted, TotalIsNat
  <2>4. kept'[p] + Total(Of(p), Cost) <= OwnerLimit
    BY <2>1, <2>2, <2>3, LimitsAssumption
  <2> QED  BY <1>7, <2>4 DEF FitsOwner
<1> QED  BY <1>6, <1>14, <1>15 DEF IInv

(* A new operation costs less than what it was admitted for.               *)
LEMMA EnqueueFits ==
    ASSUME IInv, NEW i \in Operations, NEW o \in Owners, Enqueue(i, o)
    PROVE  IInv'
<1> DEFINE all == Owners \cup {NoOwner}
           fresh == [Absent EXCEPT !.owner = o, !.state = "pending", !.facts = 1]
<1>1. Shape /\ \A j \in Operations : Sensible(j)
  BY DEF IInv
<1>2. /\ fresh \in [owner : {o}, state : {"pending"}, attempt : {0}, facts : {1}, projected : {0}]
      /\ fresh.owner = o /\ fresh.state = "pending" /\ fresh.attempt = 0
      /\ fresh.facts = 1 /\ fresh.projected = 0
  BY DEF Absent
<1>3. kept' = kept /\ flushing' = flushing /\ ops' = [ops EXCEPT ![i] = fresh]
  BY DEF Enqueue
<1> HIDE DEF fresh
<1>4. fresh \in Operation
  BY <1>2, LimitsAssumption DEF Operation, States
<1>5. ops'[i] = fresh /\ \A j \in Operations \ {i} : ops'[j] = ops[j]
  BY <1>1, <1>3 DEF Shape
<1>6. Shape'
  BY <1>1, <1>3, <1>4 DEF Shape
<1>7. \A j \in Operations : Sensible(j)'
  <2>1. ASSUME NEW j \in Operations, j # i PROVE Sensible(j)'
    BY <1>1, <1>5, <2>1 DEF Sensible
  <2>2. Sensible(i)'
    BY <1>2, <1>5, LimitsAssumption DEF Sensible
  <2> QED  BY <2>1, <2>2
<1>8. Cost'[i] = 9 + 4 * MaxAttempts
  <2>1. Cost'[i] = 1 + 2 * 1 + Future(i)'
    BY <1>2, <1>5 DEF Cost
  <2>2. Future(i)' = 4 * (MaxAttempts - 0) + 6
    BY <1>2, <1>5 DEF Future
  <2> QED  BY <2>1, <2>2, LimitsAssumption
<1>9. \A j \in Operations \ {i} : Cost'[j] = Cost[j]
  BY <1>5 DEF Cost, Future
<1>10. Added(TRUE) = Reserve + 3
  BY DEF Added
<1>11. /\ Total(all, kept) + Total(Stored, Cost) + (Reserve + 3) <= Limit
       /\ kept[o] + Total(Of(o), Cost) + (Reserve + 3) <= OwnerLimit
  BY <1>10, AdmittedFits DEF Enqueue
<1>12. i \notin Stored /\ i \notin Of(o)
  BY DEF Enqueue, Stored, Of
<1>13. /\ Stored' = Stored \cup {i} /\ Of(o)' = Of(o) \cup {i}
       /\ \A p \in Owners \ {o} : Of(p)' = Of(p)
  <2>1. Stored' = Stored \cup {i}
    BY <1>2, <1>5 DEF Stored
  <2>2. Of(o)' = Of(o) \cup {i}
    BY <1>2, <1>5, <1>12, <2>1 DEF Of, Stored
  <2>3. ASSUME NEW p \in Owners \ {o} PROVE Of(p)' = Of(p)
    BY <1>2, <1>5, <1>12, <2>1 DEF Of, Stored
  <2> QED  BY <2>1, <2>2, <2>3
<1>14. Stored \in SUBSET Operations /\ \A p : Of(p) \in SUBSET Operations
  BY <1>1, Counted
<1>15. ASSUME NEW S \in SUBSET Operations, i \notin S
       PROVE  /\ Total(S \cup {i}, Cost') = Total(S, Cost) + (9 + 4 * MaxAttempts)
              /\ Total(S, Cost) \in Nat
  <2>1. Countable(S, Cost)
    BY <1>1, Counted
  <2>2. \A j \in S \ {i} : Cost'[j] = Cost[j]
    BY <1>9
  <2>3. Cost'[i] \in Nat
    BY <1>8, LimitsAssumption
  <2>4. Total(S \cup {i}, Cost') = Total(S, Cost) + Cost'[i]
    BY <1>15, <2>1, <2>2, <2>3, TotalWith
  <2> QED  BY <1>8, <2>1, <2>4, TotalIsNat
<1>16. Total(all, kept) \in Nat
  BY <1>1, Counted, TotalIsNat
<1>17. FitsInAll'
  <2>1. /\ Total(Stored \cup {i}, Cost') = Total(Stored, Cost) + (9 + 4 * MaxAttempts)
        /\ Total(Stored, Cost) \in Nat
    BY <1>12, <1>14, <1>15
  <2>2. Total(all, kept) + Total(Stored \cup {i}, Cost') <= Limit
    BY <1>11, <1>16, <2>1, LimitsAssumption
  <2> QED  BY <1>3, <1>13, <2>2 DEF FitsInAll
<1>18. FitsOwner(o)'
  <2>1. /\ Total(Of(o) \cup {i}, Cost') = Total(Of(o), Cost) + (9 + 4 * MaxAttempts)
        /\ Total(Of(o), Cost) \in Nat
    BY <1>12, <1>14, <1>15
  <2>2. kept[o] \in Nat
    BY <1>1 DEF Shape
  <2>3. kept[o] + Total(Of(o) \cup {i}, Cost') <= OwnerLimit
    BY <1>11, <2>1, <2>2, LimitsAssumption
  <2> QED  BY <1>3, <1>13, <2>3 DEF FitsOwner
<1>19. ASSUME NEW p \in Owners \ {o} PROVE FitsOwner(p)'
  <2>1. kept[p] + Total(Of(p), Cost) <= OwnerLimit
    BY DEF IInv, FitsOwner
  <2>2. i \notin Of(p)
    BY <1>12 DEF Of
  <2>3. \A j \in Of(p) : Cost'[j] = Cost[j]
    BY <1>9, <1>14, <2>2
  <2>4. Total(Of(p), Cost') = Total(Of(p), Cost)
    BY <2>3, TotalSame
  <2> QED  BY <1>3, <1>13, <2>1, <2>4 DEF FitsOwner
<1> QED  BY <1>6, <1>7, <1>17, <1>18, <1>19 DEF IInv

-----------------------------------------------------------------------------
(* The steps of one operation                                              *)

(* What is asked of the operation that moves.                              *)
Moves(i) ==
    /\ ops' \in [Operations -> Operation]
    /\ \A j \in Operations \ {i} : ops'[j] = ops[j]
    /\ ops'[i].owner = ops[i].owner /\ ops'[i].state # "none"
    /\ Sensible(i)'

LEMMA OneMoves ==
    ASSUME IInv, NEW i \in Stored, Moves(i), flushing' \in BOOLEAN,
           kept' \in [Owners \cup {NoOwner} -> Nat]
    PROVE  /\ Shape' /\ SameOwners
           /\ \A j \in Operations : Sensible(j)'
           /\ \A j \in Operations \ {i} : Cost'[j] = Cost[j] /\ Cost[j] \in Nat
<1>1. Shape /\ \A j \in Operations : Sensible(j)
  BY DEF IInv
<1>2. i \in Operations /\ ops[i].state # "none"
  BY DEF Stored
<1>3. Shape' /\ SameOwners
  BY <1>2 DEF Moves, Shape, SameOwners
<1>4. ASSUME NEW j \in Operations PROVE Sensible(j)'
  <2>1. CASE j = i
    BY <2>1 DEF Moves
  <2>2. CASE j # i
    BY <1>1, <2>2 DEF Moves, Sensible
  <2> QED  BY <2>1, <2>2
<1>5. \A j \in Operations \ {i} : Cost'[j] = Cost[j]
  BY DEF Moves, Cost, Future
<1>6. \A j \in Operations : Cost[j] \in Nat
  BY <1>1, Counted DEF Countable
<1> QED  BY <1>3, <1>4, <1>5, <1>6

(* A transition writes a fact and changes the state.                       *)
LEMMA BecomesMoves ==
    ASSUME IInv, NEW i \in Operations, NEW s \in States, NEW next, next = Becomes(i, s)
    PROVE  /\ next \in [Operations -> Operation]
           /\ \A j \in Operations \ {i} : next[j] = ops[j]
           /\ next[i].state = s /\ next[i].facts = ops[i].facts + 1
           /\ next[i].owner = ops[i].owner /\ next[i].attempt = ops[i].attempt
           /\ next[i].projected = ops[i].projected
<1>1. ops \in [Operations -> Operation]
  BY DEF IInv, Shape
<1> QED  BY <1>1 DEF Becomes, Operation

LEMMA Numbers ==
    ASSUME IInv, NEW i \in Operations
    PROVE  /\ ops[i].facts \in Nat /\ ops[i].projected \in Nat /\ ops[i].attempt \in Nat
           /\ ops[i].attempt <= MaxAttempts /\ MaxAttempts \in Nat
           /\ ops[i].projected <= ops[i].facts
BY LimitsAssumption DEF IInv, Shape, Operation, Sensible

LEMMA ClaimFits ==
    ASSUME IInv, NEW i \in Operations, Claim(i)
    PROVE  IInv'
<1>1. /\ ops[i].state = "pending" /\ ops[i].attempt < MaxAttempts /\ i \in Stored
      /\ kept' = kept /\ flushing' = flushing
  BY DEF Claim, IInv, Sensible, Stored
<1>2. ops \in [Operations -> Operation]
  BY DEF IInv, Shape
<1>3. /\ ops' \in [Operations -> Operation]
      /\ \A j \in Operations \ {i} : ops'[j] = ops[j]
      /\ ops'[i].state = "running" /\ ops'[i].facts = ops[i].facts + 1
      /\ ops'[i].owner = ops[i].owner /\ ops'[i].attempt = ops[i].attempt + 1
      /\ ops'[i].projected = ops[i].projected
  <2> DEFINE mid == Becomes(i, "running")
  <2>1. /\ mid \in [Operations -> Operation]
        /\ \A j \in Operations \ {i} : mid[j] = ops[j]
        /\ mid[i].state = "running" /\ mid[i].facts = ops[i].facts + 1
        /\ mid[i].owner = ops[i].owner /\ mid[i].attempt = ops[i].attempt
        /\ mid[i].projected = ops[i].projected
    <3>1. "running" \in States
      BY DEF States
    <3> HIDE DEF mid
    <3>2. mid = Becomes(i, "running")
      BY DEF mid
    <3> QED  BY <3>1, <3>2, BecomesMoves
  <2>2. ops' = [mid EXCEPT ![i].attempt = @ + 1]
    BY DEF Claim
  <2>3. mid[i].attempt + 1 \in 0..MaxAttempts
    BY <1>1, <2>1, Numbers
  <2> HIDE DEF mid
  <2> QED  BY <2>1, <2>2, <2>3 DEF Operation
<1>4. Moves(i)
  BY <1>1, <1>3, Numbers DEF Moves, Sensible
<1>5. /\ Shape' /\ SameOwners /\ \A j \in Operations : Sensible(j)'
      /\ \A j \in Operations \ {i} : Cost'[j] = Cost[j] /\ Cost[j] \in Nat
  BY <1>1, <1>4, OneMoves DEF IInv, Shape
<1>6. Cost'[i] <= Cost[i]
  BY <1>1, <1>3, Numbers DEF Cost, Future
<1> QED  BY <1>1, <1>5, <1>6, PaidBefore

LEMMA FinishFits ==
    ASSUME IInv, NEW i \in Operations, NEW s \in Outcomes, Finish(i, s)
    PROVE  IInv'
<1>1. /\ ops[i].state = "running" /\ i \in Stored /\ ops[i].attempt > 0
      /\ s = "pending" => ops[i].attempt < MaxAttempts
      /\ kept' = kept /\ flushing' = flushing /\ ops' = Becomes(i, s)
  BY DEF Finish, IInv, Sensible, Stored
<1>2. s \in States /\ s \in {"succeeded", "pending", "dead_letter", "unknown"}
  BY DEF Outcomes, States
<1>3. /\ ops' \in [Operations -> Operation]
      /\ \A j \in Operations \ {i} : ops'[j] = ops[j]
      /\ ops'[i].state = s /\ ops'[i].facts = ops[i].facts + 1
      /\ ops'[i].owner = ops[i].owner /\ ops'[i].attempt = ops[i].attempt
      /\ ops'[i].projected = ops[i].projected
  BY <1>1, <1>2, BecomesMoves
<1>4. Moves(i)
  BY <1>1, <1>2, <1>3, Numbers DEF Moves, Sensible
<1>5. /\ Shape' /\ SameOwners /\ \A j \in Operations : Sensible(j)'
      /\ \A j \in Operations \ {i} : Cost'[j] = Cost[j] /\ Cost[j] \in Nat
  BY <1>1, <1>4, OneMoves DEF IInv, Shape
<1>6. Cost'[i] <= Cost[i]
  BY <1>1, <1>2, <1>3, Numbers DEF Cost, Future
<1> QED  BY <1>1, <1>5, <1>6, PaidBefore

LEMMA ResolveFits ==
    ASSUME IInv, NEW i \in Operations, NEW s \in {"resolved", "dead_letter"}, Resolve(i, s)
    PROVE  IInv'
<1>1. /\ \/ s = "resolved" /\ ops[i].state \in {"unknown", "dead_letter"}
         \/ s = "dead_letter" /\ ops[i].state = "unknown"
      /\ kept' = [kept EXCEPT ![ops[i].owner] = @ + 1] /\ flushing' = flushing
      /\ ops' = Becomes(i, s) /\ i \in Stored
  BY DEF Resolve, Stored
<1>2. s \in States
  BY DEF States
<1>3. /\ ops' \in [Operations -> Operation]
      /\ \A j \in Operations \ {i} : ops'[j] = ops[j]
      /\ ops'[i].state = s /\ ops'[i].facts = ops[i].facts + 1
      /\ ops'[i].owner = ops[i].owner /\ ops'[i].attempt = ops[i].attempt
      /\ ops'[i].projected = ops[i].projected
  BY <1>1, <1>2, BecomesMoves
<1>4. Moves(i)
  BY <1>1, <1>3, Numbers DEF Moves, Sensible
<1>5. kept' \in [Owners \cup {NoOwner} -> Nat] /\ flushing' \in BOOLEAN
  BY <1>1 DEF IInv, Shape, Operation
<1>6. /\ Shape' /\ SameOwners /\ \A j \in Operations : Sensible(j)'
      /\ \A j \in Operations \ {i} : Cost'[j] = Cost[j] /\ Cost[j] \in Nat
  BY <1>1, <1>4, <1>5, OneMoves
<1>7. Cost'[i] + 1 <= Cost[i]
  BY <1>1, <1>3, Numbers DEF Cost, Future
<1> QED  BY <1>1, <1>6, <1>7, PaidByOne

LEMMA ProjectFits ==
    ASSUME IInv, NEW i \in Operations, Project(i)
    PROVE  IInv'
<1>1. /\ i \in Stored /\ ops[i].state # "none"
      /\ kept' = kept /\ flushing' = flushing
  BY DEF Project, Stored
<1>2. ops[i].projected < ops[i].facts
  BY Numbers DEF Project, Undelivered
<1>3. /\ ops' \in [Operations -> Operation]
      /\ \A j \in Operations \ {i} : ops'[j] = ops[j]
      /\ ops'[i].state = ops[i].state /\ ops'[i].facts = ops[i].facts
      /\ ops'[i].owner = ops[i].owner /\ ops'[i].attempt = ops[i].attempt
      /\ ops'[i].projected = ops[i].projected + 1
  BY DEF Project, Operation, IInv, Shape
<1>4. Moves(i)
  <2>1. Sensible(i)
    BY DEF IInv
  <2> QED  BY <1>1, <1>2, <1>3, <2>1, Numbers DEF Moves, Sensible
<1>5. /\ Shape' /\ SameOwners /\ \A j \in Operations : Sensible(j)'
      /\ \A j \in Operations \ {i} : Cost'[j] = Cost[j] /\ Cost[j] \in Nat
  BY <1>1, <1>4, OneMoves DEF IInv, Shape
<1>6. Cost'[i] = Cost[i] /\ Cost[i] \in Nat
  <2>1. Cost'[i] = Cost[i]
    BY <1>3 DEF Cost, Future
  <2>2. Cost[i] \in Nat
    BY Counted DEF Countable, IInv
  <2> QED  BY <2>1, <2>2
<1> QED  BY <1>1, <1>5, <1>6, PaidBefore

(* A restart turns what was running into what is not known.                *)
LEMMA RestartFits ==
    ASSUME IInv, Restart
    PROVE  IInv'
<1>1. kept' = kept /\ flushing' = TRUE
  BY DEF Restart
<1>2. ASSUME NEW i \in Operations
      PROVE  /\ ops'[i] \in Operation /\ Sensible(i)' /\ ops'[i].owner = ops[i].owner
             /\ ops'[i].state = "none" <=> ops[i].state = "none"
             /\ Cost'[i] <= Cost[i]
  <2>1. ops[i] \in Operation /\ Sensible(i) /\ Cost[i] \in Nat
    BY Counted DEF IInv, Shape, Countable
  <2>2. CASE ops[i].state = "running"
    <3>1. ops'[i] = [ops[i] EXCEPT !.state = "unknown", !.facts = @ + 1]
      BY <2>2 DEF Restart
    <3>2. /\ ops'[i].state = "unknown" /\ ops'[i].facts = ops[i].facts + 1
          /\ ops'[i].owner = ops[i].owner /\ ops'[i].attempt = ops[i].attempt
          /\ ops'[i].projected = ops[i].projected
      BY <2>1, <3>1 DEF Operation
    <3>3. ops'[i] \in Operation
      <4>1. ops[i] \in Operation /\ ops[i].facts + 1 \in Nat /\ "unknown" \in States
        BY <2>1, Numbers DEF States
      <4> QED  BY <3>1, <4>1 DEF Operation
    <3>4. Sensible(i)'
      BY <2>1, <3>2, Numbers DEF Sensible
    <3>5. Cost'[i] <= Cost[i]
      BY <2>1, <2>2, <3>2, Numbers DEF Cost, Future, Sensible
    <3> QED  BY <2>2, <3>2, <3>3, <3>4, <3>5
  <2>3. CASE ops[i].state # "running"
    <3>1. ops'[i] = ops[i]
      BY <2>3 DEF Restart
    <3>2. Sensible(i)' /\ Cost'[i] = Cost[i]
      BY <2>1, <3>1 DEF Sensible, Cost, Future
    <3> QED  BY <2>1, <3>1, <3>2
  <2> QED  BY <2>2, <2>3
<1>3. Shape'
  <2>1. ops' = [i \in Operations |-> ops'[i]]
    BY DEF Restart
  <2> QED  BY <1>1, <1>2, <2>1 DEF IInv, Shape
<1>4. SameOwners
  BY <1>2 DEF SameOwners
<1> QED  BY <1>1, <1>2, <1>3, <1>4, PaidBefore

-----------------------------------------------------------------------------
(* The theorems                                                            *)

LEMMA InitFits == Init => IInv
<1> SUFFICES ASSUME Init PROVE IInv
  OBVIOUS
<1> DEFINE all == Owners \cup {NoOwner}
<1>1. Absent \in Operation /\ Absent.state = "none" /\ Absent.projected = 0 /\ Absent.facts = 0
  BY LimitsAssumption DEF Absent, Operation, States
<1>2. Shape /\ \A i \in Operations : Sensible(i)
  BY <1>1 DEF Init, Shape, Sensible
<1>3. Stored = {} /\ \A o : Of(o) = {}
  BY <1>1 DEF Init, Stored, Of
<1>4. Total({}, Cost) = 0
  <2>1. Pieces({}, Cost) = {}
    BY PieceOf
  <2> QED  BY <2>1, FS_EmptySet DEF Total, Pieces
<1>5. Total(all, kept) = 0
  <2>1. Pieces(all, kept) = {}
    <3>1. \A o \in all : kept[o] = 0
      BY DEF Init
    <3> HIDE DEF all
    <3> QED  BY <3>1, PieceOf
  <2> QED  BY <2>1, FS_EmptySet DEF Total, Pieces
<1>6. FitsInAll
  BY <1>3, <1>4, <1>5, LimitsAssumption DEF FitsInAll
<1>7. \A o \in Owners : FitsOwner(o)
  BY <1>3, <1>4, LimitsAssumption DEF FitsOwner, Init
<1> QED  BY <1>2, <1>6, <1>7 DEF IInv

LEMMA NextFits == IInv /\ [Next]_vars => IInv'
<1> SUFFICES ASSUME IInv, [Next]_vars PROVE IInv'
  OBVIOUS
<1>1. ASSUME NEW o \in Owners \cup {NoOwner}, Record(o) PROVE IInv'
  BY <1>1, RecordFits
<1>2. ASSUME NEW i \in Operations, NEW o \in Owners, Enqueue(i, o) PROVE IInv'
  BY <1>2, EnqueueFits
<1>3. ASSUME NEW i \in Operations, Progress(i) PROVE IInv'
  <2>1. CASE Claim(i)
    BY <2>1, ClaimFits
  <2>2. CASE Project(i)
    BY <2>2, ProjectFits
  <2>3. ASSUME NEW s \in Outcomes, Finish(i, s) PROVE IInv'
    BY <2>3, FinishFits
  <2>4. ASSUME NEW s \in {"resolved", "dead_letter"}, Resolve(i, s) PROVE IInv'
    BY <2>4, ResolveFits
  <2> QED  BY <1>3, <2>1, <2>2, <2>3, <2>4 DEF Progress
<1>4. ASSUME NEW o \in Owners, NEW events \in 1..kept[o], PurgeCamera(o, events) PROVE IInv'
  BY <1>4, PurgeFits
<1>5. CASE FlushFails \/ UNCHANGED vars
  <2>1. kept' = kept /\ ops' = ops /\ flushing' \in BOOLEAN
    BY <1>5 DEF FlushFails, vars, IInv, Shape
  <2>2. Shape' /\ SameOwners /\ \A i \in Operations : Sensible(i)'
    BY <2>1 DEF IInv, Shape, SameOwners, Sensible
  <2>3. \A i \in Operations : Cost'[i] = Cost[i] /\ Cost[i] \in Nat
    <3>1. Cost' = Cost
      BY <2>1 DEF Cost, Future
    <3> QED  BY <3>1, Counted DEF IInv, Countable
  <2> QED  BY <2>1, <2>2, <2>3, PaidBefore
<1>6. CASE Restart
  BY <1>6, RestartFits
<1> QED  BY <1>1, <1>2, <1>3, <1>4, <1>5, <1>6 DEF Next

LEMMA AlwaysFits == Spec => []IInv
BY InitFits, NextFits, PTL DEF Spec

LEMMA EnoughForAll == IInv => TypeOK /\ HistoryFits /\ OwnersFit
<1> SUFFICES ASSUME IInv PROVE TypeOK /\ HistoryFits /\ OwnersFit
  OBVIOUS
<1> DEFINE all == Owners \cup {NoOwner}
<1>1. Shape /\ \A i \in Operations : Sensible(i)
  BY DEF IInv
<1>2. Total(all, kept) \in Nat /\ Countable(all, kept)
  BY <1>1, Counted, TotalIsNat
<1>3. /\ Total(Stored, Rows) <= Total(Stored, Cost)
      /\ Total(Stored, Cost) \in Nat /\ Total(Stored, Rows) \in Nat
  <2>1. Stored \in SUBSET Stored
    OBVIOUS
  <2> QED  BY <1>1, <2>1, PutAsideIsEnough
<1>4. Total(all, kept) + Total(Stored, Cost) <= Limit
  BY DEF IInv, FitsInAll
<1>5. HistoryFits
  BY <1>2, <1>3, <1>4, LimitsAssumption DEF HistoryFits, AllRows
<1>6. ASSUME NEW o \in Owners PROVE OwnRows(o) <= OwnerLimit
  <2>1. Of(o) \in SUBSET Stored
    BY <1>1, Counted
  <2>2. /\ Total(Of(o), Rows) <= Total(Of(o), Cost)
        /\ Total(Of(o), Cost) \in Nat /\ Total(Of(o), Rows) \in Nat
    BY <1>1, <2>1, PutAsideIsEnough
  <2>3. kept[o] + Total(Of(o), Cost) <= OwnerLimit /\ kept[o] \in Nat
    BY DEF IInv, FitsOwner, Shape
  <2> QED  BY <2>2, <2>3, LimitsAssumption DEF OwnRows
<1>7. ASSUME NEW o \in all PROVE kept[o] \in 0..Limit
  <2>1. kept[o] \in Nat
    BY <1>1 DEF Shape
  <2>2. Total(all, kept) = Total(all \ {o}, kept) + kept[o] /\ Total(all \ {o}, kept) \in Nat
    <3> HIDE DEF all
    <3>1. Countable(all \ {o}, kept)
      BY <1>2, FS_Difference DEF Countable
    <3> QED  BY <1>2, <3>1, TotalSplits, TotalIsNat
  <2> QED  BY <1>2, <1>3, <1>4, <2>1, <2>2, LimitsAssumption
<1>8. TypeOK
  BY <1>1, <1>7 DEF TypeOK, Shape, Sensible
<1> QED  BY <1>5, <1>6, <1>8 DEF OwnersFit

(* The state has its types; no fact is projected twice (the audit loop     *)
(* inserts and acknowledges in one transaction), and no owner keeps more   *)
(* rows than the whole history may have.                                   *)
THEOREM TypeCorrect == Spec => []TypeOK
BY AlwaysFits, EnoughForAll, PTL

(* The history never has more rows than its limit, for any number of       *)
(* operations: what reserve_with puts aside for an outstanding operation   *)
(* pays for the rest of its attempts, its recovery and its resolution,     *)
(* whenever 4 * MaxAttempts + 6 rows are put aside for each.               *)
THEOREM HistoryStaysWithin == Spec => []HistoryFits
BY AlwaysFits, EnoughForAll, PTL

(* No camera has more rows than its own limit, also when operations of     *)
(* other cameras fill the history and when cameras are purged.             *)
THEOREM OwnersStayWithin == Spec => []OwnersFit
BY AlwaysFits, EnoughForAll, PTL

=============================================================================
