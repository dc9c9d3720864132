------------------------------ MODULE LeastNumber ------------------------------
(***************************************************************************)
(* A nonempty set of natural numbers has a least element: the form in      *)
(* which the proofs about recursive functions use induction.               *)
(***************************************************************************)
EXTENDS FiniteSetTheorems, TLAPS

\* Were there no least element, the lower bounds of S, a finite set, would be closed under
\* adding one.
LEMMA LeastNumber == ASSUME NEW S \in SUBSET Nat, S # {}
                     PROVE  \E x \in S : \A y \in S : x <= y
<1>1. SUFFICES ASSUME \A x \in S : \E y \in S : y < x PROVE FALSE
  <2>1. PICK x \in S : \A y \in S : ~ (y < x)
    BY <1>1
  <2> QED
    BY <2>1
<1>2. PICK x \in S : TRUE
  OBVIOUS
<1> DEFINE L == {n \in 0..x : \A y \in S : n < y}
           f == [n \in L |-> n + 1]
<1>3. IsFiniteSet(L)
  <2>1. IsFiniteSet(0..x)
    BY FS_Interval
  <2>2. L \in SUBSET (0..x)
    OBVIOUS
  <2> QED
    BY <2>1, <2>2, FS_Subset
<1>4. 0 \in L
  BY <1>1, <1>2
<1>5. \A n \in L : n + 1 \in L \ {0}
  <2> SUFFICES ASSUME NEW n \in L PROVE n + 1 \in L \ {0}
    OBVIOUS
  <2>1. \A y \in S : n + 1 <= y
    OBVIOUS
  <2>2. n + 1 \notin S
    BY <1>1, <2>1
  <2> QED
    BY <1>2, <2>1, <2>2
<1>6. f \in Injection(L, L \ {0})
  <2>1. f \in [L -> L \ {0}]
    BY <1>5
  <2>2. \A i, j \in L : f[i] = f[j] => i = j
    OBVIOUS
  <2> QED
    BY <2>1, <2>2 DEF Injection, IsInjective
<1>7. IsFiniteSet(L \ {0}) /\ Cardinality(L \ {0}) = Cardinality(L) - 1
  BY <1>3, <1>4, FS_RemoveElement
<1>8. Cardinality(L) <= Cardinality(L \ {0})
  BY <1>6, <1>7, FS_Injection
<1>9. Cardinality(L) \in Nat
  BY <1>3, FS_CardinalityType
<1> QED
  BY <1>7, <1>8, <1>9
==============================================================================
