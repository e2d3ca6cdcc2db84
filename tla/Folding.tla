------------------------------- MODULE Folding -------------------------------
(***************************************************************************)
(* What two folds over a finite set (FiniteSetsExt!FoldSet) establish, for *)
(* any two operators and any relation between what they come to.  The      *)
(* prover does not instantiate a theorem with an operator for a parameter, *)
(* but it does instantiate a module: whoever has a fold to reason about    *)
(* takes this module with its own operators for the constants.             *)
(*                                                                         *)
(* Both folds take the elements out in the same order, so that they can be *)
(* followed together, step by step, whatever that order is.                *)
(***************************************************************************)
EXTENDS Integers, FiniteSetsExt, FiniteSetTheorems, WellFoundedInduction, TLAPS

CONSTANTS
    One(_, _, _), Two(_, _, _),   \* for what is given, what an element does to
                                  \* what was folded so far
    Good(_, _, _, _)              \* of what is given, a set, what One made of it
                                  \* and what Two did

FoldOne(p, base, S) == FoldSet(LAMBDA x, t : One(p, x, t), base, S)
FoldTwo(p, base, S) == FoldSet(LAMBDA x, t : Two(p, x, t), base, S)

\* The element that is taken out of a set first.
Taken(s) == CHOOSE x \in s : TRUE

\* One step of the definition of a fold, of both folds at once and of each.
Both(p, g, base, base2, s) ==
    IF s = {} THEN [one |-> base, two |-> base2]
    ELSE [one |-> One(p, Taken(s), g[s \ {Taken(s)}].one),
          two |-> Two(p, Taken(s), g[s \ {Taken(s)}].two)]

StepOne(p, g, base, s) ==
    IF s = {} THEN base ELSE One(p, Taken(s), g[s \ {Taken(s)}])

StepTwo(p, g, base, s) ==
    IF s = {} THEN base ELSE Two(p, Taken(s), g[s \ {Taken(s)}])

\* g solves it on the sets in T.
SolveBoth(p, g, base, base2, T) == g = [s \in T |-> Both(p, g, base, base2, s)]
SolveOne(p, g, base, T) == g = [s \in T |-> StepOne(p, g, base, s)]
SolveTwo(p, g, base, T) == g = [s \in T |-> StepTwo(p, g, base, s)]

\* The subsets of S of at most n elements.
UpTo(S, n) == {s \in SUBSET S : Cardinality(s) <= n}

-----------------------------------------------------------------------------
\* A set of naturals has a least one.
LEMMA Least ==
    ASSUME NEW B \in SUBSET Nat, B # {}
    PROVE  \E m \in B : \A k \in B : m <= k
<1>1. PICK m \in B : \A k \in B : <<k, m>> \notin OpToRel(<, Nat)
  BY NatLessThanWellFounded, WFMin
<1>2. \A k \in B : ~(k < m)
  BY <1>1 DEF OpToRel
<1> QED
  BY <1>2

\* A finite set without the element taken out is smaller by one.
LEMMA TakenOut ==
    ASSUME NEW S, IsFiniteSet(S), NEW s \in SUBSET S, s # {}
    PROVE  /\ Taken(s) \in s /\ s \ {Taken(s)} \in SUBSET S
           /\ Cardinality(s) \in Nat /\ Cardinality(s \ {Taken(s)}) \in Nat
           /\ Cardinality(s \ {Taken(s)}) = Cardinality(s) - 1
<1>1. Taken(s) \in s
  BY DEF Taken
<1>2. IsFiniteSet(s) /\ IsFiniteSet(s \ {Taken(s)})
  BY FS_Subset
<1> QED
  BY <1>1, <1>2, FS_RemoveElement, FS_CardinalityType

\* The definition of a fold has a solution on the subsets of any size: the
\* values of one size give those of the next.
LEMMA Layers ==
    ASSUME NEW p, NEW S, IsFiniteSet(S), NEW base, NEW base2, NEW n \in Nat
    PROVE  \E g : SolveBoth(p, g, base, base2, UpTo(S, n))
<1> DEFINE Solved(m) == \E g : SolveBoth(p, g, base, base2, UpTo(S, m))
           Unsolved == {m \in Nat : ~Solved(m)}
<1> SUFFICES ASSUME Unsolved # {} PROVE FALSE
  OBVIOUS
<1>1. PICK m \in Unsolved : \A k \in Unsolved : m <= k
  <2>1. Unsolved \in SUBSET Nat /\ Unsolved # {}
    OBVIOUS
  <2> HIDE DEF Unsolved
  <2> QED
    BY <2>1, Least
<1>2. \A s \in SUBSET S : IsFiniteSet(s) /\ Cardinality(s) \in Nat
  BY FS_Subset, FS_CardinalityType
<1>3. CASE m = 0
  <2>1. \A s \in UpTo(S, 0) : s = {}
    BY <1>2, FS_EmptySet DEF UpTo
  <2> DEFINE g == [s \in UpTo(S, 0) |-> [one |-> base, two |-> base2]]
  <2>2. SolveBoth(p, g, base, base2, UpTo(S, 0))
    BY <2>1 DEF Both, SolveBoth
  <2> QED
    BY <2>2, <1>3
<1>4. CASE m # 0
  <2>1. m - 1 \in Nat /\ m - 1 \notin Unsolved
    BY <1>1, <1>4
  <2>2. PICK g : SolveBoth(p, g, base, base2, UpTo(S, m - 1))
    BY <2>1
  <2> DEFINE h == [s \in UpTo(S, m) |-> Both(p, g, base, base2, s)]
  <2>3. \A s \in UpTo(S, m) : s # {} => s \ {Taken(s)} \in UpTo(S, m - 1)
    BY <1>2, TakenOut DEF UpTo
  <2>4. \A s \in UpTo(S, m - 1) : s \in UpTo(S, m)
    BY <1>2 DEF UpTo
  <2>5. \A s \in UpTo(S, m - 1) : g[s] = Both(p, g, base, base2, s)
    BY <2>2 DEF SolveBoth
  <2>6. \A s \in UpTo(S, m - 1) : h[s] = g[s]
    BY <2>4, <2>5
  <2>7. \A s \in UpTo(S, m) : Both(p, h, base, base2, s) = Both(p, g, base, base2, s)
    <3> HIDE DEF h
    <3> QED
      BY <2>3, <2>6 DEF Both
  <2>8. SolveBoth(p, h, base, base2, UpTo(S, m))
    BY <2>7 DEF SolveBoth
  <2>9. Solved(m)
    <3> HIDE DEF h
    <3> QED
      BY <2>8
  <2> QED
    BY <2>9
<1> QED
  BY <1>3, <1>4

\* So each fold is defined by the equation it is written with.
LEMMA FoldsDefined ==
    ASSUME NEW p, NEW S, IsFiniteSet(S), NEW base, NEW base2
    PROVE  /\ \E g : SolveOne(p, g, base, SUBSET S)
           /\ \E g : SolveTwo(p, g, base2, SUBSET S)
<1> DEFINE n == Cardinality(S)
<1>1. n \in Nat /\ UpTo(S, n) = SUBSET S
  BY FS_Subset, FS_CardinalityType DEF UpTo
<1> HIDE DEF n
<1>2. PICK g : SolveBoth(p, g, base, base2, UpTo(S, n))
  BY <1>1, Layers
<1>3. \A s \in SUBSET S : g[s] = Both(p, g, base, base2, s)
  BY <1>1, <1>2 DEF SolveBoth
<1>4. \A s \in SUBSET S : s # {} => s \ {Taken(s)} \in SUBSET S
  OBVIOUS
<1> DEFINE one == [s \in SUBSET S |-> g[s].one]
           two == [s \in SUBSET S |-> g[s].two]
<1>5. \A s \in SUBSET S : g[s].one = StepOne(p, one, base, s)
  <2> TAKE s \in SUBSET S
  <2>0. g[s] = Both(p, g, base, base2, s)
    BY <1>3
  <2>1. CASE s = {}
    <3>1. g[s] = [one |-> base, two |-> base2]
      BY <2>0, <2>1 DEF Both
    <3> QED
      BY <2>1, <3>1 DEF StepOne
  <2>2. CASE s # {}
    <3>0. g[s] = [one |-> One(p, Taken(s), g[s \ {Taken(s)}].one),
                  two |-> Two(p, Taken(s), g[s \ {Taken(s)}].two)]
      BY <2>0, <2>2 DEF Both
    <3>1. g[s].one = One(p, Taken(s), g[s \ {Taken(s)}].one)
      BY <3>0
    <3>2. one[s \ {Taken(s)}] = g[s \ {Taken(s)}].one
      BY <1>4, <2>2
    <3> HIDE DEF one
    <3> QED
      BY <2>2, <3>1, <3>2 DEF StepOne
  <2> QED
    BY <2>1, <2>2
<1>6. \A s \in SUBSET S : g[s].two = StepTwo(p, two, base2, s)
  <2> TAKE s \in SUBSET S
  <2>0. g[s] = Both(p, g, base, base2, s)
    BY <1>3
  <2>1. CASE s = {}
    <3>1. g[s] = [one |-> base, two |-> base2]
      BY <2>0, <2>1 DEF Both
    <3> QED
      BY <2>1, <3>1 DEF StepTwo
  <2>2. CASE s # {}
    <3>0. g[s] = [one |-> One(p, Taken(s), g[s \ {Taken(s)}].one),
                  two |-> Two(p, Taken(s), g[s \ {Taken(s)}].two)]
      BY <2>0, <2>2 DEF Both
    <3>1. g[s].two = Two(p, Taken(s), g[s \ {Taken(s)}].two)
      BY <3>0
    <3>2. two[s \ {Taken(s)}] = g[s \ {Taken(s)}].two
      BY <1>4, <2>2
    <3> HIDE DEF two
    <3> QED
      BY <2>2, <3>1, <3>2 DEF StepTwo
  <2> QED
    BY <2>1, <2>2
<1>7. SolveOne(p, one, base, SUBSET S)
  BY <1>5 DEF SolveOne
<1>8. SolveTwo(p, two, base2, SUBSET S)
  BY <1>6 DEF SolveTwo
<1> HIDE DEF one, two
<1> QED
  BY <1>7, <1>8

-----------------------------------------------------------------------------
\* Two folds of a finite set are good for it when what they start from is good
\* for no element, and an element more keeps what was good without it.
THEOREM FoldTogether ==
    \A p, S, base, base2 :
        /\ IsFiniteSet(S)
        /\ Good(p, {}, base, base2)
        /\ \A s \in SUBSET S : \A x \in s : \A t, u :
              Good(p, s \ {x}, t, u) => Good(p, s, One(p, x, t), Two(p, x, u))
        => Good(p, S, FoldOne(p, base, S), FoldTwo(p, base2, S))
<1> SUFFICES
      ASSUME NEW p, NEW S, NEW base, NEW base2, IsFiniteSet(S), Good(p, {}, base, base2),
             \A s \in SUBSET S : \A x \in s : \A t, u :
                Good(p, s \ {x}, t, u) => Good(p, s, One(p, x, t), Two(p, x, u))
      PROVE  Good(p, S, FoldOne(p, base, S), FoldTwo(p, base2, S))
  OBVIOUS
<1> DEFINE one[s \in SUBSET S] == StepOne(p, one, base, s)
           two[s \in SUBSET S] == StepTwo(p, two, base2, s)
<1>1. FoldOne(p, base, S) = one[S] /\ FoldTwo(p, base2, S) = two[S]
  BY DEF FoldOne, FoldTwo, FoldSet, MapThenFoldSet, StepOne, StepTwo, Taken
<1>2. SolveOne(p, one, base, SUBSET S)
  <2>1. \E g : SolveOne(p, g, base, SUBSET S)
    BY FoldsDefined
  <2> QED
    BY <2>1, Zenon DEF SolveOne
<1>3. SolveTwo(p, two, base2, SUBSET S)
  <2>1. \E g : SolveTwo(p, g, base2, SUBSET S)
    BY FoldsDefined
  <2> QED
    BY <2>1, Zenon DEF SolveTwo
<1> HIDE DEF one, two
<1> DEFINE Bad == {m \in Nat : \E s \in SUBSET S :
                      Cardinality(s) = m /\ ~Good(p, s, one[s], two[s])}
<1>4. SUFFICES ASSUME Bad # {} PROVE FALSE
  <2>1. Cardinality(S) \notin Bad => Good(p, S, one[S], two[S])
    BY FS_CardinalityType
  <2> QED
    BY <1>1, <2>1
<1>5. PICK m \in Bad : \A k \in Bad : m <= k
  <2>1. Bad \in SUBSET Nat /\ Bad # {}
    BY <1>4
  <2> HIDE DEF Bad
  <2> QED
    BY <2>1, Least
<1>6. PICK s \in SUBSET S : Cardinality(s) = m /\ ~Good(p, s, one[s], two[s])
  BY <1>5
<1>7. one[s] = StepOne(p, one, base, s) /\ two[s] = StepTwo(p, two, base2, s)
  BY <1>2, <1>3 DEF SolveOne, SolveTwo
<1>8. s # {}
  BY <1>6, <1>7 DEF StepOne, StepTwo
<1> DEFINE r == s \ {Taken(s)}
<1>9. Taken(s) \in s /\ r \in SUBSET S /\ Cardinality(r) = m - 1 /\ m - 1 \in Nat
  <2>1. /\ Taken(s) \in s /\ r \in SUBSET S
        /\ Cardinality(r) \in Nat /\ Cardinality(r) = Cardinality(s) - 1
    BY <1>8, TakenOut
  <2> QED
    BY <2>1, <1>6
<1>10. Good(p, r, one[r], two[r])
  <2>1. m - 1 \notin Bad
    BY <1>5, <1>9
  <2> QED
    BY <2>1, <1>9
<1> QED
  BY <1>6, <1>7, <1>8, <1>9, <1>10 DEF StepOne, StepTwo

=============================================================================
