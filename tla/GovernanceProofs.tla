-------------------------- MODULE GovernanceProofs --------------------------
(***************************************************************************)
(* Proofs about governance: the weighted-voting engine, for any round, any *)
(* roster and proposals, any number of ballots and recusals, in any order  *)
(* and with any times; the revision rules after a vote; the tools that     *)
(* answer what the records say; and the guards of what a reply says of     *)
(* them.                                                                   *)
(***************************************************************************)
EXTENDS Governance, Feedback, Answers, ReplyGuards, FiniteSetTheorems, TLAPS

(***************************************************************************)
(* Folds and sums.  FoldLeft and SumFunctionOnSet are defined by the one   *)
(* function that satisfies a recursive equation; that there is one, and    *)
(* what it computes, is shown by induction over natural numbers and over   *)
(* the subsets of a finite set.                                            *)
(***************************************************************************)

\* A set of natural numbers has a least one: the library states that < is well
\* founded, with sets in the place of operators.
LEMMA LeastOf ==
  ASSUME NEW T \in SUBSET Nat, T # {}
  PROVE  \E x \in T : \A y \in T : x <= y
<1> DEFINE R == OpToRel(<, Nat)
<1>1. PICK x \in T : \A y \in T : ~ (<<y, x>> \in R)
  <2> HIDE DEF R
  <2>1. IsWellFoundedOn(R, Nat)
    BY NatLessThanWellFounded DEF R
  <2> QED BY <2>1, WFMin
<1>2. \A y \in T : ~ (y < x)
  BY <1>1 DEF OpToRel
<1> QED BY <1>2

\* Induction over the natural numbers, for a set of them.
LEMMA CountUp ==
  ASSUME NEW T, 0 \in T, \A n \in Nat : n \in T => n + 1 \in T
  PROVE  Nat \subseteq T
<1> SUFFICES ASSUME Nat \ T # {} PROVE FALSE
  OBVIOUS
<1>1. PICK x \in Nat \ T : \A y \in Nat \ T : x <= y
  BY LeastOf
<1>2. x - 1 \in Nat /\ ~ (x <= x - 1) /\ x = (x - 1) + 1
  BY <1>1
<1>3. x - 1 \in T
  BY <1>1, <1>2
<1> QED BY <1>1, <1>2, <1>3

\* A fold over the subsets of a finite set takes its elements in the order of pick, each
\* with a step of g.
Picks(pick, S) == \A U \in SUBSET S : U # {} => pick[U] \in U
Steps(g, S, V) == g \in [S -> [V -> V]]
IsFoldOf(h, S, V, base, pick, g) ==
  /\ h \in [SUBSET S -> V]
  /\ \A U \in SUBSET S : h[U] = IF U = {} THEN base ELSE g[pick[U]][h[U \ {pick[U]}]]

\* There is such a fold: it is built up by the size of the subsets.
LEMMA FoldDefined ==
  ASSUME NEW S, IsFiniteSet(S), NEW V, NEW base \in V, NEW pick, Picks(pick, S), NEW g, Steps(g, S, V)
  PROVE  \E h : IsFoldOf(h, S, V, base, pick, g)
<1> USE DEF Picks, Steps
<1> DEFINE D(n) == {U \in SUBSET S : Cardinality(U) <= n}
           Fits(h, n) == \A U \in D(n) : h[U] = IF U = {} THEN base ELSE g[pick[U]][h[U \ {pick[U]}]]
           T == {n \in Nat : \E h \in [D(n) -> V] : Fits(h, n)}
<1>1. \A U \in SUBSET S : IsFiniteSet(U) /\ Cardinality(U) \in Nat /\ Cardinality(U) <= Cardinality(S)
  BY FS_Subset, FS_CardinalityType
<1>2. \A U \in SUBSET S : U # {} => Cardinality(U \ {pick[U]}) = Cardinality(U) - 1 /\ Cardinality(U) # 0
  BY <1>1, FS_RemoveElement, FS_EmptySet
<1>3. 0 \in T
  <2>1. \A U \in D(0) : U = {}
    BY <1>1, FS_EmptySet
  <2>2. [U \in D(0) |-> base] \in [D(0) -> V] /\ Fits([U \in D(0) |-> base], 0)
    BY <2>1
  <2> HIDE DEF D, Fits
  <2> QED BY <2>2
<1>4. ASSUME NEW n \in Nat, n \in T PROVE n + 1 \in T
  <2>1. PICK h \in [D(n) -> V] : Fits(h, n)
    BY <1>4
  <2> DEFINE k == [U \in D(n + 1) |-> IF U \in D(n) THEN h[U] ELSE g[pick[U]][h[U \ {pick[U]}]]]
  <2>2. ASSUME NEW U \in D(n + 1), U # {}
        PROVE  pick[U] \in S /\ U \ {pick[U]} \in D(n) /\ U \ {pick[U]} \in D(n + 1)
    BY <1>1, <1>2, <2>2
  <2>3. {} \in D(n)
    BY FS_EmptySet
  <2>4. \A U \in D(n) : U \in D(n + 1)
    BY <1>1
  <2> HIDE DEF D
  <2>5. k \in [D(n + 1) -> V]
    <3>1. ASSUME NEW U \in D(n + 1), U \notin D(n) PROVE g[pick[U]][h[U \ {pick[U]}]] \in V
      <4>1. pick[U] \in S /\ h[U \ {pick[U]}] \in V
        BY <2>2, <2>3, <3>1
      <4> QED BY <4>1
    <3> QED BY <3>1
  <2>6. ASSUME NEW U \in D(n + 1) PROVE k[U] = IF U = {} THEN base ELSE g[pick[U]][k[U \ {pick[U]}]]
    <3>1. CASE U = {}
      BY <3>1, <2>1, <2>3
    <3>2. CASE U # {}
      <4>1. k[U \ {pick[U]}] = h[U \ {pick[U]}]
        BY <2>2, <3>2
      <4>2. k[U] = g[pick[U]][h[U \ {pick[U]}]]
        BY <2>1, <3>2
      <4> QED BY <3>2, <4>1, <4>2
    <3> QED BY <3>1, <3>2
  <2>7. Fits(k, n + 1)
    BY <2>6
  <2> HIDE DEF k, Fits
  <2> QED BY <2>5, <2>7
<1>5. Cardinality(S) \in T
  <2> HIDE DEF T
  <2> QED BY <1>1, <1>3, <1>4, CountUp
<1>6. D(Cardinality(S)) = SUBSET S
  BY <1>1
<1>7. \E h \in [SUBSET S -> V] :
           \A U \in SUBSET S : h[U] = IF U = {} THEN base ELSE g[pick[U]][h[U \ {pick[U]}]]
  BY <1>5, <1>6
<1> QED BY <1>7 DEF IsFoldOf

\* A set of natural numbers with a bound has a greatest one.
LEMMA GreatestOf ==
  ASSUME NEW n \in Nat, NEW U \in SUBSET (0..n), U # {}
  PROVE  Max(U) \in U /\ \A y \in U : y <= Max(U)
<1>1. PICK m \in {n - y : y \in U} : \A k \in {n - y : y \in U} : m <= k
  <2>1. \A y \in U : n - y \in Nat
    OBVIOUS
  <2>2. {n - y : y \in U} \in SUBSET Nat /\ {n - y : y \in U} # {}
    BY <2>1
  <2> QED BY <2>2, LeastOf
<1>2. PICK x \in U : m = n - x
  BY <1>1
<1>3. \A y \in U : x <= n /\ y <= n /\ n - x <= n - y /\ x \in Nat /\ y \in Nat
  BY <1>1, <1>2
<1>4. \A y \in U : y <= x
  BY <1>3
<1> QED BY <1>4 DEF Max

\* An interval and its parts are finite.
LEMMA IntervalSize ==
  ASSUME NEW n \in Nat
  PROVE  /\ IsFiniteSet(1..n) /\ Cardinality(1..n) = n
         /\ \A U \in SUBSET (1..n) : IsFiniteSet(U) /\ Cardinality(U) \in Nat /\ Cardinality(U) <= n
<1>1. IsFiniteSet(1..n) /\ Cardinality(1..n) = n
  BY FS_Interval
<1> QED BY <1>1, FS_Subset, FS_CardinalityType

\* The maximum of a set that has one.
LEMMA MaxIs ==
  ASSUME NEW S \in SUBSET Nat, NEW k \in S, \A j \in S : j <= k
  PROVE  Max(S) = k
<1>1. \A x \in S : (\A y \in S : x >= y) => x = k
  OBVIOUS
<1>2. \A y \in S : k >= y
  OBVIOUS
<1> QED
  BY <1>1, <1>2 DEF Max

\* Induction over the subsets of a finite set.
Inductive(T, S) == \A U \in SUBSET S : (\A x \in U : U \ {x} \in T) => U \in T

\* What holds of a set whenever it holds of the set without any one element, holds
\* of every subset of a finite set.
LEMMA BuildUp ==
  ASSUME NEW S, IsFiniteSet(S), NEW T, Inductive(T, S)
  PROVE  SUBSET S \subseteq T
<1> DEFINE N == {n \in Nat : \A U \in SUBSET S : Cardinality(U) = n => U \in T}
<1>1. \A U \in SUBSET S : IsFiniteSet(U) /\ Cardinality(U) \in Nat
  BY FS_Subset, FS_CardinalityType
<1>2. 0 \in N
  <2>1. \A U \in SUBSET S : Cardinality(U) = 0 => U = {}
    BY <1>1, FS_EmptySet
  <2> QED BY <2>1 DEF Inductive
<1>3. ASSUME NEW n \in Nat, n \in N PROVE n + 1 \in N
  <2> SUFFICES ASSUME NEW U \in SUBSET S, Cardinality(U) = n + 1 PROVE U \in T
    OBVIOUS
  <2>1. ASSUME NEW x \in U PROVE U \ {x} \in T
    <3>1. Cardinality(U \ {x}) = n
      BY <1>1, FS_RemoveElement
    <3> QED BY <1>3, <3>1
  <2> QED BY <2>1 DEF Inductive
<1>4. Nat \subseteq N
  <2> HIDE DEF N
  <2> QED BY <1>2, <1>3, CountUp
<1> QED BY <1>1, <1>4

\* The sum of a function over a finite set: one element is chosen and the rest summed.
Choice(U) == CHOOSE x \in U : TRUE
Summands(fun, S) == \A x \in S : fun[x] \in Nat
SumsTo(fun, h, U) == h[U] = IF U = {} THEN 0 ELSE fun[Choice(U)] + h[U \ {Choice(U)}]

\* The sum is what its recursive equation says.
LEMMA SumDefined ==
  ASSUME NEW S, IsFiniteSet(S), NEW fun, Summands(fun, S)
  PROVE  \E h \in [SUBSET S -> Nat] :
           SumFunctionOnSet(fun, S) = h[S] /\ \A U \in SUBSET S : SumsTo(fun, h, U)
<1> DEFINE pick == [U \in SUBSET S |-> Choice(U)]
           g == [x \in S |-> [v \in Nat |-> fun[x] + v]]
           IsFold(i) == i = [U \in SUBSET S |->
             IF U = {} THEN 0 ELSE fun[CHOOSE x \in U : TRUE] + i[U \ {CHOOSE x \in U : TRUE}]]
           iter == CHOOSE i : IsFold(i)
<1>1. ASSUME NEW U \in SUBSET S, U # {} PROVE pick[U] = Choice(U) /\ Choice(U) \in U
  BY <1>1 DEF Choice
<1>2. g \in [S -> [Nat -> Nat]]
  BY DEF Summands
<1>3. PICK h : IsFoldOf(h, S, Nat, 0, pick, g)
  <2>1. Picks(pick, S) /\ Steps(g, S, Nat)
    BY <1>1, <1>2 DEF Picks, Steps
  <2> HIDE DEF g, pick
  <2> QED BY <2>1, FoldDefined
<1>4. h \in [SUBSET S -> Nat]
  BY <1>3 DEF IsFoldOf
<1>5. \A U \in SUBSET S : SumsTo(fun, h, U)
  <2>1. ASSUME NEW U \in SUBSET S, U # {}
        PROVE  g[pick[U]][h[U \ {pick[U]}]] = fun[Choice(U)] + h[U \ {Choice(U)}]
    BY <1>1, <1>4, <2>1
  <2> HIDE DEF g, pick
  <2> QED BY <1>3, <2>1 DEF IsFoldOf, SumsTo
<1>6. IsFold(h)
  BY <1>4, <1>5 DEF SumsTo, Choice
<1>7. IsFold(iter)
  <2> HIDE DEF IsFold
  <2> QED BY <1>6
<1>8. SumFunctionOnSet(fun, S) = iter[S]
  BY DEF SumFunctionOnSet, FoldFunctionOnSet, MapThenFoldSet
<1>9. \A U \in SUBSET S : SumsTo(fun, iter, U)
  <2> HIDE DEF iter
  <2> QED BY <1>7 DEF SumsTo, Choice
<1> HIDE DEF iter
<1>10. \A U \in SUBSET S : iter[U] = h[U]
  <2> DEFINE T == {U \in SUBSET S : iter[U] = h[U]}
  <2>1. ASSUME NEW U \in SUBSET S, \A x \in U : U \ {x} \in T PROVE U \in T
    <3>1. CASE U = {}
      BY <1>5, <1>9, <3>1 DEF SumsTo
    <3>2. CASE U # {}
      BY <1>1, <1>5, <1>9, <2>1, <3>2 DEF SumsTo
    <3> QED BY <3>1, <3>2
  <2>2. SUBSET S \subseteq T
    <3> HIDE DEF T
    <3> QED BY <2>1, BuildUp DEF Inductive
  <2> QED BY <2>2
<1> QED BY <1>4, <1>5, <1>8, <1>10

\* A sum is a natural number, that of nothing is 0, and any element may come first.
LEMMA SumAnyOrder ==
  ASSUME NEW S, IsFiniteSet(S), NEW fun, Summands(fun, S)
  PROVE  /\ SumFunctionOnSet(fun, S) \in Nat
         /\ S = {} => SumFunctionOnSet(fun, S) = 0
         /\ \A x \in S : SumFunctionOnSet(fun, S) = fun[x] + SumFunctionOnSet(fun, S \ {x})
<1>1. PICK h \in [SUBSET S -> Nat] : SumFunctionOnSet(fun, S) = h[S] /\ \A U \in SUBSET S : SumsTo(fun, h, U)
  BY SumDefined
<1>2. ASSUME NEW U \in SUBSET S PROVE SumFunctionOnSet(fun, U) = h[U]
  <2>1. IsFiniteSet(U) /\ Summands(fun, U)
    BY FS_Subset DEF Summands
  <2>2. PICK k \in [SUBSET U -> Nat] :
          SumFunctionOnSet(fun, U) = k[U] /\ \A W \in SUBSET U : SumsTo(fun, k, W)
    BY <2>1, SumDefined
  <2> DEFINE T == {W \in SUBSET U : k[W] = h[W]}
  <2>3. ASSUME NEW W \in SUBSET U, \A x \in W : W \ {x} \in T PROVE W \in T
    <3>1. W # {} => Choice(W) \in W
      BY DEF Choice
    <3> QED BY <1>1, <2>2, <2>3, <3>1 DEF SumsTo
  <2>4. SUBSET U \subseteq T
    <3>1. Inductive(T, U)
      BY <2>3 DEF Inductive
    <3> HIDE DEF T
    <3> QED BY <2>1, <3>1, BuildUp
  <2> QED BY <2>2, <2>4
<1> DEFINE T == {U \in SUBSET S : \A x \in U : h[U] = fun[x] + h[U \ {x}]}
<1>3. ASSUME NEW U \in SUBSET S, \A x \in U : U \ {x} \in T PROVE U \in T
  <2> SUFFICES ASSUME NEW x \in U PROVE h[U] = fun[x] + h[U \ {x}]
    OBVIOUS
  <2>0. PICK p : p = Choice(U)
    OBVIOUS
  <2>1. p \in U /\ h[U] = fun[p] + h[U \ {p}]
    BY <1>1, <2>0 DEF SumsTo, Choice
  <2>2. CASE x = p
    BY <2>1, <2>2
  <2>3. CASE x # p
    <3>1. h[U \ {p}] = fun[x] + h[(U \ {p}) \ {x}]
      BY <1>3, <2>1, <2>3
    <3>2. h[U \ {x}] = fun[p] + h[(U \ {x}) \ {p}]
      BY <1>3, <2>1, <2>3
    <3>3. (U \ {p}) \ {x} = (U \ {x}) \ {p}
      OBVIOUS
    <3>4. fun[x] \in Nat /\ fun[p] \in Nat /\ h[(U \ {x}) \ {p}] \in Nat
      BY <2>1 DEF Summands
    <3>5. h[U] = fun[p] + (fun[x] + h[(U \ {x}) \ {p}])
      BY <2>1, <3>1, <3>3
    <3>6. \A a, b, c \in Nat : a + (b + c) = b + (a + c)
      OBVIOUS
    <3>7. h[U] = fun[x] + (fun[p] + h[(U \ {x}) \ {p}])
      BY <3>4, <3>5, <3>6
    <3> QED BY <3>2, <3>7
  <2> QED BY <2>2, <2>3
<1>4. SUBSET S \subseteq T
  <2>1. Inductive(T, S)
    BY <1>3 DEF Inductive
  <2> HIDE DEF T
  <2> QED BY <2>1, BuildUp
<1>5. S \in SUBSET S
  OBVIOUS
<1>6. S = {} => h[S] = 0
  BY <1>1, <1>5 DEF SumsTo
<1> QED BY <1>1, <1>2, <1>4, <1>5, <1>6

\* One more element.
LEMMA SumAdd ==
  ASSUME NEW S, IsFiniteSet(S), NEW fun, NEW x, Summands(fun, S \cup {x}), x \notin S
  PROVE  SumFunctionOnSet(fun, S \cup {x}) = SumFunctionOnSet(fun, S) + fun[x]
<1>1. IsFiniteSet(S \cup {x}) /\ (S \cup {x}) \ {x} = S /\ fun[x] \in Nat /\ Summands(fun, S)
  BY FS_AddElement DEF Summands
<1>2. SumFunctionOnSet(fun, S \cup {x}) = fun[x] + SumFunctionOnSet(fun, S)
  <2>1. SumFunctionOnSet(fun, S \cup {x}) = fun[x] + SumFunctionOnSet(fun, (S \cup {x}) \ {x})
    BY <1>1, SumAnyOrder
  <2> QED BY <1>1, <2>1
<1>3. SumFunctionOnSet(fun, S) \in Nat
  BY <1>1, SumAnyOrder
<1> QED BY <1>1, <1>2, <1>3

\* A part sums to no more than the whole.
LEMMA SumGrows ==
  ASSUME NEW S, IsFiniteSet(S), NEW fun, Summands(fun, S), NEW R \in SUBSET S
  PROVE  SumFunctionOnSet(fun, R) <= SumFunctionOnSet(fun, S)
<1> DEFINE T == {U \in SUBSET S : R \subseteq U => SumFunctionOnSet(fun, R) <= SumFunctionOnSet(fun, U)}
<1>1. \A U \in SUBSET S : IsFiniteSet(U) /\ Summands(fun, U) /\ SumFunctionOnSet(fun, U) \in Nat
  <2>1. \A U \in SUBSET S : IsFiniteSet(U) /\ Summands(fun, U)
    BY FS_Subset DEF Summands
  <2> QED BY <2>1, SumAnyOrder
<1>2. ASSUME NEW U \in SUBSET S, \A x \in U : U \ {x} \in T PROVE U \in T
  <2> SUFFICES ASSUME R \subseteq U PROVE SumFunctionOnSet(fun, R) <= SumFunctionOnSet(fun, U)
    OBVIOUS
  <2>1. CASE R = U
    BY <1>1, <2>1
  <2>2. CASE R # U
    <3>1. PICK x \in U : x \notin R
      BY <2>2
    <3>2. SumFunctionOnSet(fun, U) = fun[x] + SumFunctionOnSet(fun, U \ {x})
      BY <1>1, SumAnyOrder
    <3>3. SumFunctionOnSet(fun, R) <= SumFunctionOnSet(fun, U \ {x})
      BY <1>2, <3>1
    <3>4. {fun[x], SumFunctionOnSet(fun, R), SumFunctionOnSet(fun, U \ {x})} \subseteq Nat
      BY <1>1, <3>1 DEF Summands
    <3> QED BY <3>2, <3>3, <3>4
  <2> QED BY <2>1, <2>2
<1>3. SUBSET S \subseteq T
  <2> HIDE DEF T
  <2> QED BY <1>2, BuildUp DEF Inductive
<1> QED BY <1>3

\* Two sets without a common element.
LEMMA SumDisjoint ==
  ASSUME NEW S, IsFiniteSet(S), NEW fun, NEW R, IsFiniteSet(R), Summands(fun, S \cup R), S \cap R = {}
  PROVE  SumFunctionOnSet(fun, S \cup R) = SumFunctionOnSet(fun, S) + SumFunctionOnSet(fun, R)
<1> DEFINE T == {U \in SUBSET R : SumFunctionOnSet(fun, S \cup U) = SumFunctionOnSet(fun, S) + SumFunctionOnSet(fun, U)}
<1>1. ASSUME NEW U \in SUBSET R
      PROVE  /\ IsFiniteSet(U) /\ Summands(fun, U) /\ SumFunctionOnSet(fun, U) \in Nat
             /\ IsFiniteSet(S \cup U) /\ Summands(fun, S \cup U)
  <2>1. IsFiniteSet(U) /\ Summands(fun, U) /\ Summands(fun, S \cup U)
    BY FS_Subset DEF Summands
  <2> QED BY <2>1, FS_Union, SumAnyOrder
<1>2. Summands(fun, S) /\ SumFunctionOnSet(fun, S) \in Nat
  <2>1. Summands(fun, S)
    BY DEF Summands
  <2> QED BY <2>1, SumAnyOrder
<1>3. ASSUME NEW U \in SUBSET R, \A x \in U : U \ {x} \in T PROVE U \in T
  <2>1. CASE U = {}
    <3>1. S \cup U = S /\ SumFunctionOnSet(fun, U) = 0
      BY <1>1, <2>1, SumAnyOrder
    <3> QED BY <1>2, <3>1
  <2>2. CASE U # {}
    <3>1. PICK x \in U : TRUE
      BY <2>2
    <3>2. U \ {x} \in SUBSET R /\ x \in S \cup U /\ (S \cup U) \ {x} = S \cup (U \ {x})
      BY <3>1
    <3>3. SumFunctionOnSet(fun, U) = fun[x] + SumFunctionOnSet(fun, U \ {x})
      BY <1>1, <3>1, SumAnyOrder
    <3>4. SumFunctionOnSet(fun, S \cup U) = fun[x] + SumFunctionOnSet(fun, (S \cup U) \ {x})
      <4> DEFINE W == S \cup U
      <4>1. IsFiniteSet(W) /\ Summands(fun, W) /\ x \in W
        BY <1>1, <3>2
      <4> HIDE DEF W
      <4>2. SumFunctionOnSet(fun, W) = fun[x] + SumFunctionOnSet(fun, W \ {x})
        BY <4>1, SumAnyOrder
      <4> QED BY <4>2 DEF W
    <3>5. SumFunctionOnSet(fun, S \cup (U \ {x})) = SumFunctionOnSet(fun, S) + SumFunctionOnSet(fun, U \ {x})
      BY <1>3, <3>1
    <3>6. fun[x] \in Nat /\ SumFunctionOnSet(fun, U \ {x}) \in Nat
      BY <1>1, <3>1, <3>2 DEF Summands
    <3>7. \A a, b, c \in Nat : a + (b + c) = b + (a + c)
      OBVIOUS
    <3>8. SumFunctionOnSet(fun, S \cup U) = fun[x] + (SumFunctionOnSet(fun, S) + SumFunctionOnSet(fun, U \ {x}))
      BY <3>2, <3>4, <3>5
    <3>9. SumFunctionOnSet(fun, S \cup U) = SumFunctionOnSet(fun, S) + (fun[x] + SumFunctionOnSet(fun, U \ {x}))
      BY <1>2, <3>6, <3>7, <3>8
    <3> QED BY <3>3, <3>9
  <2> QED BY <2>1, <2>2
<1>4. SUBSET R \subseteq T
  <2>1. Inductive(T, R)
    BY <1>3 DEF Inductive
  <2> HIDE DEF T
  <2> QED BY <2>1, BuildUp
<1> QED BY <1>4

-----------------------------------------------------------------------------
(***************************************************************************)
(* The weighted-voting engine.                                             *)
(***************************************************************************)

Ballot ==
  [proposal : Proposals, member : Members, choice : Choices3, key : Keys \cup {None},
   replaces : Nat \cup {None}]

\* Two ballots of one member on one proposal.
Rivals(i, j) ==
  ballots[i].proposal = ballots[j].proposal /\ ballots[i].member = ballots[j].member

WellRecorded ==
  /\ ballots \in Seq(Ballot)
  /\ ballots # <<>> => round # None

\* A ballot replaces an earlier one of its member on its proposal,
Chained ==
  \A j \in DOMAIN ballots : ballots[j].replaces # None =>
    ballots[j].replaces \in DOMAIN ballots /\ ballots[j].replaces < j /\ Rivals(ballots[j].replaces, j)

\* and whatever is not the latest has been replaced.
Superseded ==
  \A i, k \in DOMAIN ballots : i < k /\ Rivals(i, k) =>
    \E j \in DOMAIN ballots : ballots[j].replaces = i

\* A member with a ballot has a latest one.
Latest ==
  \A i \in DOMAIN ballots : \E k \in DOMAIN ballots :
    /\ Rivals(i, k)
    /\ \A j \in DOMAIN ballots : Rivals(i, j) => j <= k

\* Every recorded ballot is of somebody who may still vote on the proposal.
StillEntitled ==
  \A i \in DOMAIN ballots :
    /\ IsVoterEligible(ballots[i].member)
    /\ ballots[i].member \notin Recused(ballots[i].proposal)

\* What was answered under a key is in the record under that key.
AnswersRecorded ==
  \A a \in acknowledged :
    /\ a.ask.key # None
    /\ a.sequence \in DOMAIN ballots
    /\ ballots[a.sequence].key = a.ask.key
    /\ SameBallot(ballots[a.sequence], a.ask)

KeysOnce ==
  \A i, j \in DOMAIN ballots : ballots[i].key = ballots[j].key /\ i # j => ballots[i].key = None

GovernanceInv ==
  WellRecorded /\ Chained /\ Superseded /\ Latest /\ StillEntitled /\ AnswersRecorded /\ KeysOnce

-----------------------------------------------------------------------------

\* The latest ballot of a member on a proposal is one of them, and the last.
LEMMA LatestBallot ==
  ASSUME GovernanceInv, NEW p, NEW m, BallotsOf(p, m) # {}
  PROVE  /\ Max(BallotsOf(p, m)) \in BallotsOf(p, m)
         /\ \A j \in BallotsOf(p, m) : j <= Max(BallotsOf(p, m))
<1>1. BallotsOf(p, m) \in SUBSET Nat
  BY DEF GovernanceInv, WellRecorded, BallotsOf
<1>2. PICK i \in BallotsOf(p, m) : TRUE
  OBVIOUS
<1>3. PICK k \in DOMAIN ballots : Rivals(i, k) /\ \A j \in DOMAIN ballots : Rivals(i, j) => j <= k
  BY <1>2 DEF GovernanceInv, Latest, BallotsOf
<1>4. k \in BallotsOf(p, m) /\ \A j \in BallotsOf(p, m) : j <= k
  BY <1>2, <1>3 DEF BallotsOf, Rivals
<1> QED
  BY <1>1, <1>4, MaxIs

-----------------------------------------------------------------------------

LEMMA InitGovernance == Init => GovernanceInv
<1> SUFFICES ASSUME Init PROVE GovernanceInv
  OBVIOUS
<1>1. ballots = <<>> /\ DOMAIN ballots = {} /\ acknowledged = {}
  BY DEF Init
<1>2. WellRecorded
  BY <1>1 DEF WellRecorded
<1>3. Chained /\ Superseded /\ Latest /\ StillEntitled /\ KeysOnce
  BY <1>1 DEF Chained, Superseded, Latest, StillEntitled, KeysOnce
<1>4. AnswersRecorded
  BY <1>1 DEF AnswersRecorded
<1> QED
  BY <1>2, <1>3, <1>4 DEF GovernanceInv

\* Of the record nothing changes when the ballots do not.
LEMMA SameBallots ==
  ASSUME GovernanceInv, UNCHANGED ballots, round # None => round' # None
  PROVE  WellRecorded' /\ Chained' /\ Superseded' /\ Latest' /\ KeysOnce'
<1>1. WellRecorded'
  BY DEF GovernanceInv, WellRecorded
<1>2. Chained' /\ Superseded' /\ Latest'
  BY DEF GovernanceInv, Chained, Superseded, Latest, Rivals
<1>3. KeysOnce'
  BY DEF GovernanceInv, KeysOnce
<1> QED
  BY <1>1, <1>2, <1>3

\* A round is created before anybody votes.
LEMMA CreateGovernance ==
  ASSUME GovernanceInv, NEW input \in Inputs, CreateRound(input)
  PROVE  GovernanceInv'
<1>1. ballots = <<>> /\ DOMAIN ballots = {} /\ UNCHANGED <<ballots, acknowledged>>
  BY DEF CreateRound, GovernanceInv, WellRecorded
<1>2. WellRecorded' /\ Chained' /\ Superseded' /\ Latest' /\ KeysOnce'
  BY <1>1, SameBallots DEF CreateRound
<1>3. StillEntitled'
  BY <1>1 DEF StillEntitled
<1>4. AnswersRecorded'
  BY <1>1 DEF GovernanceInv, AnswersRecorded, SameBallot
<1> QED
  BY <1>2, <1>3, <1>4 DEF GovernanceInv

\* A replay answers with the ballot that the key has in the record.
LEMMA ReplayGovernance ==
  ASSUME GovernanceInv, NEW ask \in Asks, ReplayBallot(ask)
  PROVE  GovernanceInv'
<1>1. UNCHANGED <<round, ballots, recusals>>
  BY DEF ReplayBallot
<1>2. WellRecorded' /\ Chained' /\ Superseded' /\ Latest' /\ KeysOnce'
  BY <1>1, SameBallots
<1>3. StillEntitled'
  BY <1>1 DEF GovernanceInv, StillEntitled, IsVoterEligible, Recused
<1>4. AnswersRecorded'
  <2>1. PICK i \in DOMAIN ballots :
          /\ ballots[i].key = ask.key
          /\ SameBallot(ballots[i], ask)
          /\ acknowledged' = acknowledged \cup {[ask |-> ask, sequence |-> i]}
    BY DEF ReplayBallot, UnderKey, Acknowledge
  <2> QED
    BY <1>1, <2>1 DEF ReplayBallot, GovernanceInv, AnswersRecorded, SameBallot
<1> QED
  BY <1>2, <1>3, <1>4 DEF GovernanceInv

\* A recusal is of somebody else than the members whose ballots are recorded.
LEMMA RecuseGovernance ==
  ASSUME GovernanceInv, NEW p \in Proposals, NEW m \in Members, NEW at \in Times, DeclareRecusal(p, m, at)
  PROVE  GovernanceInv'
<1>1. UNCHANGED <<round, ballots, acknowledged>>
  BY DEF DeclareRecusal
<1>2. WellRecorded' /\ Chained' /\ Superseded' /\ Latest' /\ KeysOnce'
  BY <1>1, SameBallots
<1>3. StillEntitled'
  <2> SUFFICES ASSUME NEW i \in DOMAIN ballots
               PROVE  /\ ballots[i].member \in DOMAIN round.weight
                      /\ ballots[i].member \notin Recused(ballots[i].proposal)'
    BY <1>1 DEF StillEntitled, IsVoterEligible, Recused
  <2>1. ballots[i].proposal # p
    BY DEF DeclareRecusal
  <2>2. Recused(ballots[i].proposal)' = Recused(ballots[i].proposal)
    BY <1>1, <2>1 DEF DeclareRecusal, Recused
  <2> QED
    BY <2>2 DEF GovernanceInv, StillEntitled, IsVoterEligible
<1>4. AnswersRecorded'
  BY <1>1 DEF GovernanceInv, AnswersRecorded, SameBallot
<1> QED
  BY <1>2, <1>3, <1>4 DEF GovernanceInv

\* A new ballot names the latest one of its member on the proposal, and
\* becomes the latest itself.
LEMMA CastGovernance ==
  ASSUME GovernanceInv, NEW ask \in Asks, NEW at \in Times, CastBallot(ask, at)
  PROVE  GovernanceInv'
<1> DEFINE earlier == BallotsOf(ask.proposal, ask.member)
<1>0. PICK n : n = Len(ballots)
  OBVIOUS
<1>1. PICK b : b = [proposal |-> ask.proposal, member |-> ask.member, choice |-> ask.choice, key |-> ask.key,
                    replaces |-> IF earlier = {} THEN None ELSE Max(earlier)]
  OBVIOUS
<1>2. ballots' = Append(ballots, b)
  BY <1>1 DEF CastBallot
<1>3. ballots \in Seq(Ballot) /\ n \in Nat /\ DOMAIN ballots = 1..n
  BY <1>0 DEF GovernanceInv, WellRecorded
<1>4. earlier # {} => /\ Max(earlier) \in earlier
                      /\ \A j \in earlier : j <= Max(earlier)
  BY LatestBallot
<1>5. earlier # {} => Max(earlier) \in 1..n
  BY <1>3, <1>4 DEF BallotsOf
<1>6. b \in Ballot
  <2>1. b.replaces \in Nat \cup {None}
    BY <1>1, <1>5
  <2> QED
    BY <1>1, <2>1 DEF Ballot, Asks
<1>7. /\ DOMAIN ballots' = 1..(n + 1)
      /\ ballots'[n + 1] = b
      /\ \A i \in 1..n : ballots'[i] = ballots[i]
  BY <1>2, <1>3, <1>6
<1>8. n + 1 \notin 1..n /\ \A i \in 1..(n + 1) : i \in 1..n \/ i = n + 1
  BY <1>3
<1>9. \A i \in 1..n : ballots[i].proposal = ask.proposal /\ ballots[i].member = ask.member <=> i \in earlier
  BY <1>3 DEF BallotsOf
<1>10. UNCHANGED <<round, recusals>> /\ round # None
  BY DEF CastBallot
<1> HIDE DEF earlier
<1>11. WellRecorded'
  BY <1>2, <1>3, <1>6, <1>10 DEF WellRecorded
<1>12. Chained'
  <2> SUFFICES ASSUME NEW j \in 1..(n + 1), ballots'[j].replaces # None
               PROVE  /\ ballots'[j].replaces \in 1..(n + 1)
                      /\ ballots'[j].replaces < j
                      /\ Rivals(ballots[j].replaces, j)'
    BY <1>7 DEF Chained
  <2>1. CASE j \in 1..n
    BY <1>3, <1>7, <2>1 DEF GovernanceInv, Chained, Rivals
  <2>2. CASE j = n + 1
    <3>1. earlier # {} /\ ballots'[j].replaces = Max(earlier)
      BY <1>1, <1>7, <2>2
    <3>2. Max(earlier) \in 1..n /\ Max(earlier) \in earlier
      BY <1>4, <1>5, <3>1
    <3>3. ballots[Max(earlier)].proposal = b.proposal /\ ballots[Max(earlier)].member = b.member
      BY <1>1, <1>9, <3>2
    <3> QED
      BY <1>3, <1>7, <2>2, <3>1, <3>2, <3>3 DEF Rivals
  <2> QED
    BY <1>8, <2>1, <2>2
<1>13. Superseded'
  <2> SUFFICES ASSUME NEW i \in 1..(n + 1), NEW k \in 1..(n + 1), i < k, Rivals(i, k)'
               PROVE  \E j \in 1..(n + 1) : ballots'[j].replaces = i
    BY <1>7 DEF Superseded
  <2>1. i \in 1..n
    BY <1>3
  <2>2. CASE k \in 1..n
    <3>1. Rivals(i, k)
      BY <1>7, <2>1, <2>2 DEF Rivals
    <3>2. PICK j \in 1..n : ballots[j].replaces = i
      BY <1>3, <2>1, <2>2, <3>1 DEF GovernanceInv, Superseded
    <3> QED
      BY <1>3, <1>7, <3>2
  <2>3. CASE k = n + 1
    <3>1. i \in earlier
      BY <1>1, <1>7, <1>9, <2>1, <2>3 DEF Rivals
    <3>2. CASE i = Max(earlier)
      BY <1>1, <1>3, <1>7, <3>1, <3>2
    <3>3. CASE i # Max(earlier)
      <4>1. i < Max(earlier) /\ Max(earlier) \in 1..n /\ Max(earlier) \in earlier
        BY <1>3, <1>4, <1>5, <2>1, <3>1, <3>3
      <4>2. Rivals(i, Max(earlier))
        BY <1>9, <2>1, <3>1, <4>1 DEF Rivals
      <4>3. PICK j \in 1..n : ballots[j].replaces = i
        BY <1>3, <2>1, <4>1, <4>2 DEF GovernanceInv, Superseded
      <4> QED
        BY <1>3, <1>7, <4>3
    <3> QED
      BY <3>2, <3>3
  <2> QED
    BY <1>8, <2>2, <2>3
<1>14. Latest'
  <2> SUFFICES ASSUME NEW i \in 1..(n + 1)
               PROVE  \E k \in 1..(n + 1) :
                        Rivals(i, k)' /\ \A j \in 1..(n + 1) : Rivals(i, j)' => j <= k
    BY <1>7 DEF Latest
  <2>1. CASE Rivals(i, n + 1)'
    <3>1. n + 1 \in 1..(n + 1) /\ \A j \in 1..(n + 1) : j <= n + 1
      BY <1>3
    <3> QED
      BY <2>1, <3>1
  <2>2. CASE ~ Rivals(i, n + 1)'
    <3>1. i \in 1..n
      BY <1>8, <2>2 DEF Rivals
    <3>2. PICK k \in 1..n : Rivals(i, k) /\ \A j \in 1..n : Rivals(i, j) => j <= k
      BY <1>3, <3>1 DEF GovernanceInv, Latest
    <3>3. Rivals(i, k)'
      BY <1>7, <3>1, <3>2 DEF Rivals
    <3>4. \A j \in 1..n : Rivals(i, j)' => j <= k
      BY <1>7, <3>1, <3>2 DEF Rivals
    <3> QED
      BY <1>3, <1>8, <2>2, <3>2, <3>3, <3>4
  <2> QED
    BY <2>1, <2>2
<1>15. StillEntitled'
  <2>1. ask.member \in DOMAIN round.weight /\ ask.member \notin Recused(ask.proposal)
    BY DEF CastBallot, IsVoterEligible
  <2>2. \A q : Recused(q)' = Recused(q)
    BY <1>10 DEF Recused
  <2> SUFFICES ASSUME NEW i \in 1..(n + 1)
               PROVE  /\ ballots'[i].member \in DOMAIN round.weight
                      /\ ballots'[i].member \notin Recused(ballots'[i].proposal)
    BY <1>7, <1>10, <2>2 DEF StillEntitled, IsVoterEligible
  <2>3. CASE i \in 1..n
    BY <1>3, <1>7, <2>3 DEF GovernanceInv, StillEntitled, IsVoterEligible
  <2>4. CASE i = n + 1
    BY <1>1, <1>7, <2>1, <2>4
  <2> QED
    BY <1>8, <2>3, <2>4
<1>16. AnswersRecorded'
  <2>1. ask.key # None => acknowledged' = acknowledged \cup {[ask |-> ask, sequence |-> n + 1]}
    BY <1>0 DEF CastBallot, Acknowledge
  <2>2. ask.key = None => acknowledged' = acknowledged
    BY DEF CastBallot, Acknowledge
  <2>3. ASSUME NEW a \in acknowledged
        PROVE  /\ a.ask.key # None
               /\ a.sequence \in 1..(n + 1)
               /\ ballots'[a.sequence].key = a.ask.key
               /\ SameBallot(ballots'[a.sequence], a.ask)
    BY <1>3, <1>7 DEF GovernanceInv, AnswersRecorded
  <2>4. SameBallot(b, ask) /\ b.key = ask.key
    BY <1>1 DEF SameBallot
  <2> SUFFICES ASSUME NEW a \in acknowledged'
               PROVE  /\ a.ask.key # None
                      /\ a.sequence \in 1..(n + 1)
                      /\ ballots'[a.sequence].key = a.ask.key
                      /\ SameBallot(ballots'[a.sequence], a.ask)
    BY <1>7 DEF AnswersRecorded, SameBallot
  <2>5. CASE a \in acknowledged
    BY <2>3, <2>5
  <2>6. CASE a \notin acknowledged
    <3>1. ask.key # None /\ a = [ask |-> ask, sequence |-> n + 1]
      BY <2>1, <2>2, <2>6
    <3> QED
      BY <1>3, <1>7, <2>4, <3>1
  <2> QED
    BY <2>5, <2>6
<1>17. KeysOnce'
  <2>1. ask.key # None => \A i \in 1..n : ballots[i].key # ask.key
    BY <1>3 DEF CastBallot, UnderKey
  <2>2. b.key = ask.key
    BY <1>1
  <2> SUFFICES ASSUME NEW i \in 1..(n + 1), NEW j \in 1..(n + 1), ballots'[i].key = ballots'[j].key, i # j
               PROVE  ballots'[i].key = None
    BY <1>7 DEF KeysOnce
  <2>3. CASE i \in 1..n /\ j \in 1..n
    BY <1>3, <1>7, <2>3 DEF GovernanceInv, KeysOnce
  <2>4. CASE i = n + 1 \/ j = n + 1
    BY <1>7, <1>8, <2>1, <2>2, <2>4
  <2> QED
    BY <1>8, <2>3, <2>4
<1> QED
  BY <1>11, <1>12, <1>13, <1>14, <1>15, <1>16, <1>17 DEF GovernanceInv

LEMMA StutterGovernance == GovernanceInv /\ UNCHANGED vars => GovernanceInv'
<1> SUFFICES ASSUME GovernanceInv, UNCHANGED vars PROVE GovernanceInv'
  OBVIOUS
<1>1. WellRecorded' /\ Chained' /\ Superseded' /\ Latest' /\ KeysOnce'
  BY SameBallots DEF vars
<1>2. StillEntitled'
  BY DEF vars, GovernanceInv, StillEntitled, IsVoterEligible, Recused
<1>3. AnswersRecorded'
  BY DEF vars, GovernanceInv, AnswersRecorded, SameBallot
<1> QED
  BY <1>1, <1>2, <1>3 DEF GovernanceInv

\* The record of a round: who may be in it, which ballot replaced which, and
\* what was answered from it.
THEOREM GovernanceInvariance == Spec => []GovernanceInv
<1>1. GovernanceInv /\ [Next]_vars => GovernanceInv'
  BY CreateGovernance, ReplayGovernance, CastGovernance, RecuseGovernance, StutterGovernance DEF Next
<1> QED
  BY <1>1, InitGovernance, PTL DEF Spec

-----------------------------------------------------------------------------

\* A keyed castBallot() call creates one ballot, and every answer under the
\* key names it.
THEOREM OneBallotPerKey == Spec => []KeyCreatesOne
<1>1. GovernanceInv => KeyCreatesOne
  <2> SUFFICES ASSUME GovernanceInv PROVE KeyCreatesOne
    OBVIOUS
  <2>1. \A a \in acknowledged : SameBallot(ballots[a.sequence], a.ask)
    BY DEF GovernanceInv, AnswersRecorded
  <2>2. \A a, b \in acknowledged : a.ask.key = b.ask.key => a.sequence = b.sequence
    BY DEF GovernanceInv, AnswersRecorded, KeysOnce
  <2> QED
    BY <2>1, <2>2 DEF KeyCreatesOne, GovernanceInv, KeysOnce
<1> QED
  BY <1>1, GovernanceInvariance, PTL

\* The tally counts exactly the ballots that stand: tallyProposal() takes the
\* latest one of every member who is not recused, castBallot() records what
\* each ballot replaced, and the two agree whatever happened in between.
THEOREM TallyOfTheStanding == Spec => []CountedStand
<1>1. GovernanceInv => CountedStand
  <2> SUFFICES ASSUME GovernanceInv, NEW p \in DOMAIN round.amount
               PROVE  LET standing == {i \in DOMAIN ballots :
                                         /\ ballots[i].proposal = p
                                         /\ \A j \in DOMAIN ballots : ballots[j].replaces # i}
                      IN /\ Counted(p) = standing
                         /\ \A i, j \in standing : ballots[i].member = ballots[j].member => i = j
    BY DEF CountedStand
  <2> DEFINE standing == {i \in DOMAIN ballots :
                            /\ ballots[i].proposal = p
                            /\ \A j \in DOMAIN ballots : ballots[j].replaces # i}
  <2>1. DOMAIN ballots \subseteq Nat
    BY DEF GovernanceInv, WellRecorded
  <2>2. ASSUME NEW i \in standing, NEW k \in DOMAIN ballots, Rivals(i, k)
        PROVE  k <= i
    BY <2>1, <2>2 DEF GovernanceInv, Superseded
  <2>3. ASSUME NEW i \in Counted(p)
        PROVE  i \in standing
    <3>1. PICK m \in Eligible(p) : BallotsOf(p, m) # {} /\ i = Max(BallotsOf(p, m))
      BY <2>3 DEF Counted
    <3>2. i \in BallotsOf(p, m) /\ \A j \in BallotsOf(p, m) : j <= i
      BY <3>1, LatestBallot
    <3>3. ASSUME NEW j \in DOMAIN ballots, ballots[j].replaces = i
          PROVE  FALSE
      <4>1. i \in DOMAIN ballots /\ i # None
        BY <2>1, <3>2, NoneAssumption DEF BallotsOf
      <4>2. i < j /\ Rivals(i, j)
        BY <3>3, <4>1 DEF GovernanceInv, Chained
      <4>3. j \in BallotsOf(p, m)
        BY <3>2, <4>2 DEF BallotsOf, Rivals
      <4> QED
        BY <2>1, <3>2, <4>1, <4>2, <4>3
    <3> QED
      BY <3>2, <3>3 DEF BallotsOf
  <2>4. ASSUME NEW i \in standing
        PROVE  i \in Counted(p)
    <3>1. PICK m : m = ballots[i].member
      OBVIOUS
    <3>2. i \in BallotsOf(p, m)
      BY <3>1 DEF BallotsOf
    <3>3. m \in Eligible(p)
      BY <3>1 DEF GovernanceInv, StillEntitled, IsVoterEligible, Eligible
    <3>4. \A j \in BallotsOf(p, m) : j <= i
      BY <3>1, <2>2 DEF BallotsOf, Rivals
    <3>5. BallotsOf(p, m) \in SUBSET Nat
      BY <2>1 DEF BallotsOf
    <3>6. Max(BallotsOf(p, m)) = i
      BY <3>2, <3>4, <3>5, MaxIs
    <3> QED
      BY <3>2, <3>3, <3>6 DEF Counted
  <2>5. Counted(p) = standing
    BY <2>3, <2>4
  <2>6. ASSUME NEW i \in standing, NEW j \in standing, ballots[i].member = ballots[j].member
        PROVE  i = j
    <3>1. Rivals(i, j) /\ Rivals(j, i)
      BY <2>6 DEF Rivals
    <3>2. i <= j /\ j <= i
      BY <2>2, <3>1
    <3> QED
      BY <2>1, <3>2
  <2> QED
    BY <2>5, <2>6
<1> QED
  BY <1>1, GovernanceInvariance, PTL

\* Once somebody has voted on a proposal nobody joins or leaves the electorate
\* its thresholds are measured against.
THEOREM FrozenElectorate == Spec => ElectorateFrozen
<1> DEFINE VotedOn(p) == \E i \in DOMAIN ballots : ballots[i].proposal = p
           Frozen == round # None => \A p \in DOMAIN round.amount : VotedOn(p) => Eligible(p)' = Eligible(p)
<1>1. [Next]_vars => Frozen
  <2> SUFFICES ASSUME [Next]_vars, round # None, NEW p \in DOMAIN round.amount, VotedOn(p)
               PROVE  Eligible(p)' = Eligible(p)
    OBVIOUS
  <2>1. UNCHANGED <<round, recusals>> => Eligible(p)' = Eligible(p)
    BY DEF Eligible, Recused
  <2>2. ASSUME NEW q \in Proposals, NEW m \in Members, NEW at \in Times, DeclareRecusal(q, m, at)
        PROVE  Eligible(p)' = Eligible(p)
    <3>1. q # p /\ UNCHANGED round
      BY <2>2 DEF DeclareRecusal
    <3>2. Recused(p)' = Recused(p)
      BY <2>2, <3>1 DEF DeclareRecusal, Recused
    <3> QED
      BY <3>1, <3>2 DEF Eligible
  <2>3. ASSUME NEW input \in Inputs, CreateRound(input)
        PROVE  FALSE
    BY <2>3 DEF CreateRound
  <2>4. ASSUME NEW ask \in Asks, ReplayBallot(ask)
        PROVE  UNCHANGED <<round, recusals>>
    BY <2>4 DEF ReplayBallot
  <2>5. ASSUME NEW ask \in Asks, NEW at \in Times, CastBallot(ask, at)
        PROVE  UNCHANGED <<round, recusals>>
    BY <2>5 DEF CastBallot
  <2>6. UNCHANGED vars => UNCHANGED <<round, recusals>>
    BY DEF vars
  <2> QED
    BY <2>1, <2>2, <2>3, <2>4, <2>5, <2>6 DEF Next
<1> QED
  BY <1>1, PTL DEF Spec, ElectorateFrozen

-----------------------------------------------------------------------------
(***************************************************************************)
(* What the tally and the allocation compute, for any number of ballots,   *)
(* members and proposals.                                                  *)
(***************************************************************************)

\* A round as createRound() freezes it: weights, amounts and a known budget are
\* natural numbers, and a ranking that is looked at names no proposal twice.
RoundSound ==
  /\ IsFiniteSet(DOMAIN round.weight)
  /\ \A m \in DOMAIN round.weight : round.weight[m] \in Nat
  /\ ValidFraction(round.rules.majority)
  /\ IsFiniteSet(DOMAIN round.amount)
  /\ \A p \in DOMAIN round.amount : round.amount[p] \in Nat
  /\ round.budget \in Nat \cup {None}
  /\ round.rules.allocation = "explicit_ranking" =>
       /\ IsSequence(round.rules.ranking)
       /\ IsInjective(round.rules.ranking)

RoundInv == round # None => RoundSound

\* createRound() takes such inputs only, and freezes what they say.
LEMMA SnapshotSound ==
  ASSUME NEW input, ValidInput(input), round' = Snapshot(input)
  PROVE  RoundSound'
<1> DEFINE ids == {input.proposals[i].id : i \in DOMAIN input.proposals}
           members == {input.roster[i].member : i \in DOMAIN input.roster}
<1>1. /\ round'.budget = input.budget /\ round'.rules = input.rules
      /\ DOMAIN round'.amount = ids
      /\ \A p \in ids : round'.amount[p] =
           input.proposals[CHOOSE i \in DOMAIN input.proposals : input.proposals[i].id = p].amount
      /\ DOMAIN round'.weight = members
      /\ \A m \in members : round'.weight[m] =
           input.roster[CHOOSE i \in DOMAIN input.roster : input.roster[i].member = m].weight
  BY DEF Snapshot
<1>2. IsFiniteSet(ids)
  <2>1. PICK n \in Nat : DOMAIN input.proposals = 1..n
    BY DEF ValidInput, IsSequence
  <2>2. IsFiniteSet(1..n)
    BY IntervalSize
  <2> DEFINE id == [i \in 1..n |-> input.proposals[i].id]
  <2>3. ids = {id[i] : i \in 1..n}
    BY <2>1
  <2>4. id \in Surjection(1..n, ids)
    BY <2>3 DEF Surjection
  <2> HIDE DEF id, ids
  <2> QED BY <2>2, <2>4, FS_Surjection
<1>3. ASSUME NEW p \in ids PROVE round'.amount[p] \in Nat
  <2>1. \E i \in DOMAIN input.proposals : input.proposals[i].id = p
    BY <1>3
  <2>2. PICK i \in DOMAIN input.proposals : round'.amount[p] = input.proposals[i].amount
    BY <1>1, <2>1
  <2> QED BY <2>2 DEF ValidInput
<1>4. IsFiniteSet(members)
  <2>1. PICK n \in Nat : DOMAIN input.roster = 1..n
    BY DEF ValidInput, IsSequence
  <2>2. IsFiniteSet(1..n)
    BY IntervalSize
  <2> DEFINE member == [i \in 1..n |-> input.roster[i].member]
  <2>3. members = {member[i] : i \in 1..n}
    BY <2>1
  <2>4. member \in Surjection(1..n, members)
    BY <2>3 DEF Surjection
  <2> HIDE DEF member, members
  <2> QED BY <2>2, <2>4, FS_Surjection
<1>5. ASSUME NEW m \in members PROVE round'.weight[m] \in Nat
  <2>1. \E i \in DOMAIN input.roster : input.roster[i].member = m
    BY <1>5
  <2>2. PICK i \in DOMAIN input.roster : round'.weight[m] = input.roster[i].weight
    BY <1>1, <2>1
  <2> QED BY <2>2 DEF ValidInput
<1> QED BY <1>1, <1>2, <1>3, <1>4, <1>5 DEF RoundSound, ValidInput, ValidRules, ValidFraction

\* Nothing touches the round once it is frozen.
LEMMA RoundInvariance == Spec => []RoundInv
<1>1. Init => RoundInv
  BY DEF Init, RoundInv
<1>2. RoundInv /\ [Next]_vars => RoundInv'
  <2> SUFFICES ASSUME RoundInv, [Next]_vars PROVE RoundInv'
    OBVIOUS
  <2>1. ASSUME round' = round PROVE RoundInv'
    BY <2>1 DEF RoundInv, RoundSound
  <2>2. ASSUME NEW input \in Inputs, CreateRound(input) PROVE RoundInv'
    <3>1. RoundSound'
      BY <2>2, SnapshotSound DEF CreateRound
    <3> QED BY <3>1 DEF RoundInv
  <2>3. ASSUME NEW ask \in Asks, ReplayBallot(ask) PROVE round' = round
    BY <2>3 DEF ReplayBallot
  <2>4. ASSUME NEW ask \in Asks, NEW at \in Times, CastBallot(ask, at) PROVE round' = round
    BY <2>4 DEF CastBallot
  <2>5. ASSUME NEW p \in Proposals, NEW m \in Members, NEW at \in Times, DeclareRecusal(p, m, at)
        PROVE  round' = round
    BY <2>5 DEF DeclareRecusal
  <2>6. CASE UNCHANGED vars
    BY <2>1, <2>6 DEF vars
  <2> QED BY <2>1, <2>2, <2>3, <2>4, <2>5, <2>6 DEF Next
<1> QED BY <1>1, <1>2, PTL DEF Spec

\* What the loop over the ranking keeps, and how it starts.
Shares(passed) == [passed : {passed}, left : Nat, blocked : BOOLEAN, funded : SUBSET passed]
Unshared(passed) == [passed |-> passed, left |-> round.budget, blocked |-> FALSE, funded |-> {}]

\* A step of the loop funds passed proposals only and spends no more than is left.
LEMMA RankedShares ==
  ASSUME RoundSound, NEW passed \in SUBSET DOMAIN round.amount, NEW acc \in Shares(passed), NEW p
  PROVE  Ranked(acc, p) \in Shares(passed)
<1>1. CASE p \notin acc.passed \/ round.amount[p] = 0
  BY <1>1 DEF Ranked
<1>2. CASE ~ (p \notin acc.passed \/ round.amount[p] = 0)
  <2>1. p \in passed /\ round.amount[p] \in Nat
    BY <1>2 DEF Shares, RoundSound
  <2>2. CASE ~ acc.blocked /\ acc.left >= round.amount[p]
    <3>1. Ranked(acc, p) = [acc EXCEPT !.left = @ - round.amount[p], !.funded = @ \cup {p}]
      BY <1>2, <2>2 DEF Ranked
    <3>2. acc.left - round.amount[p] \in Nat /\ acc.funded \cup {p} \in SUBSET passed
      BY <2>1, <2>2 DEF Shares
    <3> QED BY <3>1, <3>2 DEF Shares
  <2>3. CASE ~ (~ acc.blocked /\ acc.left >= round.amount[p])
    <3>1. Ranked(acc, p) = [acc EXCEPT !.blocked = @ \/ round.rules.exhaustion = "stop_at_first_unfundable"]
      BY <1>2, <2>3 DEF Ranked
    <3> QED BY <3>1 DEF Shares
  <2> QED BY <2>2, <2>3
<1> QED BY <1>1, <1>2

\* The fold of `Allocated' is a loop of as many steps as the ranking is long.
LEMMA RankedSteps ==
  ASSUME RoundSound, round.rules.allocation = "explicit_ranking", round.budget \in Nat,
         NEW passed \in SUBSET DOMAIN round.amount
  PROVE  LET ranking == round.rules.ranking
         IN  \E h : /\ h[0] = Unshared(passed)
                    /\ \A k \in 0..Len(ranking) : h[k] \in Shares(passed)
                    /\ \A k \in 1..Len(ranking) : h[k] = Ranked(h[k - 1], ranking[k])
                    /\ h[Len(ranking)] = FoldLeft(Ranked, Unshared(passed), ranking)
<1> DEFINE ranking == round.rules.ranking
           S == DOMAIN ranking
           V == Shares(passed)
           start == Unshared(passed)
           pick == [U \in SUBSET S |-> Max(U)]
           g == [x \in S |-> [v \in V |-> Ranked(v, ranking[x])]]
           IsFold(i) == i = [U \in SUBSET S |->
             IF U = {} THEN start ELSE Ranked(i[U \ {Max(U)}], ranking[Max(U)])]
           iter == CHOOSE i : IsFold(i)
<1>1. S = 1..Len(ranking) /\ Len(ranking) \in Nat /\ IsFiniteSet(S)
  <2>1. S = 1..Len(ranking) /\ Len(ranking) \in Nat
    BY DEF RoundSound, IsSequence
  <2> QED BY <2>1, IntervalSize
<1>2. start \in V
  BY DEF Unshared, Shares
<1>3. ASSUME NEW U \in SUBSET S, U # {} PROVE pick[U] = Max(U) /\ pick[U] \in U
  <2>1. U \in SUBSET (0..Len(ranking))
    BY <1>1
  <2>2. Max(U) \in U
    BY <1>1, <1>3, <2>1, GreatestOf
  <2> QED BY <2>2
<1>4. g \in [S -> [V -> V]]
  BY RankedShares
<1>5. PICK f : IsFoldOf(f, S, V, start, pick, g)
  <2>1. Picks(pick, S) /\ Steps(g, S, V)
    BY <1>3, <1>4 DEF Picks, Steps
  <2> HIDE DEF S, V, start, g, pick
  <2> QED BY <1>1, <1>2, <2>1, FoldDefined
<1>6. IsFold(f)
  <2>1. ASSUME NEW U \in SUBSET S, U # {}
        PROVE  g[pick[U]][f[U \ {pick[U]}]] = Ranked(f[U \ {Max(U)}], ranking[Max(U)])
    BY <1>3, <1>5, <2>1 DEF IsFoldOf
  <2> HIDE DEF g, pick, start, V
  <2> QED BY <1>5, <2>1 DEF IsFoldOf
<1>7. IsFold(iter)
  <2> HIDE DEF IsFold
  <2> QED BY <1>6
<1>8. FoldLeft(Ranked, start, ranking) = iter[S]
  <2> HIDE DEF start
  <2> QED BY DEF FoldLeft, MapThenFoldSet
<1>9. \A U \in SUBSET S : iter[U] = IF U = {} THEN start ELSE Ranked(iter[U \ {Max(U)}], ranking[Max(U)])
  <2> HIDE DEF iter, start
  <2> QED BY <1>7
<1> DEFINE h == [k \in 0..Len(ranking) |-> iter[1..k]]
<1>10. h[0] = start
  <2>1. 1..0 = {} /\ {} \in SUBSET S /\ 0 \in 0..Len(ranking)
    BY <1>1
  <2> HIDE DEF iter, S, start
  <2> QED BY <1>9, <2>1
<1>11. ASSUME NEW k \in 1..Len(ranking) PROVE h[k] = Ranked(h[k - 1], ranking[k])
  <2>1. (1..k) \in SUBSET S /\ k \in 1..k /\ k \in 0..Len(ranking) /\ k - 1 \in 0..Len(ranking)
    BY <1>1
  <2>2. (1..k) \ {k} = 1..(k - 1)
    BY <1>1
  <2>3. Max(1..k) = k
    <3>1. (1..k) \in SUBSET Nat /\ \A m \in 1..k : m <= k
      BY <1>1
    <3> QED BY <2>1, <3>1, MaxIs
  <2> HIDE DEF iter, S, start
  <2> QED BY <1>9, <2>1, <2>2, <2>3
<1>12. h[Len(ranking)] = FoldLeft(Ranked, start, ranking)
  <2> HIDE DEF iter, start
  <2> QED BY <1>1, <1>8
<1>13. \A k \in 0..Len(ranking) : h[k] \in V
  <2> HIDE DEF h, V, start
  <2> DEFINE T == {k \in Nat : k <= Len(ranking) => h[k] \in V}
  <2>1. 0 \in T
    BY <1>2, <1>10
  <2>2. ASSUME NEW k \in Nat, k \in T PROVE k + 1 \in T
    <3>1. CASE k + 1 <= Len(ranking)
      <4>1. k + 1 \in 1..Len(ranking) /\ (k + 1) - 1 = k /\ k <= Len(ranking)
        BY <1>1, <3>1
      <4>2. h[k + 1] = Ranked(h[k], ranking[k + 1])
        BY <1>11, <4>1
      <4> QED BY <2>2, <4>1, <4>2, RankedShares DEF V
    <3> QED BY <3>1
  <2>3. Nat \subseteq T
    <3> HIDE DEF T
    <3> QED BY <2>1, <2>2, CountUp
  <2> QED BY <2>3
<1> HIDE DEF h
<1> QED BY <1>10, <1>11, <1>12, <1>13

\* Of the ranking's first k places, with acc as the loop has it there: what is
\* spent and left is the budget, nothing beyond is funded, what waits did not
\* fit or a better ranked one did not, and a block has that reason.
Better(i) == {round.rules.ranking[h] : h \in 1..(i - 1)}
Unserved(acc, i) ==
  LET p == round.rules.ranking[i] IN p \in acc.passed \ acc.funded /\ round.amount[p] > 0
Affordable(acc, i) ==
  Requested(Better(i) \cap acc.funded) + round.amount[round.rules.ranking[i]] <= round.budget
Stopped(acc, i) ==
  /\ round.rules.exhaustion = "stop_at_first_unfundable"
  /\ \E h \in 1..(i - 1) : Unserved(acc, h) /\ ~ Affordable(acc, h)

RankKept(acc, k) ==
  /\ acc.left + Requested(acc.funded) = round.budget
  /\ acc.funded \subseteq Better(k + 1)
  /\ acc.blocked => Stopped(acc, k + 1)
  /\ \A i \in 1..k : Unserved(acc, i) => ~ Affordable(acc, i) \/ Stopped(acc, i)

\* The amounts asked for are sums over finite sets of natural numbers.
LEMMA RequestedFacts ==
  ASSUME RoundSound, NEW passed \in SUBSET DOMAIN round.amount
  PROVE  /\ Requested(passed) \in Nat
         /\ Requested({}) = 0
         /\ \A S \in SUBSET passed : Requested(S) <= Requested(passed)
         /\ \A p \in DOMAIN round.amount :
              p \notin passed => Requested(passed \cup {p}) = Requested(passed) + round.amount[p]
<1>1. \A S \in SUBSET DOMAIN round.amount : IsFiniteSet(S) /\ Summands(round.amount, S)
  BY FS_Subset DEF RoundSound, Summands
<1>2. IsFiniteSet({}) /\ Summands(round.amount, {}) /\ IsFiniteSet(passed) /\ Summands(round.amount, passed)
  BY <1>1
<1>3. Requested(passed) \in Nat /\ Requested({}) = 0
  BY <1>2, SumAnyOrder DEF Requested
<1>4. \A S \in SUBSET passed : Requested(S) <= Requested(passed)
  BY <1>2, SumGrows DEF Requested
<1>5. ASSUME NEW p \in DOMAIN round.amount, p \notin passed
      PROVE  Requested(passed \cup {p}) = Requested(passed) + round.amount[p]
  <2>1. Summands(round.amount, passed \cup {p})
    BY <1>1, <1>5
  <2> QED BY <1>2, <1>5, <2>1, SumAdd DEF Requested
<1> QED BY <1>3, <1>4, <1>5

\* What comes at place k moves nothing at the places before it.
LEMMA EarlierPlaces ==
  ASSUME RoundSound, round.rules.allocation = "explicit_ranking",
         NEW k \in DOMAIN round.rules.ranking, NEW acc, NEW next,
         next.passed = acc.passed, acc.funded \subseteq next.funded,
         next.funded \subseteq acc.funded \cup {round.rules.ranking[k]}
  PROVE  /\ \A i \in 1..k : Affordable(next, i) <=> Affordable(acc, i)
         /\ \A i \in 1..(k - 1) : Unserved(next, i) <=> Unserved(acc, i)
         /\ \A i \in 1..k : Stopped(next, i) <=> Stopped(acc, i)
<1> DEFINE ranking == round.rules.ranking
<1>1. /\ DOMAIN ranking = 1..Len(ranking) /\ Len(ranking) \in Nat /\ k \in Nat
      /\ \A i, j \in DOMAIN ranking : ranking[i] = ranking[j] => i = j
  BY DEF RoundSound, IsSequence, IsInjective
<1>2. \A i \in 1..(k - 1) : i \in DOMAIN ranking /\ i # k /\ ranking[i] # ranking[k]
  BY <1>1
<1>3. \A i \in 1..k : \A h \in 1..(i - 1) : h \in 1..(k - 1)
  BY <1>1
<1>4. \A i \in 1..k : ranking[k] \notin Better(i)
  BY <1>2, <1>3 DEF Better
<1>5. \A i \in 1..k : Better(i) \cap next.funded = Better(i) \cap acc.funded
  BY <1>4
<1>6. \A i \in 1..k : Affordable(next, i) <=> Affordable(acc, i)
  BY <1>5 DEF Affordable
<1>7. \A i \in 1..(k - 1) : Unserved(next, i) <=> Unserved(acc, i)
  BY <1>2 DEF Unserved
<1>8. ASSUME NEW i \in 1..k PROVE Stopped(next, i) <=> Stopped(acc, i)
  <2>1. \A h \in 1..(i - 1) : h \in 1..k /\ h \in 1..(k - 1)
    BY <1>1
  <2> QED BY <1>6, <1>7, <2>1 DEF Stopped
<1> QED BY <1>6, <1>7, <1>8

\* One more place of the ranking: the proposal is not looked at, is funded, or waits.
LEMMA RankedKeeps ==
  ASSUME RoundSound, round.rules.allocation = "explicit_ranking", round.budget \in Nat,
         NEW passed \in SUBSET DOMAIN round.amount, NEW acc \in Shares(passed),
         NEW k \in DOMAIN round.rules.ranking, RankKept(acc, k - 1)
  PROVE  RankKept(Ranked(acc, round.rules.ranking[k]), k)
<1> DEFINE ranking == round.rules.ranking
           p == ranking[k]
           next == Ranked(acc, p)
           wants == p \in passed /\ round.amount[p] # 0
<1> SUFFICES RankKept(next, k)
  OBVIOUS
<1>1. /\ DOMAIN ranking = 1..Len(ranking) /\ Len(ranking) \in Nat /\ k \in Nat /\ k - 1 \in Nat
      /\ (k - 1) + 1 = k /\ (k + 1) - 1 = k /\ k \in 1..k /\ 1..k = 1..(k - 1) \cup {k}
  BY DEF RoundSound, IsSequence
<1>2. next \in Shares(passed)
  BY RankedShares
<1>3. Better(k + 1) = Better(k) \cup {p}
  BY <1>1 DEF Better
<1>4. acc.funded \subseteq Better(k) /\ Better(k) \cap acc.funded = acc.funded
  BY <1>1 DEF RankKept
<1>5. acc.passed = passed /\ acc.funded \in SUBSET passed /\ acc.left \in Nat /\ acc.blocked \in BOOLEAN
  BY DEF Shares
<1>6. Requested(acc.funded) \in Nat /\ acc.left + Requested(acc.funded) = round.budget
  BY <1>5, RequestedFacts DEF RankKept
<1>7. p \in passed => round.amount[p] \in Nat
  BY DEF RoundSound
<1>8. p \in passed => (Affordable(acc, k) <=> acc.left >= round.amount[p])
  <2>1. Affordable(acc, k) <=> Requested(acc.funded) + round.amount[p] <= round.budget
    BY <1>4 DEF Affordable
  <2>2. \A spent, left, amount \in Nat : spent + amount <= left + spent <=> left >= amount
    OBVIOUS
  <2> QED BY <1>5, <1>6, <1>7, <2>1, <2>2
<1>9. p \notin acc.funded
  <2>1. \A i \in 1..(k - 1) : i \in DOMAIN ranking /\ i # k
    BY <1>1
  <2>2. p \notin Better(k)
    BY <2>1 DEF Better, RoundSound, IsInjective
  <2> QED BY <1>4, <2>2
\* What is owed for place k, once it is known what the step does.
<1>10. ASSUME next.passed = acc.passed, acc.funded \subseteq next.funded, next.funded \subseteq acc.funded \cup {p},
              next.left + Requested(next.funded) = round.budget,
              next.blocked => \/ acc.blocked
                              \/ /\ round.rules.exhaustion = "stop_at_first_unfundable"
                                 /\ Unserved(next, k) /\ ~ Affordable(next, k),
              Unserved(next, k) => ~ Affordable(next, k) \/ acc.blocked
       PROVE  RankKept(next, k)
  <2> HIDE DEF next, p
  <2>1. /\ \A i \in 1..k : Affordable(next, i) <=> Affordable(acc, i)
        /\ \A i \in 1..(k - 1) : Unserved(next, i) <=> Unserved(acc, i)
        /\ \A i \in 1..k : Stopped(next, i) <=> Stopped(acc, i)
    BY <1>10, EarlierPlaces DEF p
  <2>2. acc.blocked => Stopped(acc, k)
    BY <1>1 DEF RankKept
  <2>3. Stopped(next, k) => Stopped(next, k + 1)
    BY <1>1 DEF Stopped
  <2>4. round.rules.exhaustion = "stop_at_first_unfundable" /\ Unserved(next, k) /\ ~ Affordable(next, k)
          => Stopped(next, k + 1)
    BY <1>1 DEF Stopped
  <2>5. next.blocked => Stopped(next, k + 1)
    BY <1>1, <1>10, <2>1, <2>2, <2>3, <2>4
  <2>6. ASSUME NEW i \in 1..k, Unserved(next, i) PROVE ~ Affordable(next, i) \/ Stopped(next, i)
    <3>1. CASE i = k
      BY <1>1, <1>10, <2>1, <2>2, <2>6, <3>1
    <3>2. CASE i # k
      <4>1. i \in 1..(k - 1)
        BY <1>1, <3>2
      <4>2. \A j \in 1..(k - 1) : Unserved(acc, j) => ~ Affordable(acc, j) \/ Stopped(acc, j)
        BY DEF RankKept
      <4> QED BY <2>1, <2>6, <4>1, <4>2
    <3> QED BY <3>1, <3>2
  <2>7. next.funded \subseteq Better(k + 1)
    BY <1>3, <1>4, <1>10
  <2> QED BY <1>10, <2>5, <2>6, <2>7 DEF RankKept
<1>11. CASE ~ wants
  <2>1. next = acc
    BY <1>5, <1>11 DEF Ranked
  <2>2. ~ Unserved(acc, k)
    BY <1>5, <1>7, <1>11 DEF Unserved
  <2> HIDE DEF next, p
  <2> QED BY <1>6, <1>10, <2>1, <2>2
<1>12. CASE wants /\ ~ acc.blocked /\ acc.left >= round.amount[p]
  <2>1. next = [acc EXCEPT !.left = @ - round.amount[p], !.funded = @ \cup {p}]
    BY <1>5, <1>12 DEF Ranked
  <2>2. /\ next.passed = acc.passed /\ next.blocked = acc.blocked
        /\ next.left = acc.left - round.amount[p] /\ next.funded = acc.funded \cup {p}
    BY <2>1 DEF Shares
  <2>3. Requested(next.funded) = Requested(acc.funded) + round.amount[p]
    BY <1>5, <1>9, <1>12, <2>2, RequestedFacts
  <2>4. next.left + Requested(next.funded) = round.budget
    BY <1>5, <1>6, <1>7, <1>12, <2>2, <2>3
  <2>5. ~ Unserved(next, k)
    BY <2>2 DEF Unserved
  <2> HIDE DEF next, p
  <2> QED BY <1>10, <1>12, <2>2, <2>4, <2>5
<1>13. CASE wants /\ ~ (~ acc.blocked /\ acc.left >= round.amount[p])
  <2>1. next = [acc EXCEPT !.blocked = @ \/ round.rules.exhaustion = "stop_at_first_unfundable"]
    BY <1>5, <1>13 DEF Ranked
  <2>2. /\ next.passed = acc.passed /\ next.left = acc.left /\ next.funded = acc.funded
        /\ next.blocked <=> (acc.blocked \/ round.rules.exhaustion = "stop_at_first_unfundable")
    BY <2>1 DEF Shares
  <2>3. Unserved(next, k)
    BY <1>5, <1>7, <1>9, <1>13, <2>2 DEF Unserved
  <2>4. Affordable(next, k) <=> Affordable(acc, k)
    BY <2>2 DEF Affordable
  <2>5. ~ acc.blocked => ~ Affordable(next, k)
    BY <1>8, <1>13, <2>4
  <2> HIDE DEF next, p, wants
  <2> QED BY <1>6, <1>10, <2>2, <2>3, <2>5
<1> QED BY <1>5, <1>11, <1>12, <1>13

\* What the loop comes to.
LEMMA LoopKeeps ==
  ASSUME RoundSound, round.rules.allocation = "explicit_ranking", round.budget \in Nat,
         NEW passed \in SUBSET DOMAIN round.amount
  PROVE  \E acc \in Shares(passed) :
           /\ acc.funded = FoldLeft(Ranked, Unshared(passed), round.rules.ranking).funded
           /\ RankKept(acc, Len(round.rules.ranking))
<1> DEFINE ranking == round.rules.ranking
<1>1. PICK h : /\ h[0] = Unshared(passed)
               /\ \A k \in 0..Len(ranking) : h[k] \in Shares(passed)
               /\ \A k \in 1..Len(ranking) : h[k] = Ranked(h[k - 1], ranking[k])
               /\ h[Len(ranking)] = FoldLeft(Ranked, Unshared(passed), ranking)
  BY RankedSteps
<1>2. Len(ranking) \in Nat /\ DOMAIN ranking = 1..Len(ranking)
  BY DEF RoundSound, IsSequence
<1> DEFINE T == {k \in Nat : k <= Len(ranking) => RankKept(h[k], k)}
<1>3. 0 \in T
  <2>1. Requested({}) = 0
    BY RequestedFacts
  <2>2. RankKept(Unshared(passed), 0)
    BY <2>1 DEF RankKept, Unshared
  <2> QED BY <1>1, <2>2
<1>4. ASSUME NEW k \in Nat, k \in T PROVE k + 1 \in T
  <2> SUFFICES ASSUME k + 1 <= Len(ranking) PROVE RankKept(h[k + 1], k + 1)
    OBVIOUS
  <2>1. k + 1 \in 1..Len(ranking) /\ (k + 1) - 1 = k /\ k \in 0..Len(ranking) /\ k <= Len(ranking)
    BY <1>2
  <2>2. h[k] \in Shares(passed) /\ h[k + 1] = Ranked(h[k], ranking[k + 1]) /\ RankKept(h[k], (k + 1) - 1)
    BY <1>1, <1>4, <2>1
  <2> QED BY <1>2, <2>1, <2>2, RankedKeeps
<1>5. Nat \subseteq T
  <2> HIDE DEF T
  <2> QED BY <1>3, <1>4, CountUp
<1>6. Len(ranking) \in 0..Len(ranking)
  BY <1>2
<1> QED BY <1>1, <1>2, <1>5, <1>6

\* The three ways to allocate: everything, by rank, nothing.
LEMMA SharedByRank ==
  ASSUME RoundInv
  PROVE  AllocationRespectsRank
<1> SUFFICES ASSUME round # None, RoundSound PROVE AllocationRespectsRank
  BY DEF RoundInv, AllocationRespectsRank
<1> DEFINE passed == Passed
           funded == Allocated(passed)
           ranking == round.rules.ranking
           Above(i) == {ranking[h] : h \in 1..(i - 1)} \cap funded
           Fits(i) == Requested(Above(i)) + round.amount[ranking[i]] <= round.budget
           Waiting(i) == ranking[i] \in Awaiting(passed)
<1>1. passed \in SUBSET DOMAIN round.amount
  BY DEF Passed
<1> HIDE DEF passed
<1>2. Requested({}) = 0 /\ Requested(passed) \in Nat /\ \A S \in SUBSET passed : Requested(S) <= Requested(passed)
  BY <1>1, RequestedFacts
<1>3. CASE BudgetStatus(passed) = "fully_covered"
  <2>1. Requested(passed) <= round.budget /\ round.budget \in Nat
    BY <1>2, <1>3 DEF BudgetStatus, RoundSound
  <2>2. funded \in SUBSET passed
    BY <1>3 DEF Allocated
  <2>3. funded \subseteq passed /\ Requested(funded) <= Requested(passed) /\ Requested(funded) \in Nat
    BY <1>1, <1>2, <2>2, RequestedFacts
  <2>4. Requested(funded) <= round.budget
    BY <1>2, <2>1, <2>3
  <2> HIDE DEF funded
  <2> QED BY <1>3, <2>3, <2>4 DEF AllocationRespectsRank, passed, funded
<1>4. CASE BudgetStatus(passed) = "shortfall" /\ round.rules.allocation = "explicit_ranking"
  <2>1. round.budget \in Nat /\ BudgetStatus(passed) # "fully_covered"
    BY <1>4 DEF BudgetStatus, RoundSound
  <2>2. funded = FoldLeft(Ranked, Unshared(passed), ranking).funded
    BY <1>4, <2>1 DEF Allocated, Unshared
  <2>3. PICK acc \in Shares(passed) : acc.funded = funded /\ RankKept(acc, Len(ranking))
    BY <1>1, <1>4, <2>1, <2>2, LoopKeeps
  <2>4. funded \in SUBSET passed /\ acc.left \in Nat /\ acc.passed = passed
    BY <2>3 DEF Shares
  <2> HIDE DEF funded
  <2>5. Requested(funded) \in Nat /\ Requested(funded) <= round.budget
    <3>1. Requested(funded) \in Nat
      BY <1>1, <2>4, RequestedFacts
    <3>2. acc.left + Requested(funded) = round.budget
      BY <2>3 DEF RankKept
    <3> QED BY <2>1, <2>4, <3>1, <3>2
  <2>6. DOMAIN ranking = 1..Len(ranking) /\ Len(ranking) \in Nat
    BY <1>4 DEF RoundSound, IsSequence
  <2>7. \A i \in DOMAIN ranking : Unserved(acc, i) <=> Waiting(i)
    <3>1. \A p \in passed : round.amount[p] \in Nat
      BY <1>1 DEF RoundSound
    <3>2. \A p \in passed :
            Decision(passed, p) = "awaiting_funding_allocation" <=> round.amount[p] > 0 /\ p \notin funded
      BY <3>1 DEF Decision, funded
    <3> QED BY <2>3, <2>4, <3>2 DEF Unserved, Awaiting
  <2>8. \A i : Affordable(acc, i) <=> Fits(i)
    BY <2>3 DEF Affordable, Better
  <2>9. ASSUME NEW i \in DOMAIN ranking, Waiting(i)
        PROVE  \/ ~ Fits(i)
               \/ /\ round.rules.exhaustion = "stop_at_first_unfundable"
                  /\ \E h \in 1..(i - 1) : Waiting(h) /\ ~ Fits(h)
    <3>1. ~ Affordable(acc, i) \/ Stopped(acc, i)
      BY <2>3, <2>6, <2>7, <2>9 DEF RankKept
    <3>2. \A h \in 1..(i - 1) : h \in DOMAIN ranking
      BY <2>6
    <3> HIDE DEF Fits, Waiting
    <3> QED BY <2>7, <2>8, <3>1, <3>2 DEF Stopped
  <2> QED BY <2>4, <2>5, <2>9 DEF AllocationRespectsRank, passed, funded
<1>5. CASE /\ BudgetStatus(passed) # "fully_covered"
           /\ ~ (BudgetStatus(passed) = "shortfall" /\ round.rules.allocation = "explicit_ranking")
  <2>1. funded = {}
    BY <1>5 DEF Allocated
  <2> QED BY <1>5, <2>1 DEF AllocationRespectsRank, passed
<1> QED BY <1>3, <1>4, <1>5

\* tallyRound() never allocates more than the budget and never to who did not
\* pass, and passes over a ranked proposal only when it does not fit behind the better
\* ranked ones, or when the rules stop at the first that does not.
THEOREM BudgetByRank == Spec => []AllocationRespectsRank
BY RoundInvariance, SharedByRank, PTL

\* The three weights of a proposal add up to that of its participants, which is
\* no more than there is.
TalliedOnce ==
  round # None => \A p \in DOMAIN round.amount :
    /\ Approving(p) + Rejecting(p) + WeightOf(Voters(p, "abstain")) = WeightOf(Participants(p))
    /\ WeightOf(Participants(p)) <= WeightOf(Eligible(p))
    /\ Status(p) = "passed" => Approving(p) > 0 /\ MembersMet(p) /\ WeightMet(p)

\* A ballot that counts is the latest of its member, who is eligible.
LEMMA CountedBallot ==
  ASSUME GovernanceInv, NEW p, NEW i \in Counted(p)
  PROVE  /\ i \in DOMAIN ballots /\ ballots[i].member \in Eligible(p) /\ ballots[i].choice \in Choices3
         /\ i = Max(BallotsOf(p, ballots[i].member))
<1>1. PICK m \in Eligible(p) : BallotsOf(p, m) # {} /\ i = Max(BallotsOf(p, m))
  BY DEF Counted
<1>2. i \in BallotsOf(p, m)
  BY <1>1, LatestBallot
<1>3. i \in DOMAIN ballots /\ ballots[i].member = m
  BY <1>2 DEF BallotsOf
<1>4. ballots[i] \in Ballot
  BY <1>3 DEF GovernanceInv, WellRecorded
<1> QED BY <1>1, <1>3, <1>4 DEF Ballot

\* Nobody votes two ways, and who votes is eligible.
LEMMA VotersApart ==
  ASSUME GovernanceInv, NEW p
  PROVE  /\ \A c \in Choices3 : Voters(p, c) \subseteq Eligible(p)
         /\ \A c, d \in Choices3 : c # d => Voters(p, c) \cap Voters(p, d) = {}
<1>1. ASSUME NEW c \in Choices3, NEW m \in Voters(p, c)
      PROVE  m \in Eligible(p) /\ ballots[Max(BallotsOf(p, m))].choice = c
  <2>1. PICK i \in Counted(p) : ballots[i].choice = c /\ m = ballots[i].member
    BY <1>1 DEF Voters
  <2> QED BY <2>1, CountedBallot
<1> QED BY <1>1

\* Weights of voters are sums over finite sets of natural numbers.
LEMMA WeightFacts ==
  ASSUME RoundSound, NEW p
  PROVE  /\ \A S \in SUBSET Eligible(p) : WeightOf(S) \in Nat /\ WeightOf(S) <= WeightOf(Eligible(p))
         /\ \A S, R \in SUBSET Eligible(p) : S \cap R = {} => WeightOf(S \cup R) = WeightOf(S) + WeightOf(R)
<1> DEFINE E == Eligible(p)
<1>1. E \in SUBSET DOMAIN round.weight
  BY DEF Eligible
<1> HIDE DEF E
<1>2. \A S \in SUBSET E : IsFiniteSet(S) /\ Summands(round.weight, S)
  <2>1. \A S \in SUBSET E : S \in SUBSET DOMAIN round.weight
    BY <1>1
  <2> QED BY <2>1, FS_Subset DEF RoundSound, Summands
<1>3. ASSUME NEW S \in SUBSET E PROVE WeightOf(S) \in Nat /\ WeightOf(S) <= WeightOf(E)
  <2>1. IsFiniteSet(S) /\ Summands(round.weight, S) /\ IsFiniteSet(E) /\ Summands(round.weight, E)
    BY <1>2
  <2> QED BY <2>1, SumAnyOrder, SumGrows DEF WeightOf
<1>4. ASSUME NEW S \in SUBSET E, NEW R \in SUBSET E, S \cap R = {}
      PROVE  WeightOf(S \cup R) = WeightOf(S) + WeightOf(R)
  <2>1. IsFiniteSet(S) /\ IsFiniteSet(R) /\ Summands(round.weight, S \cup R)
    BY <1>2
  <2> QED BY <1>4, <2>1, SumDisjoint DEF WeightOf
<1> QED BY <1>3, <1>4 DEF E

\* What a majority needs cannot be had without an approval.
LEMMA PassedApproved ==
  ASSUME RoundSound, NEW p, Approving(p) \in Nat, Rejecting(p) \in Nat, Status(p) = "passed"
  PROVE  Approving(p) > 0 /\ MembersMet(p) /\ WeightMet(p)
<1> DEFINE met == MembersMet(p) /\ WeightMet(p)
           a == Approving(p)
           r == Rejecting(p)
<1>1. Majority(p) => a > 0
  <2>1. round.rules.majority.num \in Nat /\ round.rules.majority.den \in Nat
    BY DEF RoundSound, ValidFraction
  <2>2. \A s, n \in Nat : s * n \in Nat /\ 0 * n = 0
    OBVIOUS
  <2>3. CASE a = 0
    <3>1. a * round.rules.majority.den = 0 /\ (a + r) * round.rules.majority.num \in Nat
      BY <2>1, <2>2, <2>3
    <3> QED BY <3>1 DEF Majority
  <2> QED BY <2>3
<1>2. met /\ ((a = r /\ r > 0) \/ (a # r /\ Majority(p)))
  <2> HIDE DEF a, r
  <2> QED BY DEF Status, a, r
<1> QED BY <1>1, <1>2

\* The participants are the voters of the three choices, and no voter has two.
LEMMA TalliedByWeight ==
  ASSUME GovernanceInv, RoundInv
  PROVE  TalliedOnce
<1> SUFFICES ASSUME RoundSound, NEW p
             PROVE  /\ Approving(p) + Rejecting(p) + WeightOf(Voters(p, "abstain")) = WeightOf(Participants(p))
                    /\ WeightOf(Participants(p)) <= WeightOf(Eligible(p))
                    /\ Status(p) = "passed" => Approving(p) > 0 /\ MembersMet(p) /\ WeightMet(p)
  BY DEF TalliedOnce, RoundInv
<1> DEFINE A == Voters(p, "approve")
           R == Voters(p, "reject")
           B == Voters(p, "abstain")
<1>1. /\ A \in SUBSET Eligible(p) /\ R \in SUBSET Eligible(p) /\ B \in SUBSET Eligible(p)
      /\ A \cup R \in SUBSET Eligible(p)
      /\ A \cap R = {} /\ (A \cup R) \cap B = {}
  BY VotersApart DEF Choices3
<1>2. Participants(p) = (A \cup R) \cup B /\ Participants(p) \in SUBSET Eligible(p)
  BY <1>1 DEF Participants, Choices3
<1>3. Approving(p) = WeightOf(A) /\ Rejecting(p) = WeightOf(R)
  BY DEF Approving, Rejecting
<1> HIDE DEF A, R, B
<1>4. /\ WeightOf(A \cup R) = WeightOf(A) + WeightOf(R)
      /\ WeightOf((A \cup R) \cup B) = WeightOf(A \cup R) + WeightOf(B)
  <2>1. A \in SUBSET Eligible(p) /\ R \in SUBSET Eligible(p) /\ B \in SUBSET Eligible(p)
    BY <1>1
  <2>2. WeightOf(A \cup R) = WeightOf(A) + WeightOf(R)
    BY <1>1, <2>1, WeightFacts
  <2>3. WeightOf((A \cup R) \cup B) = WeightOf(A \cup R) + WeightOf(B)
    BY <1>1, <2>1, WeightFacts
  <2> QED BY <2>2, <2>3
<1>5. WeightOf(A) \in Nat /\ WeightOf(R) \in Nat /\ WeightOf(Participants(p)) <= WeightOf(Eligible(p))
  BY <1>1, <1>2, WeightFacts
<1> QED BY <1>2, <1>3, <1>4, <1>5, PassedApproved DEF B

\* The weight of a member counts once in what tallyProposal() adds up, and only
\* if the member is eligible, whatever was replaced and whoever is recused; and no rule for
\* ties or majorities lets a proposal pass without participation and an approval.
THEOREM NoWeightTwice == Spec => []TalliedOnce
BY GovernanceInvariance, RoundInvariance, TalliedByWeight, PTL

-----------------------------------------------------------------------------
(***************************************************************************)
(* The revision rules after a vote, for any round, fields, people and any  *)
(* number of revisions.                                                    *)
(***************************************************************************)

VersionRecords ==
  [fields : [Fields -> Values], by : People \cup {Unset}, revision : RevisionIds \cup {Unset},
   approvedBy : SUBSET People, board : SUBSET Roster, approvals : SUBSET Approvals]

\* What a version says of the one before it.
Warranted(before, next) ==
  /\ (\E f \in MaterialSet : next.fields[f] # before.fields[f]) =>
       \E m \in next.approvedBy : /\ m \in next.board
                                  /\ [member |-> m, revision |-> next.revision] \in next.approvals
  /\ next.by = before.fields[Lead] \/ next.by \in next.board
  /\ next.fields # before.fields

FeedbackInv ==
  /\ versions \in Seq(VersionRecords) /\ board \subseteq Roster
  /\ outcome # Unset => versions # <<>>
  /\ Len(versions) > 1 => outcome = "approved"
  /\ \A i \in 2..Len(versions) : Warranted(versions[i - 1], versions[i])

\* An accepted revision is warranted by its approvals, its actor and its changes.
LEMMA AcceptedWarranted ==
  ASSUME FieldsAssumption, FeedbackInv, versions # <<>>, NEW at, NEW id \in RevisionIds, NEW actor \in People,
         NEW patch \in Patches, NEW approvals \in SUBSET Approvals, Revise(at, id, actor, patch, approvals)
  PROVE  \E next \in VersionRecords :
           versions' = Append(versions, next) /\ outcome = "approved" /\ Warranted(versions[Len(versions)], next)
<1> DEFINE before == versions[Len(versions)]
           approvers == CountedApprovals(approvals, id)
           next == [fields |-> Patched(before.fields, patch), by |-> actor, revision |-> id,
                    approvedBy |-> approvers, board |-> board, approvals |-> approvals]
<1>1. /\ versions' = Append(versions, next) /\ outcome = "approved" /\ Changed(patch) # {}
      /\ actor = before.fields[Lead] \/ actor \in board
      /\ Material(patch) # {} => approvers # {}
  BY DEF Revise, Accepted, Authorized, Effective
<1>2. before \in VersionRecords
  BY DEF FeedbackInv
<1>3. DOMAIN patch \subseteq Fields /\ \A f \in DOMAIN patch : patch[f] \in Values
  BY DEF Patches
<1>4. approvers \subseteq People /\ \A m \in approvers : m \in board /\ [member |-> m, revision |-> id] \in approvals
  BY DEF CountedApprovals, Approvals
<1>5. next.fields \in [Fields -> Values]
  BY <1>2, <1>3 DEF Patched, VersionRecords
<1>6. next \in VersionRecords
  BY <1>4, <1>5 DEF VersionRecords, FeedbackInv
<1>7. \A f \in Fields : next.fields[f] # before.fields[f] <=> f \in Changed(patch)
  BY <1>3 DEF Patched, Changed, Effective
<1>8. next.fields # before.fields
  BY <1>1, <1>3, <1>7 DEF Changed
<1>9. (\E f \in MaterialSet : next.fields[f] # before.fields[f]) => approvers # {}
  BY <1>1, <1>7 DEF Material, Fields
<1> QED BY <1>1, <1>4, <1>6, <1>8, <1>9 DEF Warranted

LEMMA InitFeedback == FieldsAssumption /\ FeedbackInit => FeedbackInv
BY DEF FeedbackInit, FeedbackInv

LEMMA NextFeedback ==
  ASSUME FieldsAssumption, FeedbackInv, [FeedbackNext]_feedbackVars
  PROVE  FeedbackInv'
<1>1. ASSUME UNCHANGED <<outcome, board, versions>> PROVE FeedbackInv'
  BY <1>1 DEF FeedbackInv, Warranted
<1>2. ASSUME NEW x \in Candidates, NEW fields \in Voted, Decide(x, fields) PROVE FeedbackInv'
  <2>1. fields \in [Fields -> Values]
    BY DEF FieldsAssumption, Fields
  <2>2. PICK v \in VersionRecords : versions' = <<v>>
    BY <1>2, <2>1 DEF Decide, VersionRecords, FeedbackInv
  <2>3. versions' \in Seq(VersionRecords) /\ versions' # <<>> /\ Len(versions') = 1 /\ 2..Len(versions') = {}
    BY <2>2
  <2>4. board' = board
    BY <1>2 DEF Decide
  <2> QED BY <2>3, <2>4 DEF FeedbackInv
<1>3. ASSUME NEW members \in SUBSET Roster, ChangeBoard(members) PROVE FeedbackInv'
  BY <1>3 DEF ChangeBoard, FeedbackInv, Warranted
<1>4. ASSUME outcome # Unset, NEW at, NEW id \in RevisionIds, NEW actor \in People, NEW patch \in Patches,
             NEW approvals \in SUBSET Approvals, Revise(at, id, actor, patch, approvals)
      PROVE  FeedbackInv'
  <2>1. PICK next \in VersionRecords :
          versions' = Append(versions, next) /\ outcome = "approved" /\ Warranted(versions[Len(versions)], next)
    BY <1>4, AcceptedWarranted DEF FeedbackInv
  <2>2. UNCHANGED <<outcome, board>>
    BY <1>4 DEF Revise
  <2>3. /\ versions' \in Seq(VersionRecords) /\ versions' # <<>> /\ Len(versions') = Len(versions) + 1
        /\ versions'[Len(versions')] = next /\ \A i \in 1..Len(versions) : versions'[i] = versions[i]
        /\ Len(versions) \in Nat \ {0}
    BY <1>4, <2>1 DEF FeedbackInv
  <2>4. ASSUME NEW i \in 2..Len(versions') PROVE Warranted(versions'[i - 1], versions'[i])
    <3>1. CASE i = Len(versions')
      BY <2>1, <2>3, <3>1
    <3>2. CASE i # Len(versions')
      BY <2>3, <3>2 DEF FeedbackInv
    <3> QED BY <3>1, <3>2
  <2> QED BY <2>1, <2>2, <2>3, <2>4 DEF FeedbackInv, Warranted
<1>5. UNION {kSubset(n, Approvals) : n \in 0..1} \subseteq SUBSET Approvals
  BY DEF kSubset
<1>6. ASSUME FeedbackNext PROVE FeedbackInv'
  <2>1. ASSUME NEW b \in Ballots, Collect(b) PROVE FeedbackInv'
    BY <2>1, <1>1 DEF Collect
  <2>2. CASE /\ outcome # Unset /\ Len(versions) < MaxVersions
             /\ \E at \in {"before", "after"}, id \in RevisionIds, actor \in People, patch \in Patches,
                  approvals \in UNION {kSubset(n, Approvals) : n \in 0..1} :
                  Revise(at, id, actor, patch, approvals)
    <3>1. PICK at \in {"before", "after"}, id \in RevisionIds, actor \in People, patch \in Patches,
               approvals \in SUBSET Approvals :
               outcome # Unset /\ Revise(at, id, actor, patch, approvals)
      BY <1>5, <2>2
    <3> QED BY <3>1, <1>4
  <2>3. CASE \E x \in Candidates, fields \in Voted : Decide(x, fields)
    BY <2>3, <1>2
  <2>4. CASE \E members \in SUBSET Roster : ChangeBoard(members)
    BY <2>4, <1>3
  <2>5. CASE \E b \in Ballots : Collect(b)
    BY <2>5, <2>1
  <2> QED BY <1>6, <2>2, <2>3, <2>4, <2>5 DEF FeedbackNext
<1> QED BY <1>1, <1>6 DEF feedbackVars

\* A material field moves from one version to the next only with an approval that
\* names that revision, of somebody on the Board at that time, and every revision comes
\* from the lead of the version before it or from that Board.
THEOREM AlwaysWarranted == FeedbackSpec => []RevisionsWarranted
<1>1. FeedbackInit => FeedbackInv
  BY InitFeedback, FieldsAssumption
<1>2. FeedbackInv /\ [FeedbackNext]_feedbackVars => FeedbackInv'
  BY NextFeedback, FieldsAssumption
<1>3. FeedbackInv => RevisionsWarranted
  BY DEF FeedbackInv, Warranted, RevisionsWarranted
<1> QED BY <1>1, <1>2, <1>3, PTL DEF FeedbackSpec

-----------------------------------------------------------------------------
(***************************************************************************)
(* The approval tally, for any sequence of ballots.                        *)
(***************************************************************************)


\* What the loop of tallyVote() keeps.
Tallies == [members : SUBSET Roster, counts : [Candidates -> Nat], abstained : Nat, rejected : Nat]

\* A step of the loop keeps the shape of a tally.
LEMMA CountTallies ==
  ASSUME NEW acc \in Tallies, NEW b
  PROVE  Count(acc, b) \in Tallies
<1>1. CASE Refused(b, acc.members)
  BY <1>1 DEF Count, Tallies
<1>2. CASE ~ Refused(b, acc.members)
  BY <1>2 DEF Count, Tallies, Refused
<1> QED BY <1>1, <1>2

\* The fold of `Tally' is a loop of as many steps as there are ballots.
LEMMA TallySteps ==
  ASSUME cast \in Seq(Ballots)
  PROVE  \E h : /\ h[0] = NothingCounted
                /\ \A k \in 0..Len(cast) : h[k] \in Tallies
                /\ \A k \in 1..Len(cast) : h[k] = Count(h[k - 1], cast[k])
                /\ h[Len(cast)] = Tally
<1> DEFINE S == DOMAIN cast
           pick == [U \in SUBSET S |-> Max(U)]
           g == [x \in S |-> [v \in Tallies |-> Count(v, cast[x])]]
           IsFold(i) == i = [U \in SUBSET S |->
             IF U = {} THEN NothingCounted ELSE Count(i[U \ {Max(U)}], cast[Max(U)])]
           iter == CHOOSE i : IsFold(i)
<1>1. S = 1..Len(cast) /\ Len(cast) \in Nat /\ IsFiniteSet(S)
  BY FS_Interval
<1>2. NothingCounted \in Tallies
  BY DEF NothingCounted, Tallies
<1>3. ASSUME NEW U \in SUBSET S, U # {} PROVE pick[U] = Max(U) /\ pick[U] \in U
  <2>1. U \in SUBSET (0..Len(cast))
    BY <1>1
  <2>2. Max(U) \in U
    BY <1>1, <1>3, <2>1, GreatestOf
  <2> QED BY <2>2
<1>4. g \in [S -> [Tallies -> Tallies]]
  BY CountTallies
<1>5. PICK f : IsFoldOf(f, S, Tallies, NothingCounted, pick, g)
  <2>1. Picks(pick, S) /\ Steps(g, S, Tallies)
    BY <1>3, <1>4 DEF Picks, Steps
  <2> HIDE DEF S, g, pick
  <2> QED BY <1>1, <1>2, <2>1, FoldDefined
<1>6. IsFold(f)
  <2>1. ASSUME NEW U \in SUBSET S, U # {}
        PROVE  g[pick[U]][f[U \ {pick[U]}]] = Count(f[U \ {Max(U)}], cast[Max(U)])
    BY <1>3, <1>5, <2>1 DEF IsFoldOf
  <2> HIDE DEF g, pick
  <2> QED BY <1>5, <2>1 DEF IsFoldOf
<1>7. IsFold(iter)
  <2> HIDE DEF IsFold
  <2> QED BY <1>6
<1>8. Tally = iter[S]
  BY DEF Tally, FoldLeft, MapThenFoldSet
<1>9. \A U \in SUBSET S : iter[U] = IF U = {} THEN NothingCounted ELSE Count(iter[U \ {Max(U)}], cast[Max(U)])
  <2> HIDE DEF iter
  <2> QED BY <1>7
<1> DEFINE h == [k \in 0..Len(cast) |-> iter[1..k]]
<1>10. h[0] = NothingCounted
  <2>1. 1..0 = {} /\ {} \in SUBSET S /\ 0 \in 0..Len(cast)
    BY <1>1
  <2> HIDE DEF iter, S
  <2> QED BY <1>9, <2>1
<1>11. ASSUME NEW k \in 1..Len(cast) PROVE h[k] = Count(h[k - 1], cast[k])
  <2>1. (1..k) \in SUBSET S /\ k \in 1..k /\ k \in 0..Len(cast) /\ k - 1 \in 0..Len(cast)
    BY <1>1
  <2>2. (1..k) \ {k} = 1..(k - 1)
    BY <1>1
  <2>3. Max(1..k) = k
    <3>1. (1..k) \in SUBSET Nat /\ \A m \in 1..k : m <= k
      BY <1>1
    <3> QED BY <2>1, <3>1, MaxIs
  <2> HIDE DEF iter, S
  <2> QED BY <1>9, <2>1, <2>2, <2>3
<1>12. h[Len(cast)] = Tally
  <2> HIDE DEF iter
  <2> QED BY <1>1, <1>8
<1>13. \A k \in 0..Len(cast) : h[k] \in Tallies
  <2> HIDE DEF h
  <2> DEFINE T == {k \in Nat : k <= Len(cast) => h[k] \in Tallies}
  <2>1. 0 \in T
    BY <1>2, <1>10
  <2>2. ASSUME NEW k \in Nat, k \in T PROVE k + 1 \in T
    <3>1. CASE k + 1 <= Len(cast)
      <4>1. k + 1 \in 1..Len(cast) /\ (k + 1) - 1 = k /\ k <= Len(cast)
        BY <1>1, <3>1
      <4>2. h[k + 1] = Count(h[k], cast[k + 1])
        BY <1>11, <4>1
      <4> QED BY <2>2, <4>1, <4>2, CountTallies
    <3> QED BY <3>1
  <2>3. Nat \subseteq T
    <3> HIDE DEF T
    <3> QED BY <2>1, <2>2, CountUp
  <2> QED BY <2>3
<1> HIDE DEF h
<1> QED BY <1>10, <1>11, <1>12, <1>13

\* The rules of the round and the refusals of the loop agree on a ballot.
LEMMA WellFormedCounted ==
  ASSUME FieldsAssumption, NEW b \in Ballots, NEW members
  PROVE  Refused(b, members) <=> ~ WellFormed(b) \/ b.member \in members
<1> DEFINE s == b.approved
           named == Range(s)
<1>1. Len(s) \in Nat /\ s \in [1..Len(s) -> named] /\ IsFiniteSet(1..Len(s)) /\ Cardinality(1..Len(s)) = Len(s)
  <2>1. PICK m \in 0..MaxApprovals + 1 : s \in [1..m -> Nameable]
    BY DEF Ballots, BoundedSeq, SeqOf, FieldsAssumption
  <2>2. m \in Nat /\ Len(s) = m /\ s \in [1..m -> named]
    BY <2>1 DEF FieldsAssumption, Range
  <2>3. IsFiniteSet(1..m) /\ Cardinality(1..m) = m
    BY <2>2, IntervalSize
  <2> QED BY <2>2, <2>3
<1>2. s \in Surjection(1..Len(s), named)
  BY <1>1 DEF Surjection, Range
<1>3. Cardinality(named) = Len(s) <=> s \in Injection(1..Len(s), named)
  <2> HIDE DEF s, named
  <2> QED BY <1>1, <1>2, FS_Surjection
<1>4. Cardinality(named) = Len(s) <=> IsInjective(s)
  BY <1>1, <1>3 DEF Injection
<1>5. Len(s) > MaxApprovals <=> ~ (Len(s) <= MaxApprovals)
  BY <1>1 DEF FieldsAssumption
<1> QED BY <1>4, <1>5 DEF Refused, WellFormed

\* A unique leader is who each of the others has fewer approvals than.
LEMMA WinnerLeads ==
  ASSUME FieldsAssumption, NEW given \in [Candidates -> Nat], NEW n \in Nat, \A x \in Candidates : given[x] <= n
  PROVE  WinnerOf(given) =
           {x \in Candidates : given[x] > 0 /\ \A y \in Candidates \ {x} : given[y] < given[x]}
<1> DEFINE all == {given[y] : y \in Candidates}
<1>1. all \in SUBSET (0..n) /\ all # {}
  BY DEF FieldsAssumption
<1>2. Max(all) \in all /\ \A y \in all : y <= Max(all)
  <2> HIDE DEF all
  <2> QED BY <1>1, GreatestOf
<1>3. PICK top \in Nat : top = Max(all) /\ top \in all /\ \A y \in Candidates : given[y] <= top
  BY <1>1, <1>2
<1>4. Leaders(given) = {x \in Candidates : given[x] = top}
  BY <1>3 DEF Leaders
<1>5. IsFiniteSet(Leaders(given))
  BY <1>4, FS_Subset DEF FieldsAssumption
<1>6. Cardinality(Leaders(given)) = 1 <=> \E x : Leaders(given) = {x}
  BY <1>5, FS_Singleton
<1>7. ASSUME NEW x \in Candidates
      PROVE  Leaders(given) = {x} <=> \A y \in Candidates \ {x} : given[y] < given[x]
  <2>1. ASSUME Leaders(given) = {x}, NEW y \in Candidates \ {x} PROVE given[y] < given[x]
    BY <1>3, <1>4, <2>1
  <2>2. ASSUME \A y \in Candidates \ {x} : given[y] < given[x] PROVE Leaders(given) = {x}
    <3>1. PICK y \in Candidates : given[y] = top
      BY <1>3
    <3>2. y = x
      BY <1>3, <2>2, <3>1
    <3>3. \A z \in Candidates : given[z] = top => z = x
      BY <1>3, <2>2, <3>1, <3>2
    <3> QED BY <1>4, <3>1, <3>2, <3>3
  <2> QED BY <2>1, <2>2
<1>8. ASSUME NEW x PROVE Leaders(given) = {x} => x \in Candidates
  BY <1>4
<1> HIDE DEF all
<1>9. ASSUME NEW x \in WinnerOf(given)
      PROVE  x \in Candidates /\ Leaders(given) = {x} /\ given[x] > 0
  BY <1>4, <1>6 DEF WinnerOf
<1>10. ASSUME NEW x \in Candidates, Leaders(given) = {x}, given[x] > 0 PROVE x \in WinnerOf(given)
  BY <1>6, <1>10 DEF WinnerOf
<1> QED BY <1>7, <1>9, <1>10

\* The first well-formed ballot of every member, as far as the loop has come.
ValidOnes == {i \in DOMAIN cast : WellFormed(cast[i])}
FirstOnes == {i \in ValidOnes : \A j \in ValidOnes : j < i => cast[j].member # cast[i].member}
UpTo(k) == {i \in FirstOnes : i <= k}
For(x, k) == {i \in UpTo(k) : x \in Range(cast[i].approved)}

\* After k ballots the loop has counted those and refused the others.
CountsFirst(acc, k) ==
  /\ acc.members = {cast[i].member : i \in UpTo(k)}
  /\ \A x \in Candidates : acc.counts[x] = Cardinality(For(x, k))
  /\ acc.rejected + Cardinality(UpTo(k)) = k

\* The next ballot is refused exactly if it is not the first valid one of its member.
LEMMA NextCounted ==
  ASSUME FieldsAssumption, cast \in Seq(Ballots), NEW k \in DOMAIN cast, NEW acc \in Tallies,
         CountsFirst(acc, k - 1)
  PROVE  CountsFirst(Count(acc, cast[k]), k)
<1> DEFINE b == cast[k]
<1>1. /\ k \in Nat \ {0} /\ k - 1 \in Nat /\ b \in Ballots /\ DOMAIN cast = 1..Len(cast) /\ Len(cast) \in Nat
      /\ UpTo(k) \subseteq 1..k /\ UpTo(k - 1) \subseteq 1..(k - 1) /\ \A x : For(x, k - 1) \subseteq UpTo(k - 1)
  BY DEF UpTo, For, FirstOnes, ValidOnes
<1>2. /\ IsFiniteSet(UpTo(k - 1)) /\ Cardinality(UpTo(k - 1)) \in Nat
      /\ \A x : IsFiniteSet(For(x, k - 1)) /\ Cardinality(For(x, k - 1)) \in Nat
  BY <1>1, IntervalSize
<1>3. Refused(b, acc.members) <=> k \notin FirstOnes
  <2>1. ASSUME WellFormed(b), b.member \in acc.members PROVE k \notin FirstOnes
    <3>1. PICK i \in UpTo(k - 1) : cast[i].member = b.member
      BY <2>1 DEF CountsFirst
    <3>2. i \in ValidOnes /\ i < k
      BY <1>1, <3>1 DEF UpTo, FirstOnes
    <3> QED BY <3>1, <3>2 DEF FirstOnes
  <2>2. ASSUME WellFormed(b), k \notin FirstOnes PROVE b.member \in acc.members
    <3> DEFINE same == {i \in ValidOnes : i < k /\ cast[i].member = b.member}
    <3>1. k \in ValidOnes
      BY <2>2 DEF ValidOnes
    <3>2. same \in SUBSET Nat /\ same # {}
      BY <1>1, <2>2, <3>1 DEF FirstOnes, ValidOnes
    <3>3. PICK i \in same : \A j \in same : i <= j
      <4> HIDE DEF same
      <4> QED BY <3>2, LeastOf
    <3>4. i \in ValidOnes /\ i \in Nat /\ i < k /\ i <= k - 1 /\ cast[i].member = b.member
      BY <1>1, <3>2, <3>3
    <3>5. ASSUME NEW j \in ValidOnes, j < i PROVE cast[j].member # cast[i].member
      <4>1. j \in Nat /\ ~ (i <= j) /\ j < k
        BY <1>1, <3>4, <3>5 DEF ValidOnes
      <4> QED BY <3>3, <3>4, <4>1
    <3>6. i \in UpTo(k - 1)
      BY <3>4, <3>5 DEF UpTo, FirstOnes
    <3> QED BY <3>4, <3>6 DEF CountsFirst
  <2>3. ~ WellFormed(b) => k \notin FirstOnes
    BY DEF FirstOnes, ValidOnes
  <2>4. Refused(b, acc.members) <=> ~ WellFormed(b) \/ b.member \in acc.members
    BY <1>1, WellFormedCounted
  <2> QED BY <2>1, <2>2, <2>3, <2>4
<1>4. CASE k \notin FirstOnes
  <2>1. UpTo(k) = UpTo(k - 1) /\ \A x : For(x, k) = For(x, k - 1)
    BY <1>1, <1>4 DEF UpTo, For
  <2>2. Count(acc, b) = [acc EXCEPT !.rejected = @ + 1]
    BY <1>3, <1>4 DEF Count
  <2>3. /\ Count(acc, b).members = acc.members /\ Count(acc, b).counts = acc.counts
        /\ Count(acc, b).rejected = acc.rejected + 1 /\ acc.rejected \in Nat
    BY <2>2 DEF Tallies
  <2> QED BY <1>1, <1>2, <2>1, <2>3 DEF CountsFirst
<1>5. CASE k \in FirstOnes
  <2>1. UpTo(k) = UpTo(k - 1) \cup {k} /\ k \notin UpTo(k - 1)
    BY <1>1, <1>5 DEF UpTo
  <2>2. \A x : For(x, k) = IF x \in Range(b.approved) THEN For(x, k - 1) \cup {k} ELSE For(x, k - 1)
    BY <2>1 DEF For
  <2>3. /\ Count(acc, b).members = acc.members \cup {b.member} /\ Count(acc, b).rejected = acc.rejected
        /\ Count(acc, b).counts = [x \in Candidates |-> acc.counts[x] + (IF x \in Range(b.approved) THEN 1 ELSE 0)]
        /\ acc.rejected \in Nat
    BY <1>3, <1>5 DEF Count, Tallies
  <2>4. Count(acc, b).members = {cast[i].member : i \in UpTo(k)}
    BY <2>1, <2>3 DEF CountsFirst
  <2>5. Cardinality(UpTo(k)) = Cardinality(UpTo(k - 1)) + 1
    BY <1>2, <2>1, FS_AddElement
  <2>6. ASSUME NEW x \in Candidates PROVE Count(acc, b).counts[x] = Cardinality(For(x, k))
    <3>1. k \notin For(x, k - 1)
      BY <2>1 DEF For
    <3>2. Cardinality(For(x, k - 1) \cup {k}) = Cardinality(For(x, k - 1)) + 1
      BY <1>2, <3>1, FS_AddElement
    <3>3. acc.counts[x] = Cardinality(For(x, k - 1))
      BY DEF CountsFirst
    <3>4. CASE x \in Range(b.approved)
      BY <2>2, <2>3, <3>2, <3>3, <3>4
    <3>5. CASE x \notin Range(b.approved)
      BY <1>2, <2>2, <2>3, <3>3, <3>5
    <3> QED BY <3>4, <3>5
  <2>7. acc.rejected + Cardinality(UpTo(k - 1)) = k - 1
    BY DEF CountsFirst
  <2>8. Count(acc, b).rejected + Cardinality(UpTo(k)) = k
    BY <1>1, <1>2, <2>3, <2>5, <2>7
  <2> QED BY <2>4, <2>6, <2>8 DEF CountsFirst
<1> QED BY <1>4, <1>5

\* So the loop over all ballots has counted the first valid one of every member.
LEMMA TallyCountsFirst ==
  ASSUME FieldsAssumption, cast \in Seq(Ballots)
  PROVE  FirstValidCounts
<1>1. PICK h : /\ h[0] = NothingCounted
               /\ \A k \in 0..Len(cast) : h[k] \in Tallies
               /\ \A k \in 1..Len(cast) : h[k] = Count(h[k - 1], cast[k])
               /\ h[Len(cast)] = Tally
  BY TallySteps
<1> DEFINE T == {k \in Nat : k <= Len(cast) => CountsFirst(h[k], k)}
<1>2. Len(cast) \in Nat /\ DOMAIN cast = 1..Len(cast)
  OBVIOUS
<1>3. 0 \in T
  <2>1. UpTo(0) = {} /\ \A x : For(x, 0) = {}
    BY <1>2 DEF UpTo, For, FirstOnes, ValidOnes
  <2>2. CountsFirst(NothingCounted, 0)
    <3>1. Cardinality({}) = 0 /\ 0 + 0 = 0
      BY FS_EmptySet
    <3> QED BY <2>1, <3>1 DEF CountsFirst, NothingCounted
  <2> QED BY <1>1, <2>2
<1>4. ASSUME NEW k \in Nat, k \in T PROVE k + 1 \in T
  <2>1. CASE k + 1 <= Len(cast)
    <3>1. k + 1 \in 1..Len(cast) /\ (k + 1) - 1 = k /\ k \in 0..Len(cast) /\ k <= Len(cast)
      BY <1>2, <2>1
    <3>2. h[k] \in Tallies /\ h[k + 1] = Count(h[k], cast[k + 1]) /\ CountsFirst(h[k], (k + 1) - 1)
      BY <1>1, <1>4, <3>1
    <3>3. CountsFirst(h[k + 1], k + 1)
      BY <1>2, <3>1, <3>2, NextCounted
    <3> QED BY <3>3
  <2> QED BY <2>1
<1>5. Nat \subseteq T
  <2> HIDE DEF T
  <2> QED BY <1>3, <1>4, CountUp
<1>6. CountsFirst(Tally, Len(cast))
  BY <1>1, <1>2, <1>5
<1>7. UpTo(Len(cast)) = FirstOnes /\ \A x : For(x, Len(cast)) = {i \in FirstOnes : x \in Range(cast[i].approved)}
  BY <1>2 DEF UpTo, For, FirstOnes, ValidOnes
<1> DEFINE given == [x \in Candidates |-> Cardinality({i \in FirstOnes : x \in Range(cast[i].approved)})]
<1>8. Tally \in Tallies
  BY <1>1, <1>2
<1>9. Tally.counts = given
  BY <1>6, <1>7, <1>8 DEF CountsFirst, Tallies
<1>10. \A x \in Candidates : given[x] \in Nat /\ given[x] <= Len(cast)
  <2>1. \A x : {i \in FirstOnes : x \in Range(cast[i].approved)} \in SUBSET (1..Len(cast))
    BY <1>2 DEF FirstOnes, ValidOnes
  <2> QED BY <1>2, <2>1, IntervalSize
<1>11. WinnerOf(given) = {x \in Candidates : given[x] > 0 /\ \A y \in Candidates \ {x} : given[y] < given[x]}
  <2>1. given \in [Candidates -> Nat]
    BY <1>10
  <2> HIDE DEF given
  <2> QED BY <1>2, <1>10, <2>1, WinnerLeads
<1>12. Tally.members = {cast[i].member : i \in FirstOnes} /\ Tally.rejected + Cardinality(FirstOnes) = Len(cast)
  BY <1>6, <1>7 DEF CountsFirst
<1> QED BY <1>9, <1>11, <1>12 DEF FirstValidCounts, FirstOnes, ValidOnes

\* Ballots come one at a time.
LEMMA BallotsInOrder == FeedbackSpec => [](cast \in Seq(Ballots))
<1>1. FeedbackInit => cast \in Seq(Ballots)
  BY DEF FeedbackInit
<1>2. cast \in Seq(Ballots) /\ [FeedbackNext]_feedbackVars => (cast \in Seq(Ballots))'
  <2> SUFFICES ASSUME cast \in Seq(Ballots), [FeedbackNext]_feedbackVars PROVE cast' \in Seq(Ballots)
    OBVIOUS
  <2>1. ASSUME NEW b \in Ballots, Collect(b) PROVE cast' \in Seq(Ballots)
    BY <2>1 DEF Collect
  <2>2. ASSUME NEW x \in Candidates, NEW fields \in Voted, Decide(x, fields) PROVE cast' \in Seq(Ballots)
    BY <2>2 DEF Decide
  <2>3. ASSUME NEW members \in SUBSET Roster, ChangeBoard(members) PROVE cast' \in Seq(Ballots)
    BY <2>3 DEF ChangeBoard
  <2>4. ASSUME NEW at, NEW id, NEW actor, NEW patch, NEW approvals, Revise(at, id, actor, patch, approvals)
        PROVE  cast' \in Seq(Ballots)
    BY <2>4 DEF Revise
  <2>5. CASE UNCHANGED feedbackVars
    BY <2>5 DEF feedbackVars
  <2> QED BY <2>1, <2>2, <2>3, <2>4, <2>5 DEF FeedbackNext
<1> QED BY <1>1, <1>2, PTL DEF FeedbackSpec

\* tallyVote() counts of every member the first well-formed ballot and nothing
\* else, whatever was refused before it and sent after it, and names a winner exactly if
\* one candidate has more approvals than each of the others.
THEOREM FirstBallotsCount == FeedbackSpec => []FirstValidCounts
<1>1. cast \in Seq(Ballots) => FirstValidCounts
  BY TallyCountsFirst, FieldsAssumption
<1> QED BY <1>1, BallotsInOrder, PTL

-----------------------------------------------------------------------------
(***************************************************************************)
(* The tools that only ask, for any turns, accounts, backends and changes  *)
(* of the backend during a call.                                           *)
(***************************************************************************)

\* A role that was established during the call of turn t.
Established(t, role) == \E w \in span[t] : role \in w.standing[Me(t)]

\* What a call has established before it asks for a step.
Cleared(t, step) ==
  /\ call[t].tool \in {"funds", "candidates"} =>
       "board" \in ScopeOf[t] /\ (step # "identity" => Established(t, "director"))
  /\ call[t].tool = "resolve" =>
       /\ ScopeOf[t] \in SUBSET {"proposal", "board"} /\ ScopeOf[t] # {}
       /\ step # "identity" => Established(t, Needed(t))
  /\ step = "catalog" => call[t].tool \in {"search", "get"}

\* What was heard is what the backend would have said in the state w, read without
\* the parts lacks of it.
HeardOf(t, w, lacks) ==
  /\ lacks \in SUBSET Parts(t, Response(t, w)) /\ lacks \subseteq missing[t]
  /\ call[t].seen = ReadAs(t, Response(t, w), lacks)
  /\ call[t].step = "identity" => missing[t] = lacks
  /\ "figure" \in missing[t] => "figure" \in lacks

\* ... at some moment of the call.
HeardTrue(t) == call[t].seen = Nothing \/ \E w \in span[t] : \E lacks \in SUBSET missing[t] : HeardOf(t, w, lacks)

\* What a call may have missed before it asks for a step.
Missed(t, step) == "figure" \notin missing[t] /\ (step = "identity" => missing[t] = {})

\* The role an answer of the tool needs.
RoleFor(t) ==
  CASE call[t].tool \in {"search", "get"} -> "member"
    [] call[t].tool = "resolve"           -> Needed(t)
    [] OTHER                              -> "director"

Allowed(t) ==
  /\ Established(t, RoleFor(t))
  /\ RoleFor(t) = "director" => "board" \in ScopeOf[t]
  /\ RoleFor(t) = "contributor" => "proposal" \in ScopeOf[t]

\* What an answer of that kind and value says of the backend, for the call of turn t.
Says(t, kind, value, w) ==
  LET standing == w.standing[Me(t)]
      lacked == missing[t]
  IN CASE kind = "standing"        -> value = standing \ lacked
       [] kind = "not_linked"      -> standing = {} \/ "contact" \in lacked
       [] kind = "not_director"    -> "director" \notin standing \ lacked
       [] kind = "not_contributor" -> "contributor" \notin standing \ lacked
       [] kind = "held"            -> CASE call[t].tool = "get" -> value = {call[t].arg} \cap w.held
                                        [] "figure" \in lacked  -> value = Blank /\ w.held # {}
                                        [] OTHER                -> value = w.held
       [] kind = "not_configured"  -> /\ w.types = value
                                      /\ IF call[t].tool = "candidates" THEN call[t].arg \notin value
                                         ELSE ~ (Matches(call[t].arg) \subseteq value)
       [] kind = "unmapped"        -> w.types = value
       [] kind = "resolved"        -> value \subseteq w.types
       [] kind = "session"         -> w.session[Me(t)] = value
       [] OTHER                    -> TRUE

Shown == {"held", "not_configured", "unmapped", "resolved", "ambiguous"}
Fresh == {"standing", "held", "resolved", "unmapped"}

Truthful(t) ==
  /\ \E w \in span[t] : Says(t, call[t].kind, call[t].value, w)
  /\ call[t].kind \in Shown => Allowed(t)
  /\ call[t].kind \in Fresh => call[t].current

Active(t) == call[t].pc \in {"minting", "asking", "heard"}

CallSound(t) ==
  /\ span[t] \subseteq World
  /\ call[t].pc \in {"idle", "minting", "asking", "heard", "answered"}
  /\ Active(t) => world \in span[t] /\ call[t].tool \in Tools
  /\ call[t].pc = "minting" => missing[t] = {}
  /\ call[t].pc \in {"asking", "heard"} => Cleared(t, call[t].step)
  /\ call[t].pc = "asking" => Missed(t, call[t].step)
  /\ call[t].pc = "heard" => HeardTrue(t)
  /\ call[t].pc = "answered" => Truthful(t)

ChatInv ==
  /\ desk \in Desks /\ world \in World
  /\ call = [t \in Turns |-> call[t]] /\ span = [t \in Turns |-> span[t]] /\ missing = [t \in Turns |-> missing[t]]
  /\ \A t \in Turns : CallSound(t)

\* A role established and a thing said stay so, as the span of a call only grows.
LEMMA OtherCall ==
  ASSUME NEW t \in Turns, CallSound(t), call'[t] = call[t], span[t] \subseteq span'[t], span'[t] \subseteq World,
         missing'[t] = missing[t], Active(t) => world' \in span'[t]
  PROVE  CallSound(t)'
<1>1. ASSUME NEW role, Established(t, role) PROVE Established(t, role)'
  BY <1>1 DEF Established, Me
<1>2. ASSUME NEW step, Cleared(t, step) PROVE Cleared(t, step)'
  BY <1>1, <1>2 DEF Cleared, Needed
<1>3. HeardTrue(t) => HeardTrue(t)'
  <2>1. ASSUME NEW w, NEW lacks PROVE HeardOf(t, w, lacks) => HeardOf(t, w, lacks)'
    BY DEF HeardOf, Response, Parts, ReadAs, ReadInPart, Step, Me
  <2> QED BY <2>1 DEF HeardTrue
<1>4. Allowed(t) => Allowed(t)'
  <2>1. RoleFor(t)' = RoleFor(t)
    BY DEF RoleFor, Needed
  <2> QED BY <1>1, <2>1 DEF Allowed
<1>5. Truthful(t) => Truthful(t)'
  <2>1. \A w \in span[t] : Says(t, call[t].kind, call[t].value, w)' <=> Says(t, call[t].kind, call[t].value, w)
    BY DEF Says, Me
  <2> QED BY <1>4, <2>1 DEF Truthful
<1> QED BY <1>2, <1>3, <1>5 DEF CallSound, Active, Missed

\* An answer that says something true, to whom it may be shown.
LEMMA ToolTells ==
  ASSUME ChatInv, NEW t \in Turns, NEW kind, NEW value, Active(t), Tells(t, kind, value),
         UNCHANGED <<desk, world, span, missing>>, \E w \in span[t] : Says(t, kind, value, w),
         kind \in Shown => Allowed(t), kind \in Fresh => Current(t)
  PROVE  ChatInv'
<1>1. /\ call'[t] = [pc |-> "answered", tool |-> call[t].tool, arg |-> call[t].arg, kind |-> kind, value |-> value,
                     current |-> Current(t)]
      /\ call' = [u \in Turns |-> call'[u]] /\ \A u \in Turns \ {t} : call'[u] = call[u]
  BY DEF ChatInv, Tells
<1>2. CallSound(t)'
  <2>1. PICK w \in span[t] : Says(t, kind, value, w)
    OBVIOUS
  <2>2. Says(t, call[t].kind, call[t].value, w)'
    BY <1>1, <2>1 DEF Says, Me
  <2>3. Allowed(t) => Allowed(t)'
    BY <1>1 DEF Allowed, RoleFor, Established, Needed, Me
  <2>4. Truthful(t)'
    BY <1>1, <2>1, <2>2, <2>3 DEF Truthful
  <2> QED BY <1>1, <2>4 DEF CallSound, Active, ChatInv
<1>3. ASSUME NEW u \in Turns \ {t} PROVE CallSound(u)'
  BY <1>1, OtherCall DEF ChatInv, CallSound, Active
<1> QED BY <1>1, <1>2, <1>3 DEF ChatInv

\* An error says nothing.
LEMMA ToolErrs ==
  ASSUME ChatInv, NEW t \in Turns, Active(t), Errs(t), UNCHANGED <<desk, world, span, missing>>
  PROVE  ChatInv'
<1>1. \E w \in span[t] : Says(t, "error", Nothing, w)
  BY DEF ChatInv, CallSound, Says
<1> QED BY <1>1, ToolTells DEF Errs, Shown, Fresh

LEMMA ToolTellsIfCurrent ==
  ASSUME ChatInv, NEW t \in Turns, NEW kind, NEW value, Active(t), TellsIfCurrent(t, kind, value),
         UNCHANGED <<desk, world, span, missing>>, \E w \in span[t] : Says(t, kind, value, w),
         kind \in Shown => Allowed(t)
  PROVE  ChatInv'
BY ToolTells, ToolErrs DEF TellsIfCurrent

LEMMA ToolAsks ==
  ASSUME ChatInv, NEW t \in Turns, NEW step, Active(t), AsksFor(t, step), Cleared(t, step), Missed(t, step),
         UNCHANGED <<desk, world, span, missing>>
  PROVE  ChatInv'
<1>1. /\ call'[t] = [pc |-> "asking", tool |-> call[t].tool, arg |-> call[t].arg, step |-> step]
      /\ call' = [u \in Turns |-> call'[u]] /\ \A u \in Turns \ {t} : call'[u] = call[u]
  BY DEF ChatInv, AsksFor
<1>2. CallSound(t)'
  <2>1. Cleared(t, step)'
    BY <1>1 DEF Cleared, Established, Needed, Me
  <2>2. Cleared(t, call[t].step)'
    BY <1>1, <2>1 DEF Cleared, Established, Needed, Me
  <2>3. Missed(t, call[t].step)'
    BY <1>1 DEF Missed
  <2> QED BY <1>1, <2>2, <2>3 DEF CallSound, Active, ChatInv
<1>3. ASSUME NEW u \in Turns \ {t} PROVE CallSound(u)'
  BY <1>1, OtherCall DEF ChatInv, CallSound, Active
<1> QED BY <1>1, <1>2, <1>3 DEF ChatInv


\* What a call that hears an answer knows of it.
LEMMA HeardFacts ==
  ASSUME ChatInv, NEW t \in Turns, call[t].pc = "heard", Seen(t) # Nothing
  PROVE  /\ Active(t) /\ Cleared(t, call[t].step) /\ call[t].tool \in Tools
         /\ \E w \in span[t] : w \in World /\ \E lacks \in SUBSET missing[t] : HeardOf(t, w, lacks)
BY DEF ChatInv, CallSound, Active, HeardTrue, Seen

\* What the member record is read as: the standing but for the parts it lacked.
LEMMA StandingSeen ==
  ASSUME ChatInv, NEW t \in Turns, call[t].pc = "heard", Seen(t) # Nothing, call[t].step = "identity"
  PROVE  /\ "figure" \notin missing[t]
         /\ \E w \in span[t] : /\ RolesSeen(t) = w.standing[Me(t)] \ missing[t]
                               /\ HasContact(t) \/ w.standing[Me(t)] = {} \/ "contact" \in missing[t]
<1>1. PICK w \in span[t], lacks \in SUBSET missing[t] : w \in World /\ HeardOf(t, w, lacks)
  BY HeardFacts
<1> DEFINE standing == w.standing[Me(t)]
<1>2. standing \in Standings /\ standing \subseteq Roles /\ (standing # {} => "member" \in standing)
  BY <1>1 DEF World, Me, Accounts, Standings
<1>3. Response(t, w) = standing /\ missing[t] = lacks
  BY <1>1 DEF HeardOf, Response, Step
<1>4. lacks \subseteq (standing \ {"member"}) \cup {"contact"}
  BY <1>1, <1>3 DEF HeardOf, Parts, Step
<1>5. "figure" \notin lacks /\ "unnamed" \notin standing
  BY <1>2, <1>4 DEF Roles
<1>6. Seen(t) = IF "contact" \in lacks THEN (standing \ lacks) \cup {"unnamed"} ELSE standing \ lacks
  BY <1>1, <1>3, <1>5 DEF HeardOf, ReadAs, ReadInPart, Seen
<1>7. RolesSeen(t) = standing \ lacks
  BY <1>5, <1>6 DEF RolesSeen
<1>8. HasContact(t) \/ standing = {} \/ "contact" \in lacks
  BY <1>2, <1>4, <1>5, <1>6 DEF HasContact
<1> QED BY <1>3, <1>5, <1>7, <1>8

\* What a list or the figure of the funds is read as.
LEMMA ListSeen ==
  ASSUME ChatInv, NEW t \in Turns, call[t].pc = "heard", Seen(t) # Nothing
  PROVE  /\ call[t].step = "types" => "figure" \notin missing[t] /\ \E w \in span[t] : Seen(t) = w.types
         /\ call[t].step = "held" =>
              \E w \in span[t] : IF "figure" \in missing[t] THEN Seen(t) = Blank /\ w.held # {} ELSE Seen(t) = w.held
<1>1. PICK w \in span[t], lacks \in SUBSET missing[t] : w \in World /\ HeardOf(t, w, lacks)
  BY HeardFacts
<1>2. CASE call[t].step = "types"
  <2>1. Response(t, w) = w.types /\ lacks = {}
    BY <1>1, <1>2 DEF HeardOf, Response, Parts, Step
  <2> QED BY <1>1, <1>2, <2>1 DEF HeardOf, ReadAs, Seen
<1>3. CASE call[t].step = "held"
  <2>1. Response(t, w) = w.held
    BY <1>3 DEF Response, Step
  <2>2. lacks \subseteq {"figure"} /\ (lacks # {} => w.held # {})
    BY <1>1, <1>3, <2>1 DEF HeardOf, Parts, Step
  <2>3. "figure" \in missing[t] <=> lacks = {"figure"}
    BY <1>1, <2>2 DEF HeardOf
  <2> QED BY <1>1, <1>3, <2>1, <2>2, <2>3 DEF HeardOf, ReadAs, ReadInPart, Seen
<1> QED BY <1>2, <1>3

\* The catalog and the sessions are read whole.
LEMMA WholeSeen ==
  ASSUME ChatInv, NEW t \in Turns, call[t].pc = "heard", Seen(t) # Nothing, call[t].step \notin {"identity", "held"}
  PROVE  "figure" \notin missing[t] /\ \E w \in span[t] : w \in World /\ Seen(t) = Response(t, w)
<1>1. PICK w \in span[t], lacks \in SUBSET missing[t] : w \in World /\ HeardOf(t, w, lacks)
  BY HeardFacts
<1>2. lacks = {}
  BY <1>1 DEF HeardOf, Parts, Step
<1> QED BY <1>1, <1>2 DEF HeardOf, ReadAs, Seen

LEMMA HearsFacts ==
  ASSUME NEW t \in Turns, NEW tool, NEW step, Hears(t, tool, step)
  PROVE  /\ call[t].pc = "heard" /\ call[t].tool = tool /\ call[t].step = step
         /\ Seen(t) # Nothing /\ Active(t)
BY DEF Hears, Step, Active

LEMMA StatusChat ==
  ASSUME ChatInv, NEW t \in Turns, MemberStatus(t), UNCHANGED <<desk, world, span, missing>>
  PROVE  ChatInv'
<1>1. Hears(t, "status", "identity") /\ TellsIfCurrent(t, "standing", RolesSeen(t))
  BY DEF MemberStatus
<1>2. \E w \in span[t] : Says(t, "standing", RolesSeen(t), w)
  BY <1>1, HearsFacts, StandingSeen DEF Says
<1> QED BY <1>1, <1>2, HearsFacts, ToolTellsIfCurrent DEF Shown

\* The Board's figures, pool and types are asked for by a director, and shown to one.
LEMMA BoardAnswers ==
  ASSUME ChatInv, NEW t \in Turns, call[t].tool \in {"funds", "candidates"}, call[t].pc = "heard",
         call[t].step # "identity"
  PROVE  Allowed(t) /\ Cleared(t, "held")
<1>1. Cleared(t, call[t].step)
  BY DEF ChatInv, CallSound
<1>2. RoleFor(t) = "director"
  BY DEF RoleFor
<1> QED BY <1>1, <1>2 DEF Cleared, Allowed

LEMMA DirectorsOnly ==
  ASSUME ChatInv, NEW t \in Turns, NEW tool \in {"funds", "candidates"}, NEW next, next \notin {"catalog", "identity"},
         Hears(t, tool, "identity"), ForDirectors(t, next), UNCHANGED <<desk, world, span, missing>>
  PROVE  ChatInv'
<1>1. Active(t) /\ call[t].tool = tool /\ call[t].pc = "heard" /\ call[t].step = "identity" /\ Seen(t) # Nothing
  BY HearsFacts
<1>2. PICK w \in span[t] : RolesSeen(t) = w.standing[Me(t)] \ missing[t]
  BY <1>1, StandingSeen
<1>3. CASE "director" \in Seen(t)
  <2>1. AsksFor(t, next)
    BY <1>3 DEF ForDirectors
  <2>2. Cleared(t, call[t].step) /\ Established(t, "director")
    BY <1>1, <1>2, <1>3 DEF ChatInv, CallSound, Established, RolesSeen
  <2>3. Cleared(t, next)
    BY <1>1, <2>2 DEF Cleared
  <2>4. Missed(t, next)
    BY <1>1, StandingSeen DEF Missed
  <2> QED BY <1>1, <2>1, <2>3, <2>4, ToolAsks
<1>4. CASE "director" \notin Seen(t)
  <2>1. Tells(t, "not_director", Nothing)
    BY <1>4 DEF ForDirectors
  <2>2. Says(t, "not_director", Nothing, w)
    BY <1>2, <1>4 DEF Says, RolesSeen
  <2> QED BY <1>1, <2>1, <2>2, ToolTells DEF Shown, Fresh
<1> QED BY <1>3, <1>4

LEMMA HeldTold ==
  ASSUME ChatInv, NEW t \in Turns, NEW tool \in {"funds", "candidates"}, Hears(t, tool, "held"),
         TellsIfCurrent(t, "held", Seen(t)), UNCHANGED <<desk, world, span, missing>>
  PROVE  ChatInv'
<1>1. Active(t) /\ call[t].tool = tool /\ call[t].pc = "heard" /\ call[t].step = "held" /\ Seen(t) # Nothing
  BY HearsFacts
<1>2. \E w \in span[t] : Says(t, "held", Seen(t), w)
  BY <1>1, ListSeen DEF Says
<1>3. Allowed(t)
  BY <1>1, BoardAnswers
<1> QED BY <1>1, <1>2, <1>3, ToolTellsIfCurrent

LEMMA FundsChat ==
  ASSUME ChatInv, NEW t \in Turns, Funds(t), UNCHANGED <<desk, world, span, missing>>
  PROVE  ChatInv'
BY DirectorsOnly, HeldTold DEF Funds

LEMMA CandidatesChat ==
  ASSUME ChatInv, NEW t \in Turns, PollCandidates(t), UNCHANGED <<desk, world, span, missing>>
  PROVE  ChatInv'
<1>1. ASSUME Hears(t, "candidates", "types"), ForConfigured(t) PROVE ChatInv'
  <2>1. Active(t) /\ call[t].tool = "candidates" /\ call[t].pc = "heard" /\ call[t].step = "types" /\ Seen(t) # Nothing
    BY <1>1, HearsFacts
  <2>2. Allowed(t) /\ Cleared(t, "held")
    BY <2>1, BoardAnswers
  <2>3. CASE call[t].arg \in Seen(t)
    <3>1. Missed(t, "held")
      BY <2>1, ListSeen DEF Missed
    <3> QED BY <1>1, <2>1, <2>2, <2>3, <3>1, ToolAsks DEF ForConfigured
  <2>4. CASE call[t].arg \notin Seen(t)
    <3>1. Tells(t, "not_configured", Seen(t))
      BY <1>1, <2>4 DEF ForConfigured
    <3>2. \E w \in span[t] : Says(t, "not_configured", Seen(t), w)
      BY <2>1, <2>4, ListSeen DEF Says
    <3> QED BY <2>1, <2>2, <3>1, <3>2, ToolTells DEF Fresh
  <2> QED BY <2>3, <2>4
<1> QED BY <1>1, DirectorsOnly, HeldTold DEF PollCandidates


\* The type a phrase means is told to whom the channel is for.
LEMMA ResolveAnswers ==
  ASSUME ChatInv, NEW t \in Turns, call[t].tool = "resolve", call[t].pc = "heard",
         call[t].step # "identity" \/ Established(t, Needed(t))
  PROVE  Allowed(t) /\ Cleared(t, "types")
<1>1. Cleared(t, call[t].step)
  BY DEF ChatInv, CallSound
<1>2. /\ ScopeOf[t] \in SUBSET {"proposal", "board"} /\ ScopeOf[t] # {}
      /\ Established(t, Needed(t))
  BY <1>1 DEF Cleared
<1>3. RoleFor(t) = Needed(t) /\ call[t].tool \notin {"funds", "candidates"}
  BY DEF RoleFor
<1>4. /\ Needed(t) = "director" => "board" \in ScopeOf[t]
      /\ Needed(t) = "contributor" => "proposal" \in ScopeOf[t]
  BY <1>2 DEF Needed
<1> QED BY <1>2, <1>3, <1>4 DEF Allowed, Cleared

LEMMA ResolveChat ==
  ASSUME ChatInv, NEW t \in Turns, Resolve(t), UNCHANGED <<desk, world, span, missing>>
  PROVE  ChatInv'
<1>0. Hears(t, "resolve", "identity") \/ Hears(t, "resolve", "types")
  BY DEF Resolve
<1>1. call[t].pc = "heard" /\ Active(t) /\ call[t].tool = "resolve" /\ Seen(t) # Nothing
      /\ call[t].step \in {"identity", "types"}
  BY <1>0, HearsFacts
<1> DEFINE found == Matches(call[t].arg)
           seen == Seen(t)
<1>2. CASE call[t].step = "identity"
  <2>0. PICK w \in span[t] : /\ RolesSeen(t) = w.standing[Me(t)] \ missing[t]
                             /\ HasContact(t) \/ w.standing[Me(t)] = {} \/ "contact" \in missing[t]
    BY <1>1, <1>2, StandingSeen
  <2>1. ~ Hears(t, "resolve", "types")
    BY <1>2, HearsFacts
  <2>2. CASE ~ HasContact(t) /\ Tells(t, "not_linked", Nothing)
    <3>1. Says(t, "not_linked", Nothing, w)
      BY <2>0, <2>2 DEF Says
    <3> QED BY <1>1, <2>2, <3>1, ToolTells DEF Shown, Fresh
  <2>3. CASE /\ Needed(t) \notin seen
             /\ Tells(t, IF Needed(t) = "director" THEN "not_director" ELSE "not_contributor", Nothing)
    <3>1. PICK kind : kind = IF Needed(t) = "director" THEN "not_director" ELSE "not_contributor"
      OBVIOUS
    <3>2. Needed(t) \in {"director", "contributor"}
      BY DEF Needed
    <3>3. Says(t, kind, Nothing, w)
      <4>1. Needed(t) \notin RolesSeen(t)
        BY <2>3 DEF RolesSeen
      <4>2. Needed(t) \notin w.standing[Me(t)] \ missing[t]
        BY <2>0, <4>1
      <4> QED BY <3>1, <3>2, <4>2 DEF Says
    <3>4. kind \notin Shown /\ kind \notin Fresh
      BY <3>1 DEF Shown, Fresh
    <3>5. Tells(t, kind, Nothing)
      BY <2>3, <3>1
    <3> QED BY <1>1, <3>3, <3>4, <3>5, ToolTells
  <2>4. CASE /\ Needed(t) \in seen
             /\ TellsIfCurrent(t, "ambiguous", found) \/ AsksFor(t, "types")
    <3>0. Needed(t) \in RolesSeen(t)
      BY <2>4 DEF RolesSeen, Needed
    <3>1. Allowed(t) /\ Cleared(t, "types")
      <4>1. Needed(t) \in w.standing[Me(t)]
        BY <2>0, <3>0
      <4> QED BY <1>1, <4>1, ResolveAnswers DEF Established
    <3>2. Says(t, "ambiguous", found, w)
      BY DEF Says
    <3>3. Missed(t, "types")
      BY <1>1, <1>2, StandingSeen DEF Missed
    <3> QED BY <1>1, <2>4, <3>1, <3>2, <3>3, ToolTellsIfCurrent, ToolAsks
  <2> QED BY <2>1, <2>2, <2>3, <2>4 DEF Resolve
<1>3. CASE call[t].step = "types"
  <2>0. PICK w \in span[t] : seen = w.types
    BY <1>1, <1>3, ListSeen
  <2>1. ~ Hears(t, "resolve", "identity")
    BY <1>3, HearsFacts
  <2>2. Allowed(t)
    BY <1>1, <1>3, ResolveAnswers
  <2>3. CASE found = {}
    <3>1. TellsIfCurrent(t, "unmapped", seen)
      BY <2>1, <2>3 DEF Resolve
    <3>2. Says(t, "unmapped", seen, w)
      BY <2>0 DEF Says
    <3> QED BY <1>1, <2>2, <3>1, <3>2, ToolTellsIfCurrent
  <2>4. CASE found # {} /\ ~ (found \subseteq seen)
    <3>1. Tells(t, "not_configured", seen)
      BY <2>1, <2>4 DEF Resolve
    <3>2. Says(t, "not_configured", seen, w)
      BY <1>1, <2>0, <2>4 DEF Says
    <3> QED BY <1>1, <2>2, <3>1, <3>2, ToolTells DEF Fresh
  <2>5. CASE found # {} /\ found \subseteq seen
    <3>1. TellsIfCurrent(t, "resolved", found)
      BY <2>1, <2>5 DEF Resolve
    <3>2. Says(t, "resolved", found, w)
      BY <2>0, <2>5 DEF Says
    <3> QED BY <1>1, <2>2, <3>1, <3>2, ToolTellsIfCurrent
  <2> QED BY <2>3, <2>4, <2>5
<1> QED BY <1>1, <1>2, <1>3

\* The catalog is listed for whoever is linked, and then a member.
LEMMA CommunityChat ==
  ASSUME ChatInv, ConstantsAssumption, NEW t \in Turns, Community(t), UNCHANGED <<desk, world, span, missing>>
  PROVE  ChatInv'
<1> DEFINE seen == Seen(t)
           me == Me(t)
<1>1. /\ call[t].pc = "heard" /\ Active(t) /\ call[t].step = "catalog"
      /\ call[t].tool \in {"search", "get"} /\ seen # Nothing
  BY DEF Community, HearsCatalog, Step, Active, ChatInv, CallSound, Cleared
<1>2. "figure" \notin missing[t] /\ \E w \in span[t] : w \in World /\ seen = Response(t, w)
  BY <1>1, WholeSeen
<1>7. PICK w \in span[t] : w \in World /\ seen = Response(t, w)
  BY <1>2
<1>3. seen = IF w.standing[me] = {} THEN Denied ELSE IF call[t].tool = "get" THEN {call[t].arg} \cap w.held ELSE w.held
  BY <1>1, <1>7 DEF Response, Step
<1>4. w.standing[me] \in Standings /\ w.held \subseteq Items
  BY <1>7 DEF World, Me, Accounts
<1>5. CASE seen = Denied
  <2>1. TellsIfCurrent(t, "not_linked", Nothing)
    BY <1>5 DEF Community
  <2>2. w.standing[me] = {}
    BY <1>3, <1>4, <1>5 DEF ConstantsAssumption
  <2>3. Says(t, "not_linked", Nothing, w)
    BY <2>2 DEF Says
  <2> QED BY <1>1, <2>1, <2>3, ToolTellsIfCurrent DEF Shown
<1>6. CASE seen # Denied
  <2>1. TellsIfCurrent(t, "held", seen)
    BY <1>6 DEF Community
  <2>2. w.standing[me] # {} /\ "member" \in w.standing[me]
    BY <1>3, <1>4, <1>6 DEF Standings
  <2>3. Allowed(t)
    BY <1>1, <2>2 DEF Allowed, RoleFor, Established
  <2>4. Says(t, "held", seen, w)
    BY <1>2, <1>3, <2>2 DEF Says
  <2> QED BY <1>1, <2>1, <2>3, <2>4, ToolTellsIfCurrent
<1> QED BY <1>5, <1>6

\* What a binding tool tells of the session is what the backend said of it.
LEMMA BindChat ==
  ASSUME ChatInv, NEW t \in Turns, NEW tool \in Binding, Hears(t, tool, tool),
         \/ Errs(t)
         \/ Tells(t, "session", Seen(t)) /\ (tool = "bind_complete" => Seen(t) # Denied),
         UNCHANGED <<desk, world, span, missing>>
  PROVE  ChatInv'
<1>1. Active(t) /\ call[t].pc = "heard" /\ call[t].step = tool /\ Seen(t) # Nothing
  BY HearsFacts
<1>2. CASE Errs(t)
  BY <1>1, <1>2, ToolErrs
<1>3. CASE Tells(t, "session", Seen(t)) /\ (tool = "bind_complete" => Seen(t) # Denied)
  <2>1. PICK w \in span[t] : Seen(t) = Response(t, w)
    BY <1>1, WholeSeen DEF Binding
  <2>2. Seen(t) = w.session[Me(t)]
    BY <1>1, <1>3, <2>1 DEF Response, Step, Binding
  <2>3. Says(t, "session", Seen(t), w)
    BY <2>2 DEF Says
  <2> QED BY <1>1, <1>3, <2>3, ToolTells DEF Shown, Fresh
<1> QED BY <1>2, <1>3

LEMMA DecideChat ==
  ASSUME ChatInv, ConstantsAssumption, NEW t \in Turns, Proceed(t)
  PROVE  ChatInv'
<1>1. UNCHANGED <<desk, world, span, missing>>
  BY DEF Proceed
<1>2. Unanswered(t) => ChatInv'
  BY <1>1, ToolErrs DEF Unanswered, Active
<1>3. BindStart(t) => ChatInv'
  BY <1>1, BindChat DEF BindStart, Binding
<1>4. BindComplete(t) => ChatInv'
  BY <1>1, BindChat DEF BindComplete, Binding
<1>5. BindStatus(t) => ChatInv'
  BY <1>1, BindChat DEF BindStatus, Binding
<1> QED BY <1>1, <1>2, <1>3, <1>4, <1>5, StatusChat, FundsChat, CandidatesChat, ResolveChat, CommunityChat DEF Proceed


\* The backend stays one: whoever is linked is a member.
LEMMA ServedWorld ==
  ASSUME NEW t \in Turns, NEW w \in World
  PROVE  Served(t, w) \in World
<1> DEFINE a == Me(t)
<1>1. a \in Accounts
  BY DEF Me, Accounts
<1>2. w.session[a] \in Sessions /\ w.standing[a] \in Standings
  BY <1>1 DEF World
<1>3. PICK session \in Sessions :
        session = IF Step(t) \in Binding THEN SessionAfter(Step(t), w.session[a]) ELSE w.session[a]
  BY <1>2 DEF SessionAfter, Sessions
<1>4. PICK standing \in Standings :
        standing = IF session = "completed" /\ w.session[a] # "completed" THEN w.standing[a] \cup {"member"}
                   ELSE w.standing[a]
  BY <1>2 DEF Standings, Roles
<1>5. PICK v : v = [w EXCEPT !.session[a] = session]
  OBVIOUS
<1>6. v \in World /\ v.standing = w.standing
  BY <1>1, <1>5 DEF World
<1>7. Served(t, w) = [v EXCEPT !.standing[a] = standing]
  BY <1>3, <1>4, <1>5, <1>6 DEF Served
<1> QED BY <1>1, <1>6, <1>7 DEF World

LEMMA ChangedWorld ==
  ASSUME ConstantsAssumption, NEW w \in World, NEW v \in ChangedWorlds(w)
  PROVE  v \in World
<1>1. \A w2 \in Worlds : w2 \in World
  BY DEF ConstantsAssumption
<1> DEFINE Known == {w2.standing[b] : w2 \in Worlds, b \in Accounts} \cup {{}}
           Standing == {[w EXCEPT !.standing[a] = s] : a \in Accounts, s \in Known}
           Table == {[w EXCEPT !.types = s] : s \in {w2.types : w2 \in Worlds} \cup {{}}}
           Lists == {[w EXCEPT !.held = s] : s \in {w2.held : w2 \in Worlds} \cup {{}}}
           Moves(a) == {[w EXCEPT !.session[a] = s] : s \in Onward(w.session[a])}
           Moved == UNION {Moves(a) : a \in Accounts}
<1>2. v \in Standing \/ v \in Table \/ v \in Lists \/ v \in Moved
  <2>1. ChangedWorlds(w) = Standing \cup Table \cup Lists \cup Moved
    BY DEF ChangedWorlds
  <2> HIDE DEF Standing, Table, Lists, Moved
  <2> QED BY <2>1
<1>3. Known \subseteq Standings
  BY <1>1 DEF World, Standings
<1>4. CASE v \in Standing
  <2> HIDE DEF Known
  <2>1. PICK a \in Accounts, s \in Known : v = [w EXCEPT !.standing[a] = s]
    BY <1>4
  <2> QED BY <1>3, <2>1 DEF World
<1>5. CASE v \in Table
  BY <1>1, <1>5 DEF World
<1>6. CASE v \in Lists
  BY <1>1, <1>6 DEF World
<1>7. CASE v \in Moved
  <2>1. PICK a \in Accounts : v \in Moves(a)
    BY <1>7
  <2>2. PICK s \in Onward(w.session[a]) : v = [w EXCEPT !.session[a] = s]
    BY <2>1
  <2>3. s \in Sessions
    BY DEF Onward, Sessions
  <2> QED BY <2>2, <2>3 DEF World
<1> HIDE DEF Standing, Table, Lists, Moved
<1> QED BY <1>2, <1>4, <1>5, <1>6, <1>7

LEMMA StartChat ==
  ASSUME ChatInv, ConstantsAssumption, NEW t \in Turns, NEW tool \in desk.tools, NEW arg, Start(t, tool, arg)
  PROVE  ChatInv'
<1>1. /\ call'[t] = [pc |-> "minting", tool |-> tool, arg |-> arg] /\ span'[t] = {world} /\ missing'[t] = {}
      /\ call' = [u \in Turns |-> call'[u]] /\ span' = [u \in Turns |-> span'[u]]
      /\ missing' = [u \in Turns |-> missing'[u]]
      /\ \A u \in Turns \ {t} : call'[u] = call[u] /\ span'[u] = span[u] /\ missing'[u] = missing[u]
      /\ UNCHANGED <<desk, world>>
  BY DEF ChatInv, Start
<1>2. tool \in Tools
  BY DEF ChatInv, ConstantsAssumption
<1>3. CallSound(t)'
  BY <1>1, <1>2 DEF ChatInv, CallSound, Active
<1>4. ASSUME NEW u \in Turns \ {t} PROVE CallSound(u)'
  BY <1>1, OtherCall DEF ChatInv, CallSound
<1> QED BY <1>1, <1>3, <1>4 DEF ChatInv

LEMMA MintChat ==
  ASSUME ChatInv, ConstantsAssumption, NEW t \in Turns, Mint(t)
  PROVE  ChatInv'
<1>1. Active(t) /\ call[t].tool \in Tools /\ UNCHANGED <<desk, world, span, missing>>
  BY DEF Mint, Active, ChatInv, CallSound
<1>2. CASE Errs(t)
  BY <1>1, <1>2, ToolErrs
<1>3. CASE Enrolled(t) /\ InScope(t) /\ AsksFor(t, FirstStep(call[t].tool))
  <2>1. PICK step : step = FirstStep(call[t].tool)
    OBVIOUS
  <2>2. /\ call[t].tool \in {"status", "funds", "candidates", "resolve"} => step = "identity"
        /\ step = "catalog" => call[t].tool \in {"search", "get"}
    BY <1>1, <2>1 DEF FirstStep, Tools, Binding
  <2>3. call[t].tool \in {"funds", "candidates"} => "board" \in ScopeOf[t]
    BY <1>3 DEF InScope
  <2>4. call[t].tool = "resolve" => ScopeOf[t] \in SUBSET {"proposal", "board"} /\ ScopeOf[t] # {}
    BY <1>3 DEF InScope, Enrolled, ConstantsAssumption
  <2>5. Cleared(t, step)
    BY <2>2, <2>3, <2>4 DEF Cleared
  <2>6. Missed(t, step)
    BY DEF Mint, Missed, ChatInv, CallSound
  <2> QED BY <1>1, <1>3, <2>1, <2>5, <2>6, ToolAsks
<1> QED BY <1>2, <1>3 DEF Mint

\* A request is answered of the backend as it is once it served it.
LEMMA AskChat ==
  ASSUME ChatInv, NEW t \in Turns, Ask(t)
  PROVE  ChatInv'
<1>1. PICK seen, lacks :
        /\ call' = [call EXCEPT ![t] = [pc |-> "heard", tool |-> @.tool, arg |-> @.arg, step |-> @.step, seen |-> seen]]
        /\ missing' = [missing EXCEPT ![t] = @ \cup lacks]
        /\ world' \in World
        /\ \/ seen = Nothing
           \/ /\ lacks \in SUBSET Parts(t, Response(t, world'))
              /\ seen = ReadAs(t, Response(t, world'), lacks)
  <2>1. Served(t, world) \in World
    BY ServedWorld DEF ChatInv
  <2>2. Parts(t, Nothing) = {} /\ ReadAs(t, Nothing, {}) = Nothing
    <3>1. Parts(t, Nothing) = {}
      BY DEF Parts
    <3>2. ReadAs(t, Nothing, {}) = Nothing
      BY DEF ReadAs
    <3> QED BY <3>1, <3>2
  <2>3. CASE Heard(t, Nothing, {}) /\ UNCHANGED world
    BY <2>2, <2>3 DEF Heard, ChatInv
  <2>4. CASE /\ world' = Served(t, world)
             /\ \E response \in {Response(t, Served(t, world)), Nothing} :
                  \E lacks \in SUBSET Parts(t, response) : Heard(t, response, lacks)
    <3>1. PICK response \in {Response(t, world'), Nothing} : \E lacks \in SUBSET Parts(t, response) : Heard(t, response, lacks)
      BY <2>4
    <3>2. PICK lacks \in SUBSET Parts(t, response) : Heard(t, response, lacks)
      BY <3>1
    <3>3. CASE response = Nothing
      BY <2>1, <2>2, <2>4, <3>2, <3>3 DEF Heard
    <3>4. CASE response = Response(t, world')
      BY <2>1, <2>4, <3>2, <3>4 DEF Heard
    <3> QED BY <3>3, <3>4
  <2> QED BY <2>3, <2>4 DEF Ask
<1>2. /\ call[t].pc = "asking" /\ Active(t) /\ Missed(t, call[t].step) /\ UNCHANGED desk
      /\ span' = [u \in Turns |-> span[u] \cup IF call[u].pc \in {"idle", "answered"} THEN {} ELSE {world'}]
  BY DEF Ask, Active, ChatInv, CallSound
<1>3. /\ call'[t] = [pc |-> "heard", tool |-> call[t].tool, arg |-> call[t].arg, step |-> call[t].step, seen |-> seen]
      /\ call' = [u \in Turns |-> call'[u]] /\ span' = [u \in Turns |-> span'[u]]
      /\ missing' = [u \in Turns |-> missing'[u]] /\ missing'[t] = missing[t] \cup lacks
      /\ \A u \in Turns \ {t} : call'[u] = call[u] /\ missing'[u] = missing[u]
      /\ \A u \in Turns : span[u] \subseteq span'[u] /\ span'[u] \subseteq World /\ (Active(u) => world' \in span'[u])
  <2>1. /\ call = [u \in Turns |-> call[u]] /\ missing = [u \in Turns |-> missing[u]]
        /\ \A u \in Turns : span[u] \subseteq World
    BY DEF ChatInv, CallSound
  <2>2. /\ call' = [u \in Turns |-> call'[u]] /\ \A u \in Turns \ {t} : call'[u] = call[u]
        /\ call'[t] = [pc |-> "heard", tool |-> call[t].tool, arg |-> call[t].arg, step |-> call[t].step, seen |-> seen]
    BY <1>1, <2>1
  <2>3. span' = [u \in Turns |-> span'[u]]
    BY <1>2
  <2>4. ASSUME NEW u \in Turns
        PROVE  span[u] \subseteq span'[u] /\ span'[u] \subseteq World /\ (Active(u) => world' \in span'[u])
    BY <1>1, <1>2, <2>1 DEF Active
  <2>5. /\ missing' = [u \in Turns |-> missing'[u]] /\ missing'[t] = missing[t] \cup lacks
        /\ \A u \in Turns \ {t} : missing'[u] = missing[u]
    BY <1>1, <2>1
  <2> QED BY <2>2, <2>3, <2>4, <2>5
<1>4. CallSound(t)'
  <2>1. Cleared(t, call[t].step)'
    BY <1>2, <1>3 DEF ChatInv, CallSound, Cleared, Established, Needed, Me
  <2>2. HeardTrue(t)'
    <3>1. CASE seen = Nothing
      BY <1>3, <3>1 DEF HeardTrue
    <3>2. CASE seen # Nothing
      <4>1. PICK w : w = world'
        OBVIOUS
      <4>2. Response(t, w)' = Response(t, w)
        BY <1>3 DEF Response, Step, Me
      <4>3. Parts(t, Response(t, w))' = Parts(t, Response(t, w))
        BY <1>3, <4>2 DEF Parts, Step
      <4>4. /\ lacks \in SUBSET Parts(t, Response(t, w)) /\ seen = ReadAs(t, Response(t, w), lacks)
            /\ w \in World /\ w \in span'[t]
        BY <1>1, <1>2, <1>3, <3>2, <4>1
      <4>5. call[t].step = "identity" => missing'[t] = lacks
        BY <1>2, <1>3 DEF Missed
      <4>6. "figure" \in missing'[t] => "figure" \in lacks
        BY <1>2, <1>3 DEF Missed
      <4>7. HeardOf(t, w, lacks)'
        BY <1>3, <4>2, <4>3, <4>4, <4>5, <4>6 DEF HeardOf, ReadAs, ReadInPart
      <4> QED BY <1>3, <4>4, <4>7 DEF HeardTrue
    <3> QED BY <3>1, <3>2
  <2>3. /\ (span[t] \subseteq World)' /\ call'[t].pc = "heard" /\ (world \in span[t])'
        /\ call'[t].tool \in Tools
    BY <1>2, <1>3 DEF ChatInv, CallSound
  <2> QED BY <2>1, <2>2, <2>3 DEF CallSound, Active
<1>5. ASSUME NEW u \in Turns \ {t} PROVE CallSound(u)'
  BY <1>3, OtherCall DEF ChatInv
<1> QED BY <1>1, <1>2, <1>3, <1>4, <1>5 DEF ChatInv

LEMMA ChangeChat ==
  ASSUME ChatInv, ConstantsAssumption, Change
  PROVE  ChatInv'
<1>1. world' \in World
  BY ChangedWorld DEF Change, ChatInv
<1>2. /\ call' = call /\ UNCHANGED <<desk, missing>> /\ span' = [u \in Turns |-> span'[u]]
      /\ \A u \in Turns : span[u] \subseteq span'[u] /\ span'[u] \subseteq World /\ (Active(u) => world' \in span'[u])
  BY <1>1 DEF Change, ChatInv, CallSound, Active
<1>3. ASSUME NEW u \in Turns PROVE CallSound(u)'
  BY <1>2, OtherCall DEF ChatInv
<1> QED BY <1>1, <1>2, <1>3 DEF ChatInv

LEMMA SameChat ==
  ASSUME ChatInv, UNCHANGED <<desk, world, call, span, missing>>
  PROVE  ChatInv'
<1>1. ASSUME NEW u \in Turns PROVE CallSound(u)'
  BY OtherCall DEF ChatInv, CallSound
<1> QED BY <1>1 DEF ChatInv

LEMMA InitChat == ConstantsAssumption /\ AnswersInit => ChatInv
<1> SUFFICES ASSUME ConstantsAssumption, AnswersInit PROVE ChatInv
  OBVIOUS
<1>1. desk \in Desks /\ world \in World /\ call = [t \in Turns |-> call[t]] /\ span = [t \in Turns |-> span[t]]
      /\ missing = [t \in Turns |-> missing[t]]
  BY DEF AnswersInit, ConstantsAssumption
<1>2. ASSUME NEW t \in Turns PROVE call[t].pc = "idle" /\ span[t] = {}
  BY DEF AnswersInit
<1> QED BY <1>1, <1>2 DEF ChatInv, CallSound, Active

LEMMA NextChat ==
  ASSUME ChatInv, ConstantsAssumption, [AnswersNext]_answersVars
  PROVE  ChatInv'
<1>1. ASSUME NEW t \in Turns, EndTurn(t) PROVE ChatInv'
  BY <1>1, SameChat DEF EndTurn
<1>2. CASE UNCHANGED answersVars
  BY <1>2, SameChat DEF answersVars
<1>3. CASE AnswersNext
  BY <1>1, <1>3, StartChat, MintChat, AskChat, DecideChat, ChangeChat DEF AnswersNext
<1> QED BY <1>2, <1>3

LEMMA ChatInvariance == AnswersSpec => []ChatInv
<1>1. AnswersInit => ChatInv
  BY InitChat, ConstantsAssumption
<1>2. ChatInv /\ [AnswersNext]_answersVars => ChatInv'
  BY NextChat, ConstantsAssumption
<1> QED BY <1>1, <1>2, PTL DEF AnswersSpec

\* Whatever a tool tells was so at some moment of its call, up to the parts that a
\* body it was answered with lacked: an outage or a lost answer is never told as an
\* empty pool, a missing link or a recorded binding.
THEOREM AlwaysToldTrue == AnswersSpec => []ToldTrue
<1>1. ChatInv => ToldTrue
  BY DEF ChatInv, CallSound, Truthful, Says, ToldTrue, Answered, Holds
<1>2. AnswersSpec => []ChatInv
  BY ChatInvariance
<1> QED BY <1>1, <1>2, PTL

\* What an answer shows is shown to whoever had the standing for it at some moment of
\* the call, in a channel that is approved for it.
THEOREM AlwaysEntitled == AnswersSpec => []Entitled
<1>1. ChatInv => Entitled
  BY DEF ChatInv, CallSound, Truthful, Allowed, RoleFor, Established, Shown, Entitled, Answered
<1>2. AnswersSpec => []ChatInv
  BY ChatInvariance
<1> QED BY <1>1, <1>2, PTL

\* Standing, funds, pool and catalog leave for current turns only.
THEOREM AlwaysFresh == AnswersSpec => []FreshForCurrent
<1>1. ChatInv => FreshForCurrent
  BY DEF ChatInv, CallSound, Truthful, Fresh, FreshForCurrent, Answered
<1>2. AnswersSpec => []ChatInv
  BY ChatInvariance
<1> QED BY <1>1, <1>2, PTL


-----------------------------------------------------------------------------
(***************************************************************************)
(* The reply guards, for any runs and calls, stores of any size and any    *)
(* times.                                                                  *)
(***************************************************************************)

\* The calls since the last final payload of a run, by position.
From(r) == IF said[r] = <<>> THEN 1 ELSE said[r][Len(said[r])].after + 1
Window(r) == From(r)..Len(calls[r])

\* Of these, what the vote guard has been shown so far.
ReportedCalls(r) ==
  {k \in Window(r) : \/ calls[r][k].tool # "other"
                     \/ "dispatched" \in reports /\ ~ (owed[r] # {} /\ k = Len(calls[r]))}

\* Of the calls s, those at the positions ks.
Sayable(s, ks) == BallotAlone(s, ks) \/ ReadThenBallot(s, ks)
ReadAlone(s, ks) == \E k \in ks : ks = {k} /\ IsStep(s[k], "read")

\* An armed entry v has the ballot that was reported last,
LastBallot(v, s, ks) ==
  v.phase = "armed" =>
    \E k \in ks : /\ \A j \in ks : j <= k
                  /\ IsStep(s[k], "vote") /\ v.signature = Signature(s[k])

\* and an entry of a run that was never swept tells apart what was reported,
PhaseFits(v, s, ks) ==
  \/ v.phase = "armed" /\ Sayable(s, ks)
  \/ /\ v.phase = "provisional" /\ v.count = 1
     /\ \E k \in ks : ks = {k} /\ IsStep(s[k], "read") /\ v.signature = Signature(s[k])
  \/ v.phase = "disqualified" /\ ks # {} /\ ~ Sayable(s, ks) /\ ~ ReadAlone(s, ks)

\* and will know the report that is owed for the call it was counted for.
VoteFits(v, s, ks, open) ==
  /\ v.signature # Absent => v.channel = "direct"
  /\ open /\ Signature(Last(s)) # Absent => v.signature = Signature(Last(s)) /\ ~v.paired
  /\ PhaseFits(v, s, ks)

PollFits(kind, on, s, ks) ==
  \E j \in ks :
    /\ s[j].tool = "poll_result" /\ s[j].answer = kind /\ s[j].round = on
    /\ \A k \in ks : k > j => s[k].tool \notin Writes /\ ~ Provisional(s[k]) /\ ~ Final(s[k])

CollectFits(answer, s, ks) ==
  answer = "collecting" =>
    \E j \in ks : /\ s[j].tool = "collect" /\ s[j].answer = "collecting"
                  /\ \A k \in ks : k > j => s[k].tool # "submit"

\* A payload's text x, of a run that was swept or not.
TextFits(x, s, made, seen, swept) ==
  /\ x.by = "vote" =>
       /\ \E k \in seen : (\A j \in seen : j <= k) /\ IsStep(s[k], "vote") /\ s[k].count = x.count
       /\ ~swept => Sayable(s, seen)
  /\ x.by # "none" /\ ~swept /\ Sayable(s, seen) => x.by = "vote"
  /\ x.by = "poll" => PollFits(x.kind, x.round, s, made)
  /\ x.by = "collect" => CollectFits("collecting", s, made)

Texts ==
  [by : {"model", "none", "collect", "vote", "poll"}, kind : {"none"} \cup {c.answer : c \in Calls},
   round : {Absent} \cup {c.round : c \in Calls}, count : {0} \cup {c.count : c \in Calls}]

VoteFields == {"phase", "count", "channel", "signature", "paired"}
Payloads == [text : Texts, after : Nat]

GuardsTypes ==
  /\ reports \in {{"direct"}, Channels}
  /\ calls \in [Runs -> Seq(Calls)] /\ owed \in [Runs -> SUBSET {"dispatched"}]
  /\ said \in [Runs -> Seq(Payloads)]
  /\ \A e \in vote \cup poll \cup collect : {"run", "what"} \subseteq DOMAIN e
  /\ \A e \in vote : VoteFields \subseteq DOMAIN e.what

StoresFit(r) ==
  /\ \A e \in vote : e.run = r =>
       /\ LastBallot(e.what, calls[r], ReportedCalls(r))
       /\ r \notin forgotten => VoteFits(e.what, calls[r], ReportedCalls(r), owed[r] # {})
  /\ r \notin forgotten /\ r \notin RunsOf(vote) => ReportedCalls(r) = {}
  /\ \A e \in poll : e.run = r => PollFits(e.what.kind, e.what.round, calls[r], Window(r))
  /\ \A e \in collect : e.run = r => CollectFits(e.what, calls[r], Window(r))

RunSound(r) ==
  /\ From(r) <= Len(calls[r]) + 1
  /\ owed[r] # {} => From(r) <= Len(calls[r]) /\ "dispatched" \in reports
  /\ StoresFit(r)
  /\ \A i \in DOMAIN said[r] :
       /\ said[r][i].after <= Len(calls[r])
       /\ TextFits(said[r][i].text, calls[r], Made(r, i), MadeSeen(r, i), r \in forgotten)

GuardsInv == GuardsTypes /\ \A r \in Runs : RunSound(r)

\* What a call stands for.
LEMMA StepOf ==
  ASSUME NEW c, Signature(c) # Absent
  PROVE  /\ Signature(c).step \in {"vote", "read"} /\ Signature(c).round = c.round
         /\ c.tool # "other"
         /\ Signature(c).step = "vote" => Signature(c).count = c.count /\ c.tool = "poll_vote"
BY DEF Signature, Recorded, OpenRead

\* The positions a run's calls had keep what they say when calls are added.
LEMMA SayableSame ==
  ASSUME NEW s, NEW o, NEW ks, \A k \in ks : o[k] = s[k]
  PROVE  Sayable(o, ks) = Sayable(s, ks) /\ ReadAlone(o, ks) = ReadAlone(s, ks)
BY DEF Sayable, BallotAlone, ReadThenBallot, ReadAlone

\* The first call that is reported.
LEMMA FirstCall ==
  ASSUME NEW s, NEW n \in Nat
  PROVE  /\ Sayable(s, {n}) <=> IsStep(s[n], "vote")
         /\ ReadAlone(s, {n}) <=> IsStep(s[n], "read")
<1>1. ~ ReadThenBallot(s, {n})
  BY DEF ReadThenBallot
<1>2. BallotAlone(s, {n}) <=> IsStep(s[n], "vote")
  BY DEF BallotAlone
<1>3. ReadAlone(s, {n}) <=> IsStep(s[n], "read")
  BY DEF ReadAlone
<1> QED BY <1>1, <1>2, <1>3 DEF Sayable

\* A call that says nothing spoils what it is in.
LEMMA Spoilt ==
  ASSUME NEW s, NEW ks, NEW n \in ks, Signature(s[n]) = Absent
  PROVE  ~ Sayable(s, ks) /\ ~ ReadAlone(s, ks)
BY DEF Sayable, BallotAlone, ReadThenBallot, ReadAlone, IsStep

\* A second or later call: only a ballot after a lone read of the same round.
LEMMA LaterCall ==
  ASSUME NEW s, NEW ks \in SUBSET Nat, NEW n \in Nat, \A k \in ks : k < n, ks # {}
  PROVE  /\ ~ ReadAlone(s, ks \cup {n})
         /\ ~ ReadAlone(s, ks) => ~ Sayable(s, ks \cup {n})
         /\ \A j \in ks : ks = {j} /\ IsStep(s[j], "read") =>
              (Sayable(s, ks \cup {n}) <=> IsStep(s[n], "vote") /\ SamePoll(s[j].round, s[n].round))
<1> DEFINE all == ks \cup {n}
<1>1. PICK i \in ks : i # n
  <2>1. n \notin ks
    OBVIOUS
  <2> QED BY <2>1
<1>2. ~ BallotAlone(s, all) /\ ~ ReadAlone(s, all)
  BY <1>1 DEF BallotAlone, ReadAlone
<1>3. ASSUME NEW j \in all, NEW k \in all, all = {j, k}, j < k PROVE k = n /\ ks = {j}
  BY <1>3
<1>4. ReadThenBallot(s, all) => \E j \in ks : /\ ks = {j} /\ IsStep(s[j], "read")
                                              /\ IsStep(s[n], "vote") /\ SamePoll(s[j].round, s[n].round)
  BY <1>3 DEF ReadThenBallot
<1>5. ASSUME NEW j \in ks, ks = {j}, IsStep(s[j], "read"), IsStep(s[n], "vote"), SamePoll(s[j].round, s[n].round)
      PROVE  ReadThenBallot(s, all)
  BY <1>5 DEF ReadThenBallot
<1> QED BY <1>2, <1>4, <1>5 DEF Sayable, ReadAlone

\* What can be said is not a lone read.
LEMMA SayableNotRead ==
  ASSUME NEW s, NEW ks \in SUBSET Nat, Sayable(s, ks)
  PROVE  ks # {} /\ ~ ReadAlone(s, ks)
BY DEF Sayable, BallotAlone, ReadThenBallot, ReadAlone, IsStep

\* The phase a counted call leaves fits the calls with it.
LEMMA FirstPhaseFits ==
  ASSUME NEW s, NEW n \in Nat, NEW v, v.phase = FirstPhase(Signature(s[n])), v.count = 1, v.signature = Signature(s[n])
  PROVE  PhaseFits(v, s, {n})
<1>1. CASE Signature(s[n]) = Absent
  BY <1>1, FirstCall DEF PhaseFits, FirstPhase, IsStep
<1>2. CASE Signature(s[n]) # Absent
  BY <1>2, FirstCall, StepOf DEF PhaseFits, FirstPhase, IsStep
<1> QED BY <1>1, <1>2

LEMMA NextPhaseFits ==
  ASSUME NEW s, NEW ks \in SUBSET Nat, NEW n \in Nat, \A k \in ks : k < n, NEW v, PhaseFits(v, s, ks),
         NEW w, w.phase = NextPhase(v, Signature(s[n])), w.signature = Signature(s[n])
  PROVE  PhaseFits(w, s, ks \cup {n})
<1>1. ks # {}
  BY SayableNotRead DEF PhaseFits
<1>2. CASE v.phase = "provisional"
  <2>1. PICK j \in ks : ks = {j} /\ IsStep(s[j], "read") /\ v.signature = Signature(s[j]) /\ v.count = 1
    BY <1>2 DEF PhaseFits
  <2>2. v.signature.round = s[j].round
    BY <2>1, StepOf DEF IsStep
  <2>3. w.phase = "armed" <=> IsStep(s[n], "vote") /\ SamePoll(s[j].round, s[n].round)
    BY <1>2, <2>1, <2>2, StepOf DEF NextPhase, IsStep
  <2>4. w.phase \in {"armed", "disqualified"}
    BY DEF NextPhase
  <2> QED BY <1>1, <2>1, <2>3, <2>4, LaterCall DEF PhaseFits
<1>3. CASE v.phase # "provisional"
  <2>1. w.phase = "disqualified"
    BY <1>3 DEF NextPhase
  <2>2. ~ ReadAlone(s, ks)
    BY <1>3, SayableNotRead DEF PhaseFits
  <2> QED BY <1>1, <2>1, <2>2, LaterCall DEF PhaseFits
<1> QED BY <1>2, <1>3

LEMMA CountedLast ==
  ASSUME NEW s, NEW ks, NEW n \in ks, \A k \in ks : k <= n, NEW v, NEW w, w.signature = Signature(s[n]),
         w.phase \in {FirstPhase(Signature(s[n])), NextPhase(v, Signature(s[n]))}
  PROVE  LastBallot(w, s, ks)
<1> SUFFICES ASSUME w.phase = "armed" PROVE IsStep(s[n], "vote")
  BY DEF LastBallot
<1> QED BY StepOf DEF FirstPhase, NextPhase, IsStep

\* What the operations on a store leave of it.
Entries(store) == \A e \in store : {"run", "what"} \subseteq DOMAIN e

\* Every entry of run u comes from one of before with the same content.
Below(u, after, before) == \A e \in after : e.run = u => \E f \in before : f.run = u /\ f.what = e.what

LEMMA PutLeaves ==
  ASSUME NEW store, Entries(store), NEW r, NEW what
  PROVE  /\ Entries(Put(store, r, what))
         /\ \A e \in Put(store, r, what) : e.run = r => e.what = what
         /\ \A u : u # r => Below(u, Put(store, r, what), store)
         /\ RunsOf(Put(store, r, what)) = RunsOf(store) \cup {r}
<1> DEFINE new == [run |-> r, age |-> 0, expires |-> now + Ttl, what |-> what]
           aged(e) == [e EXCEPT !.age = @ + 1]
<1>1. \A e \in store : {"run", "what"} \subseteq DOMAIN aged(e) /\ aged(e).run = e.run /\ aged(e).what = e.what
  BY DEF Entries
<1>2. Put(store, r, what) = {aged(e) : e \in {e \in store : e.run # r}} \cup {new}
  BY DEF Put, Delete
<1>3. {"run", "what"} \subseteq DOMAIN new /\ new.run = r /\ new.what = what
  OBVIOUS
<1> HIDE DEF aged, new
<1>4. RunsOf(Put(store, r, what)) = RunsOf(store) \cup {r}
  BY <1>1, <1>2, <1>3 DEF RunsOf
<1> QED BY <1>1, <1>2, <1>3, <1>4 DEF Entries, Below

LEMMA DeleteLeaves ==
  ASSUME NEW store, NEW r
  PROVE  /\ Delete(store, r) \subseteq store /\ \A e \in Delete(store, r) : e.run # r
         /\ \A u \in RunsOf(store) : u # r => u \in RunsOf(Delete(store, r))
BY DEF Delete, RunsOf

LEMMA SweepLeaves ==
  ASSUME NEW store
  PROVE  Sweep(store) \subseteq store
BY DEF Sweep

\* A run is disturbed by others only through its entries, which may be swept.
LEMMA OtherRun ==
  ASSUME NEW u \in Runs, RunSound(u), calls'[u] = calls[u], said'[u] = said[u], owed'[u] = owed[u], UNCHANGED reports,
         forgotten \subseteq forgotten', Below(u, vote', vote), Below(u, poll', poll), Below(u, collect', collect),
         u \notin forgotten' /\ u \in RunsOf(vote) => u \in RunsOf(vote')
  PROVE  RunSound(u)'
<1>1. From(u)' = From(u) /\ Window(u)' = Window(u)
  BY DEF From, Window
<1>2. ReportedCalls(u)' = ReportedCalls(u)
  BY <1>1 DEF ReportedCalls
<1>3. (\A e \in vote : e.run = u =>
         /\ LastBallot(e.what, calls[u], ReportedCalls(u))
         /\ u \notin forgotten => VoteFits(e.what, calls[u], ReportedCalls(u), owed[u] # {}))'
  BY <1>2 DEF RunSound, StoresFit, Below, LastBallot, VoteFits, PhaseFits
<1>4. (u \notin forgotten /\ u \notin RunsOf(vote) => ReportedCalls(u) = {})'
  BY <1>2 DEF RunSound, StoresFit
<1>5. (\A e \in poll : e.run = u => PollFits(e.what.kind, e.what.round, calls[u], Window(u)))'
  BY <1>1 DEF RunSound, StoresFit, Below, PollFits
<1>6. (\A e \in collect : e.run = u => CollectFits(e.what, calls[u], Window(u)))'
  BY <1>1 DEF RunSound, StoresFit, Below, CollectFits
<1>7. ASSUME NEW i \in DOMAIN said[u] PROVE Made(u, i)' = Made(u, i) /\ MadeSeen(u, i)' = MadeSeen(u, i)
  BY DEF Made, MadeSeen, Observed
<1>8. ASSUME NEW i \in DOMAIN said[u]
      PROVE  /\ said[u][i].after <= Len(calls[u])
             /\ TextFits(said[u][i].text, calls[u], Made(u, i), MadeSeen(u, i), u \in forgotten')
  BY DEF RunSound, TextFits
<1> QED BY <1>1, <1>3, <1>4, <1>5, <1>6, <1>7, <1>8 DEF RunSound, StoresFit, TextFits

\* What a report leaves of the entries of the other runs.
LEMMA VoteOthers ==
  ASSUME Entries(vote), NEW r, NEW c, NEW channel, vote' = VoteAfterCall(r, c, channel), NoteSwept
  PROVE  /\ Entries(vote')
         /\ \A u : u # r => Below(u, vote', vote) /\ (u \notin forgotten' /\ u \in RunsOf(vote) => u \in RunsOf(vote'))
<1> DEFINE store == Sweep(vote)
<1>1. store \subseteq vote /\ Entries(store)
  BY SweepLeaves DEF Entries
<1>2. \A u : u \notin forgotten' /\ u \in RunsOf(vote) => u \in RunsOf(store)
  BY DEF NoteSwept, Swept
<1>3. CASE vote' = vote
  BY <1>3 DEF Below
<1>4. CASE \E what : vote' = Put(store, r, what)
  <2>1. PICK what : vote' = Put(store, r, what)
    BY <1>4
  <2> HIDE DEF store
  <2>2. Entries(vote') /\ RunsOf(vote') = RunsOf(store) \cup {r} /\ \A u : u # r => Below(u, vote', store)
    BY <1>1, <2>1, PutLeaves
  <2> QED BY <1>1, <1>2, <2>2 DEF Below
<1>5. vote' = vote \/ \E what : vote' = Put(store, r, what)
  BY DEF VoteAfterCall
<1> QED BY <1>3, <1>4, <1>5

LEMMA PollOthers ==
  ASSUME Entries(poll), NEW r, NEW c, poll' = PollAfterCall(r, c)
  PROVE  Entries(poll') /\ \A u : u # r => Below(u, poll', poll)
<1>1. Sweep(poll) \subseteq poll /\ Entries(Sweep(poll))
  BY SweepLeaves DEF Entries
<1>2. CASE poll' = poll
  BY <1>2 DEF Below
<1>3. CASE poll' = Delete(poll, r)
  BY <1>3, DeleteLeaves DEF Below, Entries
<1>4. CASE poll' = Put(Sweep(poll), r, [kind |-> c.answer, round |-> c.round])
  <2>1. Entries(poll') /\ \A u : u # r => Below(u, poll', Sweep(poll))
    BY <1>1, <1>4, PutLeaves
  <2> QED BY <1>1, <2>1 DEF Below
<1> QED BY <1>2, <1>3, <1>4 DEF PollAfterCall

LEMMA CollectOthers ==
  ASSUME Entries(collect), NEW r, NEW c, collect' = CollectAfterCall(r, c)
  PROVE  Entries(collect') /\ \A u : u # r => Below(u, collect', collect)
<1>1. Sweep(collect) \subseteq collect /\ Entries(Sweep(collect))
  BY SweepLeaves DEF Entries
<1>2. CASE collect' = collect
  BY <1>2 DEF Below
<1>3. CASE collect' = Delete(collect, r)
  BY <1>3, DeleteLeaves DEF Below, Entries
<1>4. CASE collect' = Put(Sweep(collect), r, c.answer)
  <2>1. Entries(collect') /\ \A u : u # r => Below(u, collect', Sweep(collect))
    BY <1>1, <1>4, PutLeaves
  <2> QED BY <1>1, <2>1 DEF Below
<1> QED BY <1>2, <1>3, <1>4 DEF CollectAfterCall

\* The poll and the collect entry of the run whose call c, the last of s, is reported.
LEMMA PollOwn ==
  ASSUME Entries(poll), NEW r, NEW s, NEW ks \in SUBSET Nat, NEW n \in ks, \A k \in ks : k <= n,
         poll' = PollAfterCall(r, s[n]),
         \A e \in poll : e.run = r => \/ PollFits(e.what.kind, e.what.round, s, ks \ {n})
                                      \/ PollFits(e.what.kind, e.what.round, s, ks)
  PROVE  \A e \in poll' : e.run = r => PollFits(e.what.kind, e.what.round, s, ks)
<1> DEFINE c == s[n]
<1>1. CASE poll' = Delete(poll, r)
  BY <1>1, DeleteLeaves
<1>2. CASE /\ Provisional(c) \/ Final(c)
           /\ poll' = Put(Sweep(poll), r, [kind |-> c.answer, round |-> c.round])
  <2>1. Entries(Sweep(poll))
    BY SweepLeaves DEF Entries
  <2>2. \A e \in poll' : e.run = r => e.what = [kind |-> c.answer, round |-> c.round]
    BY <1>2, <2>1, PutLeaves
  <2>3. \A k \in ks : ~ (k > n)
    OBVIOUS
  <2>4. PollFits(c.answer, c.round, s, ks)
    BY <1>2, <2>3 DEF PollFits, Provisional, Final
  <2> QED BY <2>2, <2>4
<1>3. CASE poll' = poll /\ c.tool \notin Writes /\ ~ Provisional(c) /\ ~ Final(c)
  <2>1. ASSUME NEW kind, NEW on, PollFits(kind, on, s, ks \ {n}) PROVE PollFits(kind, on, s, ks)
    BY <1>3, <2>1 DEF PollFits
  <2> QED BY <1>3, <2>1
<1> QED BY <1>1, <1>2, <1>3 DEF PollAfterCall

LEMMA CollectOwn ==
  ASSUME Entries(collect), NEW r, NEW s, NEW ks \in SUBSET Nat, NEW n \in ks, \A k \in ks : k <= n,
         collect' = CollectAfterCall(r, s[n]),
         \A e \in collect : e.run = r => CollectFits(e.what, s, ks \ {n}) \/ CollectFits(e.what, s, ks)
  PROVE  \A e \in collect' : e.run = r => CollectFits(e.what, s, ks)
<1> DEFINE c == s[n]
<1>1. CASE collect' = Delete(collect, r)
  BY <1>1, DeleteLeaves
<1>2. CASE Collected(c) /\ collect' = Put(Sweep(collect), r, c.answer)
  <2>1. Entries(Sweep(collect))
    BY SweepLeaves DEF Entries
  <2>2. \A e \in collect' : e.run = r => e.what = c.answer
    BY <1>2, <2>1, PutLeaves
  <2>3. \A k \in ks : ~ (k > n)
    OBVIOUS
  <2>4. CollectFits(c.answer, s, ks)
    BY <1>2, <2>3 DEF CollectFits, Collected
  <2> QED BY <2>2, <2>4
<1>3. CASE collect' = collect /\ c.tool # "submit"
  <2>1. ASSUME NEW answer, CollectFits(answer, s, ks \ {n}) PROVE CollectFits(answer, s, ks)
    BY <1>3, <2>1 DEF CollectFits
  <2> QED BY <1>3, <2>1
<1> QED BY <1>1, <1>2, <1>3 DEF CollectAfterCall

\* What was said stays right as calls and payloads are added.
LEMMA TextSame ==
  ASSUME GuardsTypes, NEW r \in Runs, RunSound(r), NEW i \in DOMAIN said[r], UNCHANGED reports,
         \A k \in 1..Len(calls[r]) : calls'[r][k] = calls[r][k],
         \A j \in 1..i : said'[r][j] = said[r][j], r \in forgotten => r \in forgotten'
  PROVE  (TextFits(said[r][i].text, calls[r], Made(r, i), MadeSeen(r, i), r \in forgotten))'
<1> DEFINE made == Made(r, i)
           seen == MadeSeen(r, i)
           s == calls[r]
           o == calls'[r]
           x == said[r][i].text
<1>1. /\ i \in Nat /\ i >= 1 /\ said[r][i].after \in Nat /\ said[r][i].after <= Len(calls[r])
      /\ i # 1 => i - 1 \in DOMAIN said[r] /\ said[r][i - 1].after \in Nat
      /\ Len(calls[r]) \in Nat
  <2>1. said[r] \in Seq(Payloads) /\ calls[r] \in Seq(Calls)
    BY DEF GuardsTypes
  <2>2. \A j \in DOMAIN said[r] : said[r][j].after \in Nat
    <3>1. \A j \in DOMAIN said[r] : said[r][j] \in Payloads
      BY <2>1
    <3> QED BY <3>1 DEF Payloads
  <2>3. DOMAIN said[r] = 1..Len(said[r]) /\ Len(said[r]) \in Nat /\ Len(calls[r]) \in Nat
    BY <2>1
  <2>4. said[r][i].after <= Len(calls[r])
    BY DEF RunSound
  <2> QED BY <2>2, <2>3, <2>4
<1>2. made \subseteq 1..Len(calls[r])
  BY <1>1 DEF Made
<1>3. \A k \in made : o[k] = s[k]
  BY <1>2
<1>4. Made(r, i)' = made
  BY <1>1 DEF Made
<1>5. MadeSeen(r, i)' = seen
  BY <1>3, <1>4 DEF MadeSeen
<1>6. seen \subseteq made
  BY DEF MadeSeen
<1>7. said'[r][i].text = x
  BY <1>1
<1>8. TextFits(x, s, made, seen, r \in forgotten)
  BY DEF RunSound
<1> HIDE DEF made, seen, s, o, x
<1>9. TextFits(x, o, made, seen, r \in forgotten')
  <2>1. Sayable(o, seen) = Sayable(s, seen)
    BY <1>3, <1>6, SayableSame
  <2>2. x.by = "poll" => PollFits(x.kind, x.round, o, made)
    BY <1>3, <1>8 DEF TextFits, PollFits
  <2>3. x.by = "collect" => CollectFits("collecting", o, made)
    BY <1>3, <1>8 DEF TextFits, CollectFits
  <2> QED BY <1>3, <1>6, <1>8, <2>1, <2>2, <2>3 DEF TextFits
<1> QED BY <1>4, <1>5, <1>7, <1>9 DEF o

\* The entry a known run's vote guard looks at.
LEMMA KnownEntry ==
  ASSUME NEW store, NEW r \in RunsOf(store)
  PROVE  Entry(store, r) \in store /\ Entry(store, r).run = r
BY DEF Entry, RunsOf

\* A vote entry has all its fields.
LEMMA VoteTyped ==
  ASSUME Entries(vote), \A e \in vote : VoteFields \subseteq DOMAIN e.what,
         NEW r, NEW c, NEW channel, vote' = VoteAfterCall(r, c, channel)
  PROVE  \A e \in vote' : VoteFields \subseteq DOMAIN e.what
<1> DEFINE store == Sweep(vote)
           v == Entry(store, r).what
<1>1. store \subseteq vote /\ Entries(store)
  BY SweepLeaves DEF Entries
<1>2. CASE vote' = vote
  BY <1>2
<1>3. CASE \E what : vote' = Put(store, r, what) /\ VoteFields \subseteq DOMAIN what
  <2>1. PICK what : vote' = Put(store, r, what) /\ VoteFields \subseteq DOMAIN what
    BY <1>3
  <2> HIDE DEF store
  <2>2. \A e \in vote' : e.what = what \/ \E f \in store : f.what = e.what
    BY <1>1, <2>1, PutLeaves DEF Below
  <2> QED BY <1>1, <2>1, <2>2
<1>4. ASSUME r \in RunsOf(store) PROVE VoteFields \subseteq DOMAIN [v EXCEPT !.paired = TRUE]
  <2>1. Entry(store, r) \in vote
    BY <1>1, <1>4, KnownEntry
  <2> QED BY <2>1
<1>5. \A phase, count, signature :
        VoteFields \subseteq
          DOMAIN [phase |-> phase, count |-> count, channel |-> channel, signature |-> signature, paired |-> FALSE]
  BY DEF VoteFields
<1>6. vote' = vote \/ \E what : vote' = Put(store, r, what) /\ VoteFields \subseteq DOMAIN what
  BY <1>4, <1>5 DEF VoteAfterCall
<1> QED BY <1>2, <1>3, <1>6

\* The other runs and the types, after any report.
LEMMA JudgeOthers ==
  ASSUME GuardsInv, NEW r \in Runs, NEW c, NEW channel, Judge(r, c, channel),
         \A u \in Runs \ {r} : calls'[u] = calls[u] /\ owed'[u] = owed[u]
  PROVE  /\ \A u \in Runs \ {r} : RunSound(u)'
         /\ (\A e \in vote \cup poll \cup collect : {"run", "what"} \subseteq DOMAIN e)'
         /\ (\A e \in vote : VoteFields \subseteq DOMAIN e.what)'
<1>1. Entries(vote) /\ Entries(poll) /\ Entries(collect)
  BY DEF GuardsInv, GuardsTypes, Entries
<1>2. /\ vote' = VoteAfterCall(r, c, channel) /\ poll' = PollAfterCall(r, c) /\ collect' = CollectAfterCall(r, c)
      /\ NoteSwept /\ UNCHANGED <<reports, said>>
  BY DEF Judge
<1>3. forgotten \subseteq forgotten'
  BY <1>2 DEF NoteSwept
<1>4. ASSUME NEW u \in Runs \ {r} PROVE RunSound(u)'
  <2>1. Below(u, vote', vote) /\ (u \notin forgotten' /\ u \in RunsOf(vote) => u \in RunsOf(vote'))
    BY <1>1, <1>2, VoteOthers
  <2>2. Below(u, poll', poll) /\ Below(u, collect', collect)
    BY <1>1, <1>2, PollOthers, CollectOthers
  <2>3. RunSound(u) /\ said'[u] = said[u] /\ reports' = reports
    BY <1>2 DEF GuardsInv
  <2> QED BY <1>3, <2>1, <2>2, <2>3, OtherRun
<1>5. Entries(vote') /\ Entries(poll') /\ Entries(collect')
  BY <1>1, <1>2, VoteOthers, PollOthers, CollectOthers
<1>6. \A e \in vote' : VoteFields \subseteq DOMAIN e.what
  BY <1>1, <1>2, VoteTyped DEF GuardsInv, GuardsTypes
<1> QED BY <1>4, <1>5, <1>6 DEF Entries


\* A call that is reported under its own name counts.
LEMMA VoteDirect ==
  ASSUME Entries(vote), \A e \in vote : VoteFields \subseteq DOMAIN e.what,
         NEW r, NEW s, NEW ks \in SUBSET Nat, NEW n \in Nat, \A k \in ks : k < n, n = Len(s),
         s[n].tool # "other", vote' = VoteAfterCall(r, s[n], "direct"), NoteSwept,
         \A e \in vote : e.run = r => LastBallot(e.what, s, ks),
         r \notin forgotten => \A e \in vote : e.run = r => VoteFits(e.what, s, ks, FALSE),
         r \notin forgotten /\ r \notin RunsOf(vote) => ks = {},
         NEW open
  PROVE  /\ r \in RunsOf(vote')
         /\ \A e \in vote' : e.run = r =>
              /\ LastBallot(e.what, s, ks \cup {n})
              /\ r \notin forgotten' => VoteFits(e.what, s, ks \cup {n}, open)
<1> DEFINE sig == Signature(s[n])
           store == Sweep(vote)
           known == r \in RunsOf(store)
           v == Entry(store, r).what
           Same == known /\ SameCall(v, sig, "direct")
           counted == [phase     |-> IF known THEN NextPhase(v, sig) ELSE FirstPhase(sig),
                       count     |-> IF known THEN v.count + 1 ELSE 1,
                       channel   |-> "direct",
                       signature |-> sig,
                       paired    |-> FALSE]
           paired == [v EXCEPT !.paired = TRUE]
           Fitting(w) == LastBallot(w, s, ks \cup {n}) /\ (r \notin forgotten' => VoteFits(w, s, ks \cup {n}, open))
<1>1. store \subseteq vote /\ Entries(store)
  BY SweepLeaves DEF Entries
<1>2. ASSUME known PROVE Entry(store, r) \in vote /\ Entry(store, r).run = r
  BY <1>1, <1>2, KnownEntry
<1>3. r \notin forgotten' => r \notin forgotten /\ (known \/ r \notin RunsOf(vote))
  BY DEF NoteSwept, Swept
<1>4. vote' = Put(store, r, IF Same THEN paired ELSE counted)
  BY DEF VoteAfterCall, Observed
<1>5. ASSUME Same PROVE Fitting(paired)
  <2>1. VoteFields \subseteq DOMAIN v /\ LastBallot(v, s, ks)
    BY <1>2, <1>5
  <2>2. paired.phase = v.phase /\ paired.signature = v.signature
    BY <2>1 DEF VoteFields
  <2>3. r \in forgotten'
    BY <1>2, <1>3, <1>5 DEF VoteFits, SameCall
  <2>4. sig # Absent /\ v.signature = sig
    BY <1>5 DEF SameCall
  <2>5. ASSUME v.phase = "armed" PROVE IsStep(s[n], "vote")
    BY <2>1, <2>4, <2>5 DEF LastBallot, IsStep
  <2> QED BY <2>2, <2>3, <2>4, <2>5 DEF LastBallot
<1>6. ASSUME ~Same PROVE Fitting(counted)
  <2>0. /\ counted.phase = IF known THEN NextPhase(v, sig) ELSE FirstPhase(sig)
        /\ counted.signature = sig /\ (~known => counted.count = 1) /\ \A k \in ks \cup {n} : k <= n
    OBVIOUS
  <2>1. LastBallot(counted, s, ks \cup {n})
    <3> HIDE DEF counted, v, known
    <3> QED BY <2>0, CountedLast
  <2>2. counted.signature = sig /\ counted.channel = "direct" /\ ~counted.paired /\ Last(s) = s[n]
    BY DEF Last
  <2>3. ASSUME r \notin forgotten' PROVE PhaseFits(counted, s, ks \cup {n})
    <3>1. CASE known
      <4>1. PhaseFits(v, s, ks)
        BY <1>2, <1>3, <2>3, <3>1 DEF VoteFits
      <4> HIDE DEF counted, v, known
      <4> QED BY <2>0, <3>1, <4>1, NextPhaseFits
    <3>2. CASE ~known
      <4>1. ks \cup {n} = {n}
        BY <1>3, <2>3, <3>2
      <4> HIDE DEF counted, v, known
      <4> QED BY <2>0, <3>2, <4>1, FirstPhaseFits
    <3> QED BY <3>1, <3>2
  <2> QED BY <2>1, <2>2, <2>3 DEF VoteFits
<1> HIDE DEF store, counted, paired, Same, Fitting
<1>7. r \in RunsOf(vote') /\ \A e \in vote' : e.run = r => e.what = IF Same THEN paired ELSE counted
  BY <1>1, <1>4, PutLeaves
<1> QED BY <1>5, <1>6, <1>7 DEF Fitting

\* The same call, reported by the dispatcher, does not count again; a call that only the
\* dispatcher shows counts.
LEMMA VoteDispatched ==
  ASSUME Entries(vote), \A e \in vote : VoteFields \subseteq DOMAIN e.what,
         NEW r, NEW s, NEW ks \in SUBSET Nat, NEW n \in Nat, \A k \in ks : k <= n, n = Len(s),
         s[n].tool # "other" => n \in ks, vote' = VoteAfterCall(r, s[n], "dispatched"), NoteSwept,
         \A e \in vote : e.run = r => LastBallot(e.what, s, ks),
         r \notin forgotten => \A e \in vote : e.run = r => VoteFits(e.what, s, ks, TRUE),
         r \notin forgotten /\ r \notin RunsOf(vote) => ks = {}
  PROVE  /\ r \in RunsOf(vote')
         /\ \A e \in vote' : e.run = r =>
              /\ LastBallot(e.what, s, ks \cup {n})
              /\ r \notin forgotten' => VoteFits(e.what, s, ks \cup {n}, FALSE)
<1> DEFINE sig == Signature(s[n])
           store == Sweep(vote)
           known == r \in RunsOf(store)
           v == Entry(store, r).what
           Same == known /\ SameCall(v, sig, "dispatched")
           counted == [phase     |-> IF known THEN NextPhase(v, sig) ELSE FirstPhase(sig),
                       count     |-> IF known THEN v.count + 1 ELSE 1,
                       channel   |-> "dispatched",
                       signature |-> sig,
                       paired    |-> FALSE]
           paired == [v EXCEPT !.paired = TRUE]
           Fitting(w) == LastBallot(w, s, ks \cup {n}) /\ (r \notin forgotten' => VoteFits(w, s, ks \cup {n}, FALSE))
<1>1. store \subseteq vote /\ Entries(store)
  BY SweepLeaves DEF Entries
<1>2. ASSUME known PROVE Entry(store, r) \in vote /\ Entry(store, r).run = r
  BY <1>1, <1>2, KnownEntry
<1>3. r \notin forgotten' => r \notin forgotten /\ (known \/ r \notin RunsOf(vote))
  BY DEF NoteSwept, Swept
<1>4. vote' = Put(store, r, IF Same THEN paired ELSE counted)
  BY DEF VoteAfterCall, Observed
<1>5. Last(s) = s[n]
  BY DEF Last
<1>6. ASSUME Same PROVE Fitting(paired)
  <2>1. VoteFields \subseteq DOMAIN v /\ LastBallot(v, s, ks)
    BY <1>2, <1>6
  <2>2. /\ paired.phase = v.phase /\ paired.signature = v.signature
        /\ paired.count = v.count /\ paired.channel = v.channel
    BY <2>1 DEF VoteFields
  <2>3. ks \cup {n} = ks
    BY <1>6, StepOf DEF SameCall
  <2>4. r \notin forgotten' => VoteFits(v, s, ks, TRUE)
    BY <1>2, <1>3, <1>6
  <2> HIDE DEF v, paired
  <2> QED BY <2>1, <2>2, <2>3, <2>4 DEF LastBallot, VoteFits, PhaseFits
<1>7. ASSUME ~Same PROVE Fitting(counted)
  <2>0. /\ counted.phase \in {FirstPhase(sig), NextPhase(v, sig)} /\ counted.signature = sig
        /\ \A k \in ks \cup {n} : k <= n
    OBVIOUS
  <2>1. LastBallot(counted, s, ks \cup {n})
    <3> HIDE DEF counted, v
    <3> QED BY <2>0, CountedLast
  <2>2. ASSUME r \notin forgotten' PROVE sig = Absent
    <3>1. CASE known
      <4>1. VoteFits(v, s, ks, TRUE)
        BY <1>2, <1>3, <2>2, <3>1
      <4> QED BY <1>5, <1>7, <3>1, <4>1 DEF VoteFits, SameCall
    <3>2. CASE ~known
      BY <1>3, <2>2, <3>2, StepOf
    <3> QED BY <3>1, <3>2
  <2>3. ASSUME r \notin forgotten' PROVE counted.phase = "disqualified"
    BY <2>2, <2>3 DEF NextPhase, FirstPhase
  <2>4. ASSUME r \notin forgotten' PROVE PhaseFits(counted, s, ks \cup {n})
    BY <2>2, <2>3, <2>4, Spoilt DEF PhaseFits
  <2>5. counted.signature = sig
    OBVIOUS
  <2> HIDE DEF counted
  <2> QED BY <2>1, <2>2, <2>4, <2>5 DEF VoteFits
<1> HIDE DEF store, counted, paired, Same, Fitting
<1>8. r \in RunsOf(vote') /\ \A e \in vote' : e.run = r => e.what = IF Same THEN paired ELSE counted
  BY <1>1, <1>4, PutLeaves
<1> QED BY <1>6, <1>7, <1>8 DEF Fitting

\* The positions of a run's calls.
LEMMA Positions ==
  ASSUME GuardsTypes, NEW r \in Runs
  PROVE  /\ Len(calls[r]) \in Nat /\ Len(said[r]) \in Nat /\ DOMAIN said[r] = 1..Len(said[r])
         /\ calls[r] \in Seq(Calls) /\ said[r] \in Seq(Payloads)
         /\ From(r) \in Nat /\ From(r) >= 1 /\ Window(r) \subseteq 1..Len(calls[r])
         /\ ReportedCalls(r) \subseteq Window(r)
<1>1. calls[r] \in Seq(Calls) /\ said[r] \in Seq(Payloads)
  BY DEF GuardsTypes
<1>2. Len(calls[r]) \in Nat /\ Len(said[r]) \in Nat /\ DOMAIN said[r] = 1..Len(said[r])
  BY <1>1
<1>3. From(r) \in Nat /\ From(r) >= 1
  <2>1. CASE said[r] = <<>>
    BY <2>1 DEF From
  <2>2. CASE said[r] # <<>>
    <3>1. said[r][Len(said[r])] \in Payloads
      BY <1>1, <2>2
    <3> QED BY <2>2, <3>1 DEF From, Payloads
  <2> QED BY <2>1, <2>2
<1>4. Window(r) \subseteq 1..Len(calls[r])
  BY <1>2, <1>3 DEF Window
<1> QED BY <1>1, <1>2, <1>3, <1>4 DEF ReportedCalls

LEMMA FirstReportSound ==
  ASSUME GuardsInv, NEW r \in Runs, NEW c \in Calls, FirstReport(r, c)
  PROVE  GuardsInv'
<1> DEFINE n == Len(calls[r]) + 1
           s == calls'[r]
           ks == ReportedCalls(r)
<1>1. /\ owed[r] = {} /\ calls' = [calls EXCEPT ![r] = Append(@, c)]
      /\ owed' = [owed EXCEPT ![r] = reports \ {"direct"}] /\ Judge(r, c, "direct")
      /\ UNCHANGED <<reports, said>>
  BY DEF FirstReport, Judge
<1>2. GuardsTypes /\ RunSound(r) /\ calls \in [Runs -> Seq(Calls)] /\ owed \in [Runs -> SUBSET {"dispatched"}]
  BY DEF GuardsInv, GuardsTypes
<1>3. /\ s \in Seq(Calls) /\ Len(s) = n /\ s[n] = c /\ n \in Nat
      /\ \A k \in 1..Len(calls[r]) : s[k] = calls[r][k]
  BY <1>1, <1>2, Positions
<1>4. \A u \in Runs \ {r} : calls'[u] = calls[u] /\ owed'[u] = owed[u]
  BY <1>1, <1>2
<1>5. /\ \A u \in Runs \ {r} : RunSound(u)'
      /\ (\A e \in vote \cup poll \cup collect : {"run", "what"} \subseteq DOMAIN e)'
      /\ (\A e \in vote : VoteFields \subseteq DOMAIN e.what)'
  BY <1>1, <1>4, JudgeOthers
<1>6. owed'[r] = reports \ {"direct"} /\ reports \in {{"direct"}, Channels}
  BY <1>1, <1>2 DEF GuardsTypes
<1>7. GuardsTypes'
  BY <1>1, <1>2, <1>3, <1>5, <1>6 DEF GuardsTypes, Channels
<1>8. From(r)' = From(r) /\ From(r) <= n /\ Window(r)' = Window(r) \cup {n} /\ \A k \in Window(r) : k < n
  <2>1. From(r)' = From(r) /\ From(r) <= n
    BY <1>1, <1>2 DEF From, RunSound
  <2> QED BY <1>2, <1>3, <2>1, Positions DEF Window
<1>9. ReportedCalls(r)' = IF c.tool # "other" THEN ks \cup {n} ELSE ks
  <2>1. \A k \in Window(r) : k # n /\ s[k] = calls[r][k]
    BY <1>2, <1>3, <1>8, Positions
  <2>2. ks = {k \in Window(r) : calls[r][k].tool # "other" \/ "dispatched" \in reports}
    BY <1>1 DEF ReportedCalls
  <2>3. ReportedCalls(r)' =
          {k \in Window(r) \cup {n} :
             s[k].tool # "other" \/ ("dispatched" \in reports /\ ~ (owed'[r] # {} /\ k = n))}
    BY <1>1, <1>3, <1>8 DEF ReportedCalls
  <2>4. "dispatched" \in reports => owed'[r] # {}
    BY <1>6 DEF Channels
  <2> HIDE DEF n, s, ks
  <2> QED BY <1>3, <2>1, <2>2, <2>3, <2>4
<1>10. ks \subseteq Window(r) /\ ks \in SUBSET Nat /\ \A k \in ks : k < n /\ s[k] = calls[r][k]
  BY <1>2, <1>3, <1>8, Positions
<1>11. Entries(vote) /\ Entries(poll) /\ Entries(collect) /\ \A e \in vote : VoteFields \subseteq DOMAIN e.what
  BY <1>2 DEF GuardsTypes, Entries
<1>12. /\ \A e \in vote : e.run = r => LastBallot(e.what, s, ks)
       /\ r \notin forgotten => \A e \in vote : e.run = r => VoteFits(e.what, s, ks, FALSE)
       /\ r \notin forgotten /\ r \notin RunsOf(vote) => ks = {}
  <2>1. Sayable(s, ks) = Sayable(calls[r], ks) /\ ReadAlone(s, ks) = ReadAlone(calls[r], ks)
    BY <1>10, SayableSame
  <2>2. \A v : LastBallot(v, calls[r], ks) => LastBallot(v, s, ks)
    BY <1>10 DEF LastBallot
  <2>3. \A v : PhaseFits(v, calls[r], ks) => PhaseFits(v, s, ks)
    BY <1>10, <2>1 DEF PhaseFits
  <2>4. \A v : VoteFits(v, calls[r], ks, owed[r] # {}) => VoteFits(v, s, ks, FALSE)
    BY <2>3 DEF VoteFits
  <2> HIDE DEF ks, s
  <2> QED BY <1>2, <2>2, <2>4 DEF RunSound, StoresFit, ks
<1>13. /\ \A e \in vote' : e.run = r =>
            /\ LastBallot(e.what, s, ReportedCalls(r)')
            /\ r \notin forgotten' => VoteFits(e.what, s, ReportedCalls(r)', owed'[r] # {})
       /\ r \notin forgotten' /\ r \notin RunsOf(vote') => ReportedCalls(r)' = {}
  <2>1. CASE c.tool # "other"
    <3>1. /\ vote' = VoteAfterCall(r, s[n], "direct") /\ NoteSwept /\ s[n].tool # "other"
      BY <1>1, <1>3, <2>1 DEF Judge
    <3> HIDE DEF ks, s, n
    <3>2. /\ r \in RunsOf(vote')
          /\ \A e \in vote' : e.run = r =>
               /\ LastBallot(e.what, s, ks \cup {n})
               /\ r \notin forgotten' => VoteFits(e.what, s, ks \cup {n}, owed'[r] # {})
      BY <1>3, <1>10, <1>11, <1>12, <3>1, VoteDirect
    <3> QED BY <1>9, <2>1, <3>2
  <2>2. CASE c.tool = "other"
    <3>1. vote' = vote /\ forgotten \subseteq forgotten'
      BY <1>1, <2>2 DEF Judge, VoteAfterCall, Observed, NoteSwept
    <3>2. Signature(Last(s)) = Absent
      BY <1>3, <2>2, StepOf DEF Last
    <3>3. \A v : VoteFits(v, s, ks, FALSE) => VoteFits(v, s, ks, owed'[r] # {})
      BY <3>2 DEF VoteFits
    <3> HIDE DEF ks, s
    <3> QED BY <1>9, <1>12, <2>2, <3>1, <3>3
  <2> QED BY <2>1, <2>2
<1>14. \A k \in Window(r) : s[k] = calls[r][k]
  BY <1>2, <1>3, Positions
<1>15. Window(r)' \in SUBSET Nat /\ n \in Window(r)' /\ (\A k \in Window(r)' : k <= n) /\ Window(r)' \ {n} = Window(r)
  BY <1>2, <1>3, <1>8, Positions
<1>16. \A e \in poll' : e.run = r => PollFits(e.what.kind, e.what.round, s, Window(r)')
  <2>1. \A e \in poll : e.run = r => PollFits(e.what.kind, e.what.round, s, Window(r))
    BY <1>2, <1>14 DEF RunSound, StoresFit, PollFits
  <2>2. poll' = PollAfterCall(r, s[n])
    BY <1>1, <1>3 DEF Judge
  <2>3. PICK w : w = Window(r)'
    OBVIOUS
  <2>4. /\ w \in SUBSET Nat /\ n \in w /\ \A k \in w : k <= n
        /\ \A e \in poll : e.run = r => PollFits(e.what.kind, e.what.round, s, w \ {n})
    BY <1>15, <2>1, <2>3
  <2>5. \A e \in poll' : e.run = r => PollFits(e.what.kind, e.what.round, s, w)
    <3> HIDE DEF s, n
    <3> QED BY <1>11, <2>2, <2>4, PollOwn
  <2> QED BY <2>3, <2>5
<1>17. \A e \in collect' : e.run = r => CollectFits(e.what, s, Window(r)')
  <2>1. \A e \in collect : e.run = r => CollectFits(e.what, s, Window(r))
    BY <1>2, <1>14 DEF RunSound, StoresFit, CollectFits
  <2>2. collect' = CollectAfterCall(r, s[n])
    BY <1>1, <1>3 DEF Judge
  <2>3. PICK w : w = Window(r)'
    OBVIOUS
  <2>4. /\ w \in SUBSET Nat /\ n \in w /\ \A k \in w : k <= n
        /\ \A e \in collect : e.run = r => CollectFits(e.what, s, w \ {n})
    BY <1>15, <2>1, <2>3
  <2>5. \A e \in collect' : e.run = r => CollectFits(e.what, s, w)
    <3> HIDE DEF s, n
    <3> QED BY <1>11, <2>2, <2>4, CollectOwn
  <2> QED BY <2>3, <2>5
<1>18. ASSUME NEW i \in DOMAIN said[r]
       PROVE  (said[r][i].after <= Len(calls[r])
               /\ TextFits(said[r][i].text, calls[r], Made(r, i), MadeSeen(r, i), r \in forgotten))'
  <2>1. r \in forgotten => r \in forgotten'
    BY <1>1 DEF Judge, NoteSwept
  <2>2. said[r][i].after <= Len(calls[r]) /\ said[r][i].after \in Nat
    <3>1. said[r][i] \in Payloads
      BY <1>2, Positions
    <3> QED BY <1>2, <3>1 DEF RunSound, Payloads
  <2> QED BY <1>1, <1>2, <1>3, <2>1, <2>2, TextSame, Positions
<1>19. RunSound(r)'
  <2>1. StoresFit(r)'
    BY <1>13, <1>16, <1>17 DEF StoresFit
  <2>2. "dispatched" \in reports \/ owed'[r] = {}
    BY <1>6 DEF Channels
  <2>3. DOMAIN said'[r] = DOMAIN said[r]
    BY <1>1
  <2>4. (From(r) <= Len(calls[r]) + 1)' /\ (owed[r] # {} => From(r) <= Len(calls[r]) /\ "dispatched" \in reports)'
    BY <1>1, <1>2, <1>3, <1>8, <2>2, Positions
  <2> QED BY <1>18, <2>1, <2>3, <2>4 DEF RunSound
<1> QED BY <1>5, <1>7, <1>19 DEF GuardsInv

LEMMA SecondReportSound ==
  ASSUME GuardsInv, NEW r \in Runs, NEW channel, SecondReport(r, channel)
  PROVE  GuardsInv'
<1> DEFINE s == calls[r]
           n == Len(s)
           ks == ReportedCalls(r)
<1>1. /\ channel \in owed[r] /\ owed' = [owed EXCEPT ![r] = {}] /\ Judge(r, Last(s), channel)
      /\ UNCHANGED <<calls, reports, said>>
  BY DEF SecondReport, Judge
<1>2. GuardsTypes /\ RunSound(r) /\ owed \in [Runs -> SUBSET {"dispatched"}]
  BY DEF GuardsInv, GuardsTypes
<1>3. channel = "dispatched" /\ owed'[r] = {} /\ owed[r] # {} /\ \A u \in Runs \ {r} : owed'[u] = owed[u]
  BY <1>1, <1>2
<1>4. /\ s \in Seq(Calls) /\ n \in Nat /\ n \in Window(r) /\ "dispatched" \in reports
      /\ Window(r) \in SUBSET Nat /\ \A k \in Window(r) : k <= n
  BY <1>2, <1>3, Positions DEF RunSound, Window
<1>5. Last(s) = s[n]
  BY DEF Last
<1>6. /\ \A u \in Runs \ {r} : RunSound(u)'
      /\ (\A e \in vote \cup poll \cup collect : {"run", "what"} \subseteq DOMAIN e)'
      /\ (\A e \in vote : VoteFields \subseteq DOMAIN e.what)'
  <2>1. \A u \in Runs \ {r} : calls'[u] = calls[u] /\ owed'[u] = owed[u]
    BY <1>1, <1>3
  <2> QED BY <1>1, <2>1, JudgeOthers
<1>7. GuardsTypes'
  BY <1>1, <1>2, <1>6 DEF GuardsTypes
<1>8. From(r)' = From(r) /\ Window(r)' = Window(r)
  BY <1>1 DEF From, Window
<1>9. ReportedCalls(r)' = ks \cup {n}
  BY <1>1, <1>3, <1>4, <1>8 DEF ReportedCalls
<1>10. ks \in SUBSET Nat /\ (\A k \in ks : k <= n) /\ (s[n].tool # "other" => n \in ks)
  BY <1>4 DEF ReportedCalls
<1>11. Entries(vote) /\ Entries(poll) /\ Entries(collect) /\ \A e \in vote : VoteFields \subseteq DOMAIN e.what
  BY <1>2 DEF GuardsTypes, Entries
<1>12. /\ \A e \in vote : e.run = r => LastBallot(e.what, s, ks)
       /\ r \notin forgotten => \A e \in vote : e.run = r => VoteFits(e.what, s, ks, TRUE)
       /\ r \notin forgotten /\ r \notin RunsOf(vote) => ks = {}
  <2>1. owed[r] # {} <=> TRUE
    BY <1>3
  <2>2. \A v : VoteFits(v, s, ks, owed[r] # {}) => VoteFits(v, s, ks, TRUE)
    BY <2>1 DEF VoteFits
  <2> HIDE DEF ks, s
  <2> QED BY <1>2, <2>2 DEF RunSound, StoresFit, ks, s
<1>13. /\ \A e \in vote' : e.run = r =>
            /\ LastBallot(e.what, s, ks \cup {n})
            /\ r \notin forgotten' => VoteFits(e.what, s, ks \cup {n}, owed'[r] # {})
       /\ r \in RunsOf(vote')
  <2>1. vote' = VoteAfterCall(r, s[n], "dispatched") /\ NoteSwept
    BY <1>1, <1>3, <1>5 DEF Judge
  <2>2. /\ r \in RunsOf(vote')
        /\ \A e \in vote' : e.run = r =>
             /\ LastBallot(e.what, s, ks \cup {n})
             /\ r \notin forgotten' => VoteFits(e.what, s, ks \cup {n}, FALSE)
    <3>1. n = Len(s)
      OBVIOUS
    <3> HIDE DEF ks, s, n
    <3> QED BY <1>4, <1>10, <1>11, <1>12, <2>1, <3>1, VoteDispatched
  <2>3. \A v : VoteFits(v, s, ks \cup {n}, FALSE) => VoteFits(v, s, ks \cup {n}, owed'[r] # {})
    BY <1>3 DEF VoteFits
  <2> HIDE DEF ks, s, n
  <2> QED BY <2>2, <2>3
<1>14. \A e \in poll' : e.run = r => PollFits(e.what.kind, e.what.round, s, Window(r))
  <2>1. poll' = PollAfterCall(r, s[n]) /\ \A e \in poll : e.run = r => PollFits(e.what.kind, e.what.round, s, Window(r))
    BY <1>1, <1>2, <1>5 DEF Judge, RunSound, StoresFit
  <2> HIDE DEF s, n
  <2> QED BY <1>4, <1>11, <2>1, PollOwn
<1>15. \A e \in collect' : e.run = r => CollectFits(e.what, s, Window(r))
  <2>1. collect' = CollectAfterCall(r, s[n]) /\ \A e \in collect : e.run = r => CollectFits(e.what, s, Window(r))
    BY <1>1, <1>2, <1>5 DEF Judge, RunSound, StoresFit
  <2> HIDE DEF s, n
  <2> QED BY <1>4, <1>11, <2>1, CollectOwn
<1>16. ASSUME NEW i \in DOMAIN said[r]
       PROVE  (said[r][i].after <= Len(calls[r])
               /\ TextFits(said[r][i].text, calls[r], Made(r, i), MadeSeen(r, i), r \in forgotten))'
  <2>1. r \in forgotten => r \in forgotten'
    BY <1>1 DEF Judge, NoteSwept
  <2>2. said[r][i].after <= Len(calls[r])
    BY <1>2 DEF RunSound
  <2> QED BY <1>1, <1>2, <2>1, <2>2, TextSame
<1>17. RunSound(r)'
  <2>1. StoresFit(r)'
    BY <1>1, <1>8, <1>9, <1>13, <1>14, <1>15 DEF StoresFit
  <2>2. (From(r) <= Len(calls[r]) + 1)' /\ owed'[r] = {}
    BY <1>1, <1>2, <1>3, <1>8 DEF RunSound
  <2> QED BY <1>1, <1>16, <2>1, <2>2 DEF RunSound
<1> QED BY <1>6, <1>7, <1>17 DEF GuardsInv

\* What can be said ends with a ballot.
LEMMA SayableLast ==
  ASSUME NEW s, NEW ks \in SUBSET Nat, Sayable(s, ks)
  PROVE  \E k \in ks : (\A j \in ks : j <= k) /\ IsStep(s[k], "vote") /\ s[k].tool = "poll_vote"
<1>1. \E k \in ks : (\A j \in ks : j <= k) /\ IsStep(s[k], "vote")
  BY DEF Sayable, BallotAlone, ReadThenBallot
<1> QED BY <1>1, StepOf DEF IsStep

\* The text of a payload fits the calls since the last one.
LEMMA ReplacedFits ==
  ASSUME GuardsTypes, NEW r \in Runs, RunSound(r), owed[r] = {}, NoteSwept
  PROVE  /\ Replaced(r) \in Texts
         /\ TextFits(Replaced(r), calls[r], Window(r), ReportedCalls(r), r \in forgotten')
<1> DEFINE s == calls[r]
           w == Window(r)
           ks == ReportedCalls(r)
           x == Replaced(r)
           live(store) == r \in RunsOf(Sweep(store))
           p == Entry(poll, r).what
           v == Entry(vote, r).what
           c == Entry(collect, r).what
           armed == live(vote) /\ v.phase = "armed"
<1>1. /\ ks \subseteq w /\ ks \in SUBSET Nat /\ w \subseteq 1..Len(s) /\ s \in Seq(Calls)
      /\ \A k \in w : s[k] \in Calls /\ (s[k].tool # "other" => k \in ks)
  BY Positions DEF ReportedCalls
<1>2. ASSUME NEW store, live(store) PROVE Entry(store, r) \in store /\ Entry(store, r).run = r
  BY <1>2, SweepLeaves, KnownEntry DEF RunsOf
<1>3. r \notin forgotten' => r \notin forgotten /\ (live(vote) \/ r \notin RunsOf(vote))
  BY DEF NoteSwept, Swept
<1>4. ASSUME live(poll) PROVE PollFits(p.kind, p.round, s, w) /\ ~ Sayable(s, ks)
  <2>1. PollFits(p.kind, p.round, s, w)
    BY <1>2, <1>4 DEF RunSound, StoresFit
  <2>2. PICK j \in w : s[j].tool = "poll_result" /\ \A k \in w : k > j => s[k].tool \notin Writes
    BY <2>1 DEF PollFits
  <2>3. ASSUME NEW k \in ks, \A i \in ks : i <= k, s[k].tool = "poll_vote" PROVE FALSE
    <3>1. j \in ks /\ j # k
      BY <1>1, <2>2, <2>3
    <3>2. k > j /\ k \in w
      BY <1>1, <2>3, <3>1
    <3> QED BY <2>2, <2>3, <3>2 DEF Writes
  <2> QED BY <1>1, <2>1, <2>3, SayableLast
<1>5. ASSUME armed
      PROVE  /\ \E k \in ks : (\A j \in ks : j <= k) /\ IsStep(s[k], "vote") /\ s[k].count = v.signature.count
             /\ r \notin forgotten' => Sayable(s, ks)
  <2>1. LastBallot(v, s, ks) /\ (r \notin forgotten => PhaseFits(v, s, ks))
    BY <1>2, <1>5 DEF RunSound, StoresFit, VoteFits
  <2>2. PICK k \in ks : (\A j \in ks : j <= k) /\ IsStep(s[k], "vote") /\ v.signature = Signature(s[k])
    BY <1>5, <2>1 DEF LastBallot
  <2>3. s[k].count = v.signature.count
    BY <2>2, StepOf DEF IsStep
  <2> QED BY <1>3, <1>5, <2>1, <2>2, <2>3 DEF PhaseFits
<1>6. ASSUME r \notin forgotten', Sayable(s, ks) PROVE armed
  <2>1. ks # {} /\ ~ ReadAlone(s, ks)
    BY <1>1, <1>6, SayableNotRead
  <2>2. live(vote)
    BY <1>3, <1>6, <2>1 DEF RunSound, StoresFit
  <2>3. PhaseFits(v, s, ks)
    BY <1>2, <1>3, <1>6, <2>2 DEF RunSound, StoresFit, VoteFits
  <2> QED BY <1>6, <2>1, <2>2, <2>3 DEF PhaseFits, ReadAlone
<1>7. ASSUME live(collect) PROVE CollectFits(c, s, w)
  BY <1>2, <1>7 DEF RunSound, StoresFit
<1>8. CASE live(poll)
  <2>1. x.by = "poll" /\ x.kind = p.kind /\ x.round = p.round
    BY <1>8 DEF Replaced, Plain
  <2>2. x \in Texts
    <3>1. PICK j \in w : s[j].answer = p.kind /\ s[j].round = p.round
      BY <1>4, <1>8 DEF PollFits
    <3>2. p.kind \in {a.answer : a \in Calls} /\ p.round \in {a.round : a \in Calls}
      BY <1>1, <3>1
    <3> QED BY <1>8, <3>2 DEF Replaced, Plain, Texts
  <2> HIDE DEF s, w, ks, x, p
  <2> QED BY <1>4, <1>8, <2>1, <2>2 DEF TextFits, s, w, ks, x
<1>9. CASE ~ live(poll) /\ armed
  <2>1. x.by = "vote" /\ x.count = v.signature.count
    BY <1>9 DEF Replaced, Plain
  <2>2. x \in Texts
    <3>1. v.signature.count \in {a.count : a \in Calls}
      BY <1>1, <1>5, <1>9
    <3> QED BY <1>9, <3>1 DEF Replaced, Plain, Texts
  <2> HIDE DEF s, w, ks, x, v
  <2> QED BY <1>5, <1>9, <2>1, <2>2 DEF TextFits, s, w, ks, x
<1>10. CASE ~ live(poll) /\ ~ armed /\ live(collect) /\ c = "collecting"
  <2>1. x = [Plain EXCEPT !.by = "collect"]
    BY <1>10 DEF Replaced
  <2>2. x.by = "collect" /\ x \in Texts
    BY <2>1 DEF Plain, Texts
  <2> HIDE DEF s, w, ks, x, armed
  <2> QED BY <1>6, <1>7, <1>10, <2>2 DEF TextFits, s, w, ks, x
<1>11. CASE ~ live(poll) /\ ~ armed /\ ~ (live(collect) /\ c = "collecting")
  <2>1. x = Plain
    BY <1>11 DEF Replaced
  <2>2. x.by = "model" /\ x \in Texts
    BY <2>1 DEF Plain, Texts
  <2> HIDE DEF s, w, ks, x, armed
  <2> QED BY <1>6, <1>11, <2>2 DEF TextFits, s, w, ks, x
<1> QED BY <1>8, <1>9, <1>10, <1>11

LEMMA ConsumeLeaves ==
  ASSUME NEW store, NEW r
  PROVE  /\ Consume(store, r) \subseteq store /\ \A e \in Consume(store, r) : e.run # r
         /\ \A u : Below(u, Consume(store, r), store)
         /\ \A u \in RunsOf(Sweep(store)) : u # r => u \in RunsOf(Consume(store, r))
<1>1. Consume(store, r) \subseteq store /\ \A e \in Consume(store, r) : e.run # r
  BY SweepLeaves, DeleteLeaves DEF Consume
<1>2. \A u \in RunsOf(Sweep(store)) : u # r => u \in RunsOf(Consume(store, r))
  BY DeleteLeaves DEF Consume
<1> QED BY <1>1, <1>2 DEF Below

LEMMA ReplySound ==
  ASSUME GuardsInv, NEW r \in Runs, ReplyPayloadSending(r)
  PROVE  GuardsInv'
<1> DEFINE s == calls[r]
<1>0. PICK n : n = Len(said[r]) + 1
  OBVIOUS
<1>1. PICK text \in {Replaced(r), [Plain EXCEPT !.by = "none"]} :
        said' = [said EXCEPT ![r] = Append(@, [text |-> text, after |-> Len(calls[r])])]
  BY DEF ReplyPayloadSending
<1>2. /\ owed[r] = {} /\ vote' = Consume(vote, r) /\ poll' = Consume(poll, r) /\ collect' = Consume(collect, r)
      /\ NoteSwept /\ UNCHANGED <<reports, calls, owed>>
  BY DEF ReplyPayloadSending
<1>3. GuardsTypes /\ RunSound(r) /\ said \in [Runs -> Seq(Payloads)] /\ Len(s) \in Nat /\ said[r] \in Seq(Payloads)
  BY Positions DEF GuardsInv, GuardsTypes
<1>4. text \in Texts /\ TextFits(text, s, Window(r), ReportedCalls(r), r \in forgotten')
  <2>1. CASE text = Replaced(r)
    BY <1>2, <1>3, <2>1, ReplacedFits
  <2>2. CASE text = [Plain EXCEPT !.by = "none"]
    BY <2>2 DEF Plain, Texts, TextFits
  <2> QED BY <2>1, <2>2
<1>5. [text |-> text, after |-> Len(s)] \in Payloads
  BY <1>3, <1>4 DEF Payloads
<1>6. /\ said' \in [Runs -> Seq(Payloads)] /\ \A u \in Runs \ {r} : said'[u] = said[u]
      /\ said'[r] = Append(said[r], [text |-> text, after |-> Len(s)])
  BY <1>1, <1>3, <1>5
<1>7. /\ n \in Nat /\ Len(said'[r]) = n /\ DOMAIN said'[r] = 1..n /\ said'[r] # <<>>
      /\ said'[r][n] = [text |-> text, after |-> Len(s)] /\ \A i \in 1..Len(said[r]) : said'[r][i] = said[r][i]
  BY <1>0, <1>3, <1>5, <1>6
<1>8. GuardsTypes'
  <2>1. vote' \subseteq vote /\ poll' \subseteq poll /\ collect' \subseteq collect
    BY <1>2, ConsumeLeaves
  <2> QED BY <1>2, <1>6, <2>1, <1>3 DEF GuardsTypes
<1>9. forgotten \subseteq forgotten'
  BY <1>2 DEF NoteSwept
<1>10. ASSUME NEW u \in Runs \ {r} PROVE RunSound(u)'
  <2>1. Below(u, vote', vote) /\ Below(u, poll', poll) /\ Below(u, collect', collect)
    BY <1>2, ConsumeLeaves
  <2>2. u \notin forgotten' /\ u \in RunsOf(vote) => u \in RunsOf(vote')
    BY <1>2, ConsumeLeaves DEF NoteSwept, Swept
  <2> QED BY <1>2, <1>6, <1>9, <2>1, <2>2, OtherRun DEF GuardsInv
<1>11. From(r)' = Len(s) + 1 /\ Window(r)' = {} /\ ReportedCalls(r)' = {}
  <2>1. From(r)' = Len(s) + 1
    BY <1>7 DEF From
  <2>2. Window(r)' = {}
    BY <1>2, <1>3, <2>1 DEF Window
  <2> QED BY <2>1, <2>2 DEF ReportedCalls
<1>12. StoresFit(r)'
  <2>1. \A e \in vote' \cup poll' \cup collect' : e.run # r
    BY <1>2, ConsumeLeaves
  <2> QED BY <1>11, <2>1 DEF StoresFit
<1>13. Made(r, n)' = Window(r) /\ MadeSeen(r, n)' = ReportedCalls(r)
  <2>1. Made(r, n)' = Window(r)
    <3>1. CASE said[r] = <<>>
      BY <1>0, <1>2, <1>3, <1>7, <3>1 DEF Made, Window, From
    <3>2. CASE said[r] # <<>>
      <4>1. n # 1 /\ n - 1 = Len(said[r]) /\ Len(said[r]) \in 1..Len(said[r])
        BY <1>0, <1>3, <3>2
      <4>2. said'[r][n - 1] = said[r][Len(said[r])]
        BY <1>7, <4>1
      <4> QED BY <1>2, <1>7, <3>2, <4>1, <4>2 DEF Made, Window, From
    <3> QED BY <3>1, <3>2
  <2>2. \A a : (\E channel \in reports : Observed(a, channel)) <=> a.tool # "other" \/ "dispatched" \in reports
    BY <1>3 DEF GuardsTypes, Observed, Channels
  <2>3. MadeSeen(r, n)' = {k \in Window(r) : \E channel \in reports : Observed(calls[r][k], channel)}
    BY <1>2, <2>1 DEF MadeSeen
  <2>4. ReportedCalls(r) = {k \in Window(r) : calls[r][k].tool # "other" \/ "dispatched" \in reports}
    BY <1>2 DEF ReportedCalls
  <2>5. MadeSeen(r, n)' = ReportedCalls(r)
    BY <2>2, <2>3, <2>4
  <2> QED BY <2>1, <2>5
<1>14. ASSUME NEW i \in 1..n
       PROVE  (said[r][i].after <= Len(calls[r])
               /\ TextFits(said[r][i].text, calls[r], Made(r, i), MadeSeen(r, i), r \in forgotten))'
  <2>1. CASE i = n
    <3>1. said'[r][n].after <= Len(s)
      BY <1>3, <1>7
    <3>2. said'[r][n].text = text
      BY <1>7
    <3>3. TextFits(text, calls'[r], Made(r, n)', MadeSeen(r, n)', r \in forgotten')
      BY <1>2, <1>4, <1>13
    <3> QED BY <1>2, <2>1, <3>1, <3>2, <3>3
  <2>2. CASE i # n
    <3>1. i \in DOMAIN said[r] /\ i \in 1..Len(said[r])
      BY <1>0, <1>3, <2>2
    <3>2. said[r][i].after <= Len(calls[r]) /\ said'[r][i] = said[r][i]
      BY <1>3, <1>7, <3>1 DEF RunSound
    <3>3. \A j \in 1..i : said'[r][j] = said[r][j]
      BY <1>3, <1>7, <3>1
    <3> QED BY <1>2, <1>3, <1>9, <3>1, <3>2, <3>3, TextSame
  <2> QED BY <2>1, <2>2
<1>15. RunSound(r)'
  <2>1. (From(r) <= Len(calls[r]) + 1)' /\ owed'[r] = {}
    BY <1>2, <1>3, <1>11
  <2> QED BY <1>7, <1>12, <1>14, <2>1 DEF RunSound
<1> QED BY <1>8, <1>10, <1>15 DEF GuardsInv

LEMMA SameGuards ==
  ASSUME GuardsInv, UNCHANGED <<reports, collect, vote, poll, calls, owed, said, forgotten>>
  PROVE  GuardsInv'
<1>1. ASSUME NEW u \in Runs PROVE RunSound(u)'
  BY OtherRun DEF GuardsInv, Below
<1>2. GuardsTypes'
  BY DEF GuardsInv, GuardsTypes
<1> QED BY <1>1, <1>2 DEF GuardsInv

LEMMA InitGuards == GuardsInit => GuardsInv
<1> SUFFICES ASSUME GuardsInit PROVE GuardsInv
  OBVIOUS
<1>1. GuardsTypes
  BY DEF GuardsInit, GuardsTypes
<1>2. ASSUME NEW r \in Runs PROVE RunSound(r)
  <2>1. /\ calls[r] = <<>> /\ said[r] = <<>> /\ owed[r] = {} /\ vote = {} /\ poll = {} /\ collect = {}
        /\ Len(calls[r]) = 0 /\ DOMAIN said[r] = {}
    BY DEF GuardsInit
  <2>2. From(r) = 1 /\ Window(r) = {}
    BY <2>1 DEF From, Window
  <2> QED BY <2>1, <2>2 DEF RunSound, StoresFit, ReportedCalls
<1> QED BY <1>1, <1>2 DEF GuardsInv

LEMMA GuardsInvariance == GuardsSpec => []GuardsInv
<1>1. GuardsInit => GuardsInv
  BY InitGuards
<1>2. GuardsInv /\ [GuardsNext]_guardsVars => GuardsInv'
  <2> SUFFICES ASSUME GuardsInv, [GuardsNext]_guardsVars PROVE GuardsInv'
    OBVIOUS
  <2>1. CASE Tick
    BY <2>1, SameGuards DEF Tick
  <2>2. CASE UNCHANGED guardsVars
    BY <2>2, SameGuards DEF guardsVars
  <2> QED BY <2>1, <2>2, FirstReportSound, SecondReportSound, ReplySound DEF GuardsNext
<1> QED BY <1>1, <1>2, PTL DEF GuardsSpec

\* A reply that says a ballot is recorded stands for the run's last call, which recorded
\* it, and unless the run was swept for one of the two accepted sequences of calls.
THEOREM AlwaysSaid == GuardsSpec => []BallotSaid
<1>1. GuardsInv => BallotSaid
  BY DEF GuardsInv, RunSound, TextFits, Sayable, BallotSaid
<1> QED BY <1>1, GuardsInvariance, PTL

\* A run of an accepted sequence that was not swept is answered with its ballot's sentence,
\* whichever channels its calls were reported on.
THEOREM AlwaysHeard == GuardsSpec => []BallotHeard
<1>1. GuardsInv => BallotHeard
  BY DEF GuardsInv, RunSound, TextFits, Sayable, BallotHeard
<1> QED BY <1>1, GuardsInvariance, PTL

\* The sentence about a round or a collection is what the run's calls since its last
\* reply ended with, and is used once.
THEOREM AlwaysCurrent == GuardsSpec => []SentenceCurrent
<1>1. GuardsInv => SentenceCurrent
  <2> SUFFICES ASSUME GuardsInv, NEW r \in Runs, NEW i \in DOMAIN said[r]
               PROVE  LET made == Made(r, i)
                          text == said[r][i].text
                          Later(j) == {calls[r][k] : k \in {k \in made : k > j}}
                      IN /\ text.by = "poll" => \E j \in made :
                              /\ calls[r][j].tool = "poll_result"
                              /\ calls[r][j].answer = text.kind /\ calls[r][j].round = text.round
                              /\ \A c \in Later(j) : c.tool \notin Writes /\ ~ Provisional(c) /\ ~ Final(c)
                         /\ text.by = "collect" => \E j \in made :
                              /\ calls[r][j].tool = "collect" /\ calls[r][j].answer = "collecting"
                              /\ \A c \in Later(j) : c.tool # "submit"
    BY DEF SentenceCurrent
  <2> QED BY DEF GuardsInv, RunSound, TextFits, PollFits, CollectFits
<1> QED BY <1>1, GuardsInvariance, PTL
=============================================================================
