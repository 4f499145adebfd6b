------------------------------- MODULE Folding -------------------------------
(***************************************************************************)
(* What FoldLeft of the community modules computes, one element at a time. *)
(*                                                                         *)
(* The proofs of this project instantiate this module once for each        *)
(* operator that the models fold with: a lemma may not have an operator as *)
(* its parameter, a module may have one as its constant.                   *)
(*                                                                         *)
(* Induction is stated for a set of numbers in place of a predicate.  It   *)
(* follows from WFMin: a set of numbers that is not empty has a least one. *)
(***************************************************************************)
EXTENDS Sequences, Folds, WellFoundedInduction, TLAPS

CONSTANT Op(_, _)

-----------------------------------------------------------------------------
(* Induction *)

\* A set with 0 that has the successor of every number of it has them all.
LEMMA NaturalInduction ==
  ASSUME NEW S, 0 \in S, \A n \in Nat : n \in S => n + 1 \in S
  PROVE  Nat \subseteq S
<1> DEFINE R == OpToRel(<, Nat)
           T == Nat \ S
<1>1. IsWellFoundedOn(R, Nat)
  BY NatLessThanWellFounded
<1> HIDE DEF R
<1> SUFFICES ASSUME T # {} PROVE FALSE
  OBVIOUS
<1>2. PICK x \in T : \A y \in T : <<y, x>> \notin R
  BY <1>1, WFMin
<1>3. x # 0 /\ x - 1 \in Nat /\ x = (x - 1) + 1
  OBVIOUS
<1>4. x - 1 \in T
  BY <1>3
<1>5. <<x - 1, x>> \in R
  BY <1>3 DEF OpToRel, R
<1> QED BY <1>2, <1>4, <1>5

\* Induction over the indices of a sequence.
LEMMA InductionUpTo ==
  ASSUME NEW n \in Nat, NEW S, 0 \in S, \A k \in 1 .. n : k - 1 \in S => k \in S
  PROVE  \A k \in 0 .. n : k \in S
<1> DEFINE U == {k \in Nat : k <= n => k \in S}
<1>1. 0 \in U
  OBVIOUS
<1>2. ASSUME NEW k \in Nat, k \in U
      PROVE  k + 1 \in U
  <2> SUFFICES ASSUME k + 1 <= n PROVE k + 1 \in S
    OBVIOUS
  <2>1. k + 1 \in 1 .. n /\ (k + 1) - 1 = k /\ k <= n
    OBVIOUS
  <2> QED BY <1>2, <2>1
<1> HIDE DEF U
<1>3. Nat \subseteq U
  BY <1>1, <1>2, NaturalInduction
<1> QED BY <1>3 DEF U

-----------------------------------------------------------------------------
(* FoldLeft is a recursion over sets of indices: its equation has a solution *)

Largest(T) == CHOOSE x \in T : \A y \in T : x >= y

\* FoldLeft(Op, base, s), as SequencesExt defines it.  That module is not
\* extended: every instance of this one would carry all that it defines.
Folded(base, s) ==
  MapThenFoldSet(LAMBDA x, y : Op(y, x), base, LAMBDA i : s[i], LAMBDA T : Largest(T), DOMAIN s)

\* The equation of MapThenFoldSet for the sets of indices 1 .. n, which takes
\* the largest index of a set away.
Recursion(f, n, base, s) ==
  f = [T \in SUBSET (1 .. n) |-> IF T = {} THEN base ELSE Op(f[T \ {Largest(T)}], s[Largest(T)])]

\* The largest of indices up to n + 1 that are not all up to n.
LEMMA LastIndex ==
  ASSUME NEW n \in Nat, NEW T \in SUBSET (1 .. n + 1), T \notin SUBSET (1 .. n)
  PROVE  Largest(T) = n + 1
<1>1. n + 1 \in T
  OBVIOUS
<1>2. \A y \in T : n + 1 >= y
  OBVIOUS
<1>3. \A x \in T : (\A y \in T : x >= y) => x = n + 1
  BY <1>1, <1>2
<1> QED BY <1>1, <1>2, <1>3 DEF Largest

\* There is a function that the equation describes.
LEMMA RecursionHasASolution ==
  ASSUME NEW base, NEW s, NEW n \in Nat
  PROVE  \E f : Recursion(f, n, base, s)
<1> DEFINE S == {k \in Nat : \E f : Recursion(f, k, base, s)}
<1>1. 0 \in S
  <2> DEFINE f == [T \in SUBSET (1 .. 0) |-> base]
  <2>1. \A T \in SUBSET (1 .. 0) : T = {}
    OBVIOUS
  <2>2. Recursion(f, 0, base, s)
    BY <2>1 DEF Recursion
  <2> QED BY <2>2
<1>2. ASSUME NEW k \in Nat, k \in S
      PROVE  k + 1 \in S
  <2>1. PICK f : Recursion(f, k, base, s)
    BY <1>2
  <2> DEFINE g == [T \in SUBSET (1 .. k + 1) |->
                     IF T \in SUBSET (1 .. k) THEN f[T] ELSE Op(f[T \ {k + 1}], s[k + 1])]
  <2>2. ASSUME NEW T \in SUBSET (1 .. k + 1)
        PROVE  g[T] = IF T = {} THEN base ELSE Op(g[T \ {Largest(T)}], s[Largest(T)])
    <3>1. CASE T \in SUBSET (1 .. k)
      <4>1. g[T] = f[T] /\ g[T \ {Largest(T)}] = f[T \ {Largest(T)}]
        BY <3>1
      <4>2. f[T] = IF T = {} THEN base ELSE Op(f[T \ {Largest(T)}], s[Largest(T)])
        BY <2>1, <3>1 DEF Recursion
      <4> QED BY <4>1, <4>2
    <3>2. CASE T \notin SUBSET (1 .. k)
      <4>1. Largest(T) = k + 1 /\ T # {}
        BY <3>2, LastIndex
      <4>2. g[T \ {k + 1}] = f[T \ {k + 1}]
        OBVIOUS
      <4>3. g[T] = Op(f[T \ {k + 1}], s[k + 1])
        BY <3>2
      <4> QED BY <4>1, <4>2, <4>3
    <3> QED BY <3>1, <3>2
  <2> DEFINE h == [T \in SUBSET (1 .. k + 1) |->
                     IF T = {} THEN base ELSE Op(g[T \ {Largest(T)}], s[Largest(T)])]
  <2>3. g = h
    <3>1. \A T \in SUBSET (1 .. k + 1) : g[T] = h[T]
      BY <2>2
    <3> HIDE DEF Recursion
    <3> QED BY <3>1
  <2>4. Recursion(g, k + 1, base, s)
    <3> HIDE DEF g
    <3> QED BY <2>3 DEF Recursion
  <2> QED BY <2>4
<1> HIDE DEF S
<1>3. Nat \subseteq S
  BY <1>1, <1>2, NaturalInduction
<1> QED BY <1>3 DEF S

\* A fold is what the solution says of all indices.
LEMMA FoldIsARecursion ==
  ASSUME NEW base, NEW n \in Nat, NEW s, DOMAIN s = 1 .. n
  PROVE  \E f : Recursion(f, n, base, s) /\ Folded(base, s) = f[1 .. n]
<1> DEFINE f == CHOOSE f : Recursion(f, n, base, s)
<1>1. Recursion(f, n, base, s)
  BY RecursionHasASolution
<1>2. Folded(base, s) = f[1 .. n]
  BY DEF Folded, MapThenFoldSet, Recursion
<1> QED BY <1>1, <1>2

-----------------------------------------------------------------------------
(* The steps of a fold *)

\* r holds the results of folding the first elements of s, none of them at first.
Partial(r, n, base, s) ==
  /\ r[0] = base
  /\ \A k \in 1 .. n : r[k] = Op(r[k - 1], s[k])

\* A fold has such results, and is the last of them.
LEMMA FoldSteps ==
  ASSUME NEW base, NEW n \in Nat, NEW s, DOMAIN s = 1 .. n
  PROVE  \E r : Partial(r, n, base, s) /\ Folded(base, s) = r[n]
<1>1. PICK f : Recursion(f, n, base, s) /\ Folded(base, s) = f[1 .. n]
  BY FoldIsARecursion
<1> DEFINE r == [k \in 0 .. n |-> f[1 .. k]]
<1>2. r[0] = base
  <2>1. 1 .. 0 = {}
    OBVIOUS
  <2>2. {} \in SUBSET (1 .. n)
    OBVIOUS
  <2>3. f[{}] = base
    BY <1>1, <2>2 DEF Recursion
  <2> QED BY <2>1, <2>3
<1>3. ASSUME NEW k \in 1 .. n
      PROVE  r[k] = Op(r[k - 1], s[k])
  <2>1. 1 .. k \in SUBSET (1 .. n) /\ 1 .. k # {}
    <3>1. 1 \in 1 .. k
      OBVIOUS
    <3>2. \A j \in 1 .. k : j \in 1 .. n
      OBVIOUS
    <3> QED BY <3>1, <3>2
  <2>2. k - 1 \in Nat /\ (k - 1) + 1 = k
    OBVIOUS
  <2>3. 1 .. k \in SUBSET (1 .. (k - 1) + 1) /\ 1 .. k \notin SUBSET (1 .. k - 1)
    BY <2>2
  <2>4. Largest(1 .. k) = (k - 1) + 1
    BY <2>2, <2>3, LastIndex
  <2>5. (1 .. k) \ {k} = 1 .. k - 1
    OBVIOUS
  <2>6. f[1 .. k] = Op(f[(1 .. k) \ {Largest(1 .. k)}], s[Largest(1 .. k)])
    BY <1>1, <2>1 DEF Recursion
  <2>7. f[1 .. k] = Op(f[1 .. k - 1], s[k])
    BY <2>2, <2>4, <2>5, <2>6
  <2> QED BY <2>7
<1>4. Folded(base, s) = r[n]
  BY <1>1
<1> HIDE DEF r
<1> QED BY <1>2, <1>3, <1>4 DEF Partial

\* It has no others: whatever proceeds like the fold ends where it does.
LEMMA FoldIsLast ==
  ASSUME NEW base, NEW n \in Nat, NEW s, DOMAIN s = 1 .. n, NEW r, Partial(r, n, base, s)
  PROVE  Folded(base, s) = r[n]
<1>1. PICK q : Partial(q, n, base, s) /\ Folded(base, s) = q[n]
  BY FoldSteps
<1> DEFINE S == {k \in 0 .. n : q[k] = r[k]}
<1>2. 0 \in S
  BY <1>1 DEF Partial
<1>3. ASSUME NEW k \in 1 .. n, k - 1 \in S
      PROVE  k \in S
  BY <1>1, <1>3 DEF Partial
<1> HIDE DEF S
<1>4. n \in S
  BY <1>2, <1>3, InductionUpTo
<1> QED BY <1>1, <1>4 DEF S

\* No element leaves the base as it is, one is one application,
LEMMA FoldOfNone ==
  ASSUME NEW base
  PROVE  Folded(base, <<>>) = base
<1> DEFINE s == <<>>
<1>1. DOMAIN s = 1 .. 0
  OBVIOUS
<1> HIDE DEF s
<1>2. PICK r : Partial(r, 0, base, s) /\ Folded(base, s) = r[0]
  BY <1>1, FoldSteps
<1> QED BY <1>2 DEF Partial, s

LEMMA FoldOfOne ==
  ASSUME NEW base, NEW x
  PROVE  Folded(base, <<x>>) = Op(base, x)
<1> DEFINE s == <<x>>
<1>1. DOMAIN s = 1 .. 1 /\ s[1] = x
  OBVIOUS
<1> HIDE DEF s
<1>2. PICK r : Partial(r, 1, base, s) /\ Folded(base, s) = r[1]
  BY <1>1, FoldSteps
<1>3. r[0] = base /\ r[1] = Op(r[1 - 1], s[1])
  BY <1>2 DEF Partial
<1> QED BY <1>1, <1>2, <1>3 DEF s

\* and a sequence can be folded in two parts.
LEMMA FoldOfConcat ==
  ASSUME NEW S, NEW s \in Seq(S), NEW t \in Seq(S), NEW base
  PROVE  Folded(base, s \o t) = Folded(Folded(base, s), t)
<1> DEFINE m == Len(s)
           n == Len(t)
           u == s \o t
<1>1. /\ m \in Nat /\ n \in Nat /\ DOMAIN s = 1 .. m /\ DOMAIN t = 1 .. n
      /\ DOMAIN u = 1 .. m + n
      /\ \A i \in 1 .. m : u[i] = s[i]
      /\ \A i \in 1 .. n : u[m + i] = t[i]
  OBVIOUS
<1> HIDE DEF m, n, u
<1>2. PICK p : Partial(p, m, base, s) /\ Folded(base, s) = p[m]
  BY <1>1, FoldSteps
<1>3. PICK q : Partial(q, n, p[m], t) /\ Folded(p[m], t) = q[n]
  BY <1>1, FoldSteps
<1> DEFINE r == [k \in 0 .. m + n |-> IF k <= m THEN p[k] ELSE q[k - m]]
<1>4. Partial(r, m + n, base, u)
  <2>1. r[0] = base
    BY <1>1, <1>2 DEF Partial
  <2>2. ASSUME NEW k \in 1 .. m + n
        PROVE  r[k] = Op(r[k - 1], u[k])
    <3>1. CASE k <= m
      <4>1. k \in 1 .. m /\ r[k] = p[k] /\ r[k - 1] = p[k - 1]
        BY <1>1, <3>1
      <4> QED BY <1>1, <1>2, <4>1 DEF Partial
    <3>2. CASE k = m + 1
      <4>1. 1 \in 1 .. n /\ r[k] = q[1] /\ r[k - 1] = p[m] /\ u[k] = t[1]
        BY <1>1, <3>2
      <4>2. q[1] = Op(q[1 - 1], t[1]) /\ q[0] = p[m]
        BY <1>3, <4>1 DEF Partial
      <4> QED BY <4>1, <4>2
    <3>3. CASE k > m + 1
      <4>1. /\ k - m \in 1 .. n /\ r[k] = q[k - m] /\ r[k - 1] = q[(k - m) - 1]
            /\ u[k] = t[k - m]
        <5>1. k - m \in 1 .. n /\ m + (k - m) = k /\ (k - 1) - m = (k - m) - 1
          BY <1>1, <3>3
        <5>2. u[k] = t[k - m]
          BY <1>1, <5>1
        <5>3. r[k] = q[k - m] /\ r[k - 1] = q[(k - m) - 1]
          BY <1>1, <3>3, <5>1
        <5> QED BY <5>1, <5>2, <5>3
      <4> QED BY <1>3, <4>1 DEF Partial
    <3> QED BY <1>1, <3>1, <3>2, <3>3
  <2> HIDE DEF r
  <2> QED BY <2>1, <2>2 DEF Partial
<1>5. r[m + n] = q[n]
  <2>1. CASE n = 0
    <3>1. r[m + n] = p[m]
      BY <1>1, <2>1
    <3> QED BY <1>3, <2>1, <3>1 DEF Partial
  <2>2. CASE n # 0
    BY <1>1, <2>2
  <2> QED BY <2>1, <2>2
<1> HIDE DEF r
<1>6. Folded(base, u) = r[m + n]
  BY <1>1, <1>4, FoldIsLast
<1> QED BY <1>2, <1>3, <1>5, <1>6 DEF u

LEMMA FoldOfAppend ==
  ASSUME NEW S, NEW s \in Seq(S), NEW x, NEW base
  PROVE  Folded(base, Append(s, x)) = Op(Folded(base, s), x)
<1>1. s \in Seq(S \cup {x}) /\ <<x>> \in Seq(S \cup {x})
  OBVIOUS
<1>2. Append(s, x) = s \o <<x>>
  OBVIOUS
<1> DEFINE t == <<x>>
<1>3. t \in Seq(S \cup {x}) /\ Append(s, x) = s \o t
  BY <1>1, <1>2
<1>4. Folded(Folded(base, s), t) = Op(Folded(base, s), x)
  BY FoldOfOne
<1> HIDE DEF t
<1>5. Folded(base, s \o t) = Folded(Folded(base, s), t)
  BY <1>1, <1>3, FoldOfConcat
<1> QED BY <1>3, <1>4, <1>5
=============================================================================
