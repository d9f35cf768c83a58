----------------------- MODULE ControllerProofs -------------------------------
(***************************************************************************)
(* Proofs about controllers: the stores of their logs (what the two        *)
(* parties of a merge make of each other's chains, what a store may hold   *)
(* and answer, and that it never moves backwards), and the fold of an      *)
(* epoch, which makes of every presentation what its events deserve.       *)
(***************************************************************************)
EXTENDS ControllerHistory, EpochFold, FiniteSetTheorems, WellFoundedInduction, TLAPS

-----------------------------------------------------------------------------
(* Induction and recursion along the naturals.                             *)

(* A nonempty set of naturals has a least element.                         *)
LEMMA LeastNatural ==
    ASSUME NEW T \in SUBSET Nat, T # {}
    PROVE  \E x \in T : \A y \in T : x <= y
<1> DEFINE R == {r \in Nat \X Nat : r[1] < r[2]}
<1>1. IsWellFoundedOn(R, Nat)
  BY NatLessThanWellFounded DEF OpToRel
<1>2. \E x \in T : \A y \in T : ~(<<y, x>> \in R)
  <2> HIDE DEF R
  <2> QED BY <1>1, WFMin
<1>3. \A x, y \in Nat : <<y, x>> \notin R => x <= y
  OBVIOUS
<1> HIDE DEF R
<1> QED BY <1>2, <1>3

(* What holds at 0 and of the next of what it holds of, holds throughout.  *)
LEMMA StepByStep ==
    ASSUME NEW N \in Nat, NEW T, 0 \in T, \A n \in 0..(N - 1) : n \in T => n + 1 \in T
    PROVE  0..N \subseteq T
<1> DEFINE U == {n \in 0..N : n \notin T}
<1>1. SUFFICES ASSUME U # {} PROVE FALSE
  OBVIOUS
<1>2. PICK x \in U : \A y \in U : x <= y
  <2>1. U \in SUBSET Nat
    OBVIOUS
  <2> HIDE DEF U
  <2> QED BY <1>1, <2>1, LeastNatural
<1>3. x # 0 /\ x - 1 \in 0..(N - 1) /\ x - 1 \notin U
  BY <1>2
<1> QED BY <1>2, <1>3

(* Finitely many naturals have a bound.                                    *)
LEMMA FiniteBounded ==
    ASSUME NEW S \in SUBSET Nat, IsFiniteSet(S)
    PROVE  \E n \in Nat : \A x \in S : x <= n
<1> DEFINE Unbounded == {T \in FiniteSubsetsOf(Nat) : ~\E n \in Nat : \A x \in T : x <= n}
<1>1. SUFFICES ASSUME Unbounded # {} PROVE FALSE
  BY DEF FiniteSubsetsOf
<1>2. PICK T \in Unbounded : \A U \in Unbounded : ~(<<U, T>> \in StrictSubsetOrdering(Nat))
  BY <1>1, FS_StrictSubsetOrderingWellFounded, WFMin
<1>3. T \in SUBSET Nat /\ IsFiniteSet(T)
  BY DEF FiniteSubsetsOf
<1>4. PICK x \in T : TRUE
  BY <1>2
<1> DEFINE U == T \ {x}
<1>5. U \in SUBSET Nat /\ IsFiniteSet(U) /\ U # T /\ U \subseteq T
  BY <1>3, <1>4, FS_RemoveElement
<1>6. U \notin Unbounded
  BY <1>2, <1>3, <1>5 DEF StrictSubsetOrdering
<1>7. PICK n \in Nat : \A y \in U : y <= n
  BY <1>5, <1>6 DEF FiniteSubsetsOf
<1>8. \A y \in T : y <= IF x <= n THEN n ELSE x
  BY <1>3, <1>4, <1>7
<1> QED BY <1>2, <1>3, <1>4, <1>7, <1>8

(* Max is the greatest of finitely many naturals.                          *)
LEMMA Greatest ==
    ASSUME NEW S \in SUBSET Nat, IsFiniteSet(S), S # {}
    PROVE  Max(S) \in S /\ \A x \in S : x <= Max(S)
<1> DEFINE B == {n \in Nat : \A x \in S : x <= n}
<1>1. B # {}
  BY FiniteBounded
<1>2. PICK n \in B : \A m \in B : n <= m
  BY <1>1, LeastNatural
<1>3. n \in S
  <2> SUFFICES ASSUME n \notin S PROVE FALSE
    OBVIOUS
  <2>1. PICK x \in S : TRUE
    OBVIOUS
  <2>2. \A y \in S : y \in Nat /\ y <= n /\ y # n
    OBVIOUS
  <2>3. n \in Nat /\ n # 0 /\ \A y \in S : y <= n - 1
    BY <2>1, <2>2
  <2>4. n - 1 \in B
    BY <2>3
  <2> QED BY <1>2, <2>3, <2>4
<1>4. \E x \in S : \A y \in S : x >= y
  BY <1>3
<1> QED BY <1>4 DEF Max

-----------------------------------------------------------------------------
(* The epoch's fold.                                                       *)

(* Every event's height is within the bound of the recursion.              *)
LEMMA Heights ==
    MaxHeight \in Nat /\ \A e \in Event : Height[e] \in 1..MaxHeight
<1> DEFINE H == {Height[e] : e \in Event}
<1>1. H \in SUBSET Nat /\ Height \in Surjection(Event, H)
  BY EpochAssumption DEF Surjection
<1>2. IsFiniteSet(H)
  BY <1>1, FS_Surjection, EpochAssumption
<1>3. {0} \cup H \in SUBSET Nat /\ IsFiniteSet(H \cup {0}) /\ {0} \cup H = H \cup {0}
  BY <1>1, <1>2, FS_AddElement
<1>4. MaxHeight = Max({0} \cup H)
  BY DEF MaxHeight
<1>5. \A e \in Event : Height[e] \in H /\ Height[e] \in Nat \ {0}
  BY EpochAssumption
<1> HIDE DEF H
<1>6. MaxHeight \in Nat /\ \A x \in H : x <= MaxHeight
  BY <1>3, <1>4, Greatest
<1> QED BY <1>5, <1>6

(* What an event of the epoch must be to apply when those in past do.      *)
Applicable(c, held, new, e, past) ==
    /\ Parents[e] \subseteq past \cup {c}
    /\ Authentic(e, held, new)
    /\ Permitted(c, e, Past[c][e])

(* The recursion of Applies, step by step.                                 *)
LEMMA AppliesByHeight ==
    ASSUME NEW c, NEW t, NEW s
    PROVE  \E f : /\ f[0] = {} /\ Applies(c, t, s) = f[MaxHeight]
                  /\ \A h \in 1..MaxHeight :
                       f[h] = f[h - 1] \cup {e \in Own(c, t \cup s) :
                                  Height[e] = h /\ Applicable(c, t, s, e, f[h - 1])}
<1> DEFINE own == Own(c, t \cup s)
           M == MaxHeight
           Body(u, h) ==
               IF h = 0 THEN {}
               ELSE u[h - 1] \cup
                    {e \in own : /\ Height[e] = h
                                 /\ Parents[e] \subseteq u[h - 1] \cup {c}
                                 /\ Authentic(e, t, s)
                                 /\ Permitted(c, e, Past[c][e])}
           upTo == CHOOSE u : u = [h \in 0..M |-> Body(u, h)]
           T == {n \in 0..M : \E u : u = [h \in 0..n |-> Body(u, h)]}
<1>1. M \in Nat
  BY Heights
<1>2. 0 \in T
  <2> DEFINE u == [h \in 0..0 |-> {}]
  <2>1. u = [h \in 0..0 |-> Body(u, h)]
    OBVIOUS
  <2> HIDE DEF u, Body
  <2> QED BY <1>1, <2>1
<1>3. ASSUME NEW n \in 0..(M - 1), n \in T
      PROVE  n + 1 \in T
  <2>1. PICK u : u = [h \in 0..n |-> Body(u, h)]
    BY <1>3
  <2> DEFINE v == [h \in 0..(n + 1) |-> IF h = n + 1 THEN Body(u, n + 1) ELSE u[h]]
  <2>2. ASSUME NEW h \in 0..(n + 1) PROVE v[h] = Body(v, h)
    <3>1. h # 0 => v[h - 1] = u[h - 1]
      OBVIOUS
    <3>2. Body(v, h) = Body(u, h)
      <4> HIDE DEF own, v
      <4> QED BY <3>1
    <3>3. h # n + 1 => u[h] = Body(u, h)
      <4> HIDE DEF Body
      <4> QED BY <2>1
    <3> HIDE DEF Body
    <3> QED BY <3>2, <3>3
  <2>3. v = [h \in 0..(n + 1) |-> Body(v, h)]
    <3>1. \A h \in 0..(n + 1) : v[h] = Body(v, h)
      BY <2>2
    <3> HIDE DEF Body
    <3> QED BY <3>1
  <2> HIDE DEF v, Body
  <2> QED BY <1>1, <2>3
<1>4. upTo = [h \in 0..M |-> Body(upTo, h)]
  <2>1. M \in T
    <3> HIDE DEF T
    <3>1. 0..M \subseteq T
      BY <1>1, <1>2, <1>3, StepByStep
    <3> QED BY <1>1, <3>1
  <2>2. \E u : u = [h \in 0..M |-> Body(u, h)]
    <3> HIDE DEF Body
    <3> QED BY <2>1
  <2> HIDE DEF own
  <2> QED BY <2>2
<1>5. Applies(c, t, s) = upTo[M]
  BY DEF Applies
<1> HIDE DEF upTo
<1>6. upTo[0] = {}
  BY <1>1, <1>4
<1>7. ASSUME NEW h \in 1..M
      PROVE  upTo[h] = upTo[h - 1] \cup {e \in own : Height[e] = h /\ Applicable(c, t, s, e, upTo[h - 1])}
  <2>1. upTo[h] = Body(upTo, h)
    <3> HIDE DEF Body
    <3> QED BY <1>1, <1>4
  <2> HIDE DEF own
  <2> QED BY <1>1, <2>1 DEF Applicable
<1> QED BY <1>5, <1>6, <1>7

(* The events that apply are those that may, given those that apply.       *)
LEMMA AppliesFixpoint ==
    ASSUME NEW c \in ChainEvent, NEW t, NEW s, Own(c, t \cup s) \subseteq Event
    PROVE  /\ Applies(c, t, s) \subseteq Own(c, t \cup s)
           /\ \A e \in Own(c, t \cup s) :
                e \in Applies(c, t, s) <=> Applicable(c, t, s, e, Applies(c, t, s))
<1> DEFINE own == Own(c, t \cup s)
           M == MaxHeight
           A == Applies(c, t, s)
<1>1. PICK f : /\ f[0] = {} /\ A = f[M]
               /\ \A h \in 1..M : f[h] = f[h - 1] \cup {e \in own :
                        Height[e] = h /\ Applicable(c, t, s, e, f[h - 1])}
  BY AppliesByHeight
<1> HIDE DEF A, own
<1>2. M \in Nat /\ \A e \in own : Height[e] \in 1..M
  BY Heights DEF own
<1>3. \A h \in 0..M : f[h] = {e \in f[M] : Height[e] <= h} /\ f[h] \subseteq own
  <2> DEFINE T == {h \in 0..M : f[h] \subseteq {e \in own : Height[e] <= h}}
             U == {h \in 0..M : {e \in f[h] : Height[e] <= h} \subseteq f[h]
                     /\ \A j \in 0..h : {e \in f[h] : Height[e] <= j} = f[j]}
  <2>1. 0..M \subseteq T
    <3>1. 0 \in T
      BY <1>1, <1>2
    <3>2. ASSUME NEW h \in 0..(M - 1), h \in T PROVE h + 1 \in T
      <4>1. h + 1 \in 1..M /\ (h + 1) - 1 = h
        BY <1>2
      <4>2. f[h + 1] = f[h] \cup {e \in own : Height[e] = h + 1 /\ Applicable(c, t, s, e, f[h])}
        BY <1>1, <4>1
      <4> QED BY <1>2, <3>2, <4>1, <4>2
    <3> HIDE DEF T
    <3> QED BY <1>2, <3>1, <3>2, StepByStep
  <2>2. 0..M \subseteq U
    <3>1. 0 \in U
      BY <1>1, <1>2
    <3>2. ASSUME NEW h \in 0..(M - 1), h \in U PROVE h + 1 \in U
      <4>1. h + 1 \in 1..M /\ (h + 1) - 1 = h
        BY <1>2
      <4>2. f[h + 1] = f[h] \cup {e \in own : Height[e] = h + 1 /\ Applicable(c, t, s, e, f[h])}
        BY <1>1, <4>1
      <4>3. f[h] \subseteq {e \in own : Height[e] <= h} /\ f[h + 1] \subseteq {e \in own : Height[e] <= h + 1}
        <5>1. h \in T /\ h + 1 \in T
          BY <1>2, <2>1, <4>1
        <5> QED BY <5>1
      <4>4. ASSUME NEW j \in 0..(h + 1) PROVE {e \in f[h + 1] : Height[e] <= j} = f[j]
        <5>1. CASE j = h + 1
          BY <4>3, <5>1
        <5>2. CASE j \in 0..h
          <6>1. {e \in f[h] : Height[e] <= j} = f[j]
            BY <3>2, <5>2
          <6>2. \A e \in own : Height[e] = h + 1 => ~(Height[e] <= j)
            BY <1>2, <5>2
          <6>3. {e \in f[h + 1] : Height[e] <= j} = {e \in f[h] : Height[e] <= j}
            BY <4>2, <6>2
          <6> QED BY <6>1, <6>3
        <5> QED BY <5>1, <5>2
      <4> QED BY <4>1, <4>4
    <3> HIDE DEF U
    <3> QED BY <1>2, <3>1, <3>2, StepByStep
  <2>3. M \in 0..M
    BY <1>2
  <2>4. M \in U
    BY <2>2, <2>3
  <2>5. \A h \in 0..M : h \in T
    BY <2>1
  <2>6. \A h \in 0..M : f[h] \subseteq own
    BY <2>5
  <2> QED BY <2>4, <2>6
<1>4. A \subseteq own
  BY <1>1, <1>2, <1>3
<1>5. ASSUME NEW e \in own
      PROVE  e \in A <=> Applicable(c, t, s, e, A)
  <2> DEFINE h == Height[e]
  <2>1. h \in 1..M /\ h - 1 \in 0..M /\ h \in 0..M /\ ~(h <= h - 1)
    BY <1>2
  <2>2. e \in A <=> e \in f[h]
    BY <1>1, <1>3, <2>1
  <2>3. e \notin f[h - 1]
    BY <1>3, <2>1
  <2>4. e \in f[h] <=> Applicable(c, t, s, e, f[h - 1])
    BY <1>1, <2>1, <2>3
  <2>5. Parents[e] \subseteq f[h - 1] \cup {c} <=> Parents[e] \subseteq A \cup {c}
    <3>1. \A p \in Parents[e] : p \in own => Height[p] <= h - 1
      BY <1>2, EpochAssumption DEF own
    <3>2. f[h - 1] = {p \in A : Height[p] <= h - 1}
      BY <1>1, <1>3, <2>1
    <3> QED BY <1>4, <3>1, <3>2
  <2> QED BY <2>2, <2>4, <2>5 DEF Applicable
<1> QED BY <1>4, <1>5 DEF A, own

(* Events that may apply given each other apply.                           *)
LEMMA AppliesClosed ==
    ASSUME NEW c \in ChainEvent, NEW t, NEW s, Own(c, t \cup s) \subseteq Event,
           NEW E \in SUBSET Own(c, t \cup s), \A e \in E : Applicable(c, t, s, e, E)
    PROVE  E \subseteq Applies(c, t, s)
<1> DEFINE A == Applies(c, t, s)
           H == {Height[e] : e \in E \ A}
<1>1. SUFFICES ASSUME H # {} PROVE FALSE
  OBVIOUS
<1>2. PICK h \in H : \A j \in H : h <= j
  <2>1. \A e \in E : Height[e] \in Nat
    BY EpochAssumption
  <2>2. H \in SUBSET Nat
    BY <2>1
  <2> HIDE DEF H
  <2> QED BY <1>1, <2>2, LeastNatural
<1>3. PICK e \in E \ A : Height[e] = h
  OBVIOUS
<1>4. ASSUME NEW p \in Parents[e], p # c PROVE p \in A
  <2>1. p \in E /\ p \in Event /\ e \in Event
    BY <1>3, <1>4 DEF Applicable
  <2>2. Height[p] < Height[e] /\ Height[p] \in Nat /\ Height[e] \in Nat
    BY <2>1, EpochAssumption
  <2> QED BY <1>2, <1>3, <2>1, <2>2
<1>5. Applicable(c, t, s, e, A)
  BY <1>3, <1>4 DEF Applicable
<1> QED BY <1>3, <1>5, AppliesFixpoint

-----------------------------------------------------------------------------
(* What is kept of an epoch.                                               *)

(* Every event has its parents in the set, besides the event that opened   *)
(* the epoch.                                                              *)
Rooted(c, E) == \A e \in E : Parents[e] \subseteq E \cup {c}

(* In a rooted set, there is one more whose parents are in a part of it.   *)
LEMMA NextRooted ==
    ASSUME NEW c, NEW E \in SUBSET Event, Rooted(c, E), NEW S \in SUBSET E, S # E
    PROVE  LET N == {e \in E \ S : Parents[e] \subseteq S \cup {c}}
           IN  Min(N) \in N
<1> DEFINE N == {e \in E \ S : Parents[e] \subseteq S \cup {c}}
           H == {Height[e] : e \in E \ S}
<1>1. N # {}
  <2>1. H \in SUBSET Nat /\ H # {}
    <3>1. \A e \in E : Height[e] \in Nat
      BY Heights
    <3> QED BY <3>1
  <2>2. PICK h \in H : \A j \in H : h <= j
    <3> HIDE DEF H
    <3> QED BY <2>1, LeastNatural
  <2>3. PICK e \in E \ S : Height[e] = h
    OBVIOUS
  <2>4. ASSUME NEW p \in Parents[e], p # c PROVE p \in S
    <3>1. p \in E /\ p \in Event /\ e \in Event
      BY <2>4 DEF Rooted
    <3>2. Height[p] < Height[e] /\ Height[p] \in Nat /\ Height[e] \in Nat
      BY <3>1, EpochAssumption
    <3> QED BY <2>2, <2>3, <3>1, <3>2
  <2> QED BY <2>3, <2>4
<1>2. N \in SUBSET Nat
  BY EpochAssumption
<1> HIDE DEF N
<1>3. PICK e \in N : \A d \in N : e <= d
  BY <1>1, <1>2, LeastNatural
<1>4. Min(N) \in N
  BY <1>3 DEF Min
<1> QED BY <1>4 DEF N

(* The event that is counted after those of S.                             *)
NextOf(c, E, S) == Min({e \in E \ S : Parents[e] \subseteq S \cup {c}})

(* f counts what is kept of events, one after the other when they saturate *)
(* the epoch.                                                              *)
Counts(f, c, E) ==
    /\ f[0] = {}
    /\ \A n \in 1..(MAX_EPOCH_EVENTS + 1) : f[n] = f[n - 1] \cup {NextOf(c, E, f[n - 1])}
    /\ Saturates(E) => Kept(c, E) = f[MAX_EPOCH_EVENTS + 1]
    /\ ~Saturates(E) => Kept(c, E) = E

(* The recursion that keeps the first events of an epoch, step by step.    *)
LEMMA KeptSteps ==
    ASSUME NEW c, NEW E
    PROVE  \E f : Counts(f, c, E)
<1> DEFINE M == MAX_EPOCH_EVENTS + 1
           Next1(S) == Min({e \in E \ S : Parents[e] \subseteq S \cup {c}})
           Body(u, n) ==
               IF n = 0 THEN {}
               ELSE u[n - 1] \cup {Min({e \in E \ u[n - 1] : Parents[e] \subseteq u[n - 1] \cup {c}})}
           first == CHOOSE u : u = [n \in 0..M |-> Body(u, n)]
           T == {n \in 0..M : \E u : u = [h \in 0..n |-> Body(u, h)]}
<1>1. M \in Nat
  BY EpochAssumption
<1>2. 0 \in T
  <2> DEFINE u == [h \in 0..0 |-> {}]
  <2>1. u = [h \in 0..0 |-> Body(u, h)]
    OBVIOUS
  <2> HIDE DEF u, Body
  <2> QED BY <1>1, <2>1
<1>3. ASSUME NEW n \in 0..(M - 1), n \in T
      PROVE  n + 1 \in T
  <2>1. PICK u : u = [h \in 0..n |-> Body(u, h)]
    BY <1>3
  <2> DEFINE v == [h \in 0..(n + 1) |-> IF h = n + 1 THEN Body(u, n + 1) ELSE u[h]]
  <2>2. ASSUME NEW h \in 0..(n + 1) PROVE v[h] = Body(v, h)
    <3>1. h # 0 => v[h - 1] = u[h - 1]
      OBVIOUS
    <3>2. Body(v, h) = Body(u, h)
      <4> HIDE DEF v
      <4> QED BY <3>1
    <3>3. h # n + 1 => u[h] = Body(u, h)
      <4> HIDE DEF Body
      <4> QED BY <2>1
    <3> HIDE DEF Body
    <3> QED BY <3>2, <3>3
  <2>3. v = [h \in 0..(n + 1) |-> Body(v, h)]
    <3>1. \A h \in 0..(n + 1) : v[h] = Body(v, h)
      BY <2>2
    <3> HIDE DEF Body
    <3> QED BY <3>1
  <2> HIDE DEF v, Body
  <2> QED BY <1>1, <2>3
<1>4. first = [n \in 0..M |-> Body(first, n)]
  <2>1. M \in T
    <3> HIDE DEF T
    <3>1. 0..M \subseteq T
      BY <1>1, <1>2, <1>3, StepByStep
    <3> QED BY <1>1, <3>1
  <2>2. \E u : u = [h \in 0..M |-> Body(u, h)]
    <3> HIDE DEF Body
    <3> QED BY <2>1
  <2> QED BY <2>2
<1>5. Kept(c, E) = IF Saturates(E) THEN first[M] ELSE E
  BY DEF Kept
<1> HIDE DEF first
<1>6. first[0] = {} /\ \A n \in 1..M : first[n] = first[n - 1] \cup {Next1(first[n - 1])}
  <2>1. ASSUME NEW n \in 0..M PROVE first[n] = Body(first, n)
    <3> HIDE DEF Body
    <3> QED BY <1>4
  <2>2. ASSUME NEW n \in 1..M PROVE first[n] = first[n - 1] \cup {Next1(first[n - 1])}
    <3>1. n \in 0..M /\ n # 0
      BY <1>1
    <3> QED BY <2>1, <3>1
  <2>3. first[0] = {}
    <3>1. 0 \in 0..M
      BY <1>1
    <3>2. first[0] = IF 0 = 0 THEN {} ELSE first[0 - 1] \cup {Next1(first[0 - 1])}
      BY <2>1, <3>1
    <3> QED BY <3>2
  <2> QED BY <2>2, <2>3
<1>7. \A n \in 1..M : first[n] = first[n - 1] \cup {NextOf(c, E, first[n - 1])}
  BY <1>6 DEF NextOf
<1> QED BY <1>5, <1>6, <1>7 DEF Counts

(* All of a rooted set is kept, or a rooted part that saturates as well.   *)
LEMMA KeptRooted ==
    ASSUME NEW c, NEW E \in SUBSET Event, Rooted(c, E)
    PROVE  /\ Kept(c, E) \subseteq E /\ Rooted(c, Kept(c, E))
           /\ Saturates(Kept(c, E)) <=> Saturates(E)
           /\ ~Saturates(E) => Kept(c, E) = E
           /\ Saturates(E) => Cardinality(Kept(c, E)) = MAX_EPOCH_EVENTS + 1
<1> DEFINE M == MAX_EPOCH_EVENTS + 1
           Next1(S) == NextOf(c, E, S)
<1>1. M \in Nat /\ MAX_EPOCH_EVENTS \in Nat /\ IsFiniteSet(E)
  <2>1. IsFiniteSet(Event) /\ MAX_EPOCH_EVENTS \in Nat
    BY EpochAssumption
  <2> QED BY <2>1, FS_Subset
<1>2. PICK first : Counts(first, c, E)
  BY KeptSteps
<1>5. Kept(c, E) = IF Saturates(E) THEN first[M] ELSE E
  BY <1>2 DEF Counts
<1>6. first[0] = {} /\ \A n \in 1..M : first[n] = first[n - 1] \cup {Next1(first[n - 1])}
  BY <1>2 DEF Counts
<1>7. ASSUME Saturates(E)
      PROVE  first[M] \subseteq E /\ Rooted(c, first[M]) /\ Cardinality(first[M]) = M
  <2> DEFINE U == {n \in 0..M : first[n] \subseteq E /\ Rooted(c, first[n]) /\ Cardinality(first[n]) = n}
  <2>1. 0 \in U
    BY <1>1, <1>6, FS_EmptySet DEF Rooted
  <2>2. ASSUME NEW n \in 0..(M - 1), n \in U PROVE n + 1 \in U
    <3> DEFINE S == first[n]
               e == Next1(S)
    <3>1. S \subseteq E /\ Rooted(c, S) /\ Cardinality(S) = n /\ IsFiniteSet(S)
      BY <1>1, <2>2, FS_Subset
    <3>2. Cardinality(E) > MAX_EPOCH_EVENTS
      BY <1>7 DEF Saturates
    <3>3. S # E
      BY <1>1, <3>1, <3>2
    <3>4. e \in E \ S /\ Parents[e] \subseteq S \cup {c}
      <4> HIDE DEF S
      <4>1. e \in {d \in E \ S : Parents[d] \subseteq S \cup {c}}
        BY <3>1, <3>3, NextRooted DEF NextOf
      <4> HIDE DEF e
      <4> QED BY <4>1
    <3>5. n + 1 \in 1..M /\ n + 1 \in 0..M /\ (n + 1) - 1 = n
      BY <1>1
    <3>6. first[n + 1] = S \cup {e}
      <4> HIDE DEF Next1
      <4> QED BY <1>6, <3>5
    <3> HIDE DEF S, e
    <3>7. Cardinality(S \cup {e}) = n + 1
      BY <3>1, <3>4, FS_AddElement
    <3>8. Rooted(c, S \cup {e})
      BY <3>1, <3>4 DEF Rooted
    <3> QED BY <3>1, <3>4, <3>5, <3>6, <3>7, <3>8
  <2>3. M \in U
    <3> HIDE DEF U
    <3>1. 0..M \subseteq U
      BY <1>1, <2>1, <2>2, StepByStep
    <3> QED BY <1>1, <3>1
  <2> QED BY <2>3
<1> QED BY <1>1, <1>5, <1>7 DEF Saturates

EventsOf(R) == {k.event : k \in R}

(* Copies of one epoch, one of each event, each with its parents and       *)
(* allowed by its past: what a store holds.                                *)
Epochal(c, R) ==
    /\ R \subseteq Copy
    /\ \A j, k \in R : j.event = k.event => j = k
    /\ \A e \in EventsOf(R) : EpochOf[e] = c /\ e \notin Misnamed /\ Permitted(c, e, Past[c][e])
    /\ Rooted(c, EventsOf(R))

(* The events of an epoch that a set of copies holds.                      *)
LEMMA OwnEvents ==
    ASSUME NEW c, NEW R, R \subseteq Copy
    PROVE  /\ Own(c, R) \subseteq Event /\ EventsOf(R) \subseteq Event
           /\ \A e : e \in Own(c, R) <=> e \in EventsOf(R) /\ EpochOf[e] = c /\ e \notin Misnamed
<1>1. \A k \in R : k.event \in Event
  BY EpochAssumption
<1> QED BY <1>1 DEF Own, EventsOf

(* The copy kept of an authentic event is one of its copies.               *)
LEMMA CopyKept ==
    ASSUME NEW t, NEW s, t \subseteq Copy, s \subseteq Copy, NEW e, Authentic(e, t, s)
    PROVE  KeptCopy(e, t, s) \in t \cup s /\ KeptCopy(e, t, s).event = e
<1>1. CASE CopiesOf(e, t) # {}
  BY <1>1 DEF KeptCopy, CopiesOf
<1>2. CASE CopiesOf(e, t) = {}
  <2> DEFINE G == CopiesOf(e, s) \cap Genuine
             Ranks == {k.rank : k \in G}
  <2>1. G # {}
    BY <1>2 DEF Authentic, CopiesOf
  <2>2. \A k \in G : k.rank \in Nat
    BY EpochAssumption DEF CopiesOf
  <2>3. PICK r \in Ranks : \A q \in Ranks : r <= q
    <3>1. Ranks \in SUBSET Nat /\ Ranks # {}
      BY <2>1, <2>2
    <3> HIDE DEF Ranks
    <3> QED BY <3>1, LeastNatural
  <2>4. \E k \in G : \A d \in G : k.rank <= d.rank
    BY <2>3
  <2>5. canonicalCopy(CopiesOf(e, s)) \in G
    BY <2>4 DEF canonicalCopy
  <2>6. KeptCopy(e, t, s) = canonicalCopy(CopiesOf(e, s))
    BY <1>2 DEF KeptCopy
  <2> QED BY <2>5, <2>6 DEF CopiesOf
<1> QED BY <1>1, <1>2

(* Of one epoch there are as many remembered copies as events.             *)
LEMMA EpochalFinite ==
    ASSUME NEW c, NEW R, Epochal(c, R)
    PROVE  /\ IsFiniteSet(EventsOf(R)) /\ Cardinality(R) = Cardinality(EventsOf(R)) /\ IsFiniteSet(R)
           /\ Saturates(R) <=> Saturates(EventsOf(R))
<1> DEFINE E == EventsOf(R)
           f == [e \in E |-> CHOOSE k \in R : k.event = e]
<1>1. E \subseteq Event /\ IsFiniteSet(Event)
  BY OwnEvents, EpochAssumption DEF Epochal
<1>2. IsFiniteSet(E)
  BY <1>1, FS_Subset
<1>3. \A e \in E : f[e] \in R /\ f[e].event = e
  BY DEF EventsOf
<1>4. \A k \in R : k.event \in E /\ f[k.event] = k
  BY <1>3 DEF Epochal, EventsOf
<1>5. f \in Bijection(E, R)
  <2> HIDE DEF f, E
  <2>1. f \in [E -> R]
    BY <1>3 DEF f
  <2> QED BY <1>3, <1>4, <2>1 DEF Bijection, Injection, Surjection, IsInjective
<1>6. Cardinality(R) = Cardinality(E) /\ IsFiniteSet(R)
  BY <1>2, <1>5, FS_Bijection DEF ExistsBijection
<1> QED BY <1>2, <1>6 DEF Saturates

(* What is remembered of a fold is of one epoch, a copy for each kept      *)
(* event.                                                                  *)
LEMMA RememberedEpochal ==
    ASSUME NEW c \in ChainEvent, NEW t, NEW s, t \subseteq Copy, s \subseteq Copy
    PROVE  /\ Epochal(c, Remembered(c, t, s))
           /\ EventsOf(Remembered(c, t, s)) = Kept(c, Applies(c, t, s))
           /\ Saturates(Kept(c, Applies(c, t, s))) <=> Saturates(Applies(c, t, s))
           /\ ~Saturates(Applies(c, t, s)) => Kept(c, Applies(c, t, s)) = Applies(c, t, s)
           /\ Kept(c, Applies(c, t, s)) \subseteq Applies(c, t, s)
<1> DEFINE A == Applies(c, t, s)
           K == Kept(c, A)
           R == Remembered(c, t, s)
<1>1. t \cup s \subseteq Copy /\ Own(c, t \cup s) \subseteq Event
  BY OwnEvents
<1>2. A \subseteq Own(c, t \cup s) /\ \A e \in A : Applicable(c, t, s, e, A)
  BY <1>1, AppliesFixpoint
<1>3. Rooted(c, A)
  BY <1>2 DEF Rooted, Applicable
<1>4. /\ K \subseteq A /\ Rooted(c, K) /\ (Saturates(K) <=> Saturates(A))
      /\ ~Saturates(A) => K = A
  BY <1>1, <1>2, <1>3, KeptRooted
<1>5. \A e \in K : KeptCopy(e, t, s) \in Copy /\ KeptCopy(e, t, s).event = e
  BY <1>1, <1>2, <1>4, CopyKept DEF Applicable
<1>6. R = {KeptCopy(e, t, s) : e \in K}
  BY DEF Remembered
<1> HIDE DEF A, K, R
<1>7. EventsOf(R) = K
  BY <1>5, <1>6 DEF EventsOf
<1>8. \A e \in K : EpochOf[e] = c /\ e \notin Misnamed /\ Permitted(c, e, Past[c][e])
  BY <1>1, <1>2, <1>4, OwnEvents DEF Applicable
<1>9. Epochal(c, R)
  <2>1. R \subseteq Copy
    BY <1>5, <1>6
  <2>2. \A j, k \in R : j.event = k.event => j = k
    BY <1>5, <1>6
  <2>3. Rooted(c, EventsOf(R))
    BY <1>4, <1>7
  <2>4. \A e \in EventsOf(R) : EpochOf[e] = c /\ e \notin Misnamed /\ Permitted(c, e, Past[c][e])
    BY <1>7, <1>8
  <2> QED BY <2>1, <2>2, <2>3, <2>4 DEF Epochal
<1> QED BY <1>4, <1>7, <1>9 DEF A, K, R

(* What is held applies, whatever is shown besides.                        *)
LEMMA HeldApplies ==
    ASSUME NEW c \in ChainEvent, NEW t, NEW s, Epochal(c, t), s \subseteq Copy
    PROVE  EventsOf(t) \subseteq Applies(c, t, s) /\ Applies(c, t, {}) = EventsOf(t)
<1> DEFINE E == EventsOf(t)
<1>1. ASSUME NEW u, u \subseteq Copy PROVE E \subseteq Applies(c, t, u)
  <2>1. t \cup u \subseteq Copy /\ t \subseteq Copy
    BY <1>1 DEF Epochal
  <2>2. Own(c, t \cup u) \subseteq Event /\ E \subseteq Own(c, t \cup u)
    <3>1. E \subseteq EventsOf(t \cup u)
      BY DEF EventsOf
    <3> QED BY <2>1, <3>1, OwnEvents DEF Epochal
  <2>3. \A e \in E : Applicable(c, t, u, e, E)
    BY DEF Epochal, Applicable, Rooted, Authentic, CopiesOf, EventsOf
  <2> HIDE DEF E
  <2> QED BY <2>2, <2>3, AppliesClosed
<1>2. Applies(c, t, {}) \subseteq E
  <2>1. t \cup {} \subseteq Copy
    BY DEF Epochal
  <2> HIDE DEF E
  <2>2. Own(c, t \cup {}) \subseteq Event /\ Own(c, t \cup {}) \subseteq EventsOf(t \cup {})
    BY <2>1, OwnEvents
  <2> QED BY <2>2, AppliesFixpoint DEF E
<1> QED BY <1>1, <1>2

(* "the current epoch's events are never forgotten, only added to".        *)
LEMMA HeldStays ==
    ASSUME NEW c \in ChainEvent, NEW t, NEW s, Epochal(c, t), s \subseteq Copy
    PROVE  \/ Saturates(Remembered(c, t, s)) /\ Saturates(Applies(c, t, s))
           \/ /\ t \subseteq Remembered(c, t, s) /\ ~Saturates(t)
              /\ EventsOf(t) \subseteq Applies(c, t, s)
<1> DEFINE A == Applies(c, t, s)
           R == Remembered(c, t, s)
<1>1. t \subseteq Copy
  BY DEF Epochal
<1>2. /\ Epochal(c, R) /\ EventsOf(R) = Kept(c, A)
      /\ Saturates(Kept(c, A)) <=> Saturates(A)
      /\ ~Saturates(A) => Kept(c, A) = A
  BY <1>1, RememberedEpochal
<1>3. EventsOf(t) \subseteq A
  BY HeldApplies
<1>4. CASE Saturates(A)
  BY <1>2, <1>4, EpochalFinite
<1>5. CASE ~Saturates(A)
  <2>1. ~Saturates(t)
    <3>1. IsFiniteSet(A)
      BY <1>2, <1>5, EpochalFinite
    <3>2. Cardinality(EventsOf(t)) <= Cardinality(A) /\ IsFiniteSet(EventsOf(t))
      BY <1>3, <3>1, FS_Subset
    <3>3. ~Saturates(EventsOf(t))
      BY <1>5, <3>1, <3>2, FS_CardinalityType, EpochAssumption DEF Saturates
    <3> QED BY <3>3, EpochalFinite
  <2>2. ASSUME NEW k \in t PROVE k \in R
    <3>1. k.event \in Kept(c, A)
      BY <1>2, <1>3, <1>5 DEF EventsOf
    <3>2. CopiesOf(k.event, t) = {k}
      BY DEF Epochal, CopiesOf
    <3>3. KeptCopy(k.event, t, s) = k
      BY <3>2 DEF KeptCopy
    <3> QED BY <3>1, <3>3 DEF Remembered
  <2> QED BY <1>3, <2>1, <2>2
<1> QED BY <1>4, <1>5

-----------------------------------------------------------------------------
(* Chains and their spines.                                                *)

(* The recursion of foldChain, step by step.                               *)
LEMMA FoldSteps ==
    ASSUME NEW chain, Len(chain) \in Nat
    PROVE  \E f : /\ f[0] = failed /\ foldChain(chain) = f[Len(chain)]
                  /\ 1 <= Len(chain) => f[1] = initFold(chain[1])
                  /\ \A n \in 2..Len(chain) : f[n] = stepEvent(f[n - 1], chain[n])
<1> DEFINE M == Len(chain)
           Body(u, n) == CASE n = 0 -> failed
                           [] n = 1 -> initFold(chain[1])
                           [] OTHER -> stepEvent(u[n - 1], chain[n])
           upTo == CHOOSE u : u = [n \in 0..M |-> Body(u, n)]
           T == {n \in 0..M : \E u : u = [h \in 0..n |-> Body(u, h)]}
<1>1. 0 \in T
  <2> DEFINE u == [h \in 0..0 |-> failed]
  <2>1. u = [h \in 0..0 |-> Body(u, h)]
    OBVIOUS
  <2> HIDE DEF u, Body
  <2> QED BY <2>1
<1>2. ASSUME NEW n \in 0..(M - 1), n \in T
      PROVE  n + 1 \in T
  <2>1. PICK u : u = [h \in 0..n |-> Body(u, h)]
    BY <1>2
  <2> DEFINE v == [h \in 0..(n + 1) |-> IF h = n + 1 THEN Body(u, n + 1) ELSE u[h]]
  <2>2. ASSUME NEW h \in 0..(n + 1) PROVE v[h] = Body(v, h)
    <3>1. h # 0 => v[h - 1] = u[h - 1]
      OBVIOUS
    <3>2. Body(v, h) = Body(u, h)
      <4> HIDE DEF v
      <4> QED BY <3>1
    <3>3. h # n + 1 => u[h] = Body(u, h)
      <4> HIDE DEF Body
      <4> QED BY <2>1
    <3> HIDE DEF Body
    <3> QED BY <3>2, <3>3
  <2>3. v = [h \in 0..(n + 1) |-> Body(v, h)]
    <3>1. \A h \in 0..(n + 1) : v[h] = Body(v, h)
      BY <2>2
    <3> HIDE DEF Body
    <3> QED BY <3>1
  <2> HIDE DEF v, Body
  <2> QED BY <2>3
<1>3. upTo = [n \in 0..M |-> Body(upTo, n)]
  <2>1. M \in T
    <3> HIDE DEF T
    <3>1. 0..M \subseteq T
      BY <1>1, <1>2, StepByStep
    <3> QED BY <3>1
  <2>2. \E u : u = [h \in 0..M |-> Body(u, h)]
    <3> HIDE DEF Body
    <3> QED BY <2>1
  <2> QED BY <2>2
<1>4. foldChain(chain) = upTo[M]
  BY DEF foldChain
<1> HIDE DEF upTo
<1>5. ASSUME NEW n \in 0..M PROVE upTo[n] = Body(upTo, n)
  <2> HIDE DEF Body
  <2> QED BY <1>3
<1>6. upTo[0] = failed
  <2>1. 0 \in 0..M
    OBVIOUS
  <2>2. upTo[0] = Body(upTo, 0)
    <3> HIDE DEF Body
    <3> QED BY <1>5, <2>1
  <2> QED BY <2>2
<1>7. 1 <= M => upTo[1] = initFold(chain[1])
  BY <1>5
<1>8. \A n \in 2..M : upTo[n] = stepEvent(upTo[n - 1], chain[n])
  BY <1>5
<1> QED BY <1>4, <1>6, <1>7, <1>8

(* Filtered sequences.                                                     *)
LEMMA FilterSteps ==
    ASSUME NEW s, Len(s) \in Nat, NEW places
    PROVE  \E f : /\ f[0] = <<>> /\ filtered(s, places) = f[Len(s)]
                  /\ \A n \in 1..Len(s) : f[n] = IF n \in places THEN Append(f[n - 1], s[n])
                                                 ELSE f[n - 1]
<1> DEFINE M == Len(s)
           Body(u, n) == IF n = 0 THEN <<>>
                         ELSE IF n \in places THEN Append(u[n - 1], s[n]) ELSE u[n - 1]
           upTo == CHOOSE u : u = [n \in 0..M |-> Body(u, n)]
           T == {n \in 0..M : \E u : u = [h \in 0..n |-> Body(u, h)]}
<1>1. 0 \in T
  <2> DEFINE u == [h \in 0..0 |-> <<>>]
  <2>1. u = [h \in 0..0 |-> Body(u, h)]
    OBVIOUS
  <2> HIDE DEF u, Body
  <2> QED BY <2>1
<1>2. ASSUME NEW n \in 0..(M - 1), n \in T
      PROVE  n + 1 \in T
  <2>1. PICK u : u = [h \in 0..n |-> Body(u, h)]
    BY <1>2
  <2> DEFINE v == [h \in 0..(n + 1) |-> IF h = n + 1 THEN Body(u, n + 1) ELSE u[h]]
  <2>2. ASSUME NEW h \in 0..(n + 1) PROVE v[h] = Body(v, h)
    <3>1. h # 0 => v[h - 1] = u[h - 1]
      OBVIOUS
    <3>2. Body(v, h) = Body(u, h)
      <4> HIDE DEF v
      <4> QED BY <3>1
    <3>3. h # n + 1 => u[h] = Body(u, h)
      <4> HIDE DEF Body
      <4> QED BY <2>1
    <3> HIDE DEF Body
    <3> QED BY <3>2, <3>3
  <2>3. v = [h \in 0..(n + 1) |-> Body(v, h)]
    <3>1. \A h \in 0..(n + 1) : v[h] = Body(v, h)
      BY <2>2
    <3> HIDE DEF Body
    <3> QED BY <3>1
  <2> HIDE DEF v, Body
  <2> QED BY <2>3
<1>3. upTo = [n \in 0..M |-> Body(upTo, n)]
  <2>1. M \in T
    <3> HIDE DEF T
    <3>1. 0..M \subseteq T
      BY <1>1, <1>2, StepByStep
    <3> QED BY <3>1
  <2>2. \E u : u = [h \in 0..M |-> Body(u, h)]
    <3> HIDE DEF Body
    <3> QED BY <2>1
  <2> QED BY <2>2
<1>4. filtered(s, places) = upTo[M]
  BY DEF filtered
<1> HIDE DEF upTo
<1>5. ASSUME NEW n \in 0..M PROVE upTo[n] = Body(upTo, n)
  <2> HIDE DEF Body
  <2> QED BY <1>3
<1>6. upTo[0] = <<>>
  <2>1. 0 \in 0..M
    OBVIOUS
  <2>2. upTo[0] = Body(upTo, 0)
    <3> HIDE DEF Body
    <3> QED BY <1>5, <2>1
  <2> QED BY <2>2
<1>7. \A n \in 1..M : upTo[n] = IF n \in places THEN Append(upTo[n - 1], s[n]) ELSE upTo[n - 1]
  BY <1>5
<1> QED BY <1>4, <1>6, <1>7

(* Filtering keeps the type of a sequence.                                 *)
LEMMA FilterType ==
    ASSUME NEW S, NEW s \in Seq(S), NEW places
    PROVE  filtered(s, places) \in Seq(S)
<1>1. PICK f : /\ f[0] = <<>> /\ filtered(s, places) = f[Len(s)]
               /\ \A n \in 1..Len(s) : f[n] = IF n \in places THEN Append(f[n - 1], s[n])
                                              ELSE f[n - 1]
  BY FilterSteps
<1> DEFINE T == {n \in 0..Len(s) : f[n] \in Seq(S)}
<1>2. 0 \in T
  <2>1. <<>> \in Seq(S) /\ 0 \in 0..Len(s)
    OBVIOUS
  <2> QED BY <1>1, <2>1
<1>3. ASSUME NEW n \in 0..(Len(s) - 1), n \in T PROVE n + 1 \in T
  <2>1. n + 1 \in 1..Len(s) /\ (n + 1) - 1 = n /\ s[n + 1] \in S /\ n + 1 \in 0..Len(s)
    OBVIOUS
  <2>2. f[n + 1] = IF n + 1 \in places THEN Append(f[n], s[n + 1]) ELSE f[n]
    BY <1>1, <2>1
  <2>3. f[n] \in Seq(S)
    BY <1>3
  <2>4. Append(f[n], s[n + 1]) \in Seq(S)
    BY <2>1, <2>3
  <2> QED BY <2>1, <2>2, <2>3, <2>4
<1>4. Len(s) \in T
  <2> HIDE DEF T
  <2>1. 0..Len(s) \subseteq T
    BY <1>2, <1>3, StepByStep
  <2> QED BY <2>1
<1> QED BY <1>1, <1>4

(* What a spine is: from the inception, each event follows the one before  *)
(* it, or resets it.                                                       *)
Spined(sp) ==
    /\ sp \in Seq(ChainEvent)
    /\ sp # <<>> => sp[1] = Inception
    /\ \A i \in 1..(Len(sp) - 1) :
         sp[i + 1] \in Sound /\ (follows(sp[i + 1], sp[i]) \/ resets(sp[i + 1], sp[i]))

(* The spine of a chain is a spine.                                        *)
LEMMA SpineSpined ==
    ASSUME NEW chain, Len(chain) \in Nat
    PROVE  Spined(Spine(chain))
<1> DEFINE M == Len(chain)
           Fold == [spine : Seq(ChainEvent), skipped : Nat]
           Good1(g) == g \in Fold /\ Spined(g.spine) /\ (g.spine = <<>> => g = failed)
<1>1. PICK f : /\ f[0] = failed /\ foldChain(chain) = f[M]
               /\ 1 <= M => f[1] = initFold(chain[1])
               /\ \A n \in 2..M : f[n] = stepEvent(f[n - 1], chain[n])
  BY FoldSteps
<1>2. Good1(failed)
  BY DEF failed, Spined
<1>3. ASSUME NEW e PROVE Good1(initFold(e))
  <2>1. CASE e = Inception
    <3>1. initFold(e) = [spine |-> <<Inception>>, skipped |-> 0]
      BY <2>1 DEF initFold
    <3>2. Spined(<<Inception>>)
      BY LogAssumption DEF Spined
    <3> QED BY <3>1, <3>2, LogAssumption
  <2>2. CASE e # Inception
    BY <1>2, <2>2 DEF initFold
  <2> QED BY <2>1, <2>2
<1>4. ASSUME NEW g, Good1(g), NEW e PROVE Good1(stepEvent(g, e))
  <2>1. CASE g = failed
    <3>1. stepEvent(g, e) = failed
      BY <2>1 DEF stepEvent
    <3> QED BY <1>2, <3>1
  <2>2. CASE g # failed
    <3> DEFINE prior == Last(g.spine)
               A == e \in Sound /\ (follows(e, prior) \/ resets(e, prior))
               B == e \in Ignorable /\ follows(e, prior) /\ withinSkipBudget(g)
    <3>1. stepEvent(g, e) = CASE A -> [g EXCEPT !.spine = Append(g.spine, e)]
                              [] B -> [g EXCEPT !.skipped = g.skipped + 1]
                              [] OTHER -> failed
      BY <2>2 DEF stepEvent
    <3>2. ~(A /\ B)
      BY LogAssumption
    <3>3. g \in Fold /\ Spined(g.spine) /\ g.spine # <<>> /\ g.spine \in Seq(ChainEvent)
      BY <1>4, <2>2 DEF Spined
    <3>4. CASE A
      <4> DEFINE sp == g.spine
      <4>1. e \in ChainEvent
        BY <3>4, LogAssumption
      <4>2. Spined(Append(sp, e))
        <5> HIDE DEF sp
        <5>1. sp \in Seq(ChainEvent) /\ sp # <<>> /\ Spined(sp)
          BY <3>3 DEF sp
        <5>2. e \in Sound /\ (follows(e, sp[Len(sp)]) \/ resets(e, sp[Len(sp)]))
          BY <3>4 DEF sp, Last
        <5> QED BY <4>1, <5>1, <5>2 DEF Spined
      <4>3. stepEvent(g, e) = [g EXCEPT !.spine = Append(sp, e)]
        BY <3>1, <3>2, <3>4
      <4>4. Append(sp, e) # <<>> /\ Append(sp, e) \in Seq(ChainEvent)
        BY <3>3, <4>1
      <4> QED BY <3>3, <4>2, <4>3, <4>4
    <3>5. CASE ~A /\ B
      <4>1. stepEvent(g, e) = [g EXCEPT !.skipped = g.skipped + 1]
        <5> HIDE DEF A, B
        <5> QED BY <3>1, <3>5
      <4> QED BY <3>3, <4>1
    <3>6. CASE ~A /\ ~B
      <4>1. stepEvent(g, e) = failed
        <5> HIDE DEF A, B
        <5> QED BY <3>1, <3>6
      <4> QED BY <1>2, <4>1
    <3> QED BY <3>4, <3>5, <3>6
  <2> QED BY <2>1, <2>2
<1> HIDE DEF Good1
<1> DEFINE T == {n \in 0..M : Good1(f[n])}
<1>5. 0 \in T
  BY <1>1, <1>2
<1>6. ASSUME NEW n \in 0..(M - 1), n \in T PROVE n + 1 \in T
  <2>1. CASE n = 0
    BY <1>1, <1>3, <2>1
  <2>2. CASE n # 0
    <3>1. n + 1 \in 2..M /\ (n + 1) - 1 = n
      BY <2>2
    <3> QED BY <1>1, <1>4, <1>6, <3>1
  <2> QED BY <2>1, <2>2
<1>7. M \in T
  <2> HIDE DEF T
  <2>1. 0..M \subseteq T
    BY <1>5, <1>6, StepByStep
  <2> QED BY <2>1
<1> QED BY <1>1, <1>7 DEF Good1, Spine

(* The line of a head's generation: numbered from 0, each event chained to *)
(* the one before it, and all there is of the generation in the spine.     *)
Lined(sp, line) ==
    /\ line \in Seq(ChainEvent) /\ line # <<>> /\ Last(line) = Last(sp)
    /\ \A k \in 1..Len(line) : GenOf[line[k]] = GenOf[Last(sp)] /\ NumOf[line[k]] = k - 1
    /\ \A k \in 2..Len(line) : PrevOf[line[k]] = line[k - 1]
    /\ {line[k] : k \in 1..Len(line)} = {e \in Range(sp) : GenOf[e] = GenOf[Last(sp)]}

(* Generations never fall along a spine.                                   *)
LEMMA GenerationsRise ==
    ASSUME NEW sp, Spined(sp)
    PROVE  \A i, j \in 1..Len(sp) : i <= j => GenOf[sp[i]] <= GenOf[sp[j]]
<1>0. sp \in Seq(ChainEvent) /\ GenOf \in [ChainEvent -> Nat]
  BY LogAssumption DEF Spined
<1>1. ASSUME NEW i \in 1..(Len(sp) - 1) PROVE GenOf[sp[i]] <= GenOf[sp[i + 1]]
  <2>1. i \in 1..Len(sp) /\ i + 1 \in 1..Len(sp)
    BY <1>0
  <2>2. sp[i] \in ChainEvent /\ sp[i + 1] \in ChainEvent
    BY <1>0, <2>1
  <2>3. GenOf[sp[i]] \in Nat /\ GenOf[sp[i + 1]] \in Nat
    BY <1>0, <2>2
  <2>4. follows(sp[i + 1], sp[i]) \/ resets(sp[i + 1], sp[i])
    BY DEF Spined
  <2> QED BY <2>3, <2>4 DEF follows, resets
<1>2. ASSUME NEW i \in 1..Len(sp), NEW j \in 1..Len(sp), i <= j
      PROVE  GenOf[sp[i]] <= GenOf[sp[j]]
  <2> DEFINE T == {n \in 0..(Len(sp) - i) : GenOf[sp[i]] <= GenOf[sp[i + n]]}
  <2>1. \A n \in 0..(Len(sp) - i) : i + n \in 1..Len(sp) /\ GenOf[sp[i + n]] \in Nat
    BY <1>0
  <2>2. 0 \in T
    BY <1>0
  <2>3. ASSUME NEW n \in 0..(Len(sp) - i - 1), n \in T PROVE n + 1 \in T
    <3>1. i + n \in 1..(Len(sp) - 1) /\ i + (n + 1) = (i + n) + 1
      BY <1>0
    <3>2. GenOf[sp[i + n]] <= GenOf[sp[i + (n + 1)]]
      BY <1>1, <3>1
    <3>3. GenOf[sp[i]] \in Nat /\ GenOf[sp[i + n]] \in Nat /\ GenOf[sp[i + (n + 1)]] \in Nat
          /\ n \in 0..(Len(sp) - i) /\ n + 1 \in 0..(Len(sp) - i)
      BY <1>0, <2>1
    <3> QED BY <2>3, <3>2, <3>3
  <2>4. j - i \in 0..(Len(sp) - i) /\ i + (j - i) = j /\ Len(sp) - i \in Nat
    BY <1>0, <1>2
  <2>5. j - i \in T
    <3> HIDE DEF T
    <3>1. 0..(Len(sp) - i) \subseteq T
      BY <2>2, <2>3, <2>4, StepByStep
    <3> QED BY <2>4, <3>1
  <2> QED BY <2>4, <2>5
<1> QED BY <1>2

(* The end of a spine in its last generation counts from one number on.    *)
LEMMA HeadLine ==
    ASSUME NEW sp, Spined(sp), sp # <<>>
    PROVE  Lined(sp, trimmed(sp, GenOf[Last(sp)]))
<1> DEFINE g == GenOf[Last(sp)]
           I == {i \in DOMAIN sp : GenOf[sp[i]] = g}
           m == Min(I)
           line == trimmed(sp, g)
<1>0. sp \in Seq(ChainEvent) /\ GenOf \in [ChainEvent -> Nat] /\ Len(sp) \in Nat \ {0}
      /\ Last(sp) = sp[Len(sp)]
  BY LogAssumption DEF Spined, Last
<1>1. m \in I /\ \A i \in I : m <= i
  <2>1. I \in SUBSET Nat /\ I # {}
    BY <1>0
  <2>2. \E x \in I : \A y \in I : x <= y
    <3> HIDE DEF I
    <3> QED BY <2>1, LeastNatural
  <2> QED BY <2>2 DEF Min
<1> HIDE DEF m
<1>2. m \in 1..Len(sp)
  BY <1>0, <1>1
<1>3. \A i \in m..Len(sp) : GenOf[sp[i]] = g
  <2>1. \A i \in m..Len(sp) : i \in 1..Len(sp) /\ GenOf[sp[i]] \in Nat
    BY <1>0, <1>2
  <2>2. \A i \in m..Len(sp) : GenOf[sp[m]] <= GenOf[sp[i]] /\ GenOf[sp[i]] <= GenOf[sp[Len(sp)]]
    BY <1>0, <1>2, <2>1, GenerationsRise
  <2>3. GenOf[sp[m]] = g /\ g \in Nat
    BY <1>0, <1>1
  <2> QED BY <1>0, <2>1, <2>2, <2>3
<1>4. \A i \in 1..Len(sp) : GenOf[sp[i]] = g => i \in m..Len(sp)
  BY <1>0, <1>1, <1>2
<1>5. \A i \in m..(Len(sp) - 1) : follows(sp[i + 1], sp[i])
  <2> SUFFICES ASSUME NEW i \in m..(Len(sp) - 1) PROVE follows(sp[i + 1], sp[i])
    OBVIOUS
  <2>1. i \in 1..(Len(sp) - 1) /\ i \in m..Len(sp) /\ i + 1 \in m..Len(sp)
    BY <1>0, <1>2
  <2>2. GenOf[sp[i]] = g /\ GenOf[sp[i + 1]] = g /\ g \in Nat
    BY <1>0, <1>3, <2>1
  <2>3. ~resets(sp[i + 1], sp[i])
    BY <2>2 DEF resets
  <2> QED BY <2>1, <2>3 DEF Spined
<1>6. NumOf[sp[m]] = 0
  <2>1. CASE m = 1
    BY <1>0, <2>1, LogAssumption DEF Spined
  <2>2. CASE m # 1
    <3>1. m - 1 \in 1..(Len(sp) - 1) /\ (m - 1) + 1 = m /\ m - 1 \in 1..Len(sp) /\ ~(m - 1 \in m..Len(sp))
      BY <1>0, <1>2, <2>2
    <3>2. GenOf[sp[m - 1]] # g
      BY <1>4, <3>1
    <3>3. ~follows(sp[m], sp[m - 1])
      BY <1>1, <3>2 DEF follows
    <3>4. resets(sp[m], sp[m - 1])
      BY <3>1, <3>3 DEF Spined
    <3> QED BY <3>4 DEF resets
  <2> QED BY <2>1, <2>2
<1>7. \A n \in 0..(Len(sp) - m) : NumOf[sp[m + n]] = n
  <2> DEFINE T == {n \in 0..(Len(sp) - m) : NumOf[sp[m + n]] = n}
  <2>1. 0 \in T
    BY <1>0, <1>2, <1>6
  <2>2. ASSUME NEW n \in 0..(Len(sp) - m - 1), n \in T PROVE n + 1 \in T
    <3>1. m + n \in m..(Len(sp) - 1) /\ m + (n + 1) = (m + n) + 1 /\ n + 1 \in 0..(Len(sp) - m)
      BY <1>0, <1>2
    <3>2. follows(sp[m + (n + 1)], sp[m + n])
      BY <1>5, <3>1
    <3> QED BY <2>2, <3>1, <3>2 DEF follows
  <2>3. Len(sp) - m \in Nat
    BY <1>0, <1>2
  <2>4. 0..(Len(sp) - m) \subseteq T
    <3> HIDE DEF T
    <3> QED BY <2>1, <2>2, <2>3, StepByStep
  <2> QED BY <2>4
<1>8. line = SubSeq(sp, m, Len(sp))
  BY DEF trimmed, m
<1>9. /\ line \in Seq(ChainEvent) /\ Len(line) = Len(sp) - m + 1
      /\ \A k \in 1..Len(line) : line[k] = sp[m + k - 1]
  <2> HIDE DEF line
  <2> QED BY <1>0, <1>2, <1>8
<1> HIDE DEF line, I
<1>10. line # <<>> /\ Last(line) = Last(sp)
  <2>1. Len(line) \in 1..Len(line) /\ m + Len(line) - 1 = Len(sp)
    BY <1>0, <1>2, <1>9
  <2>2. line[Len(line)] = sp[Len(sp)]
    BY <1>9, <2>1
  <2> QED BY <1>0, <2>1, <2>2 DEF Last
<1>11. \A k \in 1..Len(line) : GenOf[line[k]] = g /\ NumOf[line[k]] = k - 1
  <2> SUFFICES ASSUME NEW k \in 1..Len(line) PROVE GenOf[line[k]] = g /\ NumOf[line[k]] = k - 1
    OBVIOUS
  <2>1. k - 1 \in 0..(Len(sp) - m) /\ m + (k - 1) = m + k - 1 /\ m + k - 1 \in m..Len(sp)
    BY <1>0, <1>2, <1>9
  <2> QED BY <1>3, <1>7, <1>9, <2>1
<1>12. \A k \in 2..Len(line) : PrevOf[line[k]] = line[k - 1]
  <2> SUFFICES ASSUME NEW k \in 2..Len(line) PROVE PrevOf[line[k]] = line[k - 1]
    OBVIOUS
  <2>1. m + k - 2 \in m..(Len(sp) - 1) /\ (m + k - 2) + 1 = m + k - 1 /\ m + (k - 1) - 1 = m + k - 2
        /\ k \in 1..Len(line) /\ k - 1 \in 1..Len(line)
    BY <1>0, <1>2, <1>9
  <2>2. line[k] = sp[m + k - 1] /\ line[k - 1] = sp[m + k - 2]
    BY <1>9, <2>1
  <2>3. follows(sp[m + k - 1], sp[m + k - 2])
    BY <1>5, <2>1
  <2> QED BY <2>2, <2>3 DEF follows
<1>13. {line[k] : k \in 1..Len(line)} = {e \in Range(sp) : GenOf[e] = g}
  <2>1. ASSUME NEW k \in 1..Len(line) PROVE line[k] \in Range(sp) /\ GenOf[line[k]] = g
    <3>1. m + k - 1 \in 1..Len(sp)
      BY <1>0, <1>2, <1>9
    <3>2. line[k] = sp[m + k - 1] /\ DOMAIN sp = 1..Len(sp)
      BY <1>0, <1>9
    <3> QED BY <1>11, <3>1, <3>2 DEF Range
  <2>2. ASSUME NEW e \in Range(sp), GenOf[e] = g PROVE \E k \in 1..Len(line) : e = line[k]
    <3>1. PICK i \in 1..Len(sp) : e = sp[i]
      BY <1>0 DEF Range
    <3>2. i \in m..Len(sp)
      BY <1>4, <2>2, <3>1
    <3>3. i - m + 1 \in 1..Len(line) /\ m + (i - m + 1) - 1 = i
      BY <1>0, <1>2, <1>9, <3>2
    <3> QED BY <1>9, <3>1, <3>3
  <2> QED BY <2>1, <2>2
<1> QED BY <1>9, <1>10, <1>11, <1>12, <1>13 DEF Lined, line

(* Two lines that agree at a place agree up to it.                         *)
LEMMA LinesAgree ==
    ASSUME NEW sp, NEW a, Lined(sp, a), NEW sq, NEW b, Lined(sq, b),
           NEW k \in 1..Len(a), k <= Len(b), a[k] = b[k]
    PROVE  SubSeq(a, 1, k) = SubSeq(b, 1, k)
<1>0. a \in Seq(ChainEvent) /\ b \in Seq(ChainEvent) /\ k \in Nat \ {0}
  BY DEF Lined
<1> DEFINE T == {n \in 0..(k - 1) : a[k - n] = b[k - n]}
<1>1. 0 \in T
  BY <1>0
<1>2. ASSUME NEW n \in 0..(k - 1 - 1), n \in T PROVE n + 1 \in T
  <2>1. k - n \in 2..Len(a) /\ k - n \in 2..Len(b) /\ (k - n) - 1 = k - (n + 1) /\ n + 1 \in 0..(k - 1)
    BY <1>0
  <2>2. PrevOf[a[k - n]] = a[k - (n + 1)] /\ PrevOf[b[k - n]] = b[k - (n + 1)]
    BY <2>1 DEF Lined
  <2> QED BY <1>2, <2>1, <2>2
<1>3. 0..(k - 1) \subseteq T
  <2> HIDE DEF T
  <2> QED BY <1>0, <1>1, <1>2, StepByStep
<1>4. \A i \in 1..k : a[i] = b[i]
  <2> SUFFICES ASSUME NEW i \in 1..k PROVE a[i] = b[i]
    OBVIOUS
  <2>1. k - i \in 0..(k - 1) /\ k - (k - i) = i
    BY <1>0
  <2> QED BY <1>3, <2>1
<1> QED BY <1>0, <1>4

(* commonSpine is the length of the longest prefix two lines share.        *)
LEMMA CommonSpine ==
    ASSUME NEW a \in Seq(ChainEvent), NEW b \in Seq(ChainEvent)
    PROVE  LET p == commonSpine(a, b)
           IN  /\ p \in 0..Len(a) /\ p <= Len(b) /\ SubSeq(a, 1, p) = SubSeq(b, 1, p)
               /\ \A n \in 0..Len(a) : n <= Len(b) /\ SubSeq(a, 1, n) = SubSeq(b, 1, n) => n <= p
<1> DEFINE N == {n \in 0..Len(a) : n <= Len(b) /\ SubSeq(a, 1, n) = SubSeq(b, 1, n)}
<1>1. N \in SUBSET Nat /\ IsFiniteSet(N)
  <2>1. N \subseteq 0..Len(a) /\ IsFiniteSet(0..Len(a))
    BY FS_Interval
  <2>2. IsFiniteSet(N)
    BY <2>1, FS_Subset
  <2> QED BY <2>2
<1>2. 0 \in N
  <2>1. SubSeq(a, 1, 0) = <<>> /\ SubSeq(b, 1, 0) = <<>>
    OBVIOUS
  <2> QED BY <2>1
<1>3. commonSpine(a, b) = Max(N)
  BY DEF commonSpine
<1>4. Max(N) \in N /\ \A x \in N : x <= Max(N)
  <2> HIDE DEF N
  <2> QED BY <1>1, <1>2, Greatest
<1> DEFINE p == Max(N)
<1>5. p \in N /\ \A x \in N : x <= p
  BY <1>4
<1> HIDE DEF p
<1>6. commonSpine(a, b) = p
  BY <1>3 DEF p
<1> QED BY <1>5, <1>6

(* The recursion of byHead, step by step.                                  *)
LEMMA HeadSteps ==
    ASSUME NEW valid, Len(valid) \in Nat
    PROVE  \E f : /\ f[0] = <<>> /\ byHead(valid) = f[Len(valid)]
                  /\ \A n \in 1..Len(valid) : f[n] = keepPreferred(f[n - 1], valid[n])
<1> DEFINE M == Len(valid)
           Body(u, n) == IF n = 0 THEN <<>> ELSE keepPreferred(u[n - 1], valid[n])
           upTo == CHOOSE u : u = [n \in 0..M |-> Body(u, n)]
           T == {n \in 0..M : \E u : u = [h \in 0..n |-> Body(u, h)]}
<1>1. 0 \in T
  <2> DEFINE u == [h \in 0..0 |-> <<>>]
  <2>1. u = [h \in 0..0 |-> Body(u, h)]
    OBVIOUS
  <2> HIDE DEF u, Body
  <2> QED BY <2>1
<1>2. ASSUME NEW n \in 0..(M - 1), n \in T
      PROVE  n + 1 \in T
  <2>1. PICK u : u = [h \in 0..n |-> Body(u, h)]
    BY <1>2
  <2> DEFINE v == [h \in 0..(n + 1) |-> IF h = n + 1 THEN Body(u, n + 1) ELSE u[h]]
  <2>2. ASSUME NEW h \in 0..(n + 1) PROVE v[h] = Body(v, h)
    <3>1. h # 0 => v[h - 1] = u[h - 1]
      OBVIOUS
    <3>2. Body(v, h) = Body(u, h)
      <4> HIDE DEF v
      <4> QED BY <3>1
    <3>3. h # n + 1 => u[h] = Body(u, h)
      <4> HIDE DEF Body
      <4> QED BY <2>1
    <3> HIDE DEF Body
    <3> QED BY <3>2, <3>3
  <2>3. v = [h \in 0..(n + 1) |-> Body(v, h)]
    <3>1. \A h \in 0..(n + 1) : v[h] = Body(v, h)
      BY <2>2
    <3> HIDE DEF Body
    <3> QED BY <3>1
  <2> HIDE DEF v, Body
  <2> QED BY <2>3
<1>3. upTo = [n \in 0..M |-> Body(upTo, n)]
  <2>1. M \in T
    <3> HIDE DEF T
    <3>1. 0..M \subseteq T
      BY <1>1, <1>2, StepByStep
    <3> QED BY <3>1
  <2>2. \E u : u = [h \in 0..M |-> Body(u, h)]
    <3> HIDE DEF Body
    <3> QED BY <2>1
  <2> QED BY <2>2
<1>4. byHead(valid) = upTo[M]
  BY DEF byHead
<1> HIDE DEF upTo
<1>5. ASSUME NEW n \in 0..M PROVE upTo[n] = Body(upTo, n)
  <2> HIDE DEF Body
  <2> QED BY <1>3
<1>6. upTo[0] = <<>>
  <2>1. 0 \in 0..M
    OBVIOUS
  <2>2. upTo[0] = Body(upTo, 0)
    <3> HIDE DEF Body
    <3> QED BY <1>5, <2>1
  <2> QED BY <2>2
<1>7. \A n \in 1..M : upTo[n] = keepPreferred(upTo[n - 1], valid[n])
  BY <1>5
<1> QED BY <1>4, <1>6, <1>7

(* The rounds of resolveContenders.                                        *)
Narrowing(f, group) ==
    /\ f[0] = group /\ resolveContenders(group) = f[Len(group)]
    /\ \A n \in 1..Len(group) :
         f[n] = narrowedTo(f[n - 1], beyond(f[n - 1], divergence(f[n - 1])))

(* The loop of resolveContenders, step by step.                            *)
LEMMA ContenderSteps ==
    ASSUME NEW contenders, Len(contenders) \in Nat
    PROVE  \E f : Narrowing(f, contenders)
<1> DEFINE M == Len(contenders)
           Body(u, n) == IF n = 0 THEN contenders ELSE narrowedTo(u[n - 1], beyond(u[n - 1], divergence(u[n - 1])))
           upTo == CHOOSE u : u = [n \in 0..M |-> Body(u, n)]
           T == {n \in 0..M : \E u : u = [h \in 0..n |-> Body(u, h)]}
<1>1. 0 \in T
  <2> DEFINE u == [h \in 0..0 |-> contenders]
  <2>1. u = [h \in 0..0 |-> Body(u, h)]
    OBVIOUS
  <2> HIDE DEF u, Body
  <2> QED BY <2>1
<1>2. ASSUME NEW n \in 0..(M - 1), n \in T
      PROVE  n + 1 \in T
  <2>1. PICK u : u = [h \in 0..n |-> Body(u, h)]
    BY <1>2
  <2> DEFINE v == [h \in 0..(n + 1) |-> IF h = n + 1 THEN Body(u, n + 1) ELSE u[h]]
  <2>2. ASSUME NEW h \in 0..(n + 1) PROVE v[h] = Body(v, h)
    <3>1. h # 0 => v[h - 1] = u[h - 1]
      OBVIOUS
    <3>2. Body(v, h) = Body(u, h)
      <4> HIDE DEF v
      <4> QED BY <3>1
    <3>3. h # n + 1 => u[h] = Body(u, h)
      <4> HIDE DEF Body
      <4> QED BY <2>1
    <3> HIDE DEF Body
    <3> QED BY <3>2, <3>3
  <2>3. v = [h \in 0..(n + 1) |-> Body(v, h)]
    <3>1. \A h \in 0..(n + 1) : v[h] = Body(v, h)
      BY <2>2
    <3> HIDE DEF Body
    <3> QED BY <3>1
  <2> HIDE DEF v, Body
  <2> QED BY <2>3
<1>3. upTo = [n \in 0..M |-> Body(upTo, n)]
  <2>1. M \in T
    <3> HIDE DEF T
    <3>1. 0..M \subseteq T
      BY <1>1, <1>2, StepByStep
    <3> QED BY <3>1
  <2>2. \E u : u = [h \in 0..M |-> Body(u, h)]
    <3> HIDE DEF Body
    <3> QED BY <2>1
  <2> QED BY <2>2
<1>4. resolveContenders(contenders) = upTo[M]
  BY DEF resolveContenders
<1> HIDE DEF upTo
<1>5. ASSUME NEW n \in 0..M PROVE upTo[n] = Body(upTo, n)
  <2> HIDE DEF Body
  <2> QED BY <1>3
<1>6. upTo[0] = contenders
  <2>1. 0 \in 0..M
    OBVIOUS
  <2>2. upTo[0] = Body(upTo, 0)
    <3> HIDE DEF Body
    <3> QED BY <1>5, <2>1
  <2> QED BY <2>2
<1>7. \A n \in 1..M : upTo[n] = narrowedTo(upTo[n - 1], beyond(upTo[n - 1], divergence(upTo[n - 1])))
  BY <1>5
<1>8. Narrowing(upTo, contenders)
  BY <1>4, <1>6, <1>7 DEF Narrowing
<1> QED BY <1>8

(* Two sequences of two elements.                                          *)
LEMMA AppendTwo ==
    ASSUME NEW x, NEW y
    PROVE  Append(<<x>>, y) = <<x, y>>
<1> DEFINE S == {x, y}
           p == Append(<<x>>, y)
           q == <<x, y>>
<1>1. <<x>> \in Seq(S) /\ Len(<<x>>) = 1 /\ <<x>>[1] = x
  OBVIOUS
<1>2. p \in Seq(S) /\ Len(p) = 2 /\ p[1] = x /\ p[2] = y
  BY <1>1
<1>3. q \in Seq(S) /\ Len(q) = 2 /\ q[1] = x /\ q[2] = y
  OBVIOUS
<1>4. \A i \in 1..2 : p[i] = q[i]
  <2> HIDE DEF p, q
  <2> QED BY <1>2, <1>3
<1> HIDE DEF p, q
<1>5. p = q
  BY <1>2, <1>3, <1>4
<1> QED BY <1>5 DEF p, q

(* Filtering a sequence of one.                                            *)
LEMMA FilterOne ==
    ASSUME NEW x, NEW places
    PROVE  filtered(<<x>>, places) = IF 1 \in places THEN <<x>> ELSE <<>>
<1>1. Len(<<x>>) = 1 /\ <<x>>[1] = x /\ Append(<<>>, x) = <<x>>
  OBVIOUS
<1> DEFINE s == <<x>>
<1>2. Len(s) = 1 /\ s[1] = x
  BY <1>1
<1> HIDE DEF s
<1>3. PICK f : /\ f[0] = <<>> /\ filtered(s, places) = f[Len(s)]
               /\ \A n \in 1..Len(s) : f[n] = IF n \in places THEN Append(f[n - 1], s[n])
                                              ELSE f[n - 1]
  BY <1>2, FilterSteps
<1>4. f[1] = IF 1 \in places THEN Append(f[0], s[1]) ELSE f[0]
  <2>1. 1 \in 1..Len(s) /\ 1 - 1 = 0
    BY <1>2
  <2> QED BY <1>3, <2>1
<1>5. filtered(s, places) = IF 1 \in places THEN <<x>> ELSE <<>>
  BY <1>1, <1>2, <1>3, <1>4
<1> QED BY <1>5 DEF s

(* Filtering a sequence of two.                                            *)
LEMMA FilterTwo ==
    ASSUME NEW x, NEW y, NEW places
    PROVE  filtered(<<x, y>>, places) =
             IF 1 \in places THEN IF 2 \in places THEN <<x, y>> ELSE <<x>>
             ELSE IF 2 \in places THEN <<y>> ELSE <<>>
<1>1. /\ Len(<<x, y>>) = 2 /\ <<x, y>>[1] = x /\ <<x, y>>[2] = y /\ Append(<<>>, x) = <<x>>
      /\ Append(<<x>>, y) = <<x, y>> /\ Append(<<>>, y) = <<y>>
  BY AppendTwo
<1> DEFINE s == <<x, y>>
<1>2. Len(s) = 2 /\ s[1] = x /\ s[2] = y
  BY <1>1
<1> HIDE DEF s
<1>3. PICK f : /\ f[0] = <<>> /\ filtered(s, places) = f[Len(s)]
               /\ \A n \in 1..Len(s) : f[n] = IF n \in places THEN Append(f[n - 1], s[n])
                                              ELSE f[n - 1]
  BY <1>2, FilterSteps
<1>4. f[1] = IF 1 \in places THEN Append(f[0], s[1]) ELSE f[0]
  <2>1. 1 \in 1..Len(s) /\ 1 - 1 = 0
    BY <1>2
  <2> QED BY <1>3, <2>1
<1>5. f[2] = IF 2 \in places THEN Append(f[1], s[2]) ELSE f[1]
  <2>1. 2 \in 1..Len(s) /\ 2 - 1 = 1
    BY <1>2
  <2> QED BY <1>3, <2>1
<1>6. filtered(s, places) = IF 1 \in places THEN IF 2 \in places THEN <<x, y>> ELSE <<x>>
                            ELSE IF 2 \in places THEN <<y>> ELSE <<>>
  <2>1. filtered(s, places) = f[2] /\ f[0] = <<>>
    BY <1>2, <1>3
  <2>2. CASE 1 \in places
    <3>1. f[1] = <<x>>
      BY <1>1, <1>2, <1>4, <2>1, <2>2
    <3>2. f[2] = IF 2 \in places THEN Append(<<x>>, y) ELSE <<x>>
      BY <1>2, <1>5, <3>1
    <3> QED BY <1>1, <2>1, <2>2, <3>2
  <2>3. CASE 1 \notin places
    <3>1. f[1] = <<>>
      BY <1>4, <2>1, <2>3
    <3>2. f[2] = IF 2 \in places THEN Append(<<>>, y) ELSE <<>>
      BY <1>2, <1>5, <3>1
    <3> QED BY <1>1, <2>1, <2>3, <3>2
  <2> QED BY <2>2, <2>3
<1> QED BY <1>6 DEF s

(* byHead of two branches.                                                 *)
LEMMA KeptTwo ==
    ASSUME NEW x, NEW y
    PROVE  /\ byHead(<<>>) = <<>> /\ byHead(<<x>>) = <<x>>
           /\ headState(x) # headState(y) => byHead(<<x, y>>) = <<x, y>>
           /\ headState(x) = headState(y) => byHead(<<x, y>>) \in {<<x>>, <<y>>}
<1>1. keepPreferred(<<>>, x) = <<x>>
  <2>1. Append(<<>>, x) = <<x>> /\ \A i \in DOMAIN <<>> : FALSE
    OBVIOUS
  <2> QED BY <2>1 DEF keepPreferred
<1>2. /\ headState(x) # headState(y) => keepPreferred(<<x>>, y) = <<x, y>>
      /\ headState(x) = headState(y) => keepPreferred(<<x>>, y) \in {<<x>>, <<y>>}
  <2>1. DOMAIN <<x>> = 1..1 /\ <<x>>[1] = x /\ Append(<<x>>, y) = <<x, y>>
    BY AppendTwo
  <2>2. \A z : [i \in 1..1 |-> z] = <<z>>
    OBVIOUS
  <2>3. CASE headState(x) # headState(y)
    BY <2>1, <2>3 DEF keepPreferred
  <2>4. CASE headState(x) = headState(y)
    <3> DEFINE z == IF preferred(y.chain, x.chain) THEN y ELSE x
    <3>1. keepPreferred(<<x>>, y) =
            [i \in DOMAIN <<x>> |->
               IF headState(<<x>>[i]) = headState(y) /\ preferred(y.chain, <<x>>[i].chain)
               THEN y ELSE <<x>>[i]]
      BY <2>1, <2>4 DEF keepPreferred
    <3>2. keepPreferred(<<x>>, y) = [i \in 1..1 |-> z]
      BY <2>1, <2>4, <3>1
    <3>3. keepPreferred(<<x>>, y) = <<z>>
      BY <2>2, <3>2
    <3> QED BY <2>4, <3>3
  <2> QED BY <2>3, <2>4
<1>3. byHead(<<>>) = <<>>
  <2>1. Len(<<>>) = 0
    OBVIOUS
  <2>2. PICK f : f[0] = <<>> /\ byHead(<<>>) = f[Len(<<>>)]
    BY <2>1, HeadSteps
  <2> QED BY <2>1, <2>2
<1>4. byHead(<<x>>) = <<x>>
  <2> DEFINE v == <<x>>
  <2>1. Len(v) = 1 /\ v[1] = x
    OBVIOUS
  <2> HIDE DEF v
  <2>2. PICK f : /\ f[0] = <<>> /\ byHead(v) = f[Len(v)]
                 /\ \A n \in 1..Len(v) : f[n] = keepPreferred(f[n - 1], v[n])
    BY <2>1, HeadSteps
  <2>3. f[1] = keepPreferred(f[0], v[1])
    BY <2>1, <2>2
  <2>4. byHead(v) = <<x>>
    BY <1>1, <2>1, <2>2, <2>3
  <2> QED BY <2>4 DEF v
<1>5. byHead(<<x, y>>) = keepPreferred(<<x>>, y)
  <2> DEFINE v == <<x, y>>
  <2>1. Len(v) = 2 /\ v[1] = x /\ v[2] = y
    OBVIOUS
  <2> HIDE DEF v
  <2>2. PICK f : /\ f[0] = <<>> /\ byHead(v) = f[Len(v)]
                 /\ \A n \in 1..Len(v) : f[n] = keepPreferred(f[n - 1], v[n])
    BY <2>1, HeadSteps
  <2>3. f[1] = keepPreferred(f[0], v[1])
    BY <2>1, <2>2
  <2>4. f[2] = keepPreferred(f[1], v[2])
    BY <2>1, <2>2
  <2>5. byHead(v) = keepPreferred(<<x>>, y)
    BY <1>1, <2>1, <2>2, <2>3, <2>4
  <2> QED BY <2>5 DEF v
<1> QED BY <1>2, <1>3, <1>4, <1>5

(* A branch without a rival wins.                                          *)
LEMMA LoneBranch ==
    ASSUME NEW b
    PROVE  selectWinner(<<b>>).winner = b.chain /\ selectWinner(<<b>>).fork = {}
<1> DEFINE g == GenOf[headState(b)]
           G == [branch |-> b, line |-> trimmed(b.spine, g)]
           s == <<b>>
<1>1. DOMAIN s = {1} /\ s[1] = b /\ s # <<>>
  OBVIOUS
<1>2. topGen(s) = g
  <2>1. {GenOf[headState(s[i])] : i \in DOMAIN s} = {g}
    BY <1>1
  <2>2. Max({g}) = g
    BY DEF Max
  <2> QED BY <2>1, <2>2 DEF topGen
<1>3. contestants(s, g) = <<G>>
  <2>1. filtered(s, {i \in DOMAIN s : GenOf[headState(s[i])] = g}) = <<b>>
    <3>1. 1 \in {i \in DOMAIN s : GenOf[headState(s[i])] = g}
      BY <1>1
    <3> QED BY <3>1, FilterOne
  <2>2. contestants(s, g) = [i \in DOMAIN <<b>> |-> [branch |-> <<b>>[i], line |-> trimmed(<<b>>[i].spine, g)]]
    BY <2>1 DEF contestants
  <2>3. contestants(s, g) = [i \in 1..1 |-> G]
    BY <2>2
  <2> HIDE DEF G
  <2> QED BY <2>3
<1>4. resolveContenders(<<G>>) = <<G>>
  <2> DEFINE v == <<G>>
  <2>1. Len(v) = 1
    OBVIOUS
  <2> HIDE DEF v
  <2>2. PICK f : Narrowing(f, v)
    BY <2>1, ContenderSteps
  <2>3. f[1] = narrowedTo(f[0], beyond(f[0], divergence(f[0])))
    BY <2>1, <2>2 DEF Narrowing
  <2>4. resolveContenders(v) = v
    BY <2>1, <2>2, <2>3 DEF Narrowing, narrowedTo
  <2> QED BY <2>4 DEF v
<1>5. selectWinner(s) = concluded(<<G>>, s)
  <2> HIDE DEF s, g
  <2> QED BY <1>1, <1>2, <1>3, <1>4 DEF selectWinner
<1>6. Len(<<G>>) = 1 /\ <<G>>[1] = G /\ G.branch = b
  OBVIOUS
<1> HIDE DEF G, s, g
<1>7. selectWinner(s).winner = b.chain /\ selectWinner(s).fork = {}
  BY <1>5, <1>6 DEF concluded
<1> QED BY <1>7 DEF s

(* What resolveBranches says of two branches with different heads: the     *)
(* higher generation wins; in one generation the line that extends the     *)
(* other, and two lines that part are a fork.                              *)
Duel(r, x, y, la, lb) ==
    LET g == GenOf[headState(x)]
        h == GenOf[headState(y)]
        p == commonSpine(la, lb)
    IN  /\ g > h => r.winner = x.chain /\ r.fork = {}
        /\ h > g => r.winner = y.chain /\ r.fork = {}
        /\ g = h => \/ p = Len(la) /\ p < Len(lb) /\ r.winner = y.chain /\ r.fork = {}
                    \/ p = Len(lb) /\ p < Len(la) /\ r.winner = x.chain /\ r.fork = {}
                    \/ p < Len(la) /\ p < Len(lb) /\ r.winner = <<>> /\ r.fork # {}

(* The whole of a sequence is that sequence.                               *)
LEMMA WholeLine ==
    ASSUME NEW q \in Seq(ChainEvent)
    PROVE  SubSeq(q, 1, Len(q)) = q
<1> DEFINE r == SubSeq(q, 1, Len(q))
<1>1. r \in Seq(ChainEvent) /\ Len(r) = Len(q) /\ \A i \in 1..Len(q) : r[i] = q[i]
  OBVIOUS
<1> HIDE DEF r
<1>2. r = q
  BY <1>1
<1> QED BY <1>2 DEF r

(* The highest generation of two branches.                                 *)
LEMMA TopOfTwo ==
    ASSUME NEW x, NEW y, GenOf[headState(x)] \in Nat, GenOf[headState(y)] \in Nat
    PROVE  topGen(<<x, y>>) = IF GenOf[headState(x)] >= GenOf[headState(y)]
                              THEN GenOf[headState(x)] ELSE GenOf[headState(y)]
<1> DEFINE g == GenOf[headState(x)]
           h == GenOf[headState(y)]
           s == <<x, y>>
<1>1. {GenOf[headState(s[i])] : i \in DOMAIN s} = {g, h}
  <2>1. DOMAIN s = {1, 2} /\ s[1] = x /\ s[2] = y
    OBVIOUS
  <2> HIDE DEF s
  <2> QED BY <2>1
<1>2. IsFiniteSet({g, h}) /\ {g, h} \in SUBSET Nat /\ {g, h} # {}
  <2>1. IsFiniteSet({g}) /\ {g} \cup {h} = {g, h}
    BY FS_Singleton
  <2>2. IsFiniteSet({g} \cup {h})
    BY <2>1, FS_AddElement
  <2> QED BY <2>1, <2>2
<1>3. Max({g, h}) \in {g, h} /\ \A z \in {g, h} : z <= Max({g, h})
  <2> DEFINE S == {g, h}
  <2>1. S \in SUBSET Nat /\ IsFiniteSet(S) /\ S # {}
    BY <1>2
  <2> HIDE DEF S
  <2>2. Max(S) \in S /\ \A z \in S : z <= Max(S)
    BY <2>1, Greatest
  <2> QED BY <2>2 DEF S
<1>4. topGen(s) = Max({g, h})
  BY <1>1 DEF topGen
<1> DEFINE m == Max({g, h})
<1>5. m \in {g, h} /\ g <= m /\ h <= m /\ topGen(s) = m
  BY <1>3, <1>4
<1> HIDE DEF m
<1>6. topGen(s) = IF g >= h THEN g ELSE h
  BY <1>5
<1> QED BY <1>6

(* Two rounds at most, and the second changes nothing.                     *)
LEMMA TwoContenders ==
    ASSUME NEW x, NEW y, x.line \in Seq(ChainEvent), y.line \in Seq(ChainEvent),
           x.line # y.line
    PROVE  LET p == commonSpine(x.line, y.line)
               end == resolveContenders(<<x, y>>)
           IN  /\ p <= Len(x.line) /\ p <= Len(y.line) /\ divergence(<<x, y>>) = p
               /\ ~(p = Len(x.line) /\ p = Len(y.line))
               /\ end = IF p = Len(x.line) THEN <<y>> ELSE IF p = Len(y.line) THEN <<x>> ELSE <<x, y>>
<1> DEFINE la == x.line
           lb == y.line
           p == commonSpine(la, lb)
           v == <<x, y>>
<1>1. /\ p \in 0..Len(la) /\ p <= Len(lb) /\ SubSeq(la, 1, p) = SubSeq(lb, 1, p)
      /\ Len(la) \in Nat /\ Len(lb) \in Nat
  <2> HIDE DEF la, lb
  <2>1. la \in Seq(ChainEvent) /\ lb \in Seq(ChainEvent)
    BY DEF la, lb
  <2>2. p \in 0..Len(la) /\ p <= Len(lb) /\ SubSeq(la, 1, p) = SubSeq(lb, 1, p)
    BY <2>1, CommonSpine
  <2>3. Len(la) \in Nat /\ Len(lb) \in Nat
    BY <2>1
  <2> HIDE DEF p
  <2> QED BY <2>2, <2>3
<1>2. ~(p = Len(la) /\ p = Len(lb))
  <2> SUFFICES ASSUME p = Len(la), p = Len(lb) PROVE FALSE
    OBVIOUS
  <2>1. SubSeq(la, 1, Len(la)) = la /\ SubSeq(lb, 1, Len(lb)) = lb
    BY WholeLine
  <2>2. la = lb
    <3> HIDE DEF p, la, lb
    <3> QED BY <1>1, <2>1
  <2> QED BY <2>2
<1>3. commonSpine(la, la) = Len(la)
  <2> HIDE DEF la
  <2>1. la \in Seq(ChainEvent) /\ Len(la) \in 0..Len(la) /\ Len(la) <= Len(la)
    BY DEF la
  <2>2. commonSpine(la, la) \in 0..Len(la) /\ Len(la) <= commonSpine(la, la)
    BY <2>1, CommonSpine
  <2> QED BY <2>1, <2>2
<1>4. v[1] = x /\ v[2] = y /\ DOMAIN v = {1, 2} /\ Len(v) = 2
  OBVIOUS
<1>5. divergence(v) = p
  <2>1. {commonSpine(v[1].line, v[i].line) : i \in DOMAIN v} = {Len(la), p}
    BY <1>3, <1>4
  <2>2. divergence(v) = Min({Len(la)} \cup {Len(la), p})
    BY <1>4, <2>1 DEF divergence
  <2> HIDE DEF p, la
  <2>3. {Len(la)} \cup {Len(la), p} = {Len(la), p}
    OBVIOUS
  <2>4. p <= Len(la) /\ p \in Nat /\ Len(la) \in Nat
    BY <1>1
  <2>5. Min({Len(la), p}) = p
    BY <2>4 DEF Min
  <2> QED BY <2>2, <2>3, <2>5
<1>6. beyond(v, p) = IF p = Len(la) THEN <<y>> ELSE IF p = Len(lb) THEN <<x>> ELSE v
  <2> DEFINE places == {i \in DOMAIN v : Len(v[i].line) > p}
  <2>1. (1 \in places <=> Len(la) > p) /\ (2 \in places <=> Len(lb) > p)
    BY <1>4
  <2>2. beyond(v, p) = filtered(<<x, y>>, places)
    BY DEF beyond
  <2> HIDE DEF places, p, la, lb, v
  <2>3. (1 \in places <=> p # Len(la)) /\ (2 \in places <=> p # Len(lb))
    BY <1>1, <2>1
  <2>4. filtered(<<x, y>>, places) =
             IF 1 \in places THEN IF 2 \in places THEN <<x, y>> ELSE <<x>>
             ELSE IF 2 \in places THEN <<y>> ELSE <<>>
    BY FilterTwo
  <2> QED BY <1>2, <2>2, <2>3, <2>4 DEF v
<1> DEFINE first == IF p = Len(la) THEN <<y>> ELSE IF p = Len(lb) THEN <<x>> ELSE v
<1>7. PICK f : Narrowing(f, v)
  <2> HIDE DEF v
  <2> QED BY <1>4, ContenderSteps
<1>8. f[0] = v /\ resolveContenders(v) = f[2]
  <2> HIDE DEF v
  <2> QED BY <1>4, <1>7 DEF Narrowing
<1>9. f[1] = first
  <2>1. 1 \in 1..Len(v) /\ 1 - 1 = 0
    BY <1>4
  <2>2. f[1] = narrowedTo(v, beyond(v, divergence(v)))
    <3> HIDE DEF v
    <3> QED BY <1>7, <1>8, <2>1 DEF Narrowing
  <2>3. first # <<>>
    OBVIOUS
  <2>4. Len(v) # 1 /\ beyond(v, divergence(v)) = first
    BY <1>4, <1>5, <1>6
  <2> HIDE DEF first, v
  <2> QED BY <2>2, <2>3, <2>4 DEF narrowedTo
<1>10. f[2] = first
  <2>1. 2 \in 1..Len(v) /\ 2 - 1 = 1
    BY <1>4
  <2>2. f[2] = narrowedTo(first, beyond(first, divergence(first)))
    <3> HIDE DEF v, first
    <3> QED BY <1>7, <1>9, <2>1 DEF Narrowing
  <2>3. CASE first = v
    <3>1. first # <<>>
      BY <1>4, <2>3
    <3>2. CASE p = Len(la) \/ p = Len(lb)
      <4>1. Len(first) = 1
        BY <3>2
      <4> HIDE DEF first
      <4> QED BY <2>2, <4>1 DEF narrowedTo
    <3>3. CASE ~(p = Len(la) \/ p = Len(lb))
      <4>1. beyond(v, divergence(v)) = v
        <5> HIDE DEF v, p
        <5> QED BY <1>5, <1>6, <3>3
      <4> HIDE DEF first, v
      <4>2. beyond(first, divergence(first)) = first
        BY <2>3, <4>1
      <4> QED BY <2>2, <4>2 DEF narrowedTo
    <3> QED BY <3>2, <3>3
  <2>4. CASE first # v
    <3>1. Len(first) = 1
      BY <2>4
    <3> HIDE DEF first
    <3> QED BY <2>2, <3>1 DEF narrowedTo
  <2> QED BY <2>3, <2>4
<1>11. resolveContenders(v) = first
  <2> HIDE DEF v, first
  <2> QED BY <1>8, <1>10
<1> HIDE DEF p
<1> QED BY <1>1, <1>2, <1>5, <1>11 DEF p

(* selectWinner of two branches with different heads is a duel of their    *)
(* lines.                                                                  *)
LEMMA TwoBranches ==
    ASSUME NEW x, NEW y, NEW la, NEW lb,
           headState(x) \in ChainEvent, headState(y) \in ChainEvent, headState(x) # headState(y),
           la = trimmed(x.spine, GenOf[headState(x)]), Lined(x.spine, la),
           lb = trimmed(y.spine, GenOf[headState(y)]), Lined(y.spine, lb)
    PROVE  Duel(selectWinner(<<x, y>>), x, y, la, lb)
<1> DEFINE g == GenOf[headState(x)]
           h == GenOf[headState(y)]
           t == IF g >= h THEN g ELSE h
           s == <<x, y>>
           X == [branch |-> x, line |-> la]
           Y == [branch |-> y, line |-> lb]
           r == selectWinner(s)
<1>1. g \in Nat /\ h \in Nat /\ topGen(s) = t
  <2>1. g \in Nat /\ h \in Nat
    BY LogAssumption
  <2> QED BY <2>1, TopOfTwo
<1>2. s[1] = x /\ s[2] = y /\ DOMAIN s = {1, 2} /\ Len(s) = 2 /\ s # <<>>
  OBVIOUS
<1>3. contestants(s, t) = IF g > h THEN <<X>> ELSE IF h > g THEN <<Y>> ELSE <<X, Y>>
  <2> DEFINE places == {i \in DOMAIN s : GenOf[headState(s[i])] = t}
             top == filtered(s, places)
  <2>1. (1 \in places <=> g = t) /\ (2 \in places <=> h = t)
    BY <1>2
  <2>2. top = IF g > h THEN <<x>> ELSE IF h > g THEN <<y>> ELSE <<x, y>>
    <3>1. top = IF 1 \in places THEN IF 2 \in places THEN <<x, y>> ELSE <<x>>
                ELSE IF 2 \in places THEN <<y>> ELSE <<>>
      <4> HIDE DEF places
      <4> QED BY FilterTwo
    <3> HIDE DEF places, top, s, g, h
    <3> QED BY <1>1, <2>1, <3>1
  <2>3. contestants(s, t) = [i \in DOMAIN top |-> [branch |-> top[i], line |-> trimmed(top[i].spine, t)]]
    BY DEF contestants
  <2> HIDE DEF top
  <2>4. CASE g > h
    <3>1. top = <<x>> /\ t = g
      BY <1>1, <2>2, <2>4
    <3>2. contestants(s, t) = [i \in 1..1 |-> X]
      BY <2>3, <3>1
    <3>3. contestants(s, t) = <<X>>
      <4> HIDE DEF X, s
      <4> QED BY <3>2
    <3> HIDE DEF X, Y, s, g, h
    <3> QED BY <2>4, <3>3
  <2>5. CASE h > g
    <3>1. top = <<y>> /\ t = h /\ ~(g > h)
      BY <1>1, <2>2, <2>5
    <3>2. contestants(s, t) = [i \in 1..1 |-> Y]
      BY <2>3, <3>1
    <3>3. contestants(s, t) = <<Y>>
      <4> HIDE DEF Y, s
      <4> QED BY <3>2
    <3> HIDE DEF X, Y, s, g, h
    <3> QED BY <2>5, <3>1, <3>3
  <2>6. CASE ~(g > h) /\ ~(h > g)
    <3>1. top = <<x, y>> /\ t = g /\ t = h
      BY <1>1, <2>2, <2>6
    <3> DEFINE c == contestants(s, t)
    <3>2. c = [i \in 1..2 |-> IF i = 1 THEN X ELSE Y]
      BY <2>3, <3>1
    <3>3. c = <<X, Y>>
      <4> HIDE DEF X, Y, s
      <4> QED BY <3>2
    <3> HIDE DEF X, Y, s, g, h
    <3> QED BY <2>6, <3>3
  <2> QED BY <2>4, <2>5, <2>6
<1>4. r = concluded(resolveContenders(contestants(s, t)), s)
  <2> HIDE DEF s, t
  <2> QED BY <1>1, <1>2 DEF selectWinner
<1>5. ASSUME NEW G PROVE resolveContenders(<<G>>) = <<G>> /\ concluded(<<G>>, s).winner = G.branch.chain
                         /\ concluded(<<G>>, s).fork = {}
  <2> DEFINE v == <<G>>
  <2>1. Len(v) = 1 /\ v[1] = G
    OBVIOUS
  <2> HIDE DEF v, s
  <2>2. PICK f : Narrowing(f, v)
    BY <2>1, ContenderSteps
  <2>3. f[1] = narrowedTo(f[0], beyond(f[0], divergence(f[0])))
    BY <2>1, <2>2 DEF Narrowing
  <2>4. resolveContenders(v) = v
    BY <2>1, <2>2, <2>3 DEF Narrowing, narrowedTo
  <2>5. concluded(v, s).winner = G.branch.chain /\ concluded(v, s).fork = {}
    BY <2>1 DEF concluded
  <2> QED BY <2>4, <2>5 DEF v
<1>6. X.branch = x /\ Y.branch = y /\ X.line = la /\ Y.line = lb
  OBVIOUS
<1>7. CASE g > h
  <2>1. r.winner = x.chain /\ r.fork = {}
    <3> HIDE DEF X, Y, s, r
    <3> QED BY <1>3, <1>4, <1>5, <1>6, <1>7 DEF r
  <2> QED BY <1>1, <1>7, <2>1 DEF Duel
<1>8. CASE h > g
  <2>1. r.winner = y.chain /\ r.fork = {}
    <3>1. ~(g > h)
      BY <1>1, <1>8
    <3> HIDE DEF X, Y, s, r
    <3> QED BY <1>3, <1>4, <1>5, <1>6, <1>8, <3>1 DEF r
  <2> QED BY <1>1, <1>8, <2>1 DEF Duel
<1>9. CASE g = h
  <2> DEFINE p == commonSpine(la, lb)
             end == resolveContenders(<<X, Y>>)
  <2>1. la \in Seq(ChainEvent) /\ lb \in Seq(ChainEvent) /\ la # lb
    <3>1. Last(la) = headState(x) /\ Last(lb) = headState(y)
      BY DEF Lined, headState
    <3> QED BY <3>1 DEF Lined
  <2>2. /\ p <= Len(la) /\ p <= Len(lb) /\ divergence(<<X, Y>>) = p
        /\ ~(p = Len(la) /\ p = Len(lb))
        /\ end = IF p = Len(la) THEN <<Y>> ELSE IF p = Len(lb) THEN <<X>> ELSE <<X, Y>>
    <3> HIDE DEF X, Y
    <3> QED BY <1>6, <2>1, TwoContenders
  <2>3. p \in Nat /\ Len(la) \in Nat /\ Len(lb) \in Nat
    <3>1. Len(la) \in Nat /\ Len(lb) \in Nat
      BY <2>1
    <3>2. p \in 0..Len(la)
      BY <2>1, CommonSpine
    <3> HIDE DEF p
    <3> QED BY <3>1, <3>2
  <2>4. r = concluded(end, s)
    <3>1. ~(g > h) /\ ~(h > g)
      BY <1>1, <1>9
    <3> HIDE DEF X, Y, s, r
    <3> QED BY <1>3, <1>4, <3>1 DEF r
  <2> HIDE DEF p, end
  <2>5. CASE p = Len(la)
    <3>1. r.winner = y.chain /\ r.fork = {} /\ p < Len(lb)
      <4>1. p < Len(lb)
        BY <2>2, <2>3, <2>5
      <4> HIDE DEF X, Y, s, r
      <4> QED BY <1>5, <1>6, <2>2, <2>4, <2>5, <4>1
    <3> QED BY <1>1, <1>9, <2>5, <3>1 DEF Duel, p
  <2>6. CASE p # Len(la) /\ p = Len(lb)
    <3>1. r.winner = x.chain /\ r.fork = {} /\ p < Len(la)
      <4>1. p < Len(la)
        BY <2>2, <2>3, <2>6
      <4> HIDE DEF X, Y, s, r
      <4> QED BY <1>5, <1>6, <2>2, <2>4, <2>6, <4>1
    <3> QED BY <1>1, <1>9, <2>6, <3>1 DEF Duel, p
  <2>7. CASE p # Len(la) /\ p # Len(lb)
    <3>1. p < Len(la) /\ p < Len(lb)
      BY <2>2, <2>3, <2>7
    <3> DEFINE v == <<X, Y>>
               F == {c.line[p + 1] : c \in Range(v)}
    <3>2. v[1] = X /\ v[2] = Y /\ DOMAIN v = {1, 2} /\ Len(v) = 2
      OBVIOUS
    <3>3. F = {la[p + 1], lb[p + 1]}
      <4>1. Range(v) = {X, Y}
        <5> HIDE DEF v
        <5> QED BY <3>2 DEF Range
      <4> HIDE DEF X, Y
      <4> QED BY <1>6, <4>1
    <3>4. la[p + 1] \in Nat /\ lb[p + 1] \in Nat
      <4>1. p + 1 \in 1..Len(la) /\ p + 1 \in 1..Len(lb)
        BY <2>3, <3>1
      <4>2. la[p + 1] \in ChainEvent /\ lb[p + 1] \in ChainEvent
        BY <2>1, <4>1
      <4> QED BY <4>2, LogAssumption
    <3>5. smallestTwo(F) # {}
      <4> HIDE DEF F, v
      <4>1. \E e \in F : \A d \in F : e <= d
        BY <3>3, <3>4
      <4>2. PICK e \in F : \A d \in F : ~(d < e)
        BY <3>3, <3>4, <4>1
      <4>3. {d \in F : d < e} = {}
        BY <4>2
      <4>4. Cardinality({d \in F : d < e}) = 0
        BY <4>3, FS_EmptySet
      <4> QED BY <4>4 DEF smallestTwo
    <3>6. r.winner = <<>> /\ r.fork # {}
      <4>1. end = v
        BY <2>2, <2>7
      <4>2. divergence(v) = p
        BY <2>2
      <4>3. conflicting(v, p) # {}
        BY <3>5 DEF conflicting
      <4> HIDE DEF v, s
      <4>4. r = [winner |-> <<>>, fork |-> conflicting(v, p), superseded |-> 0]
        BY <2>4, <3>2, <4>1, <4>2 DEF concluded
      <4> QED BY <4>3, <4>4
    <3> QED BY <1>1, <1>9, <3>1, <3>6 DEF Duel, p
  <2> QED BY <2>5, <2>6, <2>7
<1> QED BY <1>1, <1>7, <1>8, <1>9

HeadLineOf(c) == trimmed(Spine(c), GenOf[HeadEvent(c)])

(* The head of a chain that folds is the last of its spine and of its      *)
(* line.                                                                   *)
LEMMA FoldedHead ==
    ASSUME NEW c, Len(c) \in Nat, Folds(c)
    PROVE  /\ HeadEvent(c) \in ChainEvent /\ HeadEvent(c) \in Range(Spine(c))
           /\ Lined(Spine(c), HeadLineOf(c)) /\ GenOf[HeadEvent(c)] \in Nat
           /\ Spine(c) \in Seq(ChainEvent)
<1> DEFINE sp == Spine(c)
<1>1. Spined(sp) /\ sp # <<>> /\ sp \in Seq(ChainEvent)
  BY SpineSpined DEF Folds, Spined
<1>2. HeadEvent(c) = Last(sp)
  BY DEF HeadEvent
<1>3. HeadLineOf(c) = trimmed(sp, GenOf[Last(sp)])
  BY <1>2 DEF HeadLineOf
<1> HIDE DEF sp
<1>4. Lined(sp, trimmed(sp, GenOf[Last(sp)]))
  BY <1>1, HeadLine
<1>5. Last(sp) = sp[Len(sp)] /\ Len(sp) \in 1..Len(sp) /\ DOMAIN sp = 1..Len(sp)
  BY <1>1 DEF Last
<1>6. Last(sp) \in ChainEvent /\ Last(sp) \in Range(sp)
  BY <1>1, <1>5 DEF Range
<1>7. GenOf[Last(sp)] \in Nat
  BY <1>6, LogAssumption
<1> QED BY <1>1, <1>2, <1>3, <1>4, <1>6, <1>7 DEF sp

(* resolveBranches of two chains.                                          *)
LEMMA ResolveTwo ==
    ASSUME NEW a, NEW b, Len(a) \in Nat, Len(b) \in Nat
    PROVE  LET r == resolveBranches(<<a, b>>)
           IN  /\ r.winner \in {a, b, <<>>}
               /\ Folds(a) /\ Folds(b) /\ HeadEvent(a) # HeadEvent(b) =>
                    Duel(r, branchFrom(a), branchFrom(b), HeadLineOf(a), HeadLineOf(b))
<1> DEFINE A == branchFrom(a)
           B == branchFrom(b)
           valid == validBranches(<<a, b>>)
           r == resolveBranches(<<a, b>>)
<1>1. /\ A.chain = a /\ B.chain = b /\ A.spine = Spine(a) /\ B.spine = Spine(b)
      /\ headState(A) = HeadEvent(a) /\ headState(B) = HeadEvent(b)
  BY DEF branchFrom, headState, HeadEvent
<1> HIDE DEF A, B
<1>2. valid = IF Folds(a) THEN IF Folds(b) THEN <<A, B>> ELSE <<A>>
              ELSE IF Folds(b) THEN <<B>> ELSE <<>>
  <2> DEFINE chains == <<a, b>>
             places == {i \in DOMAIN chains : Folds(chains[i])}
             s == [i \in DOMAIN chains |-> branchFrom(chains[i])]
  <2>1. DOMAIN chains = 1..2 /\ chains[1] = a /\ chains[2] = b
    OBVIOUS
  <2>2. s = [i \in 1..2 |-> IF i = 1 THEN A ELSE B]
    BY <2>1 DEF A, B
  <2>3. s = <<A, B>>
    <3> HIDE DEF s, chains
    <3> QED BY <2>2
  <2>4. (1 \in places <=> Folds(a)) /\ (2 \in places <=> Folds(b))
    BY <2>1
  <2>5. valid = filtered(s, places)
    BY DEF validBranches
  <2> HIDE DEF places, s, chains, valid
  <2>6. filtered(<<A, B>>, places) =
             IF 1 \in places THEN IF 2 \in places THEN <<A, B>> ELSE <<A>>
             ELSE IF 2 \in places THEN <<B>> ELSE <<>>
    BY FilterTwo
  <2> QED BY <2>3, <2>4, <2>5, <2>6
<1>3. r = selectWinner(byHead(valid))
  BY DEF resolveBranches
<1> HIDE DEF valid, r
<1>4. ASSUME NEW x, x \in {A, B}, byHead(valid) = <<x>> PROVE r.winner \in {a, b, <<>>}
  <2>1. selectWinner(<<x>>).winner = x.chain
    BY LoneBranch
  <2> QED BY <1>1, <1>3, <1>4, <2>1
<1>5. CASE Folds(a) /\ Folds(b) /\ HeadEvent(a) # HeadEvent(b)
  <2>1. byHead(valid) = <<A, B>>
    BY <1>1, <1>2, <1>5, KeptTwo
  <2>2. /\ HeadEvent(a) \in ChainEvent /\ HeadEvent(b) \in ChainEvent
        /\ Lined(Spine(a), HeadLineOf(a)) /\ Lined(Spine(b), HeadLineOf(b))
        /\ GenOf[HeadEvent(a)] \in Nat /\ GenOf[HeadEvent(b)] \in Nat
    BY <1>5, FoldedHead
  <2>3. /\ HeadLineOf(a) = trimmed(A.spine, GenOf[headState(A)])
        /\ HeadLineOf(b) = trimmed(B.spine, GenOf[headState(B)])
    BY <1>1 DEF HeadLineOf
  <2>4. Duel(r, A, B, HeadLineOf(a), HeadLineOf(b))
    BY <1>1, <1>3, <1>5, <2>1, <2>2, <2>3, TwoBranches
  <2>5. r.winner \in {a, b, <<>>}
    BY <1>1, <2>2, <2>4 DEF Duel
  <2> QED BY <2>4, <2>5 DEF r, A, B
<1>6. CASE ~(Folds(a) /\ Folds(b) /\ HeadEvent(a) # HeadEvent(b))
  <2>1. CASE Folds(a) /\ Folds(b)
    <3>1. byHead(<<A, B>>) \in {<<A>>, <<B>>}
      BY <1>1, <1>6, <2>1, KeptTwo
    <3>2. r.winner \in {a, b, <<>>}
      BY <1>2, <1>4, <2>1, <3>1
    <3> QED BY <1>6, <3>2 DEF r
  <2>2. CASE Folds(a) /\ ~Folds(b)
    <3>1. byHead(valid) = <<A>>
      BY <1>2, <2>2, KeptTwo
    <3> QED BY <1>4, <1>6, <3>1 DEF r
  <2>3. CASE ~Folds(a) /\ Folds(b)
    <3>1. byHead(valid) = <<B>>
      BY <1>2, <2>3, KeptTwo
    <3> QED BY <1>4, <1>6, <3>1 DEF r
  <2>4. CASE ~Folds(a) /\ ~Folds(b)
    <3>1. byHead(valid) = <<>>
      BY <1>2, <2>4, KeptTwo
    <3>2. r.winner = <<>>
      BY <1>3, <3>1 DEF selectWinner
    <3> QED BY <1>6, <3>2 DEF r
  <2> QED BY <2>1, <2>2, <2>3, <2>4
<1> QED BY <1>5, <1>6

(* Two events of the generations' lines for one place.                     *)
Clash(a, b) ==
    \E d \in {x \in Range(Spine(a)) : GenOf[x] = GenOf[HeadEvent(a)]},
       e \in {x \in Range(Spine(b)) : GenOf[x] = GenOf[HeadEvent(b)]} :
      d # e /\ GenOf[d] = GenOf[e] /\ NumOf[d] = NumOf[e]

(* Two chains clash where their lines differ at one place.                 *)
LEMMA ClashInLines ==
    ASSUME NEW a, NEW b, Len(a) \in Nat, Len(b) \in Nat, Folds(a), Folds(b)
    PROVE  LET la == HeadLineOf(a)
               lb == HeadLineOf(b)
           IN  Clash(a, b) <=> /\ GenOf[HeadEvent(a)] = GenOf[HeadEvent(b)]
                               /\ \E k \in 1..Len(la) : k <= Len(lb) /\ la[k] # lb[k]
<1> DEFINE la == HeadLineOf(a)
           lb == HeadLineOf(b)
<1>1. Lined(Spine(a), la) /\ Lined(Spine(b), lb)
  BY FoldedHead
<1>2. Last(Spine(a)) = HeadEvent(a) /\ Last(Spine(b)) = HeadEvent(b)
  BY DEF HeadEvent
<1> HIDE DEF la, lb
<1>3. /\ la \in Seq(ChainEvent) /\ lb \in Seq(ChainEvent)
      /\ \A k \in 1..Len(la) : GenOf[la[k]] = GenOf[HeadEvent(a)] /\ NumOf[la[k]] = k - 1
      /\ \A k \in 1..Len(lb) : GenOf[lb[k]] = GenOf[HeadEvent(b)] /\ NumOf[lb[k]] = k - 1
      /\ {la[k] : k \in 1..Len(la)} = {e \in Range(Spine(a)) : GenOf[e] = GenOf[HeadEvent(a)]}
      /\ {lb[k] : k \in 1..Len(lb)} = {e \in Range(Spine(b)) : GenOf[e] = GenOf[HeadEvent(b)]}
  BY <1>1, <1>2 DEF Lined
<1>4. Len(la) \in Nat /\ Len(lb) \in Nat
  BY <1>3
<1>5. ASSUME Clash(a, b)
      PROVE  /\ GenOf[HeadEvent(a)] = GenOf[HeadEvent(b)]
             /\ \E k \in 1..Len(la) : k <= Len(lb) /\ la[k] # lb[k]
  <2>1. PICK k \in 1..Len(la), j \in 1..Len(lb) :
          la[k] # lb[j] /\ GenOf[la[k]] = GenOf[lb[j]] /\ NumOf[la[k]] = NumOf[lb[j]]
    BY <1>3, <1>5 DEF Clash
  <2>2. k - 1 = j - 1
    BY <1>3, <2>1
  <2>3. k = j
    BY <1>4, <2>2
  <2> QED BY <1>3, <1>4, <2>1, <2>3
<1>6. ASSUME GenOf[HeadEvent(a)] = GenOf[HeadEvent(b)],
             NEW k \in 1..Len(la), k <= Len(lb), la[k] # lb[k]
      PROVE  Clash(a, b)
  <2>1. k \in 1..Len(lb)
    BY <1>4, <1>6
  <2>2. GenOf[la[k]] = GenOf[lb[k]] /\ NumOf[la[k]] = NumOf[lb[k]]
    BY <1>3, <1>6, <2>1
  <2> QED BY <1>3, <1>6, <2>1, <2>2 DEF Clash
<1>7. Clash(a, b) <=> /\ GenOf[HeadEvent(a)] = GenOf[HeadEvent(b)]
                      /\ \E k \in 1..Len(la) : k <= Len(lb) /\ la[k] # lb[k]
  BY <1>5, <1>6
<1> QED BY <1>7 DEF la, lb

(* What becomes of a loaded chain b against the chain a seen before.       *)
LEMMA AuthorityDecides ==
    ASSUME NEW a, NEW b, Len(a) \in Nat, Len(b) \in Nat, Folds(a), Folds(b)
    PROVE  LET said == authority(resolveBranches(<<a, b>>), b)
           IN  /\ ~passesThrough(b, a) /\ said = "ok" => GenOf[HeadEvent(b)] > GenOf[HeadEvent(a)]
               /\ (~passesThrough(b, a) /\ said = "forked") <=> Clash(a, b)
<1> DEFINE la == HeadLineOf(a)
           lb == HeadLineOf(b)
           r == resolveBranches(<<a, b>>)
           said == authority(r, b)
           g == GenOf[HeadEvent(a)]
           h == GenOf[HeadEvent(b)]
           p == commonSpine(la, lb)
<1>1. /\ Lined(Spine(a), la) /\ Lined(Spine(b), lb) /\ g \in Nat /\ h \in Nat
      /\ HeadEvent(b) \in Range(Spine(b))
  BY FoldedHead
<1>2. Last(Spine(a)) = HeadEvent(a) /\ Last(Spine(b)) = HeadEvent(b)
  BY DEF HeadEvent
<1>3. Clash(a, b) <=> g = h /\ \E k \in 1..Len(la) : k <= Len(lb) /\ la[k] # lb[k]
  BY ClashInLines
<1>4. /\ branchFrom(a).chain = a /\ branchFrom(b).chain = b
      /\ headState(branchFrom(a)) = HeadEvent(a) /\ headState(branchFrom(b)) = HeadEvent(b)
  BY DEF branchFrom, headState, HeadEvent
<1>5. HeadEvent(a) # HeadEvent(b) => Duel(r, branchFrom(a), branchFrom(b), la, lb)
  BY ResolveTwo
<1>6. /\ (said = "ok") <=> (r.fork = {} /\ HeadEvent(r.winner) = HeadEvent(b))
      /\ (said = "forked") <=> (r.fork # {})
  <2> HIDE DEF r
  <2> QED BY DEF authority
<1> HIDE DEF r, said, la, lb
<1>7. la \in Seq(ChainEvent) /\ lb \in Seq(ChainEvent) /\ la # <<>> /\ Last(la) = HeadEvent(a)
  BY <1>1, <1>2 DEF Lined
<1>8. /\ p \in 0..Len(la) /\ p <= Len(lb) /\ SubSeq(la, 1, p) = SubSeq(lb, 1, p)
      /\ \A n \in 0..Len(la) : n <= Len(lb) /\ SubSeq(la, 1, n) = SubSeq(lb, 1, n) => n <= p
  BY <1>7, CommonSpine
<1>9. Len(la) \in Nat \ {0} /\ Len(lb) \in Nat /\ la[Len(la)] = HeadEvent(a)
  BY <1>7 DEF Last
<1> HIDE DEF p
<1>10. \A k \in 1..p : la[k] = lb[k]
  BY <1>7, <1>8, <1>9
<1>11. ~passesThrough(b, a) => HeadEvent(a) # HeadEvent(b)
  BY <1>1 DEF passesThrough
<1>12. p = Len(la) /\ g = h => passesThrough(b, a)
  <2> SUFFICES ASSUME p = Len(la), g = h PROVE passesThrough(b, a)
    OBVIOUS
  <2>1. p \in 1..p /\ p \in 1..Len(lb)
    BY <1>8, <1>9
  <2>2. lb[p] = HeadEvent(a)
    BY <1>9, <1>10, <2>1
  <2>3. lb[p] \in Range(Spine(b))
    BY <1>1, <2>1 DEF Lined
  <2> QED BY <2>2, <2>3 DEF passesThrough
<1>13. ASSUME ~passesThrough(b, a), said = "ok" PROVE h > g
  <2>1. Duel(r, branchFrom(a), branchFrom(b), la, lb) /\ HeadEvent(a) # HeadEvent(b)
    BY <1>5, <1>11, <1>13
  <2>2. r.fork = {} /\ r.winner # a
    BY <1>6, <1>13, <2>1
  <2>3. ~(g > h)
    BY <1>4, <2>1, <2>2 DEF Duel
  <2>4. CASE g = h
    <3>1. p # Len(la)
      BY <1>12, <1>13, <2>4
    <3> QED BY <1>4, <2>1, <2>2, <2>4, <3>1 DEF Duel, p
  <2> QED BY <1>1, <2>3, <2>4
<1>14. ASSUME ~passesThrough(b, a), said = "forked" PROVE Clash(a, b)
  <2>1. Duel(r, branchFrom(a), branchFrom(b), la, lb) /\ r.fork # {}
    BY <1>5, <1>6, <1>11, <1>14
  <2>2. g = h /\ p < Len(la) /\ p < Len(lb)
    BY <1>1, <1>4, <2>1 DEF Duel, p
  <2>3. p + 1 \in 1..Len(la) /\ p + 1 <= Len(lb) /\ p + 1 \in 0..Len(la) /\ ~(p + 1 <= p)
    BY <1>8, <1>9, <2>2
  <2>4. la[p + 1] # lb[p + 1]
    <3> SUFFICES ASSUME la[p + 1] = lb[p + 1] PROVE FALSE
      OBVIOUS
    <3>1. SubSeq(la, 1, p + 1) = SubSeq(lb, 1, p + 1)
      <4>1. Lined(Spine(a), la) /\ Lined(Spine(b), lb)
        BY <1>1
      <4> DEFINE k == p + 1
      <4>2. k \in 1..Len(la) /\ k <= Len(lb) /\ la[k] = lb[k]
        BY <2>3
      <4> HIDE DEF k
      <4>3. SubSeq(la, 1, k) = SubSeq(lb, 1, k)
        BY <4>1, <4>2, LinesAgree
      <4> QED BY <4>3 DEF k
    <3> QED BY <1>8, <2>3, <3>1
  <2> QED BY <1>3, <2>2, <2>3, <2>4
<1>15. ASSUME Clash(a, b) PROVE ~passesThrough(b, a) /\ said = "forked"
  <2>1. PICK k \in 1..Len(la) : k <= Len(lb) /\ la[k] # lb[k]
    BY <1>3, <1>15
  <2>2. g = h
    BY <1>3, <1>15
  <2>3. ~passesThrough(b, a)
    <3> SUFFICES ASSUME passesThrough(b, a) PROVE FALSE
      OBVIOUS
    <3>1. GenOf[HeadEvent(a)] = h /\ HeadEvent(a) \in Range(Spine(b))
      BY <2>2 DEF passesThrough
    <3>2. PICK j \in 1..Len(lb) : lb[j] = HeadEvent(a)
      BY <1>1, <1>2, <3>1 DEF Lined
    <3>3. NumOf[la[Len(la)]] = Len(la) - 1 /\ NumOf[lb[j]] = j - 1
      BY <1>1, <1>9 DEF Lined
    <3>4. j = Len(la)
      BY <1>9, <3>2, <3>3
    <3>5. SubSeq(la, 1, j) = SubSeq(lb, 1, j)
      <4>1. j \in 1..Len(la) /\ j <= Len(lb) /\ la[j] = lb[j]
        BY <1>9, <3>2, <3>4
      <4> QED BY <1>1, <4>1, LinesAgree
    <3>6. \A i \in 1..j : la[i] = lb[i]
      BY <1>7, <1>9, <3>4, <3>5
    <3> QED BY <2>1, <3>4, <3>6
  <2>4. Duel(r, branchFrom(a), branchFrom(b), la, lb)
    BY <1>5, <1>11, <2>3
  <2>5. p # Len(la) /\ p # Len(lb)
    BY <1>9, <1>10, <2>1
  <2>6. r.fork # {}
    BY <1>1, <1>4, <2>2, <2>4, <2>5 DEF Duel, p
  <2> QED BY <1>6, <2>3, <2>6
<1> QED BY <1>13, <1>14, <1>15 DEF said, r

(* A snapshot and the effect of an event are membership states.            *)
LEMMA EffectTyped ==
    /\ \A c \in ChainEvent : anchorState(c) \in EpochState
    /\ \A e \in Event : effect(e) \in EpochState
<1>1. emptyState \in EpochState
  BY DEF emptyState, EpochState
<1>2. ASSUME NEW c \in ChainEvent PROVE anchorState(c) \in EpochState
  <2>1. MembersAt[c] \subseteq Incarnation /\ DenyAt[c] \subseteq Target
    BY EpochAssumption DEF Adds, Incarnation
  <2>2. anchorState(c) = [emptyState EXCEPT !.added = MembersAt[c], !.deny = DenyAt[c]]
    BY DEF anchorState
  <2> HIDE DEF emptyState
  <2> QED BY <1>1, <2>1, <2>2 DEF EpochState
<1>3. ASSUME NEW e \in Event PROVE effect(e) \in EpochState
  <2>1. /\ Kind[e] \in {"add", "ren", "rmv", "rev"} /\ Denies[e] \in Target
        /\ Names[e] \in Incarnation /\ e \in Incarnation
    BY EpochAssumption DEF Incarnation
  <2>2. CASE Kind[e] = "rev"
    <3>1. effect(e) = [emptyState EXCEPT !.deny = {Denies[e]}]
      BY <2>2 DEF effect
    <3> QED BY <1>1, <2>1, <3>1 DEF EpochState
  <2>3. CASE Kind[e] = "add"
    <3>1. effect(e) = [emptyState EXCEPT !.added = {e}]
      BY <2>3 DEF effect
    <3> QED BY <1>1, <2>1, <3>1 DEF EpochState
  <2>4. CASE Kind[e] = "rmv"
    <3>1. effect(e) = [emptyState EXCEPT !.removed = {Names[e]}]
      BY <2>4 DEF effect
    <3> QED BY <1>1, <2>1, <3>1 DEF EpochState
  <2>5. CASE Kind[e] = "ren"
    <3>1. effect(e) = [emptyState EXCEPT !.leases[Names[e]] = LeaseOf[e]]
      BY <2>5 DEF effect
    <3>2. LeaseOf[e] \in Nat
      BY <2>1, EpochAssumption
    <3> QED BY <1>1, <2>1, <3>1, <3>2 DEF EpochState
  <2> QED BY <2>1, <2>2, <2>3, <2>4, <2>5
<1> QED BY <1>2, <1>3

(* So is the head of an epoch.                                             *)
LEMMA HeadTyped ==
    ASSUME NEW c \in ChainEvent, NEW E \in SUBSET Event
    PROVE  HeadOf(c, E) \in EpochState
<1> DEFINE states == {anchorState(c)} \cup {effect(e) : e \in E}
<1>1. states \subseteq EpochState
  BY EffectTyped
<1>2. IsFiniteSet(states)
  <2> DEFINE effects == {effect(e) : e \in E}
             f == [e \in E |-> effect(e)]
  <2>1. IsFiniteSet(E)
    BY EpochAssumption, FS_Subset
  <2>2. f \in Surjection(E, effects)
    BY DEF Surjection
  <2>3. IsFiniteSet(effects)
    <3> HIDE DEF f, effects
    <3> QED BY <2>1, <2>2, FS_Surjection
  <2> HIDE DEF effects
  <2>4. IsFiniteSet(effects \cup {anchorState(c)})
    BY <2>3, FS_AddElement
  <2>5. effects \cup {anchorState(c)} = {anchorState(c)} \cup effects
    OBVIOUS
  <2> QED BY <2>4, <2>5 DEF effects
<1>3. HeadOf(c, E) = Join(states)
  BY DEF HeadOf
<1> HIDE DEF states
<1>4. ASSUME NEW i \in Incarnation
      PROVE  Max({0} \cup {s.leases[i] : s \in states}) \in Nat
  <2> DEFINE L == {s.leases[i] : s \in states}
             f == [s \in states |-> s.leases[i]]
  <2>1. L \subseteq Nat
    BY <1>1 DEF EpochState
  <2>2. f \in Surjection(states, L)
    BY DEF Surjection
  <2>3. IsFiniteSet(L)
    <3> HIDE DEF f, L
    <3> QED BY <1>2, <2>2, FS_Surjection
  <2> HIDE DEF L
  <2>4. IsFiniteSet(L \cup {0}) /\ L \cup {0} = {0} \cup L
    BY <2>3, FS_AddElement
  <2>5. Max({0} \cup L) \in {0} \cup L
    BY <2>1, <2>4, Greatest
  <2> QED BY <2>1, <2>5 DEF L
<1>5. /\ UNION {s.added : s \in states} \subseteq Incarnation
      /\ UNION {s.removed : s \in states} \subseteq Incarnation
      /\ UNION {s.deny : s \in states} \subseteq Target
  BY <1>1 DEF EpochState
<1>6. [i \in Incarnation |-> Max({0} \cup {s.leases[i] : s \in states})] \in [Incarnation -> Nat]
  BY <1>4
<1> DEFINE added == UNION {s.added : s \in states}
           removed == UNION {s.removed : s \in states}
           deny == UNION {s.deny : s \in states}
           leases == [i \in Incarnation |-> Max({0} \cup {s.leases[i] : s \in states})]
<1>7. Join(states) = [added |-> added, removed |-> removed, leases |-> leases, deny |-> deny]
  BY DEF Join
<1>8. added \in SUBSET Incarnation /\ removed \in SUBSET Incarnation /\ deny \in SUBSET Target
      /\ leases \in [Incarnation -> Nat]
  BY <1>5, <1>6
<1> HIDE DEF added, removed, deny, leases
<1> QED BY <1>3, <1>7, <1>8 DEF EpochState

(* With more events applied, no less is denied.                            *)
LEMMA DenialsGrow ==
    ASSUME NEW c, NEW E, NEW F, E \subseteq F
    PROVE  HeadOf(c, E).deny \subseteq HeadOf(c, F).deny
<1> DEFINE P == {anchorState(c)} \cup {effect(e) : e \in E}
           Q == {anchorState(c)} \cup {effect(e) : e \in F}
<1>1. P \subseteq Q
  OBVIOUS
<1>2. HeadOf(c, E).deny = UNION {s.deny : s \in P} /\ HeadOf(c, F).deny = UNION {s.deny : s \in Q}
  BY DEF HeadOf, Join
<1> HIDE DEF P, Q
<1> QED BY <1>1, <1>2

-----------------------------------------------------------------------------
(* What a store holds, and what was settled from it.                       *)

Held(log) == log \in Log /\ Folds(log.chain) /\ Epochal(HeadEvent(log.chain), log.events)

Holds(log) == log = NoLog \/ Held(log)

Settles(v, l, s) == Holds(s) /\ verdict(l, s) = "ok" /\ v = authoritativeLog(l, s)

(* What a resolver said, of the log the store holds.                       *)
Tells(view, log) ==
    /\ Held(log) /\ view.chain = Spine(log.chain)
    /\ view.saturated = Saturates(log.events)
    /\ ~view.saturated => /\ view.applied = EventsOf(log.events)
                          /\ view.state = HeadOf(HeadEvent(log.chain), view.applied)

(* The parts of a log.                                                     *)
LEMMA LogParts ==
    ASSUME NEW log \in Log
    PROVE  /\ log.chain \in Seq(ChainEvent) /\ Len(log.chain) \in Nat
           /\ log.events \subseteq Copy /\ log.events \in SUBSET Copy
           /\ log = [chain |-> log.chain, events |-> log.events]
<1>1. log.chain \in Seq(ChainEvent) /\ log.events \in SUBSET Copy
      /\ log = [chain |-> log.chain, events |-> log.events]
  BY DEF Log
<1> DEFINE q == log.chain
<1>2. Len(q) \in Nat
  <2>1. q \in Seq(ChainEvent)
    BY <1>1
  <2> HIDE DEF q
  <2> QED BY <2>1
<1> QED BY <1>1, <1>2

(* An absent log does not fold.                                            *)
LEMMA NothingHeld == NoLog \in Log /\ ~Folds(NoLog.chain) /\ ~Held(NoLog)
<1>1. NoLog \in Log
  <2>1. <<>> \in Seq(ChainEvent)
    OBVIOUS
  <2> QED BY <2>1 DEF NoLog, Log
<1>2. NoLog.chain = <<>> /\ Len(<<>>) = 0
  BY DEF NoLog
<1>3. PICK f : f[0] = failed /\ foldChain(<<>>) = f[Len(<<>>)]
  BY <1>2, FoldSteps
<1>4. Spine(<<>>) = <<>>
  BY <1>2, <1>3 DEF Spine, failed
<1> QED BY <1>1, <1>2, <1>4 DEF Folds, Held

(* What a settlement writes may be held, and what it answers tells of it.  *)
LEMMA Settlement ==
    ASSUME NEW l \in Log, NEW s \in Log, verdict(l, s) = "ok"
    PROVE  LET v == authoritativeLog(l, s)
           IN  v \in Settled /\ Held(v.log) /\ Tells(v.result, v.log)
<1> DEFINE v == authoritativeLog(l, s)
           c == HeadEvent(l.chain)
           R == Remembered(c, s.events, l.events)
           A == Applies(c, s.events, l.events)
<1>1. Folds(l.chain)
  BY DEF verdict
<1>2. /\ c \in ChainEvent /\ Spine(l.chain) \in Seq(ChainEvent)
      /\ l.chain \in Seq(ChainEvent) /\ s.events \subseteq Copy /\ l.events \subseteq Copy
  BY <1>1, LogParts, FoldedHead
<1>3. /\ v.log = [chain |-> l.chain, events |-> R]
      /\ v.result = [chain |-> Spine(l.chain), applied |-> A, saturated |-> Saturates(A),
                     state |-> HeadOf(c, A)]
      /\ v = [log |-> v.log, result |-> v.result]
  BY DEF authoritativeLog, trusted, View, viewOf, HeadEvent
<1> HIDE DEF c, v
<1>4. /\ Epochal(c, R) /\ EventsOf(R) = Kept(c, A)
      /\ Saturates(Kept(c, A)) <=> Saturates(A)
      /\ ~Saturates(A) => Kept(c, A) = A
  BY <1>2, RememberedEpochal
<1>5. A \subseteq Event
  <2>1. s.events \cup l.events \subseteq Copy
    BY <1>2
  <2>2. Own(c, s.events \cup l.events) \subseteq Event
    BY <2>1, OwnEvents
  <2> QED BY <1>2, <2>2, AppliesFixpoint
<1> HIDE DEF A, R
<1>6. R \subseteq Copy /\ (Saturates(R) <=> Saturates(A))
  BY <1>4, EpochalFinite DEF Epochal
<1>7. HeadOf(c, A) \in EpochState
  BY <1>2, <1>5, HeadTyped
<1>8. v.log \in Log
  BY <1>2, <1>3, <1>6 DEF Log
<1>9. v.result \in ViewType
  <2>1. Saturates(A) \in BOOLEAN
    BY DEF Saturates
  <2> QED BY <1>2, <1>3, <1>5, <1>7, <2>1 DEF ViewType
<1>10. v \in Settled
  <2> DEFINE p == v.log
             q == v.result
  <2>1. p \in Log /\ q \in ViewType /\ v = [log |-> p, result |-> q]
    BY <1>3, <1>8, <1>9
  <2> HIDE DEF p, q
  <2> QED BY <2>1 DEF Settled
<1>11. Held(v.log)
  <2>1. v.log.chain = l.chain /\ v.log.events = R
    BY <1>3
  <2> QED BY <1>1, <1>4, <1>8, <2>1 DEF Held, c
<1>12. Tells(v.result, v.log)
  <2>1. v.log.chain = l.chain /\ v.log.events = R
    BY <1>3
  <2>2. /\ v.result.chain = Spine(l.chain) /\ v.result.applied = A
        /\ v.result.saturated = Saturates(A) /\ v.result.state = HeadOf(c, A)
    BY <1>3
  <2>3. v.result.saturated = Saturates(R)
    BY <1>6, <2>2 DEF Saturates
  <2> QED BY <1>4, <1>11, <2>1, <2>2, <2>3 DEF Tells, c
<1> QED BY <1>10, <1>11, <1>12 DEF v

(* A held log prunes to a log.                                             *)
LEMMA Pruned ==
    ASSUME NEW log, Held(log)
    PROVE  pruneLog(log) \in Log
<1> DEFINE c == HeadEvent(log.chain)
           sp == Spine(log.chain)
           rest == Tail(sp)
           R == Remembered(c, {}, log.events)
<1>1. log \in Log /\ Folds(log.chain)
  BY DEF Held
<1>2. c \in ChainEvent /\ sp \in Seq(ChainEvent) /\ sp # <<>> /\ log.events \subseteq Copy
  BY <1>1, LogParts, FoldedHead DEF Folds
<1>3. rest \in Seq(ChainEvent)
  <2> HIDE DEF sp
  <2> QED BY <1>2
<1>4. prunedChain(log.chain) \in Seq(ChainEvent)
  <2> DEFINE places == {i \in DOMAIN rest : GenOf[rest[i]] = GenOf[c]}
             q == filtered(rest, places)
  <2>1. prunedChain(log.chain) = <<Inception>> \o q
    BY DEF prunedChain
  <2> HIDE DEF places, rest
  <2>2. q \in Seq(ChainEvent)
    BY <1>3, FilterType
  <2> HIDE DEF q
  <2>3. <<Inception>> \in Seq(ChainEvent)
    BY LogAssumption
  <2>4. <<Inception>> \o q \in Seq(ChainEvent)
    BY <2>2, <2>3
  <2> QED BY <2>1, <2>4
<1>5. R \subseteq Copy
  <2>1. Epochal(c, R)
    BY <1>2, RememberedEpochal
  <2> QED BY <2>1 DEF Epochal
<1>6. pruneLog(log) = [chain |-> prunedChain(log.chain), events |-> R]
  BY DEF pruneLog
<1> HIDE DEF R
<1> QED BY <1>4, <1>5, <1>6 DEF Log

(* mergeLogs gives a log or nothing.                                       *)
LEMMA Merged ==
    ASSUME NEW l \in Log, NEW r \in Log
    PROVE  mergeLogs(l, r) \in Log
<1> DEFINE chain == settledChain(l.chain, r.chain)
<1>1. /\ l.chain \in Seq(ChainEvent) /\ Len(l.chain) \in Nat /\ l.events \in SUBSET Copy
      /\ r.chain \in Seq(ChainEvent) /\ Len(r.chain) \in Nat /\ r.events \in SUBSET Copy
  BY LogParts
<1>2. resolveBranches(<<l.chain, r.chain>>).winner \in {l.chain, r.chain, <<>>}
  BY <1>1, ResolveTwo
<1>3. chain \in {l.chain, r.chain, <<>>}
  BY <1>2 DEF settledChain
<1>4. <<>> \in Seq(ChainEvent)
  OBVIOUS
<1> HIDE DEF chain
<1>5. chain \in Seq(ChainEvent)
  BY <1>1, <1>3, <1>4
<1>6. mergeLogs(l, r) = IF chain = <<>> THEN NoLog
                        ELSE [chain |-> chain, events |-> l.events \cup r.events]
  BY DEF mergeLogs, chain
<1> QED BY <1>1, <1>5, <1>6, NothingHeld DEF Log

Phase == {"idle", "got", "wait", "fold", "write"}
Turn == {"fold", "write"}

Flying == [phase : Phase, loaded : Log, seen : Log, settled : Settled]

(* The values that stand for nothing have their types.                     *)
LEMMA NothingSettled ==
    NotSettled \in Settled /\ NoView \in ViewType /\ Idle \in Flying
<1>1. NoView \in ViewType
  <2>1. emptyState \in EpochState
    BY DEF emptyState, EpochState
  <2>2. <<>> \in Seq(ChainEvent)
    OBVIOUS
  <2> QED BY <2>1, <2>2 DEF NoView, ViewType
<1>2. NotSettled \in Settled
  BY <1>1, NothingHeld DEF NotSettled, Settled
<1> QED BY <1>1, <1>2, NothingHeld DEF Idle, Flying, Phase

(* A flight joins the end of a queue.                                      *)
LEMMA LastInQueue ==
    ASSUME NEW q \in Seq(Flight), IsInjective(q), NEW f \in Flight, f \notin Range(q)
    PROVE  /\ Append(q, f) \in Seq(Flight) /\ IsInjective(Append(q, f))
           /\ Range(Append(q, f)) = Range(q) \cup {f}
           /\ Append(q, f) # <<>> /\ (q # <<>> => Head(Append(q, f)) = Head(q))
<1> DEFINE r == Append(q, f)
<1>1. /\ r \in Seq(Flight) /\ Len(r) = Len(q) + 1 /\ r[Len(q) + 1] = f
      /\ \A i \in 1..Len(q) : r[i] = q[i]
      /\ DOMAIN q = 1..Len(q) /\ DOMAIN r = 1..(Len(q) + 1) /\ Len(q) \in Nat
  OBVIOUS
<1>2. \A i \in 1..Len(q) : q[i] # f
  BY <1>1 DEF Range
<1> HIDE DEF r
<1>3. IsInjective(r)
  <2> SUFFICES ASSUME NEW i \in DOMAIN r, NEW j \in DOMAIN r, r[i] = r[j] PROVE i = j
    BY DEF IsInjective
  <2>1. CASE i \in 1..Len(q) /\ j \in 1..Len(q)
    BY <1>1, <2>1 DEF IsInjective
  <2>2. CASE ~(i \in 1..Len(q) /\ j \in 1..Len(q))
    BY <1>1, <1>2, <2>2
  <2> QED BY <2>1, <2>2
<1>4. Range(r) = Range(q) \cup {f}
  <2>1. \A x \in Range(r) : x \in Range(q) \cup {f}
    BY <1>1 DEF Range
  <2>2. \A x \in Range(q) \cup {f} : x \in Range(r)
    BY <1>1 DEF Range
  <2> QED BY <2>1, <2>2
<1>5. r # <<>> /\ (q # <<>> => Head(r) = Head(q))
  <2>1. r # <<>>
    BY <1>1
  <2>2. q # <<>> => Len(q) \in Nat \ {0} /\ Head(r) = r[1] /\ Head(q) = q[1]
    BY <1>1
  <2> QED BY <1>1, <2>1, <2>2
<1> QED BY <1>1, <1>3, <1>4, <1>5 DEF r

(* The first of a queue leaves it.                                         *)
LEMMA RestOfQueue ==
    ASSUME NEW q \in Seq(Flight), IsInjective(q), q # <<>>
    PROVE  /\ Tail(q) \in Seq(Flight) /\ IsInjective(Tail(q))
           /\ Range(Tail(q)) = Range(q) \ {Head(q)}
<1> DEFINE r == Tail(q)
<1>1. /\ r \in Seq(Flight) /\ Len(r) = Len(q) - 1 /\ Len(q) \in Nat \ {0}
      /\ \A i \in 1..(Len(q) - 1) : r[i] = q[i + 1]
      /\ DOMAIN q = 1..Len(q) /\ DOMAIN r = 1..(Len(q) - 1) /\ Head(q) = q[1]
  OBVIOUS
<1> HIDE DEF r
<1>2. IsInjective(r)
  <2> SUFFICES ASSUME NEW i \in DOMAIN r, NEW j \in DOMAIN r, r[i] = r[j] PROVE i = j
    BY DEF IsInjective
  <2>1. i + 1 \in DOMAIN q /\ j + 1 \in DOMAIN q /\ q[i + 1] = q[j + 1]
    BY <1>1
  <2>2. i + 1 = j + 1
    BY <2>1 DEF IsInjective
  <2> QED BY <1>1, <2>2
<1>3. ASSUME NEW x \in Range(r) PROVE x \in Range(q) \ {Head(q)}
  <2>1. PICK i \in 1..(Len(q) - 1) : x = r[i]
    BY <1>1 DEF Range
  <2>2. i + 1 \in DOMAIN q /\ x = q[i + 1] /\ 1 \in DOMAIN q /\ i + 1 # 1
    BY <1>1, <2>1
  <2> QED BY <1>1, <2>2 DEF Range, IsInjective
<1>4. ASSUME NEW x \in Range(q) \ {Head(q)} PROVE x \in Range(r)
  <2>1. PICK i \in 1..Len(q) : x = q[i]
    BY <1>1 DEF Range
  <2>2. i # 1
    BY <1>1, <2>1
  <2>3. i - 1 \in DOMAIN r /\ r[i - 1] = x
    BY <1>1, <2>1, <2>2
  <2> QED BY <2>3 DEF Range
<1> QED BY <1>1, <1>2, <1>3, <1>4 DEF r

(* A flight is queued at its store while it waits or runs there, and only  *)
(* the first of the queue runs.                                            *)
PlacedIn(h, fl, qu) ==
    /\ fl \in [Flight -> Flying]
    /\ qu \in [Store -> Seq(Flight)]
    /\ \A s \in Store : IsInjective(qu[s])
    /\ \A f \in Flight : \A s \in Store :
         f \in Range(qu[s]) <=> s = h[f] /\ fl[f].phase \in {"wait", "fold", "write"}
    /\ \A f \in Flight : fl[f].phase \in Turn => qu[h[f]] # <<>> /\ Head(qu[h[f]]) = f

(* A flight in its turn goes on to another part of it.                     *)
LEMMA StaysPlaced ==
    ASSUME NEW h \in [Flight -> Store], NEW fl, NEW qu, PlacedIn(h, fl, qu),
           NEW f \in Flight, fl[f].phase \in {"wait", "fold", "write"}, Head(qu[h[f]]) = f,
           NEW v \in Flying, v.phase \in Turn
    PROVE  PlacedIn(h, [fl EXCEPT ![f] = v], qu)
<1> DEFINE gl == [fl EXCEPT ![f] = v]
<1>1. gl \in [Flight -> Flying] /\ gl[f] = v /\ \A g \in Flight : g # f => gl[g] = fl[g]
  BY DEF PlacedIn
<1> HIDE DEF gl
<1>2. h[f] \in Store /\ f \in Range(qu[h[f]])
  BY DEF PlacedIn
<1>3. qu[h[f]] # <<>>
  BY <1>2 DEF Range, PlacedIn
<1>4. \A g \in Flight : gl[g].phase \in Turn => qu[h[g]] # <<>> /\ Head(qu[h[g]]) = g
  BY <1>1, <1>3 DEF PlacedIn
<1>5. \A g \in Flight : \A s \in Store :
        g \in Range(qu[s]) <=> s = h[g] /\ gl[g].phase \in {"wait", "fold", "write"}
  BY <1>1 DEF PlacedIn, Turn
<1>6. PlacedIn(h, gl, qu)
  BY <1>1, <1>4, <1>5 DEF PlacedIn
<1> QED BY <1>6 DEF gl

(* A flight without a place gets one at the end, or none.                  *)
LEMMA EntersQueue ==
    ASSUME NEW h \in [Flight -> Store], NEW fl, NEW qu, PlacedIn(h, fl, qu),
           NEW f \in Flight, fl[f].phase \in {"idle", "got"},
           NEW v \in Flying, v.phase = "wait"
    PROVE  PlacedIn(h, [fl EXCEPT ![f] = v], [qu EXCEPT ![h[f]] = Append(qu[h[f]], f)])
<1> DEFINE gl == [fl EXCEPT ![f] = v]
           s0 == h[f]
           q == qu[s0]
           r == Append(q, f)
           ru == [qu EXCEPT ![s0] = r]
<1>1. gl \in [Flight -> Flying] /\ gl[f] = v /\ \A g \in Flight : g # f => gl[g] = fl[g]
  BY DEF PlacedIn
<1>2. s0 \in Store /\ q \in Seq(Flight) /\ IsInjective(q) /\ \A s \in Store : f \notin Range(qu[s])
  BY DEF PlacedIn
<1>3. /\ r \in Seq(Flight) /\ IsInjective(r) /\ Range(r) = Range(q) \cup {f}
      /\ r # <<>> /\ (q # <<>> => Head(r) = Head(q))
  <2>1. f \notin Range(q)
    BY <1>2
  <2> HIDE DEF q
  <2> QED BY <1>2, <2>1, LastInQueue
<1>4. ru \in [Store -> Seq(Flight)] /\ ru[s0] = r /\ \A s \in Store : s # s0 => ru[s] = qu[s]
  <2> HIDE DEF r, s0
  <2> QED BY <1>2, <1>3 DEF PlacedIn
<1> HIDE DEF gl, ru, r
<1>5. \A s \in Store : IsInjective(ru[s])
  BY <1>3, <1>4 DEF PlacedIn
<1>6. ASSUME NEW g \in Flight, NEW s \in Store
      PROVE  g \in Range(ru[s]) <=> s = h[g] /\ gl[g].phase \in {"wait", "fold", "write"}
  <2>1. CASE g = f
    BY <1>1, <1>2, <1>3, <1>4, <2>1
  <2>2. CASE g # f
    <3>1. g \in Range(ru[s]) <=> g \in Range(qu[s])
      BY <1>3, <1>4, <2>2
    <3> QED BY <1>1, <2>2, <3>1 DEF PlacedIn
  <2> QED BY <2>1, <2>2
<1>7. ASSUME NEW g \in Flight, gl[g].phase \in Turn
      PROVE  ru[h[g]] # <<>> /\ Head(ru[h[g]]) = g
  <2>1. g # f
    BY <1>1, <1>7 DEF Turn
  <2>2. qu[h[g]] # <<>> /\ Head(qu[h[g]]) = g /\ h[g] \in Store
    BY <1>1, <1>7, <2>1 DEF PlacedIn
  <2>3. CASE h[g] = s0
    BY <1>3, <1>4, <2>2, <2>3
  <2>4. CASE h[g] # s0
    BY <1>4, <2>2, <2>4
  <2> QED BY <2>3, <2>4
<1>8. PlacedIn(h, gl, ru)
  BY <1>1, <1>4, <1>5, <1>6, <1>7 DEF PlacedIn
<1> QED BY <1>8 DEF gl, ru, r

(* A flight that is in no queue stays out of them.                         *)
LEMMA StaysOut ==
    ASSUME NEW h \in [Flight -> Store], NEW fl, NEW qu, PlacedIn(h, fl, qu),
           NEW f \in Flight, fl[f].phase \in {"idle", "got"},
           NEW v \in Flying, v.phase \in {"idle", "got"}
    PROVE  PlacedIn(h, [fl EXCEPT ![f] = v], qu)
<1> DEFINE gl == [fl EXCEPT ![f] = v]
<1>1. gl \in [Flight -> Flying] /\ gl[f] = v /\ \A g \in Flight : g # f => gl[g] = fl[g]
  BY DEF PlacedIn
<1> HIDE DEF gl
<1>2. \A g \in Flight : gl[g].phase \in Turn => qu[h[g]] # <<>> /\ Head(qu[h[g]]) = g
  BY <1>1 DEF PlacedIn, Turn
<1>3. \A g \in Flight : \A s \in Store :
        g \in Range(qu[s]) <=> s = h[g] /\ gl[g].phase \in {"wait", "fold", "write"}
  BY <1>1 DEF PlacedIn
<1>4. PlacedIn(h, gl, qu)
  BY <1>1, <1>2, <1>3 DEF PlacedIn
<1> QED BY <1>4 DEF gl

(* The turn passes on, whether the flight failed or not.                   *)
LEMMA LeavesQueue ==
    ASSUME NEW h \in [Flight -> Store], NEW fl, NEW qu, PlacedIn(h, fl, qu),
           NEW f \in Flight, fl[f].phase \in Turn
    PROVE  PlacedIn(h, [fl EXCEPT ![f] = Idle], [qu EXCEPT ![h[f]] = Tail(qu[h[f]])])
<1> DEFINE gl == [fl EXCEPT ![f] = Idle]
           s0 == h[f]
           q == qu[s0]
           r == Tail(q)
           ru == [qu EXCEPT ![s0] = r]
<1>1. gl \in [Flight -> Flying] /\ gl[f] = Idle /\ \A g \in Flight : g # f => gl[g] = fl[g]
  BY NothingSettled DEF PlacedIn
<1>2. s0 \in Store /\ q \in Seq(Flight) /\ IsInjective(q) /\ q # <<>> /\ Head(q) = f
  BY DEF PlacedIn
<1>3. r \in Seq(Flight) /\ IsInjective(r) /\ Range(r) = Range(q) \ {f}
  <2> HIDE DEF q
  <2> QED BY <1>2, RestOfQueue
<1>4. ru \in [Store -> Seq(Flight)] /\ ru[s0] = r /\ \A s \in Store : s # s0 => ru[s] = qu[s]
  <2> HIDE DEF r, s0
  <2> QED BY <1>2, <1>3 DEF PlacedIn
<1> HIDE DEF gl, ru, r
<1>5. \A s \in Store : IsInjective(ru[s])
  BY <1>3, <1>4 DEF PlacedIn
<1>6. ASSUME NEW g \in Flight, NEW s \in Store
      PROVE  g \in Range(ru[s]) <=> s = h[g] /\ gl[g].phase \in {"wait", "fold", "write"}
  <2>1. CASE g = f
    <3>1. gl[g].phase = "idle"
      BY <1>1, <2>1 DEF Idle
    <3>2. s # s0 => g \notin Range(qu[s])
      BY <2>1 DEF PlacedIn
    <3>3. g \notin Range(ru[s])
      BY <1>3, <1>4, <2>1, <3>2
    <3> QED BY <3>1, <3>3
  <2>2. CASE g # f
    <3>1. g \in Range(ru[s]) <=> g \in Range(qu[s])
      BY <1>3, <1>4, <2>2
    <3> QED BY <1>1, <2>2, <3>1 DEF PlacedIn
  <2> QED BY <2>1, <2>2
<1>7. ASSUME NEW g \in Flight, gl[g].phase \in Turn
      PROVE  ru[h[g]] # <<>> /\ Head(ru[h[g]]) = g
  <2>1. g # f
    BY <1>1, <1>7 DEF Turn, Idle
  <2>2. qu[h[g]] # <<>> /\ Head(qu[h[g]]) = g /\ h[g] \in Store
    BY <1>1, <1>7, <2>1 DEF PlacedIn
  <2>3. h[g] # s0
    BY <1>2, <2>1, <2>2
  <2> QED BY <1>4, <2>2, <2>3
<1>8. PlacedIn(h, gl, ru)
  BY <1>1, <1>4, <1>5, <1>6, <1>7 DEF PlacedIn
<1> QED BY <1>8 DEF gl, ru, r

-----------------------------------------------------------------------------
(* The inductive invariant, part by part.                                  *)

Bounded(w, pr, ld) == w \in World /\ pr \in Seq(w.collected) /\ ld \in 0..MaxLoads

Storing(lg) == lg \in [Store -> Log] /\ \A s \in Store : Holds(lg[s])

(* A flight in its turn saw what the store still holds, or nothing; what   *)
(* it is about to write was settled from that.                             *)
Knowing(h, lg, fl) ==
    \A f \in Flight :
        /\ fl[f].phase \in Turn => fl[f].seen \in {NoLog, lg[h[f]]}
        /\ fl[f].phase = "write" => Settles(fl[f].settled, fl[f].loaded, fl[f].seen)

Entry == [key : [loaded : Log, seen : Log], settled : Settled]

Remembering(m) ==
    /\ m \in Seq(Entry) /\ Len(m) <= FOLD_MEMO_SIZE
    /\ \A i \in 1..Len(m) : Settles(m[i].settled, m[i].key.loaded, m[i].key.seen)

Telling(td, lg) ==
    td \in [Store -> ViewType] /\ \A s \in Store : td[s] = NoView \/ Tells(td[s], lg[s])

HistoryInv ==
    /\ Bounded(world, presented, loads)
    /\ Storing(logs)
    /\ PlacedIn(world.home, flight, queue)
    /\ Knowing(world.home, logs, flight)
    /\ Remembering(memo)
    /\ Telling(told, logs)

(* Every flight has a store.                                               *)
LEMMA HomeOf ==
    ASSUME HistoryInv
    PROVE  world.home \in [Flight -> Store] /\ \A f \in Flight : Home(f) = world.home[f]
BY HistoryAssumption DEF HistoryInv, Bounded, Home

(* One flight changes, within what it may know.                            *)
LEMMA KnowsMore ==
    ASSUME NEW h, NEW lg, NEW fl \in [Flight -> Flying], Knowing(h, lg, fl),
           NEW f \in Flight, NEW v,
           v.phase \in Turn => v.seen \in {NoLog, lg[h[f]]},
           v.phase = "write" => Settles(v.settled, v.loaded, v.seen)
    PROVE  Knowing(h, lg, [fl EXCEPT ![f] = v])
<1> DEFINE gl == [fl EXCEPT ![f] = v]
<1>1. gl[f] = v /\ \A g \in Flight : g # f => gl[g] = fl[g]
  OBVIOUS
<1> HIDE DEF gl
<1>2. Knowing(h, lg, gl)
  BY <1>1 DEF Knowing
<1> QED BY <1>2 DEF gl

(* No other flight is in its turn at the store that is written.            *)
LEMMA KnowsAfterWrite ==
    ASSUME NEW h \in [Flight -> Store], NEW lg \in [Store -> Log], NEW fl, NEW qu,
           PlacedIn(h, fl, qu), Knowing(h, lg, fl), NEW f \in Flight, fl[f].phase \in Turn, NEW x
    PROVE  Knowing(h, [lg EXCEPT ![h[f]] = x], [fl EXCEPT ![f] = Idle])
<1> DEFINE gl == [fl EXCEPT ![f] = Idle]
           mg == [lg EXCEPT ![h[f]] = x]
<1>1. gl[f] = Idle /\ \A g \in Flight : g # f => gl[g] = fl[g]
  BY DEF PlacedIn
<1>2. \A s \in Store : s # h[f] => mg[s] = lg[s]
  OBVIOUS
<1> HIDE DEF gl, mg
<1>3. \A g \in Flight : g # f /\ fl[g].phase \in Turn => h[g] # h[f]
  BY DEF PlacedIn
<1>4. Idle.phase \notin Turn /\ Idle.phase # "write"
  BY DEF Idle, Turn
<1>5. ASSUME NEW g \in Flight
      PROVE  /\ gl[g].phase \in Turn => gl[g].seen \in {NoLog, mg[h[g]]}
             /\ gl[g].phase = "write" => Settles(gl[g].settled, gl[g].loaded, gl[g].seen)
  <2>1. CASE g = f
    BY <1>1, <1>4, <2>1
  <2>2. CASE g # f
    BY <1>1, <1>2, <1>3, <2>2 DEF Knowing
  <2> QED BY <2>1, <2>2
<1>6. Knowing(h, mg, gl)
  BY <1>5 DEF Knowing
<1> QED BY <1>6 DEF gl, mg

(* The invariant holds at first.                                           *)
LEMMA InitHistory == Init => HistoryInv
<1> SUFFICES ASSUME Init PROVE HistoryInv
  OBVIOUS
<1>1. Bounded(world, presented, loads)
  <2>1. <<>> \in Seq(world.collected)
    OBVIOUS
  <2> QED BY <2>1, HistoryAssumption DEF Init, Bounded
<1>2. Storing(logs)
  BY NothingHeld DEF Init, Storing, Holds
<1>3. PlacedIn(world.home, flight, queue)
  <2>1. \A s \in Store : queue[s] = <<>> /\ \A f \in Flight : f \notin Range(queue[s])
    BY DEF Init, Range
  <2>2. \A f \in Flight : flight[f] = Idle
    BY DEF Init
  <2>3. Idle.phase = "idle"
    BY DEF Idle
  <2>4. flight \in [Flight -> Flying] /\ queue \in [Store -> Seq(Flight)]
    BY NothingSettled DEF Init
  <2>5. \A s \in Store : IsInjective(queue[s])
    BY <2>1 DEF IsInjective
  <2> QED BY <2>1, <2>2, <2>3, <2>4, <2>5 DEF PlacedIn, Turn
<1>4. Knowing(world.home, logs, flight)
  BY DEF Init, Knowing, Idle, Turn
<1>5. Remembering(memo)
  <2>1. memo = <<>> /\ memo \in Seq(Entry) /\ Len(memo) = 0
    BY DEF Init
  <2> QED BY <2>1, HistoryAssumption DEF Remembering
<1>6. Telling(told, logs)
  BY NothingSettled DEF Init, Telling
<1> QED BY <1>1, <1>2, <1>3, <1>4, <1>5, <1>6 DEF HistoryInv

-----------------------------------------------------------------------------
(* One lemma for each action.                                              *)

(* The fields of a flight.                                                 *)
LEMMA FlightParts ==
    ASSUME NEW r \in Flying
    PROVE  /\ r.phase \in Phase /\ r.loaded \in Log /\ r.seen \in Log /\ r.settled \in Settled
           /\ r = [phase |-> r.phase, loaded |-> r.loaded, seen |-> r.seen, settled |-> r.settled]
BY DEF Flying

(* One field of a flight is set.                                           *)
LEMMA FieldSet ==
    ASSUME NEW r \in Flying
    PROVE  /\ \A p \in Phase : [r EXCEPT !.phase = p] =
                 [phase |-> p, loaded |-> r.loaded, seen |-> r.seen, settled |-> r.settled]
           /\ \A x \in Log : [r EXCEPT !.loaded = x] =
                 [phase |-> r.phase, loaded |-> x, seen |-> r.seen, settled |-> r.settled]
           /\ \A x \in Log : [r EXCEPT !.seen = x] =
                 [phase |-> r.phase, loaded |-> r.loaded, seen |-> x, settled |-> r.settled]
           /\ \A y \in Settled : [r EXCEPT !.settled = y] =
                 [phase |-> r.phase, loaded |-> r.loaded, seen |-> r.seen, settled |-> y]
BY DEF Flying

(* A phase and a loaded log are set.                                       *)
LEMMA LoadedSet ==
    ASSUME NEW r \in Flying, NEW p \in Phase, NEW x \in Log
    PROVE  [r EXCEPT !.phase = p, !.loaded = x] =
             [phase |-> p, loaded |-> x, seen |-> r.seen, settled |-> r.settled]
<1> DEFINE q == [r EXCEPT !.phase = p]
<1>1. q = [phase |-> p, loaded |-> r.loaded, seen |-> r.seen, settled |-> r.settled]
  BY FieldSet
<1>2. q \in Flying /\ q.phase = p /\ q.loaded = r.loaded /\ q.seen = r.seen /\ q.settled = r.settled
  <2> HIDE DEF q
  <2> QED BY <1>1, FlightParts DEF Flying
<1> HIDE DEF q
<1>3. [q EXCEPT !.loaded = x] = [phase |-> p, loaded |-> x, seen |-> r.seen, settled |-> r.settled]
  BY <1>2, FieldSet
<1> QED BY <1>3 DEF q

(* A phase and a settlement are set.                                       *)
LEMMA SettledSet ==
    ASSUME NEW r \in Flying, NEW p \in Phase, NEW y \in Settled
    PROVE  [r EXCEPT !.phase = p, !.settled = y] =
             [phase |-> p, loaded |-> r.loaded, seen |-> r.seen, settled |-> y]
<1> DEFINE q == [r EXCEPT !.phase = p]
<1>1. q = [phase |-> p, loaded |-> r.loaded, seen |-> r.seen, settled |-> r.settled]
  BY FieldSet
<1>2. q \in Flying /\ q.phase = p /\ q.loaded = r.loaded /\ q.seen = r.seen /\ q.settled = r.settled
  <2> HIDE DEF q
  <2> QED BY <1>1, FlightParts DEF Flying
<1> HIDE DEF q
<1>3. [q EXCEPT !.settled = y] = [phase |-> p, loaded |-> r.loaded, seen |-> r.seen, settled |-> y]
  BY <1>2, FieldSet
<1> QED BY <1>3 DEF q

(* A phase and a seen log are set.                                         *)
LEMMA SeenSet ==
    ASSUME NEW r \in Flying, NEW p \in Phase, NEW x \in Log
    PROVE  [r EXCEPT !.phase = p, !.seen = x] =
             [phase |-> p, loaded |-> r.loaded, seen |-> x, settled |-> r.settled]
<1> DEFINE q == [r EXCEPT !.phase = p]
<1>1. q = [phase |-> p, loaded |-> r.loaded, seen |-> r.seen, settled |-> r.settled]
  BY FieldSet
<1>2. q \in Flying /\ q.phase = p /\ q.loaded = r.loaded /\ q.seen = r.seen /\ q.settled = r.settled
  <2> HIDE DEF q
  <2> QED BY <1>1, FlightParts DEF Flying
<1> HIDE DEF q
<1>3. [q EXCEPT !.seen = x] = [phase |-> p, loaded |-> r.loaded, seen |-> x, settled |-> r.settled]
  BY <1>2, FieldSet
<1> QED BY <1>3 DEF q

(* A phase, a seen log and a settlement are set.                           *)
LEMMA SeenAnew ==
    ASSUME NEW r \in Flying, NEW p \in Phase, NEW x \in Log, NEW y \in Settled
    PROVE  [r EXCEPT !.phase = p, !.seen = x, !.settled = y] =
             [phase |-> p, loaded |-> r.loaded, seen |-> x, settled |-> y]
<1> DEFINE z == [r EXCEPT !.phase = p, !.seen = x]
<1>1. z = [phase |-> p, loaded |-> r.loaded, seen |-> x, settled |-> r.settled]
  BY SeenSet
<1>2. z \in Flying /\ z.phase = p /\ z.loaded = r.loaded /\ z.seen = x
  <2> HIDE DEF z
  <2> QED BY <1>1, FlightParts DEF Flying
<1> HIDE DEF z
<1>3. [z EXCEPT !.settled = y] = [phase |-> p, loaded |-> r.loaded, seen |-> x, settled |-> y]
  BY <1>2, FieldSet
<1> QED BY <1>3 DEF z

(* A flight that has loaded queues up at its store.                        *)
LEMMA EnqueueStep ==
    ASSUME HistoryInv, NEW f \in Flight, flight[f].phase \in {"idle", "got"}, NEW log \in Log,
           Enqueue(f, log), loads' \in 0..MaxLoads,
           UNCHANGED <<world, presented, logs, memo, told>>
    PROVE  HistoryInv'
<1> DEFINE h == world.home
           v == [phase |-> "wait", loaded |-> log, seen |-> flight[f].seen, settled |-> flight[f].settled]
           gl == [flight EXCEPT ![f] = v]
           ru == [queue EXCEPT ![h[f]] = Append(queue[h[f]], f)]
<1>1. h \in [Flight -> Store] /\ Home(f) = h[f]
  BY HomeOf
<1>2. PlacedIn(h, flight, queue) /\ Knowing(h, logs, flight) /\ flight \in [Flight -> Flying]
  BY DEF HistoryInv, PlacedIn
<1>3. flight[f] \in Flying
  BY <1>2
<1>4. v \in Flying /\ v.phase = "wait"
  BY <1>3, FlightParts DEF Flying, Phase
<1>5. flight' = gl
  <2>1. flight' = [flight EXCEPT ![f] = [flight[f] EXCEPT !.phase = "wait", !.loaded = log]]
    BY <1>2 DEF Enqueue
  <2>2. [flight[f] EXCEPT !.phase = "wait", !.loaded = log] = v
    BY <1>2, <1>3, <1>1, NothingSettled, LoadedSet DEF Phase
  <2> QED BY <2>1, <2>2
<1>6. queue' = ru
  BY <1>1 DEF Enqueue
<1> HIDE DEF h, v
<1>7. PlacedIn(h, gl, ru)
  BY <1>1, <1>2, <1>4, EntersQueue
<1>8. Knowing(h, logs, gl)
  <2>1. v.phase \notin Turn /\ v.phase # "write"
    BY <1>4 DEF Turn
  <2> QED BY <1>2, <2>1, KnowsMore
<1> HIDE DEF gl, ru
<1>9. /\ Bounded(world, presented, loads') /\ Storing(logs) /\ Remembering(memo) /\ Telling(told, logs)
  BY DEF HistoryInv, Bounded
<1> QED BY <1>5, <1>6, <1>7, <1>8, <1>9 DEF HistoryInv, h

(* The first of a queue goes on.                                           *)
LEMMA GoOnStep ==
    ASSUME HistoryInv, NEW f \in Flight, flight[f].phase \in {"wait", "fold", "write"},
           Head(queue[Home(f)]) = f, NEW v \in Flying, v.phase \in Turn,
           v.seen \in {NoLog, logs[Home(f)]},
           v.phase = "write" => Settles(v.settled, v.loaded, v.seen),
           flight' = [flight EXCEPT ![f] = v], Remembering(memo'),
           UNCHANGED <<world, presented, logs, queue, told, loads>>
    PROVE  HistoryInv'
<1> DEFINE h == world.home
           gl == [flight EXCEPT ![f] = v]
<1>1. h \in [Flight -> Store] /\ Home(f) = h[f]
  BY HomeOf
<1>2. PlacedIn(h, flight, queue) /\ Knowing(h, logs, flight) /\ flight \in [Flight -> Flying]
  BY DEF HistoryInv, PlacedIn
<1> HIDE DEF h
<1>3. PlacedIn(h, gl, queue)
  BY <1>1, <1>2, StaysPlaced
<1>4. Knowing(h, logs, gl)
  BY <1>1, <1>2, KnowsMore
<1> HIDE DEF gl
<1>5. /\ Bounded(world, presented, loads) /\ Storing(logs) /\ Telling(told, logs)
  BY DEF HistoryInv
<1> QED BY <1>3, <1>4, <1>5 DEF HistoryInv, h, gl

(* A turn ends, with its store holding something else or not.              *)
LEMMA LeaveStep ==
    ASSUME HistoryInv, NEW f \in Flight, flight[f].phase \in Turn, Leave(f),
           NEW x, logs' = [logs EXCEPT ![Home(f)] = x], Storing(logs'), Telling(told', logs'),
           UNCHANGED <<world, presented, memo, loads>>
    PROVE  HistoryInv'
<1> DEFINE h == world.home
           gl == [flight EXCEPT ![f] = Idle]
           ru == [queue EXCEPT ![h[f]] = Tail(queue[h[f]])]
           mg == [logs EXCEPT ![h[f]] = x]
<1>1. h \in [Flight -> Store] /\ Home(f) = h[f]
  BY HomeOf
<1>2. /\ PlacedIn(h, flight, queue) /\ Knowing(h, logs, flight)
      /\ logs \in [Store -> Log]
  BY DEF HistoryInv, Storing
<1>3. flight' = gl /\ queue' = ru /\ logs' = mg
  BY <1>1 DEF Leave
<1> HIDE DEF h
<1>4. PlacedIn(h, gl, ru)
  BY <1>1, <1>2, LeavesQueue
<1>5. Knowing(h, mg, gl)
  BY <1>1, <1>2, KnowsAfterWrite
<1> HIDE DEF gl, ru, mg
<1>6. Bounded(world, presented, loads) /\ Remembering(memo)
  BY DEF HistoryInv
<1> QED BY <1>3, <1>4, <1>5, <1>6 DEF HistoryInv, h

(* A caller reads what its store holds.                                    *)
LEMMA GetStep ==
    ASSUME HistoryInv, NEW f \in Flight, Get(f)
    PROVE  HistoryInv'
<1> DEFINE h == world.home
           v == [phase |-> "got", loaded |-> logs[Home(f)], seen |-> flight[f].seen,
                 settled |-> flight[f].settled]
           gl == [flight EXCEPT ![f] = v]
<1>1. h \in [Flight -> Store] /\ Home(f) = h[f]
  BY HomeOf
<1>2. /\ PlacedIn(h, flight, queue) /\ Knowing(h, logs, flight) /\ flight \in [Flight -> Flying]
      /\ logs \in [Store -> Log]
  BY DEF HistoryInv, PlacedIn, Storing
<1>3. flight[f] \in Flying
  BY <1>2
<1>4. v \in Flying /\ v.phase = "got"
  BY <1>1, <1>2, <1>3, FlightParts DEF Flying, Phase
<1>5. flight' = gl
  <2>1. flight' = [flight EXCEPT ![f] = [flight[f] EXCEPT !.phase = "got", !.loaded = logs[Home(f)]]]
    BY <1>2 DEF Get
  <2>2. [flight[f] EXCEPT !.phase = "got", !.loaded = logs[Home(f)]] = v
    <3> DEFINE r == flight[f]
               x == logs[Home(f)]
    <3>1. r \in Flying /\ x \in Log /\ NotSettled \in Settled /\ "got" \in Phase
      BY <1>1, <1>2, <1>3, NothingSettled DEF Phase
    <3>2. v = [phase |-> "got", loaded |-> x, seen |-> r.seen, settled |-> r.settled]
      BY <1>1
    <3> HIDE DEF r, x, v
    <3>3. [r EXCEPT !.phase = "got", !.loaded = x] = v
      BY <3>1, <3>2, LoadedSet
    <3> QED BY <3>3 DEF r, x
  <2> QED BY <2>1, <2>2
<1> HIDE DEF h, v
<1>6. PlacedIn(h, gl, queue)
  BY <1>1, <1>2, <1>4, StaysOut DEF Get
<1>7. Knowing(h, logs, gl)
  <2>1. v.phase \notin Turn /\ v.phase # "write"
    BY <1>4 DEF Turn
  <2> QED BY <1>2, <2>1, KnowsMore
<1> HIDE DEF gl
<1>8. /\ Bounded(world, presented, loads') /\ Storing(logs) /\ Remembering(memo) /\ Telling(told, logs)
  <2>1. loads' \in 0..MaxLoads
    BY HistoryAssumption DEF Get, HistoryInv, Bounded
  <2> QED BY <2>1 DEF HistoryInv, Bounded
<1> QED BY <1>5, <1>6, <1>7, <1>8 DEF HistoryInv, h, Get

(* A log is loaded from a relay or another party.                          *)
LEMMA LoadStep ==
    ASSUME HistoryInv, NEW f \in Flight, LoadServed(f) \/ LoadForwarded(f)
    PROVE  HistoryInv'
<1>1. PICK log \in Log : Load(f, log)
  <2>1. world.served \subseteq Log
    BY HistoryAssumption DEF HistoryInv, Bounded, Log
  <2>2. \A s \in Store : logs[s] # NoLog => pruneLog(logs[s]) \in Log
    BY Pruned DEF HistoryInv, Storing, Holds
  <2>3. CASE LoadServed(f)
    BY <2>1, <2>3 DEF LoadServed
  <2>4. CASE LoadForwarded(f)
    BY <2>2, <2>4 DEF LoadForwarded
  <2> QED BY <2>3, <2>4
<1>2. loads' \in 0..MaxLoads
  BY <1>1, HistoryAssumption DEF Load, HistoryInv, Bounded
<1> QED BY <1>1, <1>2, EnqueueStep DEF Load

(* A caller merges what it was handed into what it read.                   *)
LEMMA MergedStep ==
    ASSUME HistoryInv, NEW f \in Flight, LoadMerged(f)
    PROVE  HistoryInv'
<1>1. PICK log \in world.served :
         LET merged == mergeLogs(flight[f].loaded, log)
         IN  IF merged = NoLog
             THEN flight' = [flight EXCEPT ![f] = Idle] /\ UNCHANGED queue
             ELSE Enqueue(f, merged)
  BY DEF LoadMerged
<1>2. flight[f] \in Flying /\ log \in Log
  BY HistoryAssumption DEF HistoryInv, PlacedIn, Bounded, Log
<1>3. mergeLogs(flight[f].loaded, log) \in Log
  BY <1>2, FlightParts, Merged
<1>4. CASE mergeLogs(flight[f].loaded, log) # NoLog
  <2>1. Enqueue(f, mergeLogs(flight[f].loaded, log))
    BY <1>1, <1>4
  <2>2. loads' \in 0..MaxLoads
    BY DEF LoadMerged, HistoryInv, Bounded
  <2> QED BY <1>3, <2>1, <2>2, EnqueueStep DEF LoadMerged
<1>5. CASE mergeLogs(flight[f].loaded, log) = NoLog
  <2> DEFINE h == world.home
             gl == [flight EXCEPT ![f] = Idle]
  <2>1. flight' = gl /\ queue' = queue
    BY <1>1, <1>5
  <2>2. PlacedIn(h, flight, queue) /\ Knowing(h, logs, flight) /\ flight \in [Flight -> Flying]
    BY DEF HistoryInv, PlacedIn
  <2>3. h \in [Flight -> Store] /\ Idle \in Flying /\ Idle.phase = "idle"
    BY HomeOf, NothingSettled DEF Idle
  <2> HIDE DEF h
  <2>4. PlacedIn(h, gl, queue)
    BY <2>2, <2>3, StaysOut DEF LoadMerged
  <2>5. Knowing(h, logs, gl)
    <3>1. Idle.phase \notin Turn /\ Idle.phase # "write"
      BY <2>3 DEF Turn
    <3> QED BY <2>2, <3>1, KnowsMore
  <2> HIDE DEF gl
  <2>6. Bounded(world, presented, loads) /\ Storing(logs) /\ Remembering(memo) /\ Telling(told, logs)
    BY DEF HistoryInv
  <2> QED BY <2>1, <2>4, <2>5, <2>6 DEF HistoryInv, h, LoadMerged
<1> QED BY <1>4, <1>5

(* A flight that runs is the first of its store's queue.                   *)
LEMMA InTurn ==
    ASSUME HistoryInv, NEW f \in Flight
    PROVE  /\ flight[f] \in Flying /\ Home(f) \in Store /\ logs[Home(f)] \in Log
           /\ flight[f].phase \in Turn =>
                /\ Head(queue[Home(f)]) = f /\ flight[f].seen \in {NoLog, logs[Home(f)]}
                /\ Holds(flight[f].seen)
           /\ flight[f].phase = "write" =>
                Settles(flight[f].settled, flight[f].loaded, flight[f].seen)
<1>1. /\ PlacedIn(world.home, flight, queue) /\ Knowing(world.home, logs, flight) /\ Storing(logs)
      /\ world.home \in [Flight -> Store] /\ Home(f) = world.home[f]
  BY HomeOf DEF HistoryInv
<1> QED BY <1>1 DEF PlacedIn, Knowing, Storing, Holds

(* A turn begins by reading the store.                                     *)
LEMMA ReadStep ==
    ASSUME HistoryInv, NEW f \in Flight, Read(f)
    PROVE  HistoryInv'
<1> DEFINE v == [phase |-> "fold", loaded |-> flight[f].loaded, seen |-> logs[Home(f)],
                 settled |-> flight[f].settled]
<1>1. flight[f] \in Flying /\ flight \in [Flight -> Flying] /\ logs[Home(f)] \in Log
  BY InTurn DEF HistoryInv, PlacedIn
<1>2. v \in Flying /\ v.phase = "fold" /\ v.seen = logs[Home(f)]
  BY <1>1, FlightParts DEF Flying, Phase
<1>3. flight' = [flight EXCEPT ![f] = v]
  <2>1. flight' = [flight EXCEPT ![f] = [flight[f] EXCEPT !.phase = "fold", !.seen = logs[Home(f)]]]
    BY <1>1 DEF Read
  <2>2. [flight[f] EXCEPT !.phase = "fold", !.seen = logs[Home(f)]] = v
    <3> DEFINE r == flight[f]
               x == logs[Home(f)]
    <3>1. r \in Flying /\ x \in Log /\ NotSettled \in Settled /\ "fold" \in Phase
      BY <1>1, NothingSettled DEF Phase
    <3>2. v = [phase |-> "fold", loaded |-> r.loaded, seen |-> x, settled |-> r.settled]
      BY <1>1
    <3> HIDE DEF r, x, v
    <3>3. [r EXCEPT !.phase = "fold", !.seen = x] = v
      BY <3>1, <3>2, SeenSet
    <3> QED BY <3>3 DEF r, x
  <2> QED BY <2>1, <2>2
<1> HIDE DEF v
<1>4. Remembering(memo')
  BY DEF Read, HistoryInv
<1>5. v.phase \in Turn /\ v.phase # "write" /\ v.seen \in {NoLog, logs[Home(f)]}
  BY <1>2 DEF Turn
<1> QED BY <1>2, <1>3, <1>4, <1>5, GoOnStep DEF Read

(* A first insert lost: the store is read again.                           *)
LEMMA RacedStep ==
    ASSUME HistoryInv, NEW f \in Flight, ReadRaced(f)
    PROVE  HistoryInv'
<1> DEFINE v == [phase |-> "fold", loaded |-> flight[f].loaded, seen |-> logs[Home(f)],
                 settled |-> NotSettled]
<1>1. flight[f] \in Flying /\ flight \in [Flight -> Flying] /\ logs[Home(f)] \in Log
      /\ flight[f].phase \in Turn /\ Head(queue[Home(f)]) = f
  BY InTurn DEF HistoryInv, PlacedIn, ReadRaced, Turn
<1>2. v \in Flying /\ v.phase = "fold" /\ v.seen = logs[Home(f)]
  BY <1>1, FlightParts, NothingSettled DEF Flying, Phase
<1>3. flight' = [flight EXCEPT ![f] = v]
  <2>1. flight' = [flight EXCEPT ![f] = [flight[f] EXCEPT !.phase = "fold", !.seen = logs[Home(f)],
                                                          !.settled = NotSettled]]
    BY <1>1 DEF ReadRaced
  <2>2. [flight[f] EXCEPT !.phase = "fold", !.seen = logs[Home(f)], !.settled = NotSettled] = v
    <3> DEFINE r == flight[f]
               x == logs[Home(f)]
    <3>1. r \in Flying /\ x \in Log /\ NotSettled \in Settled /\ "fold" \in Phase
      BY <1>1, NothingSettled DEF Phase
    <3>2. v = [phase |-> "fold", loaded |-> r.loaded, seen |-> x, settled |-> NotSettled]
      BY <1>1
    <3> HIDE DEF r, x, v
    <3>3. [r EXCEPT !.phase = "fold", !.seen = x, !.settled = NotSettled] = v
      BY <3>1, <3>2, SeenAnew
    <3> QED BY <3>3 DEF r, x
  <2> QED BY <2>1, <2>2
<1> HIDE DEF v
<1>4. Remembering(memo')
  BY DEF ReadRaced, HistoryInv
<1>5. v.phase \in Turn /\ v.phase # "write" /\ v.seen \in {NoLog, logs[Home(f)]}
  BY <1>2 DEF Turn
<1> QED BY <1>1, <1>2, <1>3, <1>4, <1>5, GoOnStep DEF ReadRaced, Turn

(* What was settled of a flight goes to its write.                         *)
LEMMA ToWriteStep ==
    ASSUME HistoryInv, NEW f \in Flight, flight[f].phase = "fold", NEW y \in Settled,
           Settles(y, flight[f].loaded, flight[f].seen), Remembering(memo'),
           flight' = [flight EXCEPT ![f].phase = "write", ![f].settled = y],
           UNCHANGED <<world, presented, logs, queue, told, loads>>
    PROVE  HistoryInv'
<1> DEFINE v == [phase |-> "write", loaded |-> flight[f].loaded, seen |-> flight[f].seen,
                 settled |-> y]
<1>1. flight[f] \in Flying /\ flight \in [Flight -> Flying]
      /\ flight[f].phase \in Turn /\ Head(queue[Home(f)]) = f
      /\ flight[f].seen \in {NoLog, logs[Home(f)]}
  BY InTurn DEF HistoryInv, PlacedIn, Turn
<1>2. v \in Flying /\ v.phase = "write" /\ v.seen = flight[f].seen
      /\ v.settled = y /\ v.loaded = flight[f].loaded
  BY <1>1, FlightParts DEF Flying, Phase
<1>3. flight' = [flight EXCEPT ![f] = v]
  <2>1. flight' = [flight EXCEPT ![f] = [flight[f] EXCEPT !.phase = "write", !.settled = y]]
    BY <1>1
  <2>2. [flight[f] EXCEPT !.phase = "write", !.settled = y] = v
    <3> DEFINE r == flight[f]
    <3>1. r \in Flying /\ "write" \in Phase
      BY <1>1 DEF Phase
    <3>2. v = [phase |-> "write", loaded |-> r.loaded, seen |-> r.seen, settled |-> y]
      OBVIOUS
    <3> HIDE DEF r, v
    <3>3. [r EXCEPT !.phase = "write", !.settled = y] = v
      BY <3>1, <3>2, SettledSet
    <3> QED BY <3>3 DEF r
  <2> QED BY <2>1, <2>2
<1> HIDE DEF v
<1>4. v.phase \in Turn /\ v.seen \in {NoLog, logs[Home(f)]}
      /\ (v.phase = "write" => Settles(v.settled, v.loaded, v.seen))
  BY <1>1, <1>2 DEF Turn
<1>5. flight[f].phase \in {"wait", "fold", "write"}
  OBVIOUS
<1> QED BY <1>1, <1>2, <1>3, <1>4, <1>5, GoOnStep

(* The memo answers.                                                       *)
LEMMA RecallStep ==
    ASSUME HistoryInv, NEW f \in Flight, Recall(f)
    PROVE  HistoryInv'
<1>1. PICK i \in known(f) :
        /\ memo' = Append(RemoveAt(memo, i), memo[i])
        /\ flight' = [flight EXCEPT ![f].phase = "write", ![f].settled = memo[i].settled]
  BY DEF Recall
<1>2. memo \in Seq(Entry) /\ Len(memo) <= FOLD_MEMO_SIZE /\ Len(memo) \in Nat
      /\ DOMAIN memo = 1..Len(memo)
      /\ \A j \in 1..Len(memo) : Settles(memo[j].settled, memo[j].key.loaded, memo[j].key.seen)
  BY DEF HistoryInv, Remembering
<1>3. i \in 1..Len(memo) /\ memo[i] \in Entry /\ memo[i].key = memoKey(f)
  BY <1>2 DEF known
<1>4. memo[i].settled \in Settled
      /\ Settles(memo[i].settled, flight[f].loaded, flight[f].seen)
  BY <1>2, <1>3 DEF Entry, memoKey
<1>5. Remembering(memo')
  <2> DEFINE m == memo
             n == Len(m)
             a == SubSeq(m, 1, i - 1)
             b == SubSeq(m, i + 1, n)
             q == a \o b
             z == Append(q, m[i])
  <2>1. RemoveAt(memo, i) = q
    BY DEF RemoveAt
  <2>2. memo' = z
    BY <1>1, <2>1
  <2>3. n \in Nat /\ m \in Seq(Entry) /\ i \in 1..n /\ m[i] \in Entry
    BY <1>2, <1>3
  <2> HIDE DEF m, n
  <2>4. /\ a \in Seq(Entry) /\ Len(a) = i - 1 /\ \A j \in 1..(i - 1) : a[j] = m[j]
        /\ b \in Seq(Entry) /\ Len(b) = n - i /\ \A j \in 1..(n - i) : b[j] = m[i + j]
    BY <2>3 DEF n
  <2> HIDE DEF a, b
  <2>5. /\ q \in Seq(Entry) /\ Len(q) = n - 1
        /\ \A j \in 1..(n - 1) : q[j] = IF j <= i - 1 THEN a[j] ELSE b[j - (i - 1)]
    <3>1. q \in Seq(Entry) /\ Len(q) = Len(a) + Len(b)
      BY <2>4
    <3>2. \A j \in 1..(Len(a) + Len(b)) : q[j] = IF j <= Len(a) THEN a[j] ELSE b[j - Len(a)]
      BY <2>4
    <3>3. Len(a) + Len(b) = n - 1
      BY <2>3, <2>4
    <3> HIDE DEF q
    <3> QED BY <2>4, <3>1, <3>2, <3>3
  <2> HIDE DEF q
  <2>6. \A j \in 1..(n - 1) : \E k \in 1..n : q[j] = m[k]
    <3> TAKE j \in 1..(n - 1)
    <3>1. CASE j <= i - 1
      <4>1. j \in 1..(i - 1) /\ j \in 1..n
        BY <2>3, <3>1
      <4> QED BY <2>4, <2>5, <3>1, <4>1
    <3>2. CASE ~(j <= i - 1)
      <4>1. j - (i - 1) \in 1..(n - i) /\ i + (j - (i - 1)) \in 1..n
        BY <2>3, <3>2
      <4> QED BY <2>4, <2>5, <3>2, <4>1
    <3> QED BY <3>1, <3>2
  <2>7. /\ z \in Seq(Entry) /\ Len(z) = n /\ z[n] = m[i]
        /\ \A j \in 1..(n - 1) : z[j] = q[j]
    BY <2>3, <2>5
  <2> HIDE DEF z
  <2>8. ASSUME NEW j \in 1..n PROVE \E k \in 1..n : z[j] = m[k]
    BY <2>3, <2>6, <2>7
  <2>9. \A j \in 1..Len(z) : Settles(z[j].settled, z[j].key.loaded, z[j].key.seen)
    BY <1>2, <2>7, <2>8 DEF m, n
  <2>10. Remembering(z)
    BY <1>2, <2>7, <2>9 DEF Remembering, m, n
  <2> QED BY <2>2, <2>10
<1>6. flight[f].phase = "fold"
  BY DEF Recall
<1> QED BY <1>1, <1>4, <1>5, <1>6, ToWriteStep DEF Recall

(* What the memo keeps of its entries.                                     *)
LEMMA MemoEvicts ==
    ASSUME NEW m, Remembering(m), NEW x \in Entry,
           Settles(x.settled, x.key.loaded, x.key.seen)
    PROVE  Remembering(Evicted(Append(m, x)))
<1> DEFINE n == Len(m)
           q == Append(m, x)
<1>1. m \in Seq(Entry) /\ n \in Nat /\ n <= FOLD_MEMO_SIZE /\ FOLD_MEMO_SIZE \in Nat \ {0}
      /\ \A i \in 1..n : Settles(m[i].settled, m[i].key.loaded, m[i].key.seen)
  BY HistoryAssumption DEF Remembering
<1>2. q \in Seq(Entry) /\ Len(q) = n + 1 /\ q[n + 1] = x /\ \A i \in 1..n : q[i] = m[i]
  BY <1>1
<1> HIDE DEF n, q
<1>3. \A i \in 1..(n + 1) : Settles(q[i].settled, q[i].key.loaded, q[i].key.seen)
  BY <1>1, <1>2
<1>4. CASE n + 1 > FOLD_MEMO_SIZE
  <2> DEFINE t == Tail(q)
  <2>1. t \in Seq(Entry) /\ Len(t) = n /\ \A i \in 1..n : t[i] = q[i + 1]
    BY <1>1, <1>2
  <2>2. Evicted(q) = t
    BY <1>2, <1>4 DEF Evicted
  <2> HIDE DEF t
  <2>3. \A i \in 1..n : i + 1 \in 1..(n + 1)
    BY <1>1
  <2>4. \A i \in 1..Len(t) : Settles(t[i].settled, t[i].key.loaded, t[i].key.seen)
    BY <1>3, <2>1, <2>3
  <2>5. Remembering(t)
    BY <1>1, <2>1, <2>4 DEF Remembering
  <2> QED BY <2>2, <2>5 DEF q
<1>5. CASE ~(n + 1 > FOLD_MEMO_SIZE)
  <2>1. Evicted(q) = q
    BY <1>2, <1>5 DEF Evicted
  <2>2. Remembering(q)
    BY <1>1, <1>2, <1>3, <1>5 DEF Remembering
  <2> QED BY <2>1, <2>2 DEF q
<1> QED BY <1>4, <1>5

(* A flight settles what it loaded and saw.                                *)
LEMMA SettleStep ==
    ASSUME HistoryInv, NEW f \in Flight, Settle(f)
    PROVE  HistoryInv'
<1> DEFINE y == authoritativeLog(flight[f].loaded, flight[f].seen)
           x == [key |-> memoKey(f), settled |-> y]
<1>1. /\ flight[f].phase = "fold" /\ verdict(flight[f].loaded, flight[f].seen) = "ok"
      /\ memo' = Evicted(Append(memo, x))
      /\ flight' = [flight EXCEPT ![f].phase = "write", ![f].settled = y]
      /\ UNCHANGED <<world, presented, logs, queue, told, loads>>
  BY DEF Settle
<1>2. flight[f].loaded \in Log /\ flight[f].seen \in Log /\ Holds(flight[f].seen)
  BY <1>1, InTurn, FlightParts DEF Turn
<1>3. y \in Settled
  BY <1>1, <1>2, Settlement
<1>4. Settles(y, flight[f].loaded, flight[f].seen)
  BY <1>1, <1>2 DEF Settles
<1> HIDE DEF y
<1>5. x \in Entry /\ x.settled = y /\ x.key.loaded = flight[f].loaded /\ x.key.seen = flight[f].seen
  BY <1>2, <1>3 DEF Entry, memoKey
<1>6. Settles(x.settled, x.key.loaded, x.key.seen)
  BY <1>4, <1>5
<1> HIDE DEF x
<1>7. Remembering(memo')
  <2>1. Remembering(memo)
    BY DEF HistoryInv
  <2>2. Remembering(Evicted(Append(memo, x)))
    BY <1>5, <1>6, <2>1, MemoEvicts
  <2> QED BY <1>1, <2>2
<1> QED BY <1>1, <1>3, <1>4, <1>7, ToWriteStep

(* A turn that ends without a write.                                       *)
LEMMA GivesUpStep ==
    ASSUME HistoryInv, NEW f \in Flight, flight[f].phase \in Turn, Leave(f),
           UNCHANGED <<world, presented, logs, memo, told, loads>>
    PROVE  HistoryInv'
<1>1. Home(f) \in Store /\ logs \in [Store -> Log] /\ Storing(logs) /\ Telling(told, logs)
  BY InTurn DEF HistoryInv, Storing
<1>2. logs' = [logs EXCEPT ![Home(f)] = logs[Home(f)]]
  BY <1>1
<1> DEFINE x == logs[Home(f)]
<1>3. logs' = [logs EXCEPT ![Home(f)] = x]
  BY <1>2
<1> HIDE DEF x
<1> QED BY <1>1, <1>3, LeaveStep

(* A refusal or a failure writes nothing.                                  *)
LEMMA RefuseStep == ASSUME HistoryInv, NEW f \in Flight, Refuse(f) \/ Fail(f) PROVE HistoryInv'
<1>1. flight[f].phase \in Turn /\ Leave(f) /\ UNCHANGED <<world, presented, logs, memo, told, loads>>
  BY DEF Refuse, Fail, Turn
<1> QED BY <1>1, GivesUpStep

(* What a write puts into the store and says.                              *)
LEMMA Written ==
    ASSUME HistoryInv, NEW f \in Flight, Write(f)
    PROVE  LET s == Home(f)
               l == flight[f].loaded
               v == authoritativeLog(l, logs[s])
           IN  /\ s \in Store /\ l \in Log /\ logs[s] \in Log /\ Holds(logs[s])
               /\ verdict(l, logs[s]) = "ok"
               /\ logs' = [logs EXCEPT ![s] = v.log] /\ told' = [told EXCEPT ![s] = v.result]
               /\ v \in Settled /\ Held(v.log) /\ Tells(v.result, v.log)
<1> DEFINE s == Home(f)
           l == flight[f].loaded
           v == authoritativeLog(l, logs[s])
<1>1. flight[f].phase = "write" /\ ~insertLost(f)
  BY DEF Write
<1>2. /\ flight[f] \in Flying /\ s \in Store /\ logs[s] \in Log
      /\ flight[f].seen \in {NoLog, logs[s]} /\ Settles(flight[f].settled, l, flight[f].seen)
  BY <1>1, InTurn DEF Turn
<1>3. flight[f].seen = logs[s]
  BY <1>1, <1>2 DEF insertLost
<1>4. l \in Log
  BY <1>2, FlightParts
<1>5. Holds(logs[s]) /\ verdict(l, logs[s]) = "ok" /\ flight[f].settled = v
  BY <1>2, <1>3 DEF Settles
<1>6. v \in Settled /\ Held(v.log) /\ Tells(v.result, v.log)
  BY <1>2, <1>4, <1>5, Settlement
<1>7. logs' = [logs EXCEPT ![s] = v.log] /\ told' = [told EXCEPT ![s] = v.result]
  BY <1>5 DEF Write
<1> HIDE DEF v
<1> QED BY <1>2, <1>4, <1>5, <1>6, <1>7 DEF v

(* A settlement is written.                                                *)
LEMMA WriteStep ==
    ASSUME HistoryInv, NEW f \in Flight, Write(f)
    PROVE  HistoryInv'
<1> DEFINE s == Home(f)
           v == authoritativeLog(flight[f].loaded, logs[s])
           x == v.log
           y == v.result
<1>1. /\ s \in Store /\ logs' = [logs EXCEPT ![s] = x] /\ told' = [told EXCEPT ![s] = y]
      /\ v \in Settled /\ Held(x) /\ Tells(y, x)
  BY Written
<1>2. x \in Log /\ y \in ViewType
  <2> HIDE DEF v
  <2> QED BY <1>1 DEF Settled
<1>3. Storing(logs) /\ Telling(told, logs)
  BY DEF HistoryInv
<1> HIDE DEF s, v, x, y
<1>4. Storing(logs')
  BY <1>1, <1>2, <1>3 DEF Storing, Holds
<1>5. Telling(told', logs')
  BY <1>1, <1>2, <1>3 DEF Telling, Storing
<1>6. flight[f].phase \in Turn /\ Leave(f) /\ UNCHANGED <<world, presented, memo, loads>>
  BY DEF Write, Turn
<1>7. logs' = [logs EXCEPT ![Home(f)] = x]
  BY <1>1 DEF s
<1> QED BY <1>4, <1>5, <1>6, <1>7, LeaveStep

(* A first insert by a writer without the key lock.                        *)
LEMMA InsertStep ==
    ASSUME HistoryInv, NEW s \in Range(world.home), InsertUnlocked(s)
    PROVE  HistoryInv'
<1>1. world \in World /\ world.home \in [Flight -> Store] /\ world.inserted \subseteq world.served
      /\ world.served \subseteq Log
  BY HistoryAssumption DEF HistoryInv, Bounded, Log
<1>2. s \in Store
  BY <1>1 DEF Range
<1>3. PICK log \in world.inserted :
        verdict(log, NoLog) = "ok" /\ logs' = [logs EXCEPT ![s] = authoritativeLog(log, NoLog).log]
  BY DEF InsertUnlocked
<1> DEFINE v == authoritativeLog(log, NoLog)
           x == v.log
<1>4. v \in Settled /\ Held(x)
  BY <1>1, <1>3, NothingHeld, Settlement
<1>5. x \in Log
  <2> HIDE DEF v
  <2> QED BY <1>4 DEF Settled
<1>6. logs' = [logs EXCEPT ![s] = x] /\ logs[s] = NoLog
  BY <1>3 DEF InsertUnlocked
<1>7. Storing(logs) /\ Telling(told, logs) /\ Knowing(world.home, logs, flight)
  BY DEF HistoryInv
<1> HIDE DEF v, x
<1>8. logs'[s] = x /\ \A t \in Store : t # s => logs'[t] = logs[t]
  BY <1>2, <1>6, <1>7 DEF Storing
<1>9. logs' \in [Store -> Log]
  BY <1>5, <1>6, <1>7 DEF Storing
<1>10. Storing(logs')
  BY <1>4, <1>7, <1>8, <1>9 DEF Storing, Holds
<1>11. Telling(told, logs')
  <2>1. told[s] = NoView
    BY <1>2, <1>6, <1>7, NothingHeld DEF Telling, Tells
  <2> QED BY <1>7, <1>8, <2>1 DEF Telling
<1>12. Knowing(world.home, logs', flight)
  <2>1. \A f \in Flight : world.home[f] \in Store
    BY <1>1
  <2> QED BY <1>6, <1>7, <1>8, <2>1 DEF Knowing
<1>13. /\ Bounded(world, presented, loads) /\ PlacedIn(world.home, flight, queue) /\ Remembering(memo)
  BY DEF HistoryInv
<1> QED BY <1>10, <1>11, <1>12, <1>13 DEF HistoryInv, InsertUnlocked

(* The process ends; the tables stay.                                      *)
LEMMA RestartStep ==
    ASSUME HistoryInv, Restart
    PROVE  HistoryInv'
<1>1. /\ flight' = [f \in Flight |-> Idle] /\ queue' = [s \in Store |-> <<>>] /\ memo' = <<>>
      /\ UNCHANGED <<world, presented, logs, told, loads>>
  BY DEF Restart
<1>2. PlacedIn(world.home, flight', queue')
  <2>1. \A s \in Store : queue'[s] = <<>> /\ \A f \in Flight : f \notin Range(queue'[s])
    BY <1>1 DEF Range
  <2>2. \A f \in Flight : flight'[f] = Idle
    BY <1>1
  <2>3. Idle.phase = "idle"
    BY DEF Idle
  <2>4. flight' \in [Flight -> Flying] /\ queue' \in [Store -> Seq(Flight)]
    BY <1>1, NothingSettled
  <2>5. \A s \in Store : IsInjective(queue'[s])
    BY <2>1 DEF IsInjective
  <2> QED BY <2>1, <2>2, <2>3, <2>4, <2>5 DEF PlacedIn, Turn
<1>3. Knowing(world.home, logs, flight')
  BY <1>1 DEF Knowing, Idle, Turn
<1>4. Remembering(memo')
  <2>1. memo' = <<>> /\ memo' \in Seq(Entry) /\ Len(memo') = 0
    BY <1>1
  <2> QED BY <2>1, HistoryAssumption DEF Remembering
<1>5. Bounded(world, presented, loads) /\ Storing(logs) /\ Telling(told, logs)
  BY DEF HistoryInv
<1> QED BY <1>1, <1>2, <1>3, <1>4, <1>5 DEF HistoryInv

(* A party collects a chain.                                               *)
LEMMA CollectStep ==
    ASSUME HistoryInv, Collect
    PROVE  HistoryInv'
<1>1. PICK chain \in world.collected : presented' = Append(presented, chain)
  BY DEF Collect, Present
<1>2. Bounded(world, presented', loads)
  BY <1>1 DEF HistoryInv, Bounded
<1> QED BY <1>2 DEF HistoryInv, Collect

(* Every step keeps the invariant.                                         *)
LEMMA StepHistory == HistoryInv /\ [Next]_vars => HistoryInv'
<1> SUFFICES ASSUME HistoryInv, [Next]_vars PROVE HistoryInv'
  OBVIOUS
<1>1. ASSUME NEW f \in Flight, LoadServed(f) \/ LoadForwarded(f) PROVE HistoryInv'
  BY <1>1, LoadStep
<1>2. ASSUME NEW f \in Flight, Get(f) PROVE HistoryInv'
  BY <1>2, GetStep
<1>3. ASSUME NEW f \in Flight, LoadMerged(f) PROVE HistoryInv'
  BY <1>3, MergedStep
<1>4. ASSUME NEW f \in Flight, Resolve(f) PROVE HistoryInv'
  BY <1>4, ReadStep, RecallStep, SettleStep, RefuseStep, WriteStep, RacedStep DEF Resolve
<1>5. ASSUME NEW f \in Flight, Fail(f) PROVE HistoryInv'
  BY <1>5, RefuseStep
<1>6. ASSUME NEW s \in Range(world.home), InsertUnlocked(s) PROVE HistoryInv'
  BY <1>6, InsertStep
<1>7. CASE UNCHANGED vars
  BY <1>7 DEF vars, HistoryInv
<1> QED BY <1>1, <1>2, <1>3, <1>4, <1>5, <1>6, <1>7, RestartStep, CollectStep DEF Next

(* A store holds nothing or a chain that folds with copies remembered of   *)
(* its epoch; a flight in its turn saw what its store still holds, or saw  *)
(* nothing; what it will write, and what the memo keeps, was settled from  *)
(* just what was loaded and seen; and the last answer of a store tells of  *)
(* what the store holds.                                                   *)
THEOREM HistoryInvariant == Spec => []HistoryInv
<1> QED BY InitHistory, StepHistory, PTL DEF Spec

(* With it the variables keep their types.                                 *)
LEMMA TypesHeld == HistoryInv => TypeOK
<1> SUFFICES ASSUME HistoryInv PROVE TypeOK
  OBVIOUS
<1>1. world \in World /\ presented \in Seq(world.collected) /\ loads \in 0..MaxLoads
  BY DEF HistoryInv, Bounded
<1>2. logs \in [Store -> Log] /\ told \in [Store -> ViewType]
  BY DEF HistoryInv, Storing, Telling
<1>3. memo \in Seq([key : [loaded : Log, seen : Log], settled : Settled]) /\ Len(memo) <= FOLD_MEMO_SIZE
  BY DEF HistoryInv, Remembering, Entry
<1>4. /\ flight \in [Flight -> [phase : {"idle", "got", "wait", "fold", "write"},
                                loaded : Log, seen : Log, settled : Settled]]
      /\ queue \in [Store -> Seq(Flight)] /\ \A s \in Store : IsInjective(queue[s])
  BY DEF HistoryInv, PlacedIn, Flying, Phase
<1>5. \A f \in Flight : \A s \in Store :
        f \in Range(queue[s]) <=> s = Home(f) /\ flight[f].phase \in {"wait", "fold", "write"}
  BY HomeOf DEF HistoryInv, PlacedIn
<1> QED BY <1>1, <1>2, <1>3, <1>4, <1>5 DEF TypeOK

(* The stores, queues, flights and memo keep their types, and a flight is  *)
(* queued at its store exactly while it waits for its turn or has it.      *)
THEOREM HistoryTypeCorrect == Spec => []TypeOK
<1> QED BY HistoryInvariant, TypesHeld, PTL

(* No two steps but a write change what is told.                           *)
LEMMA OnlyWritesTell ==
    ASSUME [Next]_vars
    PROVE  told' = told \/ \E f \in Flight : Write(f)
<1>1. ASSUME NEW f \in Flight,
             LoadServed(f) \/ LoadForwarded(f) \/ Get(f) \/ LoadMerged(f) \/ Resolve(f) \/ Fail(f)
      PROVE  told' = told \/ Write(f)
  BY <1>1 DEF LoadServed, LoadForwarded, Load, Get, LoadMerged, Resolve, Fail, Read, Recall, Settle,
              Refuse, ReadRaced
<1>2. ASSUME NEW s \in Range(world.home), InsertUnlocked(s) PROVE told' = told
  BY <1>2 DEF InsertUnlocked
<1> QED BY <1>1, <1>2 DEF Next, Restart, Collect, vars

(* Only a write or an insert changes what stores hold.                     *)
LEMMA WhatChangesLogs ==
    ASSUME [Next]_vars
    PROVE  logs' = logs \/ (\E f \in Flight : Write(f))
           \/ (\E s \in Range(world.home) : InsertUnlocked(s))
<1>1. ASSUME NEW f \in Flight,
             LoadServed(f) \/ LoadForwarded(f) \/ Get(f) \/ LoadMerged(f) \/ Resolve(f) \/ Fail(f)
      PROVE  logs' = logs \/ Write(f)
  BY <1>1 DEF LoadServed, LoadForwarded, Load, Get, LoadMerged, Resolve, Fail, Read, Recall, Settle,
              Refuse, ReadRaced
<1> QED BY <1>1 DEF Next, Restart, Collect, vars

(* What a settlement makes of what was held on the same head.              *)
LEMMA SettlesOn ==
    ASSUME NEW l \in Log, NEW s, Held(s), verdict(l, s) = "ok",
           HeadEvent(l.chain) = HeadEvent(s.chain)
    PROVE  LET v == authoritativeLog(l, s)
           IN  \/ Saturates(v.log.events) /\ v.result.saturated
               \/ /\ s.events \subseteq v.log.events /\ ~Saturates(s.events)
                  /\ EventsOf(s.events) \subseteq v.result.applied
<1> DEFINE v == authoritativeLog(l, s)
           c == HeadEvent(l.chain)
           R == Remembered(c, s.events, l.events)
           A == Applies(c, s.events, l.events)
<1>1. Folds(l.chain) /\ Len(l.chain) \in Nat /\ l.events \subseteq Copy
  BY LogParts DEF verdict
<1>2. c \in ChainEvent /\ Epochal(c, s.events)
  BY <1>1, FoldedHead DEF Held
<1>3. v.log.events = R /\ v.result.applied = A /\ v.result.saturated = Saturates(A)
  BY DEF authoritativeLog, trusted, View, viewOf, HeadEvent
<1>4. \/ Saturates(R) /\ Saturates(A)
      \/ s.events \subseteq R /\ ~Saturates(s.events) /\ EventsOf(s.events) \subseteq A
  BY <1>1, <1>2, HeldStays
<1> HIDE DEF v, A, R
<1> QED BY <1>3, <1>4 DEF v

(* AnswersStand, of one step.                                              *)
LEMMA AnswersStandStep ==
    ASSUME HistoryInv, HistoryInv', [Next]_vars, NEW s \in Store, told'[s] # told[s]
    PROVE  LET now == told'[s]
               held == View(logs'[s].chain, logs'[s].events, {})
           IN  /\ now.chain = held.chain /\ now.saturated = held.saturated
               /\ ~now.saturated => now = held
               /\ told[s].chain # <<>> /\ Last(now.chain) = Last(told[s].chain) =>
                    \/ now.saturated
                    \/ /\ told[s].applied \subseteq now.applied /\ ~told[s].saturated
                       /\ told[s].state.deny \subseteq now.state.deny
<1>1. PICK f \in Flight : Write(f)
  BY OnlyWritesTell
<1> DEFINE h == Home(f)
           l == flight[f].loaded
           v == authoritativeLog(l, logs[h])
           now == told'[s]
           was == told[s]
           log == logs'[s]
           old == logs[s]
<1>2. /\ h \in Store /\ l \in Log /\ logs[h] \in Log /\ Holds(logs[h])
      /\ verdict(l, logs[h]) = "ok"
      /\ logs' = [logs EXCEPT ![h] = v.log] /\ told' = [told EXCEPT ![h] = v.result]
      /\ v \in Settled /\ Held(v.log) /\ Tells(v.result, v.log)
  BY <1>1, Written
<1>3. told \in [Store -> ViewType] /\ logs \in [Store -> Log] /\ (was = NoView \/ Tells(was, old))
  BY DEF HistoryInv, Telling, Storing
<1>4. h = s
  BY <1>2, <1>3
<1>5. now = v.result /\ log = v.log /\ now \in ViewType
  <2> HIDE DEF h, v
  <2> QED BY <1>2, <1>3, <1>4 DEF Settled
<1>6. Tells(now, log) /\ Held(log)
  BY <1>2, <1>5
<1> DEFINE c == HeadEvent(log.chain)
           held == View(log.chain, log.events, {})
<1>7. log.chain = l.chain /\ c = HeadEvent(l.chain)
  BY <1>5 DEF authoritativeLog
<1>8. /\ held.chain = Spine(log.chain) /\ held.applied = Applies(c, log.events, {})
      /\ held.saturated = Saturates(Applies(c, log.events, {}))
      /\ held.state = HeadOf(c, Applies(c, log.events, {}))
      /\ held = [chain |-> held.chain, applied |-> held.applied, saturated |-> held.saturated,
                 state |-> held.state]
  BY DEF View, viewOf, HeadEvent
<1>9. /\ c \in ChainEvent /\ Applies(c, log.events, {}) = EventsOf(log.events)
      /\ Saturates(EventsOf(log.events)) <=> Saturates(log.events)
  <2>1. log \in Log /\ Folds(log.chain) /\ Len(log.chain) \in Nat /\ Epochal(c, log.events)
    BY <1>6, LogParts DEF Held
  <2>2. c \in ChainEvent
    BY <2>1, FoldedHead
  <2>3. {} \subseteq Copy
    OBVIOUS
  <2> HIDE DEF log, c
  <2> QED BY <2>1, <2>2, <2>3, HeldApplies, EpochalFinite
<1>10. held.saturated = Saturates(log.events)
  BY <1>8, <1>9 DEF Saturates
<1> HIDE DEF held
<1>11. now.chain = held.chain /\ now.saturated = held.saturated
  BY <1>6, <1>8, <1>10 DEF Tells
<1>12. ASSUME ~now.saturated PROVE now = held
  <2>1. now.applied = held.applied /\ now.state = held.state
    BY <1>6, <1>8, <1>9, <1>12 DEF Tells
  <2>2. now = [chain |-> now.chain, applied |-> now.applied, saturated |-> now.saturated,
               state |-> now.state]
    <3> HIDE DEF now
    <3> QED BY <1>5 DEF ViewType
  <2> QED BY <1>8, <1>11, <2>1, <2>2
<1>13. ASSUME was.chain # <<>>, Last(now.chain) = Last(was.chain), ~now.saturated
       PROVE  /\ was.applied \subseteq now.applied /\ ~was.saturated
              /\ was.state.deny \subseteq now.state.deny
  <2>1. was # NoView
    BY <1>13 DEF NoView
  <2>2. Tells(was, old) /\ Held(old)
    BY <1>3, <2>1 DEF Tells
  <2>3. was.chain = Spine(old.chain) /\ now.chain = Spine(log.chain)
    BY <1>6, <2>2 DEF Tells
  <2>4. HeadEvent(old.chain) = c
    BY <1>13, <2>3 DEF HeadEvent
  <2>5. verdict(l, old) = "ok" /\ v = authoritativeLog(l, old)
    BY <1>2, <1>4
  <2>6. /\ ~Saturates(old.events) /\ EventsOf(old.events) \subseteq now.applied
    <3>1. \/ Saturates(v.log.events) /\ v.result.saturated
          \/ /\ old.events \subseteq v.log.events /\ ~Saturates(old.events)
             /\ EventsOf(old.events) \subseteq v.result.applied
      BY <1>2, <1>7, <2>2, <2>4, <2>5, SettlesOn
    <3> QED BY <1>5, <1>13, <3>1
  <2>7. ~was.saturated /\ was.applied = EventsOf(old.events) /\ was.state = HeadOf(c, was.applied)
    BY <2>2, <2>4, <2>6 DEF Tells
  <2>8. now.state = HeadOf(c, now.applied)
    BY <1>6, <1>13 DEF Tells
  <2>9. was.applied \subseteq now.applied
    BY <2>6, <2>7
  <2>10. HeadOf(c, was.applied).deny \subseteq HeadOf(c, now.applied).deny
    <3> DEFINE p == was.applied
               q == now.applied
    <3>1. p \subseteq q
      BY <2>9
    <3> HIDE DEF p, q, c
    <3>2. HeadOf(c, p).deny \subseteq HeadOf(c, q).deny
      BY <3>1, DenialsGrow
    <3> QED BY <3>2 DEF p, q
  <2> QED BY <2>7, <2>8, <2>9, <2>10
<1> QED BY <1>11, <1>12, <1>13 DEF held

(* What a resolver answers is the fold of the log its store then holds,    *)
(* whether the memo or a settlement gave it, and on one head no applied    *)
(* event and no denial of an earlier answer is missing from a later one.   *)
THEOREM AnswersAlwaysStand == Spec => AnswersStand
<1> DEFINE Stands ==
        \A s \in Store : told'[s] # told[s] =>
         LET now == told'[s]
             held == View(logs'[s].chain, logs'[s].events, {})
         IN  /\ now.chain = held.chain /\ now.saturated = held.saturated
             /\ ~now.saturated => now = held
             /\ told[s].chain # <<>> /\ Last(now.chain) = Last(told[s].chain) =>
                  \/ now.saturated
                  \/ /\ told[s].applied \subseteq now.applied /\ ~told[s].saturated
                     /\ told[s].state.deny \subseteq now.state.deny
<1>1. HistoryInv /\ HistoryInv' /\ [Next]_vars => Stands
  BY AnswersStandStep
<1>2. AnswersStand <=> [][Stands]_vars
  BY DEF AnswersStand
<1> QED BY <1>1, <1>2, HistoryInvariant, PTL DEF Spec

(* What a verdict says of the standing of two logs.                        *)
LEMMA VerdictStands ==
    ASSUME NEW l \in Log, NEW s \in Log
    PROVE  /\ verdict(l, s) = "ok" => Folds(l.chain) /\ standing(l, s) = "ok"
           /\ Folds(l.chain) /\ ~(Cardinality(l.events) > MAX_LOG_EVENTS) =>
                (verdict(l, s) = "forked" <=> standing(l, s) = "forked")
<1> DEFINE stands == standing(l, s)
           large == Cardinality(l.events) > MAX_LOG_EVENTS
           whole == Folds(l.chain)
           tired == Failing(HeadEvent(l.chain), trusted(s), l.events) > MAX_FAILED_SIGNATURES
<1>1. verdict(l, s) = CASE large -> "too large"
                        [] ~whole -> "invalid"
                        [] OTHER -> IF stands # "ok" THEN stands
                                    ELSE IF tired THEN "too many failed" ELSE "ok"
  BY DEF verdict
<1> HIDE DEF stands, large, whole, tired
<1>2. ~large /\ whole => verdict(l, s) = IF stands # "ok" THEN stands
                                        ELSE IF tired THEN "too many failed" ELSE "ok"
  BY <1>1
<1>3. large \/ ~whole => verdict(l, s) \in {"too large", "invalid"}
  BY <1>1
<1>4. /\ verdict(l, s) = "ok" => whole /\ stands = "ok"
      /\ whole /\ ~large => (verdict(l, s) = "forked" <=> stands = "forked")
  BY <1>2, <1>3
<1> QED BY <1>4 DEF stands, large, whole

(* The store never moves backwards when it is written.                     *)
LEMMA WritesForward ==
    ASSUME HistoryInv, NEW f \in Flight, Write(f), logs[Home(f)] # NoLog
    PROVE  LET old == logs[Home(f)]
               new == logs'[Home(f)]
           IN  /\ new # NoLog
               /\ \/ HeadEvent(old.chain) \in Range(Spine(new.chain))
                  \/ GenOf[HeadEvent(new.chain)] > GenOf[HeadEvent(old.chain)]
               /\ HeadEvent(new.chain) = HeadEvent(old.chain) =>
                    \/ Saturates(new.events)
                    \/ old.events \subseteq new.events /\ ~Saturates(old.events)
<1> DEFINE h == Home(f)
           old == logs[h]
           new == logs'[h]
           l == flight[f].loaded
           v == authoritativeLog(l, old)
<1>1. /\ h \in Store /\ l \in Log /\ old \in Log /\ Holds(old)
      /\ verdict(l, old) = "ok"
      /\ logs' = [logs EXCEPT ![h] = v.log] /\ Held(v.log)
  BY Written
<1>2. logs \in [Store -> Log]
  BY DEF HistoryInv, Storing
<1>3. new = v.log
  <2> HIDE DEF h, v
  <2> QED BY <1>1, <1>2
<1>4. new.chain = l.chain
  BY <1>3 DEF authoritativeLog
<1>5. Held(old) /\ new # NoLog
  BY <1>1, <1>3, NothingHeld DEF Holds
<1>6. Folds(l.chain) /\ standing(l, old) = "ok"
  <2> HIDE DEF l, old
  <2> QED BY <1>1, VerdictStands
<1>7. Folds(old.chain) /\ Len(old.chain) \in Nat /\ Len(l.chain) \in Nat
  BY <1>1, <1>5, LogParts DEF Held
<1>8. passesThrough(l.chain, old.chain) \/
        authority(resolveBranches(<<old.chain, l.chain>>), l.chain) = "ok"
  BY <1>5, <1>6 DEF standing
<1> HIDE DEF h, old, new, l, v
<1>9. HeadEvent(old.chain) \in Range(Spine(new.chain))
      \/ GenOf[HeadEvent(new.chain)] > GenOf[HeadEvent(old.chain)]
  <2>1. CASE passesThrough(l.chain, old.chain)
    BY <1>4, <2>1 DEF passesThrough
  <2>2. CASE ~passesThrough(l.chain, old.chain)
    <3>1. GenOf[HeadEvent(l.chain)] > GenOf[HeadEvent(old.chain)]
      BY <1>6, <1>7, <1>8, <2>2, AuthorityDecides
    <3> QED BY <1>4, <3>1
  <2> QED BY <2>1, <2>2
<1>10. ASSUME HeadEvent(new.chain) = HeadEvent(old.chain)
       PROVE  \/ Saturates(new.events)
              \/ old.events \subseteq new.events /\ ~Saturates(old.events)
  <2>1. HeadEvent(l.chain) = HeadEvent(old.chain)
    BY <1>4, <1>10
  <2>2. LET w == authoritativeLog(l, old)
        IN  \/ Saturates(w.log.events) /\ w.result.saturated
            \/ /\ old.events \subseteq w.log.events /\ ~Saturates(old.events)
               /\ EventsOf(old.events) \subseteq w.result.applied
    BY <1>1, <1>5, <2>1, SettlesOn
  <2> QED BY <1>3, <2>2 DEF v
<1> QED BY <1>5, <1>9, <1>10 DEF old, new, h

(* NoRollback, of one step.                                                *)
LEMMA NoRollbackStep ==
    ASSUME HistoryInv, [Next]_vars, NEW s \in Store, logs[s] # NoLog
    PROVE  /\ logs'[s] # NoLog
           /\ \/ HeadEvent(logs[s].chain) \in Range(Spine(logs'[s].chain))
              \/ GenOf[HeadEvent(logs'[s].chain)] > GenOf[HeadEvent(logs[s].chain)]
           /\ HeadEvent(logs'[s].chain) = HeadEvent(logs[s].chain) =>
               \/ Saturates(logs'[s].events)
               \/ logs[s].events \subseteq logs'[s].events /\ ~Saturates(logs[s].events)
<1>1. logs \in [Store -> Log] /\ Held(logs[s])
  BY DEF HistoryInv, Storing, Holds
<1>2. CASE logs'[s] = logs[s]
  <2>1. Folds(logs[s].chain) /\ Len(logs[s].chain) \in Nat
    BY <1>1, LogParts DEF Held
  <2>2. HeadEvent(logs[s].chain) \in Range(Spine(logs[s].chain))
    BY <2>1, FoldedHead
  <2> QED BY <1>2, <2>2
<1>3. CASE logs'[s] # logs[s]
  <2>1. CASE \E f \in Flight : Write(f)
    <3>1. PICK f \in Flight : Write(f)
      BY <2>1
    <3>2. logs' = [logs EXCEPT ![Home(f)] = flight[f].settled.log]
      BY <3>1 DEF Write
    <3>3. Home(f) = s
      BY <1>1, <1>3, <3>2
    <3> QED BY <3>1, <3>3, WritesForward
  <2>2. CASE \E t \in Range(world.home) : InsertUnlocked(t)
    <3>1. PICK t \in Range(world.home) : InsertUnlocked(t)
      BY <2>2
    <3>2. t # s /\ \E x : logs' = [logs EXCEPT ![t] = x]
      BY <3>1 DEF InsertUnlocked
    <3>3. logs'[s] = logs[s]
      BY <1>1, <3>2
    <3> QED BY <1>3, <3>3
  <2> QED BY <1>3, <2>1, <2>2, WhatChangesLogs
<1> QED BY <1>2, <1>3

(* A store's chain is replaced only by one that goes through its head or   *)
(* is of a higher generation, and on one head the epoch's events are only  *)
(* added to until the epoch saturates; whatever queues, races, restarts or *)
(* the memo do.                                                            *)
THEOREM StoresNeverRollBack == Spec => NoRollback
<1> DEFINE Forward ==
        \A s \in Store : logs[s] # NoLog =>
         /\ logs'[s] # NoLog
         /\ \/ HeadEvent(logs[s].chain) \in Range(Spine(logs'[s].chain))
            \/ GenOf[HeadEvent(logs'[s].chain)] > GenOf[HeadEvent(logs[s].chain)]
         /\ HeadEvent(logs'[s].chain) = HeadEvent(logs[s].chain) =>
             \/ Saturates(logs'[s].events)
             \/ logs[s].events \subseteq logs'[s].events /\ ~Saturates(logs[s].events)
<1>1. HistoryInv /\ [Next]_vars => Forward
  BY NoRollbackStep
<1>2. NoRollback <=> [][Forward]_vars
  BY DEF NoRollback
<1> QED BY <1>1, <1>2, HistoryInvariant, PTL DEF Spec

(* A verdict of a fork, of what a flight loaded and its store holds.       *)
LEMMA ForkIsReal ==
    ASSUME NEW l \in Log, NEW s, Held(s), Folds(l.chain), ~(Cardinality(l.events) > MAX_LOG_EVENTS)
    PROVE  LET top(chain) == {e \in Range(Spine(chain)) : GenOf[e] = GenOf[HeadEvent(chain)]}
           IN  verdict(l, s) = "forked" <=>
                 \E d \in top(s.chain), e \in top(l.chain) :
                     d # e /\ GenOf[d] = GenOf[e] /\ NumOf[d] = NumOf[e]
<1>1. s \in Log /\ Folds(s.chain) /\ Len(s.chain) \in Nat /\ Len(l.chain) \in Nat /\ s # NoLog
  BY LogParts, NothingHeld DEF Held
<1>3. verdict(l, s) = "forked" <=> standing(l, s) = "forked"
  BY <1>1, VerdictStands
<1>4. standing(l, s) = "forked" <=>
        /\ ~passesThrough(l.chain, s.chain)
        /\ authority(resolveBranches(<<s.chain, l.chain>>), l.chain) = "forked"
  BY <1>1 DEF standing
<1>5. standing(l, s) = "forked" <=> Clash(s.chain, l.chain)
  BY <1>1, <1>4, AuthorityDecides
<1> QED BY <1>3, <1>5 DEF Clash

(* A flight in its turn is refused as forked exactly for a clash.          *)
LEMMA ForksHeld == HistoryInv => ForksAreReal
<1> SUFFICES ASSUME HistoryInv, NEW f \in Flight, flight[f].phase = "fold",
                    flight[f].seen # NoLog, Folds(flight[f].loaded.chain),
                    ~(Cardinality(flight[f].loaded.events) > MAX_LOG_EVENTS)
             PROVE  LET top(chain) == {e \in Range(Spine(chain)) : GenOf[e] = GenOf[HeadEvent(chain)]}
                        seen == flight[f].seen
                        loaded == flight[f].loaded
                    IN  verdict(loaded, seen) = "forked" <=>
                          \E d \in top(seen.chain), e \in top(loaded.chain) :
                              d # e /\ GenOf[d] = GenOf[e] /\ NumOf[d] = NumOf[e]
  BY DEF ForksAreReal
<1>1. flight[f].loaded \in Log /\ Held(flight[f].seen)
  BY InTurn, FlightParts DEF Turn, Holds
<1> QED BY <1>1, ForkIsReal

(* LOG_FORKED is answered exactly when the loaded chain and the one the    *)
(* store holds have two sound events for one place of the highest          *)
(* generation that both of them reach.                                     *)
THEOREM ForksAlwaysReal == Spec => []ForksAreReal
<1> QED BY HistoryInvariant, ForksHeld, PTL

-----------------------------------------------------------------------------
(* What a store holds can be forwarded.                                    *)

(* Copies that verify cost no failing signature.                           *)
LEMMA GenuineFree ==
    ASSUME NEW R, R \subseteq Genuine
    PROVE  Charge(R) = 0
<1> DEFINE failing == {k \in R \ Genuine : \A d \in R \cap Genuine : k.rank < d.rank}
           Body(v, s) == IF s = {} THEN 0 ELSE LET x == CHOOSE x \in s : TRUE IN x.charge + v[s \ {x}]
           u == CHOOSE v : v = [s \in SUBSET {} |-> Body(v, s)]
<1>1. failing = {}
  OBVIOUS
<1>2. Charge(R) = MapThenSumSet(LAMBDA k : k.charge, failing)
  BY DEF Charge
<1>3. Charge(R) = u[{}]
  BY <1>1, <1>2 DEF MapThenSumSet, MapThenFoldSet
<1>4. u = [s \in SUBSET {} |-> Body(u, s)]
  <2> DEFINE w == [s \in SUBSET {} |-> 0]
  <2>1. \A s \in SUBSET {} : s = {}
    OBVIOUS
  <2>2. w = [s \in SUBSET {} |-> Body(w, s)]
    BY <2>1
  <2> HIDE DEF w
  <2>3. \E v : v = [s \in SUBSET {} |-> Body(v, s)]
    BY <2>2
  <2> HIDE DEF Body
  <2> QED BY <2>3
<1> HIDE DEF u
<1>5. u[{}] = Body(u, {})
  <2> HIDE DEF Body
  <2> QED BY <1>4
<1>6. Body(u, {}) = 0
  OBVIOUS
<1> QED BY <1>3, <1>5, <1>6

(* Nothing fails of an epoch presented in copies that verify.              *)
LEMMA NoneFail ==
    ASSUME NEW c, NEW R, R \subseteq Genuine, R \subseteq Copy
    PROVE  Failing(c, {}, R) = 0
<1> DEFINE checked == {e \in Own(c, R) :
                         /\ CopiesOf(e, {}) = {}
                         /\ Parents[e] \subseteq Applies(c, {}, R) \cup {c}
                         /\ signerStands(e, Past[c][e])}
           Cost(e) == Charge(CopiesOf(e, R))
<1>1. \A e : Cost(e) = 0
  <2> TAKE e
  <2>1. CopiesOf(e, R) \subseteq Genuine
    BY DEF CopiesOf
  <2> QED BY <2>1, GenuineFree
<1>2. IsFiniteSet(checked)
  <2>1. checked \subseteq Event
    BY OwnEvents
  <2> HIDE DEF checked
  <2> QED BY <2>1, EpochAssumption, FS_Subset
<1> DEFINE Body(S, v, s) == IF s = {} THEN 0
                            ELSE LET x == CHOOSE x \in s : TRUE IN Cost(x) + v[s \ {x}]
           u == CHOOSE v : v = [s \in SUBSET checked |-> Body(checked, v, s)]
<1>3. Failing(c, {}, R) = u[checked]
  BY DEF Failing, MapThenSumSet, MapThenFoldSet
<1> HIDE DEF checked, Cost
<1>4. u = [s \in SUBSET checked |-> Body(checked, u, s)]
  <2> DEFINE w == [s \in SUBSET checked |-> 0]
  <2>1. \A s \in SUBSET checked : Body(checked, w, s) = 0
    <3> TAKE s \in SUBSET checked
    <3> DEFINE x == CHOOSE x \in s : TRUE
    <3>1. w[s \ {x}] = 0 /\ Cost(x) = 0
      BY <1>1
    <3>2. Body(checked, w, s) = IF s = {} THEN 0 ELSE Cost(x) + w[s \ {x}]
      OBVIOUS
    <3> HIDE DEF w, x
    <3> QED BY <3>1, <3>2
  <2>2. w = [s \in SUBSET checked |-> Body(checked, w, s)]
    <3> HIDE DEF Body
    <3> QED BY <2>1
  <2> HIDE DEF w, Body
  <2>3. \E v : v = [s \in SUBSET checked |-> Body(checked, v, s)]
    BY <2>2
  <2> QED BY <2>3
<1> HIDE DEF u
<1> DEFINE Wrong == {s \in FiniteSubsetsOf(checked) : u[s] # 0}
<1>5. Wrong = {}
  <2> SUFFICES ASSUME Wrong # {} PROVE FALSE
    OBVIOUS
  <2>1. PICK s \in Wrong : \A t \in Wrong : ~(<<t, s>> \in StrictSubsetOrdering(checked))
    BY FS_StrictSubsetOrderingWellFounded, WFMin
  <2>2. s \in SUBSET checked /\ IsFiniteSet(s) /\ u[s] # 0
    BY DEF FiniteSubsetsOf
  <2>3. u[s] = Body(checked, u, s)
    <3> HIDE DEF Body
    <3> QED BY <1>4, <2>2
  <2> DEFINE x == CHOOSE x \in s : TRUE
             t == s \ {x}
  <2>4. s # {} /\ u[s] = Cost(x) + u[t]
    BY <2>2, <2>3
  <2>5. x \in s
    BY <2>4
  <2> HIDE DEF x
  <2>6. t \in SUBSET checked /\ IsFiniteSet(t) /\ t # s
    BY <2>2, <2>5, FS_RemoveElement
  <2>7. <<t, s>> \in StrictSubsetOrdering(checked)
    BY <2>2, <2>6 DEF StrictSubsetOrdering
  <2>8. u[t] = 0
    BY <2>1, <2>6, <2>7 DEF FiniteSubsetsOf
  <2>9. u[s] = 0 + 0
    BY <1>1, <2>4, <2>8
  <2> QED BY <2>2, <2>9
<1>6. checked \in FiniteSubsetsOf(checked)
  BY <1>2 DEF FiniteSubsetsOf
<1>7. u[checked] = 0
  BY <1>5, <1>6
<1> QED BY <1>3, <1>7 DEF u, checked

(* What is shown and verifies counts as much as what is trusted.           *)
LEMMA ShownAsTrusted ==
    ASSUME NEW c \in ChainEvent, NEW R, R \subseteq Genuine, R \subseteq Copy
    PROVE  Applies(c, {}, R) = Applies(c, R, {})
<1> DEFINE A == Applies(c, {}, R)
           B == Applies(c, R, {})
           own == Own(c, R)
<1>1. {} \cup R = R /\ R \cup {} = R /\ R \cap Genuine = R /\ {} \cap Genuine = {}
  OBVIOUS
<1>2. Own(c, {} \cup R) = own /\ Own(c, R \cup {}) = own /\ own \subseteq Event
  BY <1>1, OwnEvents
<1>3. \A e, E : Applicable(c, {}, R, e, E) <=> Applicable(c, R, {}, e, E)
  BY <1>1 DEF Applicable, Authentic
<1>4. A \subseteq own /\ \A e \in own : e \in A <=> Applicable(c, {}, R, e, A)
  BY <1>2, AppliesFixpoint
<1>5. B \subseteq own /\ \A e \in own : e \in B <=> Applicable(c, R, {}, e, B)
  BY <1>2, AppliesFixpoint
<1>6. A \subseteq B
  <2>1. A \in SUBSET Own(c, R \cup {}) /\ \A e \in A : Applicable(c, R, {}, e, A)
    BY <1>2, <1>3, <1>4
  <2>2. Own(c, R \cup {}) \subseteq Event
    BY <1>2
  <2> HIDE DEF A, own
  <2> QED BY <2>1, <2>2, AppliesClosed
<1>7. B \subseteq A
  <2>1. B \in SUBSET Own(c, {} \cup R) /\ \A e \in B : Applicable(c, {}, R, e, B)
    BY <1>2, <1>3, <1>5
  <2>2. Own(c, {} \cup R) \subseteq Event
    BY <1>2
  <2> HIDE DEF B, own
  <2> QED BY <2>1, <2>2, AppliesClosed
<1> QED BY <1>6, <1>7

(* The copy kept of an authentic event is one that verified.               *)
LEMMA KeptGenuine ==
    ASSUME NEW t, NEW s, t \subseteq Copy, s \subseteq Copy, t \subseteq Genuine, NEW e, Authentic(e, t, s)
    PROVE  KeptCopy(e, t, s) \in Genuine
<1>1. CASE CopiesOf(e, t) # {}
  BY <1>1 DEF KeptCopy, CopiesOf
<1>2. CASE CopiesOf(e, t) = {}
  <2> DEFINE G == CopiesOf(e, s) \cap Genuine
             Ranks == {k.rank : k \in G}
  <2>1. G # {}
    BY <1>2 DEF Authentic, CopiesOf
  <2>2. \A k \in G : k.rank \in Nat
    BY EpochAssumption DEF CopiesOf
  <2>3. PICK r \in Ranks : \A q \in Ranks : r <= q
    <3>1. Ranks \in SUBSET Nat /\ Ranks # {}
      BY <2>1, <2>2
    <3> HIDE DEF Ranks
    <3> QED BY <3>1, LeastNatural
  <2>4. \E k \in G : \A d \in G : k.rank <= d.rank
    BY <2>3
  <2>5. canonicalCopy(CopiesOf(e, s)) \in G
    BY <2>4 DEF canonicalCopy
  <2> QED BY <1>2, <2>5 DEF KeptCopy
<1> QED BY <1>1, <1>2

(* What is remembered verified once, and is at most one more than the      *)
(* limit of an epoch.                                                      *)
LEMMA RememberedGenuine ==
    ASSUME NEW c \in ChainEvent, NEW t, NEW s, t \subseteq Copy, s \subseteq Copy, t \subseteq Genuine
    PROVE  /\ Remembered(c, t, s) \subseteq Genuine
           /\ Cardinality(Remembered(c, t, s)) <= MAX_EPOCH_EVENTS + 1
<1> DEFINE A == Applies(c, t, s)
           K == Kept(c, A)
           R == Remembered(c, t, s)
<1>1. t \cup s \subseteq Copy /\ Own(c, t \cup s) \subseteq Event
  BY OwnEvents
<1>2. A \subseteq Own(c, t \cup s) /\ \A e \in A : Applicable(c, t, s, e, A)
  BY <1>1, AppliesFixpoint
<1>3. Rooted(c, A) /\ A \in SUBSET Event
  BY <1>1, <1>2 DEF Rooted, Applicable
<1>4. /\ K \subseteq A /\ (~Saturates(A) => K = A)
      /\ Saturates(A) => Cardinality(K) = MAX_EPOCH_EVENTS + 1
  <2> HIDE DEF A
  <2> QED BY <1>3, KeptRooted
<1>5. R \subseteq Genuine
  <2>1. \A e \in K : KeptCopy(e, t, s) \in Genuine
    <3> TAKE e \in K
    <3>1. Authentic(e, t, s)
      BY <1>2, <1>4 DEF Applicable
    <3> QED BY <3>1, KeptGenuine
  <2>2. R = {KeptCopy(e, t, s) : e \in K}
    BY DEF Remembered
  <2> HIDE DEF K, R
  <2> QED BY <2>1, <2>2
<1>6. Cardinality(R) = Cardinality(K)
  <2>1. Epochal(c, R) /\ EventsOf(R) = K
    BY RememberedEpochal
  <2> HIDE DEF R, K
  <2> QED BY <2>1, EpochalFinite
<1>7. MAX_EPOCH_EVENTS \in Nat /\ IsFiniteSet(A) /\ Cardinality(A) \in Nat
  <2>1. IsFiniteSet(Event) /\ MAX_EPOCH_EVENTS \in Nat
    BY EpochAssumption
  <2>2. IsFiniteSet(A)
    BY <1>3, <2>1, FS_Subset
  <2> QED BY <2>1, <2>2, FS_CardinalityType
<1> HIDE DEF A, K, R
<1>8. Cardinality(R) <= MAX_EPOCH_EVENTS + 1
  <2>1. CASE Saturates(A)
    BY <1>4, <1>6, <1>7, <2>1
  <2>2. CASE ~Saturates(A)
    <3>1. Cardinality(R) = Cardinality(A) /\ ~(Cardinality(A) > MAX_EPOCH_EVENTS)
      BY <1>4, <1>6, <2>2 DEF Saturates
    <3> QED BY <1>7, <3>1
  <2> QED BY <2>1, <2>2
<1> QED BY <1>5, <1>8 DEF R

(* Such a set, presented to a verifier that trusts nothing, is applied and *)
(* remembered whole.                                                       *)
LEMMA RememberedAgain ==
    ASSUME NEW c \in ChainEvent, NEW R, Epochal(c, R), R \subseteq Genuine,
           Cardinality(R) <= MAX_EPOCH_EVENTS + 1
    PROVE  Remembered(c, {}, R) = R
<1> DEFINE E == EventsOf(R)
           K == Kept(c, E)
<1>1. R \subseteq Copy /\ Rooted(c, E) /\ \A j, k \in R : j.event = k.event => j = k
  BY DEF Epochal
<1>2. E \subseteq Event /\ IsFiniteSet(E) /\ Cardinality(R) = Cardinality(E)
  BY <1>1, OwnEvents, EpochalFinite
<1>3. Applies(c, {}, R) = E
  <2>1. {} \subseteq Copy
    OBVIOUS
  <2>2. Applies(c, R, {}) = E
    BY <2>1, HeldApplies
  <2> QED BY <1>1, <2>2, ShownAsTrusted
<1>4. /\ K \subseteq E /\ (~Saturates(E) => K = E)
      /\ Saturates(E) => Cardinality(K) = MAX_EPOCH_EVENTS + 1
  <2>1. E \in SUBSET Event /\ Rooted(c, E)
    BY <1>1, <1>2
  <2> HIDE DEF E
  <2> QED BY <2>1, KeptRooted
<1>5. K = E
  <2>1. CASE Saturates(E)
    <3>1. Cardinality(E) > MAX_EPOCH_EVENTS /\ Cardinality(E) <= MAX_EPOCH_EVENTS + 1
          /\ Cardinality(E) \in Nat /\ MAX_EPOCH_EVENTS \in Nat
      <4>1. Cardinality(E) \in Nat
        BY <1>2, FS_CardinalityType
      <4>2. Cardinality(E) <= MAX_EPOCH_EVENTS + 1
        BY <1>2
      <4>3. Cardinality(E) > MAX_EPOCH_EVENTS
        BY <2>1 DEF Saturates
      <4>4. MAX_EPOCH_EVENTS \in Nat
        BY EpochAssumption
      <4> QED BY <4>1, <4>2, <4>3, <4>4
    <3>2. Cardinality(K) = Cardinality(E)
      BY <1>4, <2>1, <3>1
    <3> HIDE DEF K, E
    <3> QED BY <1>2, <1>4, <3>2, FS_Subset
  <2> QED BY <1>4, <2>1
<1>6. Remembered(c, {}, R) = {KeptCopy(e, {}, R) : e \in E}
  BY <1>3, <1>5 DEF Remembered
<1>7. ASSUME NEW k \in R PROVE KeptCopy(k.event, {}, R) = k
  <2>1. CopiesOf(k.event, {}) = {} /\ CopiesOf(k.event, R) = {k}
    BY <1>1 DEF CopiesOf
  <2>2. KeptCopy(k.event, {}, R) = canonicalCopy({k})
    BY <2>1 DEF KeptCopy
  <2>3. {k} \cap Genuine = {k} /\ k.rank <= k.rank
    <3>1. k.rank \in Nat
      BY <1>1, EpochAssumption
    <3> QED BY <3>1
  <2>4. canonicalCopy({k}) = CHOOSE j \in {k} : \A d \in {k} : j.rank <= d.rank
    BY <2>3 DEF canonicalCopy
  <2>5. canonicalCopy({k}) = k
    BY <2>3, <2>4
  <2> QED BY <2>2, <2>5
<1> QED BY <1>6, <1>7 DEF EventsOf

(* A spine, presented as a chain, folds to itself.                         *)
LEMMA SpineItself ==
    ASSUME NEW p, Spined(p), p # <<>>
    PROVE  Spine(p) = p
<1> DEFINE M == Len(p)
<1>0. p \in Seq(ChainEvent) /\ M \in Nat \ {0} /\ p[1] = Inception
  BY DEF Spined
<1>1. PICK f : /\ f[0] = failed /\ foldChain(p) = f[M]
               /\ 1 <= M => f[1] = initFold(p[1])
               /\ \A n \in 2..M : f[n] = stepEvent(f[n - 1], p[n])
  BY <1>0, FoldSteps
<1> DEFINE Upto(n) == SubSeq(p, 1, n)
           T == {n \in 0..(M - 1) : f[n + 1] = [spine |-> Upto(n + 1), skipped |-> 0]}
<1>2. 0 \in T
  <2>1. Upto(1) = <<Inception>>
    <3> DEFINE r == SubSeq(p, 1, 1)
    <3>1. r \in Seq(ChainEvent) /\ Len(r) = 1 /\ r[1] = Inception
      BY <1>0
    <3> HIDE DEF r
    <3>2. r = <<Inception>>
      BY <3>1
    <3> QED BY <3>2 DEF r
  <2>2. f[1] = [spine |-> <<Inception>>, skipped |-> 0]
    BY <1>0, <1>1 DEF initFold
  <2>3. 0 \in 0..(M - 1) /\ 0 + 1 = 1
    BY <1>0
  <2> QED BY <2>1, <2>2, <2>3
<1>3. ASSUME NEW n \in 0..(M - 1 - 1), n \in T PROVE n + 1 \in T
  <2> DEFINE q == Upto(n + 1)
             e == p[n + 2]
             g == [spine |-> q, skipped |-> 0]
  <2>1. /\ n + 2 \in 2..M /\ (n + 2) - 1 = n + 1 /\ (n + 1) + 1 = n + 2
        /\ n + 1 \in 0..(M - 1) /\ n + 1 \in 1..(M - 1) /\ e \in ChainEvent
    BY <1>0
  <2>2. q \in Seq(ChainEvent) /\ q # <<>> /\ Len(q) = n + 1 /\ q[n + 1] = p[n + 1]
    BY <1>0, <2>1
  <2>3. Append(q, e) = Upto(n + 2)
    BY <1>0, <2>1
  <2>4. f[n + 2] = stepEvent(g, e)
    <3>1. f[n + 1] = g
      BY <1>3
    <3> QED BY <1>1, <2>1, <3>1
  <2> HIDE DEF q, e
  <2>5. e \in Sound /\ (follows(e, Last(q)) \/ resets(e, Last(q)))
    <3>1. e \in Sound /\ (follows(e, p[n + 1]) \/ resets(e, p[n + 1]))
      BY <2>1 DEF Spined, e
    <3>2. Last(q) = p[n + 1]
      BY <2>2 DEF Last
    <3> QED BY <3>1, <3>2
  <2>6. g # failed /\ g.spine = q /\ e \notin Ignorable
    BY <2>2, <2>5, LogAssumption DEF failed
  <2>7. stepEvent(g, e) = [g EXCEPT !.spine = Append(q, e)]
    <3> DEFINE A == e \in Sound /\ (follows(e, Last(q)) \/ resets(e, Last(q)))
               B == e \in Ignorable /\ follows(e, Last(q)) /\ withinSkipBudget(g)
    <3>1. stepEvent(g, e) = CASE A -> [g EXCEPT !.spine = Append(q, e)]
                              [] B -> [g EXCEPT !.skipped = g.skipped + 1]
                              [] OTHER -> failed
      BY <2>6 DEF stepEvent
    <3>2. A /\ ~B
      BY <2>5, <2>6
    <3> HIDE DEF A, B, g
    <3> QED BY <3>1, <3>2
  <2>8. [g EXCEPT !.spine = Append(q, e)] = [spine |-> Append(q, e), skipped |-> 0]
    OBVIOUS
  <2> QED BY <2>1, <2>3, <2>4, <2>7, <2>8
<1>4. M - 1 \in T
  <2> HIDE DEF T
  <2>1. M - 1 \in Nat
    BY <1>0
  <2>2. 0..(M - 1) \subseteq T
    BY <1>2, <1>3, <2>1, StepByStep
  <2> QED BY <2>1, <2>2
<1>5. foldChain(p) = [spine |-> SubSeq(p, 1, M), skipped |-> 0]
  <2>1. (M - 1) + 1 = M
    BY <1>0
  <2> QED BY <1>1, <1>4, <2>1
<1> QED BY <1>0, <1>5, WholeLine DEF Spine

(* Filtering from a place on keeps what is there.                          *)
LEMMA FilterRest ==
    ASSUME NEW s \in Seq(ChainEvent), NEW m \in 1..(Len(s) + 1)
    PROVE  /\ filtered(s, m..Len(s)) \in Seq(ChainEvent)
           /\ Len(filtered(s, m..Len(s))) = Len(s) + 1 - m
           /\ \A k \in 1..(Len(s) + 1 - m) : filtered(s, m..Len(s))[k] = s[m + k - 1]
<1> DEFINE M == Len(s)
           size(n) == IF n < m THEN 0 ELSE n + 1 - m
           P(h, n) == h \in Seq(ChainEvent) /\ Len(h) = size(n) /\ \A k \in 1..size(n) : h[k] = s[m + k - 1]
<1>0. M \in Nat /\ m \in Nat \ {0}
  OBVIOUS
<1> HIDE DEF size, P
<1>1. PICK f : /\ f[0] = <<>> /\ filtered(s, m..M) = f[M]
               /\ \A n \in 1..M : f[n] = IF n \in m..M THEN Append(f[n - 1], s[n]) ELSE f[n - 1]
  <2>1. Len(s) \in Nat
    OBVIOUS
  <2> QED BY <2>1, FilterSteps
<1> USE DEF size, P
<1> DEFINE T == {n \in 0..M : P(f[n], n)}
<1>2. 0 \in T
  <2>1. 0 \in 0..M /\ size(0) = 0 /\ <<>> \in Seq(ChainEvent) /\ Len(<<>>) = 0
    BY <1>0
  <2>2. P(<<>>, 0)
    <3> HIDE DEF size
    <3> QED BY <2>1
  <2> HIDE DEF P
  <2> QED BY <1>1, <2>1, <2>2
<1>3. ASSUME NEW n \in 0..(M - 1), n \in T PROVE n + 1 \in T
  <2>1. n + 1 \in 1..M /\ (n + 1) - 1 = n /\ n + 1 \in 0..M /\ s[n + 1] \in ChainEvent
    OBVIOUS
  <2> DEFINE h == f[n]
             x == s[n + 1]
  <2>2. h \in Seq(ChainEvent) /\ Len(h) = size(n) /\ \A k \in 1..size(n) : h[k] = s[m + k - 1]
    BY <1>3
  <2>3. f[n + 1] = IF n + 1 \in m..M THEN Append(h, x) ELSE h
    BY <1>1, <2>1
  <2> HIDE DEF h
  <2>4. CASE n + 1 < m
    <3>1. f[n + 1] = h /\ size(n) = 0 /\ size(n + 1) = 0
      BY <1>0, <2>1, <2>3, <2>4
    <3> QED BY <2>1, <2>2, <3>1
  <2>5. CASE ~(n + 1 < m)
    <3>1. n + 1 \in m..M /\ size(n + 1) = size(n) + 1 /\ size(n) \in Nat /\ m + size(n + 1) - 1 = n + 1
      BY <1>0, <2>1, <2>5
    <3>2. f[n + 1] = Append(h, x)
      BY <2>3, <3>1
    <3>3. x = s[m + size(n + 1) - 1]
      BY <3>1
    <3> HIDE DEF size, x
    <3>4. Append(h, x) \in Seq(ChainEvent) /\ Len(Append(h, x)) = size(n + 1)
      BY <2>1, <2>2, <3>1 DEF x
    <3>5. ASSUME NEW k \in 1..size(n + 1) PROVE Append(h, x)[k] = s[m + k - 1]
      <4>1. CASE k = size(n + 1)
        BY <2>2, <3>1, <3>3, <4>1
      <4>2. CASE k # size(n + 1)
        <5>1. k \in 1..size(n)
          BY <3>1, <4>2
        <5>2. Append(h, x)[k] = h[k]
          BY <2>2, <5>1
        <5> QED BY <2>2, <5>1, <5>2
      <4> QED BY <4>1, <4>2
    <3> QED BY <2>1, <3>2, <3>4, <3>5
  <2> QED BY <2>4, <2>5
<1>4. M \in T
  <2> HIDE DEF T
  <2>1. 0..M \subseteq T
    BY <1>0, <1>2, <1>3, StepByStep
  <2> QED BY <1>0, <2>1
<1>5. size(M) = M + 1 - m
  BY <1>0
<1> HIDE DEF size
<1>6. P(filtered(s, m..M), M)
  BY <1>1, <1>4
<1> QED BY <1>5, <1>6

(* Two sequences, one after the other.                                     *)
LEMMA Joined ==
    ASSUME NEW a \in Seq(ChainEvent), NEW q \in Seq(ChainEvent)
    PROVE  /\ a \o q \in Seq(ChainEvent) /\ Len(a \o q) = Len(a) + Len(q)
           /\ \A k \in 1..Len(a) : (a \o q)[k] = a[k]
           /\ \A k \in (Len(a) + 1)..(Len(a) + Len(q)) : (a \o q)[k] = q[k - Len(a)]
  OBVIOUS

(* The generation of a spine's head begins at a place, by a reset unless   *)
(* it is the first.                                                        *)
LEMMA GenerationBegins ==
    ASSUME NEW sp, Spined(sp), sp # <<>>
    PROVE  \E m \in 1..Len(sp) :
             /\ \A i \in 2..Len(sp) : GenOf[sp[i]] = GenOf[Last(sp)] <=> i > m
             /\ m = 1 \/ (m < Len(sp) /\ GenOf[sp[m + 1]] # GenOf[sp[m]])
             /\ m = Len(sp) => m = 1
<1> DEFINE L == Len(sp)
           g == GenOf[Last(sp)]
           I == {i \in 1..L : GenOf[sp[i]] = g}
<1>1. sp \in Seq(ChainEvent) /\ L \in Nat \ {0} /\ Last(sp) = sp[L] /\ L \in 1..L
  BY DEF Spined, Last
<1>2. \A i \in 1..L : GenOf[sp[i]] \in Nat
  <2> TAKE i \in 1..L
  <2>1. sp[i] \in ChainEvent
    BY <1>1
  <2> QED BY <2>1, LogAssumption
<1>3. L \in I /\ I \in SUBSET Nat
  BY <1>1
<1>4. PICK o \in I : \A i \in I : o <= i
  <2> HIDE DEF I
  <2> QED BY <1>3, LeastNatural
<1>5. o \in 1..L /\ GenOf[sp[o]] = g /\ o <= L
  BY <1>3, <1>4
<1>6. \A i \in 1..L : GenOf[sp[i]] = g <=> i >= o
  <2> TAKE i \in 1..L
  <2>1. i >= o => GenOf[sp[o]] <= GenOf[sp[i]] /\ GenOf[sp[i]] <= GenOf[sp[L]]
    BY <1>1, <1>5, GenerationsRise
  <2>2. i >= o => GenOf[sp[i]] = g
    BY <1>1, <1>2, <1>5, <2>1
  <2>3. GenOf[sp[i]] = g => i >= o
    BY <1>4, <1>5
  <2> QED BY <2>2, <2>3
<1> HIDE DEF I, g
<1>7. CASE o = 1
  <2>1. 1 \in 1..L /\ \A i \in 2..L : GenOf[sp[i]] = g <=> i > 1
    BY <1>1, <1>6, <1>7
  <2> QED BY <2>1 DEF g
<1>8. CASE o # 1
  <2> DEFINE m == o - 1
  <2>1. m \in 1..L /\ m < L /\ m + 1 = o /\ o \in Nat
    BY <1>1, <1>5, <1>8
  <2>2. \A i \in 2..L : GenOf[sp[i]] = g <=> i > m
    BY <1>1, <1>6, <2>1
  <2>3. GenOf[sp[m + 1]] # GenOf[sp[m]]
    BY <1>5, <1>6, <2>1
  <2> HIDE DEF m
  <2>4. m = L => m = 1
    BY <2>1
  <2> QED BY <2>1, <2>2, <2>3, <2>4 DEF g
<1> QED BY <1>7, <1>8

(* What is left of a spine when it is pruned.                              *)
Cut(sp) ==
    <<Inception>> \o filtered(Tail(sp), {i \in DOMAIN Tail(sp) : GenOf[Tail(sp)[i]] = GenOf[Last(sp)]})

(* Pruning keeps the inception and the head's generation, as a spine.      *)
LEMMA CutPlaces ==
    ASSUME NEW sp, Spined(sp), sp # <<>>, NEW m \in 1..Len(sp),
           \A i \in 2..Len(sp) : GenOf[sp[i]] = GenOf[Last(sp)] <=> i > m
    PROVE  /\ Cut(sp) \in Seq(ChainEvent) /\ Len(Cut(sp)) = Len(sp) + 1 - m
           /\ Cut(sp)[1] = Inception
           /\ \A k \in 2..Len(Cut(sp)) : Cut(sp)[k] = sp[m + k - 1]
<1> DEFINE L == Len(sp)
           g == GenOf[Last(sp)]
           rest == Tail(sp)
           places == {i \in DOMAIN rest : GenOf[rest[i]] = g}
           q == filtered(rest, m..Len(rest))
<1>1. sp \in Seq(ChainEvent) /\ L \in Nat \ {0} /\ m \in 1..L
  BY DEF Spined
<1>2. rest \in Seq(ChainEvent) /\ Len(rest) = L - 1 /\ \A i \in 1..(L - 1) : rest[i] = sp[i + 1]
  BY <1>1
<1> HIDE DEF rest, g
<1>3. DOMAIN rest = 1..(L - 1)
  BY <1>2
<1>4. \A i \in 1..(L - 1) : GenOf[rest[i]] = g <=> i >= m
  <2> TAKE i \in 1..(L - 1)
  <2>1. i + 1 \in 2..L /\ rest[i] = sp[i + 1] /\ (i + 1 > m <=> i >= m)
    BY <1>1, <1>2
  <2>2. GenOf[sp[i + 1]] = g <=> i + 1 > m
    BY <2>1 DEF g
  <2> QED BY <2>1, <2>2
<1>5. places = m..Len(rest)
  <2>1. \A i : i \in m..(L - 1) <=> i \in 1..(L - 1) /\ i >= m
    BY <1>1
  <2> QED BY <1>2, <1>3, <1>4, <2>1
<1>6. Cut(sp) = <<Inception>> \o q
  BY <1>5 DEF Cut, rest, g
<1>7. m \in 1..(Len(rest) + 1)
  BY <1>1, <1>2
<1>8. /\ q \in Seq(ChainEvent) /\ Len(q) = L - m /\ L - m \in Nat
      /\ \A k \in 1..(L - m) : q[k] = sp[m + k]
  <2>1. /\ q \in Seq(ChainEvent) /\ Len(q) = Len(rest) + 1 - m
        /\ \A k \in 1..(Len(rest) + 1 - m) : q[k] = rest[m + k - 1]
    BY <1>2, <1>7, FilterRest
  <2>2. Len(rest) + 1 - m = L - m /\ L - m \in Nat
    BY <1>1, <1>2
  <2> HIDE DEF q
  <2>3. ASSUME NEW k \in 1..(L - m) PROVE q[k] = sp[m + k]
    <3>1. m + k - 1 \in 1..(L - 1) /\ (m + k - 1) + 1 = m + k
      BY <1>1
    <3> QED BY <1>2, <2>1, <2>2, <3>1
  <2> QED BY <2>1, <2>2, <2>3
<1> HIDE DEF q
<1> DEFINE a == <<Inception>>
           p == a \o q
<1>9. a \in Seq(ChainEvent) /\ Len(a) = 1 /\ a[1] = Inception
  BY LogAssumption
<1> HIDE DEF a
<1>10. p \in Seq(ChainEvent) /\ Len(p) = 1 + Len(q) /\ p[1] = a[1]
       /\ \A k \in 2..(1 + Len(q)) : p[k] = q[k - 1]
  <2>1. p \in Seq(ChainEvent) /\ Len(p) = Len(a) + Len(q)
    BY <1>8, <1>9, Joined
  <2>2. p[1] = a[1]
    <3>1. 1 \in 1..Len(a)
      BY <1>9
    <3> QED BY <1>8, <1>9, <3>1, Joined
  <2>3. ASSUME NEW k \in 2..(1 + Len(q)) PROVE p[k] = q[k - 1]
    <3>1. k \in (Len(a) + 1)..(Len(a) + Len(q)) /\ k - Len(a) = k - 1
      BY <1>8, <1>9
    <3>2. p[k] = q[k - Len(a)]
      BY <1>8, <1>9, <3>1, Joined
    <3> QED BY <3>1, <3>2
  <2> QED BY <1>9, <2>1, <2>2, <2>3
<1> HIDE DEF p
<1>11. Len(p) = L + 1 - m
  BY <1>1, <1>8, <1>10
<1>12. ASSUME NEW k \in 2..Len(p) PROVE p[k] = sp[m + k - 1]
  <2>1. k \in 2..(1 + Len(q)) /\ k - 1 \in 1..(L - m) /\ m + (k - 1) = m + k - 1
    BY <1>1, <1>8, <1>10
  <2> QED BY <1>8, <1>10, <2>1
<1>13. Cut(sp) = p
  BY <1>6 DEF p, a
<1> QED BY <1>9, <1>10, <1>11, <1>12, <1>13

(* What is cut from a spine is a spine of one generation to the same head. *)
LEMMA CutSpined ==
    ASSUME NEW sp, Spined(sp), sp # <<>>
    PROVE  /\ Spined(Cut(sp)) /\ Cut(sp) # <<>> /\ Last(Cut(sp)) = Last(sp)
           /\ \A i \in 2..Len(Cut(sp)) : GenOf[Cut(sp)[i]] = GenOf[Last(sp)]
<1> DEFINE L == Len(sp)
           p == Cut(sp)
<1>1. PICK m \in 1..Len(sp) :
             /\ \A i \in 2..Len(sp) : GenOf[sp[i]] = GenOf[Last(sp)] <=> i > m
             /\ m = 1 \/ (m < Len(sp) /\ GenOf[sp[m + 1]] # GenOf[sp[m]])
             /\ m = Len(sp) => m = 1
  BY GenerationBegins
<1>2. /\ p \in Seq(ChainEvent) /\ Len(p) = L + 1 - m /\ p[1] = Inception
      /\ \A k \in 2..Len(p) : p[k] = sp[m + k - 1]
  BY <1>1, CutPlaces
<1>3. sp \in Seq(ChainEvent) /\ L \in Nat \ {0} /\ m \in 1..L /\ Last(sp) = sp[L] /\ sp[1] = Inception
  BY DEF Spined, Last
<1> HIDE DEF p
<1>4. p # <<>> /\ Last(p) = p[Len(p)]
  BY <1>2, <1>3 DEF Last
<1>5. Last(p) = Last(sp)
  <2>1. CASE m = L
    <3>1. L = 1 /\ Len(p) = 1
      BY <1>1, <1>2, <1>3, <2>1
    <3> QED BY <1>2, <1>3, <1>4, <3>1
  <2>2. CASE m # L
    <3>1. Len(p) \in 2..Len(p) /\ m + Len(p) - 1 = L
      BY <1>2, <1>3, <2>2
    <3> QED BY <1>2, <1>3, <1>4, <3>1
  <2> QED BY <2>1, <2>2
<1>6. ASSUME NEW i \in 2..Len(p) PROVE GenOf[p[i]] = GenOf[Last(sp)]
  <2>1. m + i - 1 \in 2..L /\ m + i - 1 > m
    BY <1>2, <1>3
  <2> QED BY <1>1, <1>2, <2>1
<1>7. ASSUME NEW i \in 1..(Len(p) - 1)
      PROVE  p[i + 1] \in Sound /\ (follows(p[i + 1], p[i]) \/ resets(p[i + 1], p[i]))
  <2> DEFINE h == m + i - 1
  <2>1. i + 1 \in 2..Len(p) /\ h \in 1..(L - 1) /\ h + 1 = m + (i + 1) - 1 /\ h + 1 \in 1..L /\ h \in 1..L
    BY <1>2, <1>3
  <2>2. p[i + 1] = sp[h + 1]
    BY <1>2, <2>1
  <2>3. sp[h + 1] \in Sound /\ (follows(sp[h + 1], sp[h]) \/ resets(sp[h + 1], sp[h]))
    BY <2>1 DEF Spined
  <2>4. CASE i = 1 /\ m # 1
    <3>1. h = m /\ GenOf[sp[h + 1]] # GenOf[sp[h]]
      BY <1>1, <1>3, <2>4
    <3>2. resets(sp[h + 1], sp[h])
      BY <2>3, <3>1 DEF follows
    <3>3. sp[h] \in ChainEvent /\ sp[h + 1] \in ChainEvent
      BY <1>3, <2>1
    <3>4. GenOf[sp[h]] \in Nat /\ GenOf[sp[h + 1]] \in Nat /\ GenOf[Inception] = 0
      BY <3>3, LogAssumption
    <3>5. resets(sp[h + 1], Inception)
      BY <3>2, <3>4 DEF resets
    <3> QED BY <1>2, <2>2, <2>3, <2>4, <3>5
  <2>5. CASE ~(i = 1 /\ m # 1)
    <3>1. p[i] = sp[h]
      <4>1. CASE i = 1
        <5>1. h = 1
          BY <2>5, <4>1
        <5> QED BY <1>2, <1>3, <4>1, <5>1
      <4>2. CASE i # 1
        <5>1. i \in 2..Len(p)
          BY <1>2, <1>3, <4>2
        <5> QED BY <1>2, <5>1
      <4> QED BY <4>1, <4>2
    <3> QED BY <2>2, <2>3, <3>1
  <2> QED BY <2>4, <2>5
<1>8. Spined(p)
  BY <1>2, <1>7 DEF Spined
<1> QED BY <1>4, <1>5, <1>6, <1>8 DEF p

(* A spine of one generation is not cut.                                   *)
LEMMA CutAgain ==
    ASSUME NEW sp, Spined(sp), sp # <<>>, \A i \in 2..Len(sp) : GenOf[sp[i]] = GenOf[Last(sp)]
    PROVE  Cut(sp) = sp
<1> DEFINE p == Cut(sp)
<1>1. sp \in Seq(ChainEvent) /\ Len(sp) \in Nat \ {0} /\ 1 \in 1..Len(sp) /\ sp[1] = Inception
  BY DEF Spined
<1>2. \A i \in 2..Len(sp) : GenOf[sp[i]] = GenOf[Last(sp)] <=> i > 1
  BY <1>1
<1>3. /\ p \in Seq(ChainEvent) /\ Len(p) = Len(sp) + 1 - 1 /\ p[1] = Inception
      /\ \A k \in 2..Len(p) : p[k] = sp[1 + k - 1]
  BY <1>1, <1>2, CutPlaces
<1> HIDE DEF p
<1>4. Len(p) = Len(sp)
  BY <1>1, <1>3
<1>5. ASSUME NEW k \in 1..Len(sp) PROVE p[k] = sp[k]
  <2>1. CASE k = 1
    BY <1>1, <1>3, <2>1
  <2>2. CASE k # 1
    <3>1. k \in 2..Len(p) /\ 1 + k - 1 = k
      BY <1>1, <1>4, <2>2
    <3> QED BY <1>3, <3>1
  <2> QED BY <2>1, <2>2
<1>6. p = sp
  BY <1>1, <1>3, <1>4, <1>5
<1> QED BY <1>6 DEF p

(* Copies that verified, at most one more than the limit of an epoch.      *)
Modest(R) == R \subseteq Genuine /\ Cardinality(R) <= MAX_EPOCH_EVENTS + 1

(* What the stores hold of an epoch.                                       *)
ModestInv == \A s \in Store : Modest(logs[s].events)

(* What is settled from a modest log is modest, whatever was loaded.       *)
LEMMA SettledModest ==
    ASSUME NEW l \in Log, NEW s \in Log, Folds(l.chain), Modest(s.events)
    PROVE  Modest(authoritativeLog(l, s).log.events)
<1> DEFINE c == HeadEvent(l.chain)
           R == Remembered(c, s.events, l.events)
<1>1. c \in ChainEvent /\ l.events \subseteq Copy /\ s.events \subseteq Copy
  BY LogParts, FoldedHead
<1>2. s.events \subseteq Genuine
  BY DEF Modest
<1>3. R \subseteq Genuine /\ Cardinality(R) <= MAX_EPOCH_EVENTS + 1
  <2> HIDE DEF c
  <2> QED BY <1>1, <1>2, RememberedGenuine
<1>4. authoritativeLog(l, s).log.events = R
  BY DEF authoritativeLog, trusted
<1> QED BY <1>3, <1>4 DEF Modest

(* Nothing held is a modest set.                                           *)
LEMMA NothingModest == Modest({}) /\ NoLog.events = {}
<1>1. Cardinality({}) = 0 /\ MAX_EPOCH_EVENTS \in Nat
  BY EpochAssumption, FS_EmptySet
<1> QED BY <1>1 DEF Modest, NoLog

(* Every step keeps what the stores hold modest.                           *)
LEMMA ModestStep ==
    ASSUME HistoryInv, ModestInv, [Next]_vars
    PROVE  ModestInv'
<1>1. \A s \in Store : logs[s] \in Log
  BY DEF HistoryInv, Storing
<1>2. CASE logs' = logs
  BY <1>2 DEF ModestInv
<1>3. ASSUME NEW f \in Flight, Write(f) PROVE ModestInv'
  <2> DEFINE h == Home(f)
             l == flight[f].loaded
             v == authoritativeLog(l, logs[h])
  <2>1. h \in Store /\ l \in Log /\ logs[h] \in Log /\ verdict(l, logs[h]) = "ok"
        /\ logs' = [logs EXCEPT ![h] = v.log]
    BY <1>3, Written
  <2>2. Folds(l.chain) /\ Modest(logs[h].events)
    BY <2>1, VerdictStands DEF ModestInv
  <2>3. Modest(v.log.events)
    <3> HIDE DEF h, l
    <3> QED BY <2>1, <2>2, SettledModest
  <2> DEFINE x == v.log
  <2>4. logs \in [Store -> Log] /\ Modest(x.events)
    BY <2>3 DEF HistoryInv, Storing
  <2> HIDE DEF h, l, v, x
  <2>5. logs' = [logs EXCEPT ![h] = x]
    BY <2>1 DEF x
  <2>6. \A s \in Store : logs'[s] = IF s = h THEN x ELSE logs[s]
    BY <2>4, <2>5
  <2> QED BY <2>4, <2>6 DEF ModestInv
<1>4. ASSUME NEW h \in Range(world.home), InsertUnlocked(h) PROVE ModestInv'
  <2>1. world \in World /\ world.inserted \subseteq world.served /\ world.served \subseteq Log
    BY HistoryAssumption DEF HistoryInv, Bounded, Log
  <2>2. PICK log \in world.inserted :
          verdict(log, NoLog) = "ok" /\ logs' = [logs EXCEPT ![h] = authoritativeLog(log, NoLog).log]
    BY <1>4 DEF InsertUnlocked
  <2> DEFINE x == authoritativeLog(log, NoLog).log
  <2>3. log \in Log /\ Folds(log.chain) /\ NoLog \in Log /\ Modest(NoLog.events)
    BY <2>1, <2>2, NothingHeld, NothingModest, VerdictStands
  <2>4. Modest(x.events)
    BY <2>3, SettledModest
  <2>5. logs \in [Store -> Log]
    BY DEF HistoryInv, Storing
  <2> HIDE DEF x
  <2>6. logs' = [logs EXCEPT ![h] = x]
    BY <2>2 DEF x
  <2>7. \A s \in Store : logs'[s] = IF s = h THEN x ELSE logs[s]
    BY <2>5, <2>6
  <2> QED BY <2>4, <2>7 DEF ModestInv
<1> QED BY <1>2, <1>3, <1>4, WhatChangesLogs

(* The least of a log that still folds: a chain that was pruned folds, to  *)
(* itself and to the same head, and is not pruned further.                 *)
LEMMA PrunedFolds ==
    ASSUME NEW chain, Len(chain) \in Nat, Folds(chain)
    PROVE  LET p == prunedChain(chain)
           IN  /\ p \in Seq(ChainEvent) /\ Folds(p) /\ HeadEvent(p) = HeadEvent(chain)
               /\ prunedChain(p) = p
<1> DEFINE sp == Spine(chain)
           p == Cut(sp)
<1>1. Spined(sp) /\ sp # <<>>
  BY SpineSpined DEF Folds
<1>2. \A q : prunedChain(q) = Cut(Spine(q))
  BY DEF prunedChain, Cut, HeadEvent
<1>3. /\ Spined(p) /\ p # <<>> /\ Last(p) = Last(sp)
      /\ \A i \in 2..Len(p) : GenOf[p[i]] = GenOf[Last(sp)]
  <2> HIDE DEF sp
  <2> QED BY <1>1, CutSpined
<1> HIDE DEF p
<1>4. Spine(p) = p
  BY <1>3, SpineItself
<1>5. Cut(p) = p
  <2>1. \A i \in 2..Len(p) : GenOf[p[i]] = GenOf[Last(p)]
    BY <1>3
  <2> QED BY <1>3, <2>1, CutAgain
<1>6. Folds(p) /\ HeadEvent(p) = HeadEvent(chain) /\ p \in Seq(ChainEvent)
  BY <1>3, <1>4 DEF Folds, HeadEvent, Spined
<1>7. prunedChain(p) = p
  BY <1>2, <1>4, <1>5
<1>8. prunedChain(chain) = p
  BY <1>2 DEF p
<1> QED BY <1>6, <1>7, <1>8

(* A log that folds, with copies that verified and are few enough, is      *)
(* taken by a verifier that has seen nothing.                              *)
LEMMA FreshVerdict ==
    ASSUME NEW log \in Log, Folds(log.chain), IsFiniteSet(log.events), Modest(log.events)
    PROVE  verdict(log, NoLog) = "ok"
<1> DEFINE stands == standing(log, NoLog)
           large == Cardinality(log.events) > MAX_LOG_EVENTS
           whole == Folds(log.chain)
           tired == Failing(HeadEvent(log.chain), trusted(NoLog), log.events) > MAX_FAILED_SIGNATURES
<1>1. verdict(log, NoLog) = CASE large -> "too large"
                        [] ~whole -> "invalid"
                        [] OTHER -> IF stands # "ok" THEN stands
                                    ELSE IF tired THEN "too many failed" ELSE "ok"
  BY DEF verdict
<1>2. stands = "ok"
  BY DEF standing
<1>3. ~large
  <2>1. MAX_EPOCH_EVENTS \in Nat /\ MAX_LOG_EVENTS \in Nat
        /\ MAX_EPOCH_EVENTS < MAX_LOG_EVENTS
    BY EpochAssumption, LogAssumption
  <2>3. Cardinality(log.events) \in Nat
    BY FS_CardinalityType
  <2>4. Cardinality(log.events) <= MAX_EPOCH_EVENTS + 1
    BY DEF Modest
  <2> QED BY <2>1, <2>3, <2>4
<1>4. ~tired
  <2>1. trusted(NoLog) = {}
    BY NothingModest DEF trusted
  <2>2. Failing(HeadEvent(log.chain), {}, log.events) = 0
    BY LogParts, NoneFail DEF Modest
  <2>3. MAX_FAILED_SIGNATURES \in Nat
    BY EpochAssumption
  <2> QED BY <2>1, <2>2, <2>3
<1> HIDE DEF stands, large, whole, tired
<1>5. whole
  BY DEF whole
<1> QED BY <1>1, <1>2, <1>3, <1>4, <1>5

(* A log that a store may hold, and what it is forwarded as.               *)
LEMMA Forwardable ==
    ASSUME NEW log, Held(log), Modest(log.events)
    PROVE  LET pruned == pruneLog(log)
           IN  /\ Folds(log.chain) /\ verdict(pruned, NoLog) = "ok" /\ verdict(log, NoLog) = "ok"
               /\ authoritativeLog(log, NoLog).log = log
               /\ HeadEvent(pruned.chain) = HeadEvent(log.chain)
               /\ pruned.events = log.events
               /\ pruneLog(pruned) = pruned
<1> DEFINE c == HeadEvent(log.chain)
           R == log.events
           p == prunedChain(log.chain)
           pruned == pruneLog(log)
<1>1. log \in Log /\ Folds(log.chain) /\ Epochal(c, R)
  BY DEF Held
<1>2. /\ c \in ChainEvent /\ Len(log.chain) \in Nat /\ R \in SUBSET Copy
      /\ log = [chain |-> log.chain, events |-> R]
  BY <1>1, LogParts, FoldedHead
<1>3. Remembered(c, {}, R) = R
  <2> HIDE DEF c, R
  <2> QED BY <1>1, <1>2, RememberedAgain DEF Modest, R
<1>4. authoritativeLog(log, NoLog).log = log
  <2>1. trusted(NoLog) = {}
    BY NothingModest DEF trusted
  <2>2. authoritativeLog(log, NoLog).log = [chain |-> log.chain, events |-> Remembered(c, {}, R)]
    BY <2>1 DEF authoritativeLog
  <2> QED BY <1>2, <1>3, <2>2
<1>5. p \in Seq(ChainEvent) /\ Folds(p) /\ HeadEvent(p) = c /\ prunedChain(p) = p
  BY <1>1, <1>2, PrunedFolds
<1>6. pruned = [chain |-> p, events |-> R]
  BY <1>3 DEF pruneLog
<1> HIDE DEF p, c
<1>7. pruned.chain = p /\ pruned.events = R /\ pruned \in Log
  <2> HIDE DEF pruned, R
  <2> QED BY <1>2, <1>5, <1>6 DEF Log
<1>8. pruneLog(pruned) = pruned
  <2>1. pruneLog(pruned) = [chain |-> prunedChain(p), events |-> Remembered(c, {}, R)]
    <3> HIDE DEF pruned, R
    <3> QED BY <1>5, <1>7 DEF pruneLog
  <2> QED BY <1>3, <1>5, <1>6, <2>1
<1>9. IsFiniteSet(R) /\ verdict(log, NoLog) = "ok"
  <2>1. IsFiniteSet(R)
    <3> HIDE DEF R
    <3> QED BY <1>1, EpochalFinite
  <2> QED BY <1>1, <2>1, FreshVerdict
<1>10. verdict(pruned, NoLog) = "ok"
  <2>1. Folds(pruned.chain) /\ Modest(pruned.events) /\ IsFiniteSet(pruned.events)
    BY <1>5, <1>7, <1>9
  <2> HIDE DEF pruned
  <2> QED BY <1>7, <2>1, FreshVerdict
<1> HIDE DEF pruned, R
<1> QED BY <1>1, <1>4, <1>5, <1>7, <1>8, <1>9, <1>10 DEF c, pruned, R

(* Every log a store ever holds can be forwarded: it folds, it is settled  *)
(* to itself by a verifier that has seen nothing, and so is what is left   *)
(* of it when it is pruned, with the same head and the same events.        *)
THEOREM StoresAlwaysForwardable == Spec => []StoresForwardable
<1>1. Init => ModestInv
  BY NothingModest DEF Init, ModestInv
<1>2. HistoryInv /\ ModestInv /\ [Next]_vars => ModestInv'
  BY ModestStep
<1>3. HistoryInv /\ ModestInv => StoresForwardable
  <2> SUFFICES ASSUME HistoryInv, ModestInv, NEW s \in Store, logs[s] # NoLog
               PROVE  LET log == logs[s]
                          pruned == pruneLog(log)
                      IN  /\ Folds(log.chain) /\ verdict(pruned, NoLog) = "ok" /\ verdict(log, NoLog) = "ok"
                          /\ authoritativeLog(log, NoLog).log = log
                          /\ HeadEvent(pruned.chain) = HeadEvent(log.chain)
                          /\ pruned.events = log.events
                          /\ pruneLog(pruned) = pruned
    BY DEF StoresForwardable
  <2>1. Held(logs[s])
    BY DEF HistoryInv, Storing, Holds
  <2>2. Modest(logs[s].events)
    BY DEF ModestInv
  <2> QED BY <2>1, <2>2, Forwardable
<1> QED BY <1>1, <1>2, <1>3, HistoryInvariant, PTL DEF Spec

-----------------------------------------------------------------------------
(* Any number of chains: what is kept of a filtered sequence, and one      *)
(* branch for each head.                                                   *)

(* No two places hold one thing.                                           *)
Apart(q) == \A i, j \in 1..Len(q) : q[i] = q[j] => i = j

(* The members of a sequence.                                              *)
LEMMA RangeOf ==
    ASSUME NEW S, NEW q \in Seq(S)
    PROVE  Range(q) = {q[i] : i \in 1..Len(q)} /\ Range(q) \subseteq S /\ DOMAIN q = 1..Len(q)
           /\ Len(q) \in Nat
  BY DEF Range

(* What filtered keeps of a sequence.                                      *)
LEMMA FilterRange ==
    ASSUME NEW S, NEW s \in Seq(S), NEW places
    PROVE  Range(filtered(s, places)) = {s[i] : i \in (1..Len(s)) \cap places}
<1> DEFINE M == Len(s)
           q == filtered(s, places)
           Up(n) == {s[i] : i \in (1..n) \cap places}
<1>1. PICK f : /\ f[0] = <<>> /\ filtered(s, places) = f[M]
               /\ \A n \in 1..M : f[n] = IF n \in places THEN Append(f[n - 1], s[n]) ELSE f[n - 1]
  BY FilterSteps
<1> DEFINE T == {n \in 0..M : f[n] \in Seq(S) /\ {f[n][j] : j \in 1..Len(f[n])} = Up(n)}
<1>2. 0 \in T
  <2>1. <<>> \in Seq(S) /\ Len(<<>>) = 0 /\ 0 \in 0..M /\ 1..0 = {} /\ Up(0) = {}
    OBVIOUS
  <2> HIDE DEF Up
  <2> QED BY <1>1, <2>1
<1>3. ASSUME NEW n \in 0..(M - 1), n \in T PROVE n + 1 \in T
  <2> DEFINE h == f[n]
             x == s[n + 1]
  <2>1. n + 1 \in 1..M /\ (n + 1) - 1 = n /\ n + 1 \in 0..M /\ x \in S
    OBVIOUS
  <2>2. f[n + 1] = IF n + 1 \in places THEN Append(h, x) ELSE h
    BY <1>1, <2>1
  <2>3. h \in Seq(S) /\ {h[j] : j \in 1..Len(h)} = Up(n)
    BY <1>3
  <2>4. Up(n + 1) = IF n + 1 \in places THEN Up(n) \cup {x} ELSE Up(n)
    <3>1. \A i : i \in 1..(n + 1) <=> i \in 1..n \/ i = n + 1
      BY <2>1
    <3> QED BY <3>1
  <2> HIDE DEF h, x, Up
  <2>5. CASE n + 1 \in places
    <3> DEFINE k == Append(h, x)
    <3>1. k \in Seq(S) /\ Len(k) = Len(h) + 1 /\ k[Len(h) + 1] = x /\ \A j \in 1..Len(h) : k[j] = h[j]
      BY <2>1, <2>3
    <3>2. Len(h) \in Nat /\ \A j : j \in 1..(Len(h) + 1) <=> j \in 1..Len(h) \/ j = Len(h) + 1
      BY <2>3
    <3> HIDE DEF k
    <3>3. {k[j] : j \in 1..Len(k)} = {h[j] : j \in 1..Len(h)} \cup {x}
      BY <3>1, <3>2
    <3>4. f[n + 1] = k
      BY <2>2, <2>5 DEF k
    <3>5. {k[j] : j \in 1..Len(k)} = Up(n + 1)
      BY <2>3, <2>4, <2>5, <3>3
    <3>6. {f[n + 1][j] : j \in 1..Len(f[n + 1])} = Up(n + 1)
      BY <3>4, <3>5
    <3>7. f[n + 1] \in Seq(S)
      BY <3>1, <3>4
    <3> QED BY <2>1, <3>6, <3>7
  <2>6. CASE n + 1 \notin places
    BY <2>1, <2>2, <2>3, <2>4, <2>6 DEF h
  <2> QED BY <2>5, <2>6
<1>4. M \in T
  <2> HIDE DEF T
  <2>1. M \in Nat
    OBVIOUS
  <2>2. 0..M \subseteq T
    BY <1>2, <1>3, <2>1, StepByStep
  <2> QED BY <2>1, <2>2
<1>5. q \in Seq(S) /\ {q[j] : j \in 1..Len(q)} = Up(M)
  BY <1>1, <1>4
<1> HIDE DEF q, Up
<1>6. Range(q) = Up(M)
  BY <1>5, RangeOf
<1> QED BY <1>6 DEF q, Up

(* A sequence without repetitions is filtered to one.                      *)
LEMMA FilterApart ==
    ASSUME NEW S, NEW s \in Seq(S), NEW places, Apart(s)
    PROVE  Apart(filtered(s, places))
<1> DEFINE M == Len(s)
           q == filtered(s, places)
<1>1. PICK f : /\ f[0] = <<>> /\ filtered(s, places) = f[M]
               /\ \A n \in 1..M : f[n] = IF n \in places THEN Append(f[n - 1], s[n]) ELSE f[n - 1]
  BY FilterSteps
<1> DEFINE P(n, h) == /\ h \in Seq(S) /\ Apart(h)
                      /\ \A j \in 1..Len(h) : \E i \in 1..n : h[j] = s[i]
           T == {n \in 0..M : P(n, f[n])}
<1>2. 0 \in T
  <2>1. <<>> \in Seq(S) /\ Len(<<>>) = 0 /\ 0 \in 0..M /\ Apart(<<>>)
    BY DEF Apart
  <2>2. P(0, <<>>)
    BY <2>1
  <2> HIDE DEF P
  <2> QED BY <1>1, <2>1, <2>2
<1>3. ASSUME NEW n \in 0..(M - 1), n \in T PROVE n + 1 \in T
  <2> DEFINE h == f[n]
             x == s[n + 1]
  <2>1. n + 1 \in 1..M /\ (n + 1) - 1 = n /\ n + 1 \in 0..M /\ x \in S /\ n \in Nat
        /\ \A i \in 1..n : i \in 1..(n + 1) /\ i \in 1..M /\ i # n + 1
    OBVIOUS
  <2>2. f[n + 1] = IF n + 1 \in places THEN Append(h, x) ELSE h
    BY <1>1, <2>1
  <2>3. P(n, h)
    BY <1>3
  <2> HIDE DEF h
  <2>4. CASE n + 1 \in places
    <3> DEFINE k == Append(h, x)
    <3>0. h \in Seq(S) /\ Apart(h) /\ \A j \in 1..Len(h) : \E i \in 1..n : h[j] = s[i]
      BY <2>3
    <3>1. k \in Seq(S) /\ Len(k) = Len(h) + 1 /\ k[Len(h) + 1] = x /\ \A j \in 1..Len(h) : k[j] = h[j]
      BY <2>1, <3>0
    <3>2. Len(h) \in Nat /\ \A j : j \in 1..(Len(h) + 1) <=> j \in 1..Len(h) \/ j = Len(h) + 1
      BY <3>0
    <3> HIDE DEF k
    <3>3. \A j \in 1..Len(h) : h[j] # x
      <4> TAKE j \in 1..Len(h)
      <4>1. PICK i \in 1..n : h[j] = s[i]
        BY <3>0
      <4> QED BY <2>1, <4>1 DEF Apart
    <3>4. Apart(k)
      <4> SUFFICES ASSUME NEW i \in 1..Len(k), NEW j \in 1..Len(k), k[i] = k[j] PROVE i = j
        BY DEF Apart
      <4>1. CASE i = Len(h) + 1 \/ j = Len(h) + 1
        BY <3>1, <3>2, <3>3, <4>1
      <4>2. CASE i \in 1..Len(h) /\ j \in 1..Len(h)
        BY <3>0, <3>1, <4>2 DEF Apart
      <4> QED BY <3>1, <3>2, <4>1, <4>2
    <3>5. \A j \in 1..Len(k) : \E i \in 1..(n + 1) : k[j] = s[i]
      <4> TAKE j \in 1..Len(k)
      <4>1. CASE j = Len(h) + 1
        <5>1. n + 1 \in 1..(n + 1)
          BY <2>1
        <5> QED BY <3>1, <4>1, <5>1
      <4>2. CASE j \in 1..Len(h)
        BY <2>1, <3>0, <3>1, <4>2
      <4> QED BY <3>1, <3>2, <4>1, <4>2
    <3>6. f[n + 1] = k
      BY <2>2, <2>4 DEF k
    <3> QED BY <2>1, <3>1, <3>4, <3>5, <3>6
  <2>5. CASE n + 1 \notin places
    <3>1. f[n + 1] = h
      BY <2>2, <2>5
    <3>2. P(n + 1, h)
      BY <2>1, <2>3
    <3> HIDE DEF P
    <3> QED BY <2>1, <3>1, <3>2
  <2> QED BY <2>4, <2>5
<1>4. M \in T
  <2> HIDE DEF T
  <2>1. M \in Nat
    OBVIOUS
  <2>2. 0..M \subseteq T
    BY <1>2, <1>3, <2>1, StepByStep
  <2> QED BY <2>1, <2>2
<1> QED BY <1>1, <1>4

(* filtered leaves a shorter sequence if it drops a member.                *)
LEMMA FilterShorter ==
    ASSUME NEW S, NEW s \in Seq(S), NEW places
    PROVE  /\ Len(filtered(s, places)) <= Len(s)
           /\ (\E i \in 1..Len(s) : i \notin places) => Len(filtered(s, places)) < Len(s)
<1> DEFINE M == Len(s)
           q == filtered(s, places)
<1>1. PICK f : /\ f[0] = <<>> /\ filtered(s, places) = f[M]
               /\ \A n \in 1..M : f[n] = IF n \in places THEN Append(f[n - 1], s[n]) ELSE f[n - 1]
  BY FilterSteps
<1> DEFINE P(n, h) == /\ h \in Seq(S) /\ Len(h) <= n
                      /\ (\E i \in 1..n : i \notin places) => Len(h) < n
           T == {n \in 0..M : P(n, f[n])}
<1>2. 0 \in T
  <2>1. <<>> \in Seq(S) /\ Len(<<>>) = 0 /\ 0 \in 0..M
    OBVIOUS
  <2>2. P(0, <<>>)
    BY <2>1
  <2> HIDE DEF P
  <2> QED BY <1>1, <2>1, <2>2
<1>3. ASSUME NEW n \in 0..(M - 1), n \in T PROVE n + 1 \in T
  <2> DEFINE h == f[n]
             x == s[n + 1]
  <2>1. n + 1 \in 1..M /\ (n + 1) - 1 = n /\ n + 1 \in 0..M /\ x \in S /\ n \in Nat
        /\ \A i \in 1..(n + 1) : i \in 1..n \/ i = n + 1
    OBVIOUS
  <2>2. f[n + 1] = IF n + 1 \in places THEN Append(h, x) ELSE h
    BY <1>1, <2>1
  <2>3. P(n, h)
    BY <1>3
  <2> HIDE DEF h, x
  <2>4. CASE n + 1 \in places
    <3>1. Append(h, x) \in Seq(S) /\ Len(Append(h, x)) = Len(h) + 1 /\ Len(h) \in Nat
      BY <2>1, <2>3
    <3>2. (\E i \in 1..(n + 1) : i \notin places) => \E i \in 1..n : i \notin places
      BY <2>1, <2>4
    <3>3. P(n + 1, Append(h, x))
      BY <2>1, <2>3, <3>1, <3>2
    <3> HIDE DEF P
    <3> QED BY <2>1, <2>2, <2>4, <3>3
  <2>5. CASE n + 1 \notin places
    <3>1. f[n + 1] = h
      BY <2>2, <2>5
    <3>2. Len(h) \in Nat
      BY <2>3
    <3>3. P(n + 1, h)
      BY <2>1, <2>3, <3>2
    <3> HIDE DEF P
    <3> QED BY <2>1, <3>1, <3>3
  <2> QED BY <2>4, <2>5
<1>4. M \in T
  <2> HIDE DEF T
  <2>1. M \in Nat
    OBVIOUS
  <2>2. 0..M \subseteq T
    BY <1>2, <1>3, <2>1, StepByStep
  <2> QED BY <2>1, <2>2
<1> QED BY <1>1, <1>4

(* Filtering for all the places leaves the sequence.                       *)
LEMMA FilterAll ==
    ASSUME NEW S, NEW s \in Seq(S), NEW places, \A i \in 1..Len(s) : i \in places
    PROVE  filtered(s, places) = s
<1> DEFINE M == Len(s)
           q == filtered(s, places)
<1>1. PICK f : /\ f[0] = <<>> /\ filtered(s, places) = f[M]
               /\ \A n \in 1..M : f[n] = IF n \in places THEN Append(f[n - 1], s[n]) ELSE f[n - 1]
  BY FilterSteps
<1> DEFINE P(n, h) == h \in Seq(S) /\ Len(h) = n /\ \A i \in 1..n : h[i] = s[i]
           T == {n \in 0..M : P(n, f[n])}
<1>2. 0 \in T
  <2>1. <<>> \in Seq(S) /\ Len(<<>>) = 0 /\ 0 \in 0..M
    OBVIOUS
  <2>2. P(0, <<>>)
    BY <2>1
  <2> HIDE DEF P
  <2> QED BY <1>1, <2>1, <2>2
<1>3. ASSUME NEW n \in 0..(M - 1), n \in T PROVE n + 1 \in T
  <2> DEFINE h == f[n]
             x == s[n + 1]
  <2>1. n + 1 \in 1..M /\ (n + 1) - 1 = n /\ n + 1 \in 0..M /\ x \in S /\ n \in Nat
        /\ \A i \in 1..(n + 1) : i \in 1..n \/ i = n + 1
    OBVIOUS
  <2>2. f[n + 1] = Append(h, x)
    BY <1>1, <2>1
  <2>3. P(n, h)
    BY <1>3
  <2> HIDE DEF h
  <2>4. P(n + 1, Append(h, x))
    <3>1. Append(h, x) \in Seq(S) /\ Len(Append(h, x)) = n + 1 /\ Append(h, x)[n + 1] = x
          /\ \A i \in 1..n : Append(h, x)[i] = h[i]
      BY <2>1, <2>3
    <3> QED BY <2>1, <2>3, <3>1
  <2> HIDE DEF P
  <2> QED BY <2>1, <2>2, <2>4
<1>4. M \in T
  <2> HIDE DEF T
  <2>1. M \in Nat
    OBVIOUS
  <2>2. 0..M \subseteq T
    BY <1>2, <1>3, <2>1, StepByStep
  <2> QED BY <2>1, <2>2
<1>5. q \in Seq(S) /\ Len(q) = M /\ \A i \in 1..M : q[i] = s[i]
  BY <1>1, <1>4
<1> HIDE DEF q
<1>6. q = s
  BY <1>5
<1> QED BY <1>6 DEF q

(* byHead keeps one of the given branches for each head.                   *)
LEMMA OnePerHead ==
    ASSUME NEW B, NEW valid \in Seq(B)
    PROVE  LET kept == byHead(valid)
           IN  /\ kept \in Seq(B)
               /\ \A i, j \in 1..Len(kept) : headState(kept[i]) = headState(kept[j]) => i = j
               /\ \A b \in Range(valid) : \E j \in 1..Len(kept) : headState(kept[j]) = headState(b)
               /\ Range(kept) \subseteq Range(valid)
<1> DEFINE M == Len(valid)
           V == Range(valid)
           P(n, k) == /\ k \in Seq(V)
                      /\ \A i, j \in 1..Len(k) : headState(k[i]) = headState(k[j]) => i = j
                      /\ \A i \in 1..n : \E j \in 1..Len(k) : headState(k[j]) = headState(valid[i])
<1>0. M \in Nat /\ V = {valid[i] : i \in 1..M} /\ V \subseteq B
  BY RangeOf
<1> HIDE DEF V
<1>1. PICK f : /\ f[0] = <<>> /\ byHead(valid) = f[M]
               /\ \A n \in 1..M : f[n] = keepPreferred(f[n - 1], valid[n])
  BY <1>0, HeadSteps
<1> DEFINE T == {n \in 0..M : P(n, f[n])}
<1>2. 0 \in T
  <2>1. <<>> \in Seq(V) /\ Len(<<>>) = 0 /\ 0 \in 0..M
    BY <1>0
  <2>2. P(0, <<>>)
    BY <2>1
  <2> HIDE DEF P
  <2> QED BY <1>1, <2>1, <2>2
<1>3. ASSUME NEW n \in 0..(M - 1), n \in T PROVE n + 1 \in T
  <2> DEFINE k == f[n]
             b == valid[n + 1]
             l == keepPreferred(k, b)
  <2>1. n + 1 \in 1..M /\ (n + 1) - 1 = n /\ n + 1 \in 0..M /\ b \in V
        /\ \A i \in 1..(n + 1) : i \in 1..n \/ i = n + 1
    BY <1>0
  <2>2. f[n + 1] = l
    BY <1>1, <2>1
  <2>3. /\ k \in Seq(V)
        /\ \A i, j \in 1..Len(k) : headState(k[i]) = headState(k[j]) => i = j
        /\ \A i \in 1..n : \E j \in 1..Len(k) : headState(k[j]) = headState(valid[i])
    BY <1>3
  <2>4. DOMAIN k = 1..Len(k) /\ Len(k) \in Nat
    BY <2>3
  <2> HIDE DEF k
  <2>5. CASE \A i \in 1..Len(k) : headState(k[i]) # headState(b)
    <3>1. l = Append(k, b)
      BY <2>4, <2>5 DEF keepPreferred
    <3> HIDE DEF l
    <3>2. l \in Seq(V) /\ Len(l) = Len(k) + 1 /\ l[Len(k) + 1] = b /\ \A i \in 1..Len(k) : l[i] = k[i]
      BY <2>1, <2>3, <3>1
    <3>3. \A i : i \in 1..Len(l) <=> i \in 1..Len(k) \/ i = Len(k) + 1
      BY <2>4, <3>2
    <3>4. ASSUME NEW i \in 1..Len(l), NEW j \in 1..Len(l), headState(l[i]) = headState(l[j]) PROVE i = j
      <4>1. CASE i \in 1..Len(k) /\ j \in 1..Len(k)
        BY <2>3, <3>2, <3>4, <4>1
      <4>2. CASE ~(i \in 1..Len(k) /\ j \in 1..Len(k))
        BY <2>5, <3>2, <3>3, <3>4, <4>2
      <4> QED BY <4>1, <4>2
    <3>5. ASSUME NEW i \in 1..(n + 1) PROVE \E j \in 1..Len(l) : headState(l[j]) = headState(valid[i])
      <4>1. CASE i \in 1..n
        <5>1. PICK j \in 1..Len(k) : headState(k[j]) = headState(valid[i])
          BY <2>3, <4>1
        <5> QED BY <3>2, <3>3, <5>1
      <4>2. CASE i = n + 1
        BY <3>2, <3>3, <4>2
      <4> QED BY <2>1, <4>1, <4>2
    <3>6. P(n + 1, l)
      BY <3>2, <3>4, <3>5
    <3> HIDE DEF P
    <3> QED BY <2>1, <2>2, <3>6
  <2>6. CASE ~(\A i \in 1..Len(k) : headState(k[i]) # headState(b))
    <3>1. l = [i \in 1..Len(k) |->
                 IF headState(k[i]) = headState(b) /\ preferred(b.chain, k[i].chain) THEN b ELSE k[i]]
      BY <2>4, <2>6 DEF keepPreferred
    <3> HIDE DEF l
    <3>2. l \in Seq(V) /\ Len(l) = Len(k)
      <4>1. \A i \in 1..Len(k) : k[i] \in V
        BY <2>3
      <4>2. \A i \in 1..Len(k) : (IF headState(k[i]) = headState(b) /\ preferred(b.chain, k[i].chain) THEN b ELSE k[i]) \in V
        BY <2>1, <4>1
      <4> HIDE DEF b
      <4> QED BY <2>4, <3>1, <4>2
    <3>3. \A i \in 1..Len(k) : headState(l[i]) = headState(k[i])
      BY <3>1
    <3>4. ASSUME NEW i \in 1..(n + 1) PROVE \E j \in 1..Len(l) : headState(l[j]) = headState(valid[i])
      <4>1. CASE i \in 1..n
        BY <2>3, <3>2, <3>3, <4>1
      <4>2. CASE i = n + 1
        BY <2>6, <3>2, <3>3, <4>2
      <4> QED BY <2>1, <4>1, <4>2
    <3>5. P(n + 1, l)
      BY <2>3, <3>2, <3>3, <3>4
    <3> HIDE DEF P
    <3> QED BY <2>1, <2>2, <3>5
  <2> QED BY <2>5, <2>6
<1>4. M \in T
  <2> HIDE DEF T
  <2>1. 0..M \subseteq T
    BY <1>0, <1>2, <1>3, StepByStep
  <2> QED BY <1>0, <2>1
<1> DEFINE kept == byHead(valid)
<1>5. P(M, kept)
  BY <1>1, <1>4
<1> HIDE DEF kept
<1>6. kept \in Seq(V) /\ kept \in Seq(B) /\ Range(kept) \subseteq V
  <2>1. kept \in Seq(V)
    BY <1>5
  <2>2. kept \in Seq(B)
    BY <1>0, <2>1
  <2> QED BY <2>1, <2>2, RangeOf
<1>7. ASSUME NEW b \in V PROVE \E j \in 1..Len(kept) : headState(kept[j]) = headState(b)
  <2>1. PICK i \in 1..M : b = valid[i]
    BY <1>0
  <2>2. \E j \in 1..Len(kept) : headState(kept[j]) = headState(valid[i])
    BY <1>5
  <2> QED BY <2>1, <2>2
<1> QED BY <1>5, <1>6, <1>7 DEF kept, V

-----------------------------------------------------------------------------
(* The lines of one generation.                                            *)

(* One line goes on where the other ends.                                  *)
Below(a, b) == Len(a) <= Len(b) /\ \A k \in 1..Len(a) : a[k] = b[k]

(* IsPrefix, element by element.                                           *)
LEMMA PrefixIsBelow ==
    ASSUME NEW a \in Seq(ChainEvent), NEW b \in Seq(ChainEvent)
    PROVE  IsPrefix(a, b) <=> Below(a, b)
<1>1. Len(a) \in Nat /\ Len(b) \in Nat
  OBVIOUS
<1>2. CASE Len(a) <= Len(b)
  <2> DEFINE r == SubSeq(b, 1, Len(a))
  <2>1. r \in Seq(ChainEvent) /\ Len(r) = Len(a) /\ \A k \in 1..Len(a) : r[k] = b[k]
    BY <1>1, <1>2
  <2>2. IsPrefix(a, b) <=> a = r
    <3>1. SubSeq(a, 1, Len(a)) = a
      BY WholeLine
    <3> HIDE DEF r
    <3>2. IsPrefix(a, b) <=> Len(a) <= Len(b) /\ SubSeq(a, 1, Len(a)) = SubSeq(b, 1, Len(a))
      BY DEF IsPrefix
    <3> QED BY <1>2, <3>1, <3>2 DEF r
  <2> HIDE DEF r
  <2>3. a = r <=> \A k \in 1..Len(a) : a[k] = r[k]
    BY <2>1
  <2> QED BY <1>2, <2>1, <2>2, <2>3 DEF Below
<1>3. CASE ~(Len(a) <= Len(b))
  BY <1>3 DEF IsPrefix, Below
<1> QED BY <1>2, <1>3

(* Up to the common spine two lines agree, and there they part.            *)
LEMMA CommonElements ==
    ASSUME NEW a \in Seq(ChainEvent), NEW b \in Seq(ChainEvent)
    PROVE  /\ commonSpine(a, b) \in Nat /\ commonSpine(a, b) <= Len(a) /\ commonSpine(a, b) <= Len(b)
           /\ \A k \in 1..commonSpine(a, b) : a[k] = b[k]
           /\ commonSpine(a, b) < Len(a) /\ commonSpine(a, b) < Len(b) =>
                a[commonSpine(a, b) + 1] # b[commonSpine(a, b) + 1]
<1> DEFINE p == commonSpine(a, b)
<1>1. /\ p \in 0..Len(a) /\ p <= Len(b) /\ SubSeq(a, 1, p) = SubSeq(b, 1, p)
      /\ \A n \in 0..Len(a) : n <= Len(b) /\ SubSeq(a, 1, n) = SubSeq(b, 1, n) => n <= p
  BY CommonSpine
<1> HIDE DEF p
<1>2. Len(a) \in Nat /\ Len(b) \in Nat /\ p \in Nat /\ p <= Len(a)
  BY <1>1
<1>3. ASSUME NEW k \in 1..p PROVE a[k] = b[k]
  <2>1. SubSeq(a, 1, p)[k] = a[k] /\ SubSeq(b, 1, p)[k] = b[k]
    BY <1>1, <1>2
  <2> QED BY <1>1, <2>1
<1>4. ASSUME p < Len(a), p < Len(b), a[p + 1] = b[p + 1] PROVE FALSE
  <2> DEFINE c == SubSeq(a, 1, p + 1)
             d == SubSeq(b, 1, p + 1)
  <2>1. /\ c \in Seq(ChainEvent) /\ Len(c) = p + 1 /\ \A k \in 1..(p + 1) : c[k] = a[k]
        /\ d \in Seq(ChainEvent) /\ Len(d) = p + 1 /\ \A k \in 1..(p + 1) : d[k] = b[k]
    BY <1>2, <1>4
  <2>2. \A k \in 1..(p + 1) : k \in 1..p \/ k = p + 1
    BY <1>2
  <2>3. \A k \in 1..(p + 1) : a[k] = b[k]
    BY <1>3, <1>4, <2>2
  <2> HIDE DEF c, d
  <2>4. c = d
    BY <2>1, <2>3
  <2>5. p + 1 \in 0..Len(a) /\ p + 1 <= Len(b)
    BY <1>2, <1>4
  <2>6. p + 1 <= p
    BY <1>1, <2>4, <2>5 DEF c, d
  <2> QED BY <1>2, <2>6
<1> QED BY <1>1, <1>2, <1>3, <1>4 DEF p

(* A line of generation g: numbered from 0, each event chained to the one  *)
(* before it, the first of them to the inception or the inception itself.  *)
Numbered(line, g) ==
    /\ line \in Seq(ChainEvent) /\ line # <<>>
    /\ \A k \in 1..Len(line) : GenOf[line[k]] = g /\ NumOf[line[k]] = k - 1
    /\ \A k \in 2..Len(line) : PrevOf[line[k]] = line[k - 1]
    /\ line[1] = Inception \/ PrevOf[line[1]] = Inception
    /\ g = 0 => line[1] = Inception

(* Contestants of a generation: one for each head.                         *)
Rivals(X, g) ==
    /\ \A x \in X : Numbered(x.line, g)
    /\ \A x, y \in X : Last(x.line) = Last(y.line) => x = y

(* A group parts where its lines first disagree.                           *)
Parted(v) ==
    /\ \A i \in 1..Len(v) : Len(v[i].line) > divergence(v)
    /\ \E i \in 1..Len(v) : v[1].line[divergence(v) + 1] # v[i].line[divergence(v) + 1]

(* What divergence says of a group.                                        *)
LEMMA GroupPoint ==
    ASSUME NEW X, NEW g, Rivals(X, g), NEW v \in Seq(X), Len(v) >= 1
    PROVE  LET p == divergence(v)
           IN  /\ p \in Nat
               /\ \A i \in 1..Len(v) : p <= Len(v[i].line) /\ \A k \in 1..p : v[i].line[k] = v[1].line[k]
               /\ \/ \E i \in 1..Len(v) : p = Len(v[i].line)
                  \/ Parted(v)
<1> DEFINE N == Len(v)
           L(i) == v[i].line
           D == {Len(L(1))} \cup {commonSpine(L(1), L(i)) : i \in DOMAIN v}
           p == divergence(v)
<1>1. N \in Nat /\ 1 \in 1..N /\ DOMAIN v = 1..N
  OBVIOUS
<1>2. ASSUME NEW i \in 1..N PROVE L(i) \in Seq(ChainEvent) /\ Len(L(i)) \in Nat
  <2>1. v[i] \in X
    BY <1>1
  <2>2. L(i) \in Seq(ChainEvent)
    BY <2>1 DEF Rivals, Numbered
  <2> HIDE DEF L
  <2> QED BY <2>2
<1>3. p = Min(D)
  BY DEF divergence
<1> HIDE DEF p, L
<1>4. ASSUME NEW i \in 1..N
      PROVE  LET q == commonSpine(L(1), L(i))
             IN  /\ q \in Nat /\ q <= Len(L(1)) /\ q <= Len(L(i)) /\ q \in D
                 /\ \A k \in 1..q : L(1)[k] = L(i)[k]
                 /\ q < Len(L(1)) /\ q < Len(L(i)) => L(1)[q + 1] # L(i)[q + 1]
  <2>1. L(1) \in Seq(ChainEvent) /\ L(i) \in Seq(ChainEvent)
    BY <1>1, <1>2
  <2> QED BY <1>1, <2>1, CommonElements
<1>5. D \in SUBSET Nat /\ D # {} /\ Len(L(1)) \in D
  <2>1. \A i \in 1..N : commonSpine(L(1), L(i)) \in Nat
    BY <1>4
  <2> QED BY <1>1, <1>2, <2>1
<1>6. p \in D /\ \A y \in D : p <= y
  <2> HIDE DEF D
  <2>1. \E x \in D : \A y \in D : x <= y
    BY <1>5, LeastNatural
  <2> QED BY <1>3, <2>1 DEF Min
<1>7. p \in Nat
  BY <1>5, <1>6
<1>8. ASSUME NEW i \in 1..N PROVE p <= Len(L(i)) /\ \A k \in 1..p : L(i)[k] = L(1)[k]
  <2> DEFINE q == commonSpine(L(1), L(i))
  <2>1. q \in Nat /\ q <= Len(L(i)) /\ p <= q /\ \A k \in 1..q : L(1)[k] = L(i)[k]
    BY <1>4, <1>6
  <2> HIDE DEF q
  <2> QED BY <1>2, <1>7, <2>1
<1>9. (\E i \in 1..N : p = Len(L(i))) \/ Parted(v)
  <2> SUFFICES ASSUME \A i \in 1..N : p # Len(L(i)) PROVE Parted(v)
    OBVIOUS
  <2>1. \A i \in 1..N : Len(L(i)) > p
    BY <1>2, <1>7, <1>8
  <2>2. PICK i \in 1..N : p = commonSpine(L(1), L(i))
    BY <1>1, <1>6
  <2>3. L(1)[p + 1] # L(i)[p + 1]
    BY <1>1, <1>4, <2>1, <2>2
  <2> QED BY <2>1, <2>3 DEF Parted, p, L
<1> QED BY <1>7, <1>8, <1>9 DEF p, L

(* A group that parts is not narrowed.                                     *)
LEMMA PartedStays ==
    ASSUME NEW X, NEW v \in Seq(X), Parted(v)
    PROVE  narrowedTo(v, beyond(v, divergence(v))) = v
<1> DEFINE p == divergence(v)
           places == {i \in DOMAIN v : Len(v[i].line) > p}
<1>1. \A i \in 1..Len(v) : i \in places
  BY DEF Parted
<1>2. filtered(v, places) = v
  <2> HIDE DEF places
  <2> QED BY <1>1, FilterAll
<1>3. beyond(v, p) = v
  BY <1>2 DEF beyond
<1> HIDE DEF p
<1>4. narrowedTo(v, beyond(v, p)) = v
  BY <1>3 DEF narrowedTo
<1> QED BY <1>4 DEF p

(* A round either finds the group parted, or drops what all of it extends. *)
LEMMA NarrowOnce ==
    ASSUME NEW X, NEW g, Rivals(X, g), NEW v \in Seq(X), Apart(v), Len(v) >= 1, Len(v) # 1
    PROVE  LET w == narrowedTo(v, beyond(v, divergence(v)))
           IN  \/ Parted(v) /\ w = v
               \/ /\ w \in Seq(X) /\ Len(w) >= 1 /\ Len(w) < Len(v) /\ Apart(w) /\ Range(w) \subseteq Range(v)
                  /\ \A x \in Range(v) \ Range(w), y \in Range(v) : Below(x.line, y.line)
<1> DEFINE N == Len(v)
           p == divergence(v)
           places == {i \in DOMAIN v : Len(v[i].line) > p}
           b == filtered(v, places)
           w == narrowedTo(v, beyond(v, p))
<1>1. /\ p \in Nat
      /\ \A i \in 1..N : p <= Len(v[i].line) /\ \A k \in 1..p : v[i].line[k] = v[1].line[k]
      /\ \/ \E i \in 1..N : p = Len(v[i].line)
         \/ Parted(v)
  BY GroupPoint
<1>2. CASE Parted(v)
  BY <1>2, PartedStays
<1>3. CASE \E i \in 1..N : p = Len(v[i].line)
  <2> HIDE DEF p
  <2>1. N \in Nat /\ N >= 2 /\ DOMAIN v = 1..N /\ Range(v) = {v[i] : i \in 1..N}
    <3>1. N \in Nat
      OBVIOUS
    <3>2. N >= 2
      <4> HIDE DEF N
      <4>1. N >= 1 /\ N # 1
        BY DEF N
      <4> QED BY <3>1, <4>1
    <3> QED BY <3>1, <3>2, RangeOf
  <2>2. ASSUME NEW i \in 1..N
        PROVE  /\ v[i] \in X /\ Len(v[i].line) \in Nat \ {0}
               /\ Last(v[i].line) = v[i].line[Len(v[i].line)]
    <3>1. v[i] \in X
      BY <2>1
    <3> DEFINE l == v[i].line
    <3>2. l \in Seq(ChainEvent) /\ l # <<>>
      BY <3>1 DEF Rivals, Numbered
    <3> HIDE DEF l
    <3>3. Len(l) \in Nat \ {0} /\ Last(l) = l[Len(l)]
      BY <3>2 DEF Last
    <3> QED BY <3>1, <3>3 DEF l
  <2>3. \A i \in 1..N : i \in places <=> Len(v[i].line) # p
    BY <1>1, <2>1, <2>2
  <2>4. beyond(v, p) = b
    BY DEF beyond
  <2> HIDE DEF places
  <2>5. b \in Seq(X) /\ Len(b) < N /\ Apart(b) /\ Range(b) = {v[i] : i \in (1..N) \cap places}
    <3>1. \E i \in 1..N : i \notin places
      BY <1>3, <2>3
    <3> QED BY <3>1, FilterType, FilterShorter, FilterApart, FilterRange
  <2> HIDE DEF b
  <2>6. \E i \in 1..N : i \in places
    <3> SUFFICES ASSUME \A i \in 1..N : Len(v[i].line) = p PROVE FALSE
      BY <2>3
    <3>1. 1 \in 1..N /\ 2 \in 1..N
      BY <2>1
    <3>2. p \in 1..p
      BY <1>1, <2>2, <3>1
    <3>3. Last(v[1].line) = Last(v[2].line)
      BY <1>1, <2>2, <3>1, <3>2
    <3>4. v[1] = v[2]
      BY <2>2, <3>1, <3>3 DEF Rivals
    <3> QED BY <3>1, <3>4 DEF Apart
  <2>7. Len(b) \in Nat /\ Len(b) # 0
    <3>1. Range(b) = {b[i] : i \in 1..Len(b)} /\ Len(b) \in Nat
      BY <2>5, RangeOf
    <3>2. Range(b) # {}
      BY <2>5, <2>6
    <3> QED BY <3>1, <3>2
  <2>8. w = b
    <3>1. b # <<>>
      BY <2>7
    <3> QED BY <2>4, <3>1 DEF narrowedTo
  <2>9. ASSUME NEW x \in Range(v) \ Range(b), NEW y \in Range(v) PROVE Below(x.line, y.line)
    <3>1. PICK i \in 1..N : x = v[i]
      BY <2>1
    <3>2. PICK j \in 1..N : y = v[j]
      BY <2>1
    <3>3. Len(v[i].line) = p
      BY <2>3, <2>5, <3>1
    <3> QED BY <1>1, <3>1, <3>2, <3>3 DEF Below
  <2>10. Range(b) \subseteq Range(v) /\ Len(b) >= 1
    BY <2>1, <2>5, <2>7
  <2> HIDE DEF w
  <2>11. w \in Seq(X) /\ Len(w) >= 1 /\ Len(w) < Len(v) /\ Apart(w) /\ Range(w) \subseteq Range(v)
         /\ \A x \in Range(v) \ Range(w), y \in Range(v) : Below(x.line, y.line)
    BY <2>5, <2>8, <2>9, <2>10
  <2> QED BY <2>11 DEF w, p
<1> QED BY <1>1, <1>2, <1>3

(* What the loop of resolveContenders ends with: one contestant, or a      *)
(* group that parts; all it dropped is extended by all that is left.       *)
LEMMA ResolveMany ==
    ASSUME NEW X, NEW g, Rivals(X, g), NEW c \in Seq(X), Apart(c), Len(c) >= 1
    PROVE  LET end == resolveContenders(c)
           IN  /\ end \in Seq(X) /\ Len(end) >= 1 /\ Range(end) \subseteq Range(c)
               /\ \A x \in Range(c) \ Range(end), y \in Range(end) : Below(x.line, y.line)
               /\ Len(end) = 1 \/ Parted(end)
<1> DEFINE N == Len(c)
           P(n, w) == /\ w \in Seq(X) /\ Len(w) >= 1 /\ Apart(w) /\ Range(w) \subseteq Range(c)
                      /\ \A x \in Range(c) \ Range(w), y \in Range(w) : Below(x.line, y.line)
                      /\ Len(w) <= N - n \/ Len(w) = 1 \/ Parted(w)
<1>0. N \in Nat
  OBVIOUS
<1>1. PICK f : Narrowing(f, c)
  BY <1>0, ContenderSteps
<1>2. /\ f[0] = c /\ resolveContenders(c) = f[N]
      /\ \A n \in 1..N : f[n] = narrowedTo(f[n - 1], beyond(f[n - 1], divergence(f[n - 1])))
  BY <1>1 DEF Narrowing
<1> DEFINE T == {n \in 0..N : P(n, f[n])}
<1>3. 0 \in T
  <2>1. P(0, c)
    BY <1>0
  <2> HIDE DEF P
  <2> QED BY <1>0, <1>2, <2>1
<1>4. ASSUME NEW n \in 0..(N - 1), n \in T PROVE n + 1 \in T
  <2> DEFINE v == f[n]
             w == narrowedTo(v, beyond(v, divergence(v)))
  <2>1. n + 1 \in 1..N /\ (n + 1) - 1 = n /\ n + 1 \in 0..N /\ n \in Nat
    BY <1>0
  <2>2. f[n + 1] = w
    BY <1>2, <2>1
  <2>3. /\ v \in Seq(X) /\ Len(v) >= 1 /\ Apart(v) /\ Range(v) \subseteq Range(c)
        /\ \A x \in Range(c) \ Range(v), y \in Range(v) : Below(x.line, y.line)
        /\ Len(v) <= N - n \/ Len(v) = 1 \/ Parted(v)
    BY <1>4
  <2>4. Len(v) \in Nat
    BY <2>3
  <2> HIDE DEF v
  <2>5. CASE Len(v) = 1 \/ Parted(v)
    <3>1. w = v
      <4>1. CASE Len(v) = 1
        BY <4>1 DEF narrowedTo
      <4>2. CASE Parted(v)
        BY <2>3, <4>2, PartedStays
      <4> QED BY <2>5, <4>1, <4>2
    <3> HIDE DEF w
    <3>2. P(n + 1, w)
      BY <2>3, <2>5, <3>1
    <3> HIDE DEF P
    <3> QED BY <2>1, <2>2, <3>2
  <2>6. CASE ~(Len(v) = 1 \/ Parted(v))
    <3>1. /\ w \in Seq(X) /\ Len(w) >= 1 /\ Len(w) < Len(v) /\ Apart(w) /\ Range(w) \subseteq Range(v)
          /\ \A x \in Range(v) \ Range(w), y \in Range(v) : Below(x.line, y.line)
      BY <2>3, <2>6, NarrowOnce
    <3>2. Len(w) \in Nat
      BY <3>1
    <3> HIDE DEF w
    <3>3. Len(w) <= N - (n + 1)
      BY <1>0, <2>1, <2>3, <2>4, <2>6, <3>1, <3>2
    <3>4. \A x \in Range(c) \ Range(w), y \in Range(w) : Below(x.line, y.line)
      BY <2>3, <3>1
    <3>5. Range(w) \subseteq Range(c)
      BY <2>3, <3>1
    <3>6. P(n + 1, w)
      BY <3>1, <3>3, <3>4, <3>5
    <3> HIDE DEF P
    <3> QED BY <2>1, <2>2, <3>6
  <2> QED BY <2>5, <2>6
<1>5. N \in T
  <2> HIDE DEF T
  <2>1. 0..N \subseteq T
    BY <1>0, <1>3, <1>4, StepByStep
  <2> QED BY <1>0, <2>1
<1> DEFINE end == resolveContenders(c)
<1>6. P(N, end)
  BY <1>2, <1>5
<1> HIDE DEF end
<1>7. Len(end) = 1 \/ Parted(end)
  <2>1. Len(end) \in Nat
    BY <1>6
  <2> QED BY <1>0, <1>6, <2>1
<1> QED BY <1>6, <1>7 DEF end

(* The two smallest of at least two events.                                *)
LEMMA TwoSmallest ==
    ASSUME NEW S \in SUBSET Nat, NEW a \in S, NEW b \in S, a # b
    PROVE  Cardinality(smallestTwo(S)) = 2 /\ smallestTwo(S) \subseteq S
<1>1. PICK m \in S : \A x \in S : m <= x
  BY LeastNatural
<1>2. PICK n \in S \ {m} : \A x \in S \ {m} : n <= x
  <2>1. S \ {m} # {} /\ S \ {m} \in SUBSET Nat
    OBVIOUS
  <2> DEFINE R == S \ {m}
  <2> HIDE DEF R
  <2>2. \E x \in R : \A y \in R : x <= y
    BY <2>1, LeastNatural DEF R
  <2> QED BY <2>2 DEF R
<1> DEFINE Less(e) == {d \in S : d < e}
<1>3. Less(m) = {} /\ Less(n) = {m}
  <2>1. m \in Nat /\ n \in Nat /\ m # n /\ n \in S /\ m <= n /\ m < n
    BY <1>1, <1>2
  <2>2. ASSUME NEW d \in S, d < m PROVE FALSE
    BY <1>1, <2>1, <2>2
  <2>3. ASSUME NEW d \in S, d < n PROVE d = m
    BY <1>2, <2>1, <2>3
  <2> QED BY <2>1, <2>2, <2>3
<1>4. Cardinality({}) = 0 /\ Cardinality({m}) = 1
  BY FS_EmptySet, FS_Singleton
<1>5. IsFiniteSet({m, n}) /\ Cardinality({m, n}) = 2
  <2>1. IsFiniteSet({m}) /\ n \notin {m} /\ {m, n} = {m} \cup {n}
    BY <1>2, FS_Singleton
  <2>2. IsFiniteSet({m} \cup {n}) /\ Cardinality({m} \cup {n}) = Cardinality({m}) + 1
    BY <2>1, FS_AddElement
  <2> QED BY <1>4, <2>1, <2>2
<1>6. ASSUME NEW e \in S, e # m, e # n PROVE ~(Cardinality(Less(e)) < 2)
  <2>1. {m, n} \subseteq Less(e)
    BY <1>1, <1>2, <1>6
  <2>2. IsFiniteSet(Less(e))
    <3>1. e \in Int /\ 0 \in Int
      OBVIOUS
    <3>2. IsFiniteSet(0..e)
      BY <3>1, FS_Interval
    <3>3. Less(e) \subseteq 0..e
      <4>1. ASSUME NEW d \in S, d < e PROVE d \in 0..e
        <5>1. d \in Nat /\ e \in Nat
          OBVIOUS
        <5> QED BY <4>1, <5>1
      <4> QED BY <4>1
    <3> QED BY <3>2, <3>3, FS_Subset
  <2> HIDE DEF Less
  <2>3. Cardinality({m, n}) <= Cardinality(Less(e)) /\ Cardinality(Less(e)) \in Nat
    BY <2>1, <2>2, FS_Subset, FS_CardinalityType
  <2> QED BY <1>5, <2>3
<1>7. smallestTwo(S) = {e \in S : Cardinality(Less(e)) < 2}
  BY DEF smallestTwo
<1>8. Cardinality(Less(m)) = 0 /\ Cardinality(Less(n)) = 1
  BY <1>3, <1>4
<1> HIDE DEF Less
<1>9. smallestTwo(S) = {m, n}
  <2>1. m \in smallestTwo(S) /\ n \in smallestTwo(S)
    BY <1>7, <1>8
  <2>2. \A e \in smallestTwo(S) : e = m \/ e = n
    BY <1>6, <1>7
  <2> QED BY <2>1, <2>2
<1>10. {m, n} \subseteq S
  OBVIOUS
<1> QED BY <1>5, <1>9, <1>10

(* Where the line of a spine's head begins.                                *)
LEMMA LineBegins ==
    ASSUME NEW sp, Spined(sp), sp # <<>>
    PROVE  \E m \in 1..Len(sp) :
             /\ \A i \in 1..Len(sp) : GenOf[sp[i]] = GenOf[Last(sp)] <=> i >= m
             /\ trimmed(sp, GenOf[Last(sp)]) = SubSeq(sp, m, Len(sp))
<1> DEFINE L == Len(sp)
           g == GenOf[Last(sp)]
           I == {i \in DOMAIN sp : GenOf[sp[i]] = g}
           m == Min(I)
<1>1. sp \in Seq(ChainEvent) /\ L \in Nat \ {0} /\ Last(sp) = sp[L] /\ L \in 1..L /\ DOMAIN sp = 1..L
  BY DEF Spined, Last
<1>2. ASSUME NEW i \in 1..L PROVE GenOf[sp[i]] \in Nat
  <2>1. sp[i] \in ChainEvent
    BY <1>1
  <2> QED BY <2>1, LogAssumption
<1>3. L \in I /\ I \in SUBSET Nat
  BY <1>1
<1>4. m \in I /\ \A i \in I : m <= i
  <2> HIDE DEF I
  <2>1. \E x \in I : \A y \in I : x <= y
    BY <1>3, LeastNatural
  <2> QED BY <2>1 DEF Min
<1>5. trimmed(sp, g) = SubSeq(sp, m, L)
  BY DEF trimmed
<1> HIDE DEF m
<1>6. m \in 1..L /\ GenOf[sp[m]] = g /\ m <= L
  BY <1>1, <1>3, <1>4
<1>7. ASSUME NEW i \in 1..L PROVE GenOf[sp[i]] = g <=> i >= m
  <2>1. i >= m => GenOf[sp[m]] <= GenOf[sp[i]] /\ GenOf[sp[i]] <= GenOf[sp[L]]
    BY <1>1, <1>6, GenerationsRise
  <2>2. i >= m => GenOf[sp[i]] = g
    BY <1>1, <1>2, <1>6, <2>1
  <2>3. GenOf[sp[i]] = g => i >= m
    BY <1>1, <1>4
  <2> QED BY <2>2, <2>3
<1> QED BY <1>5, <1>6, <1>7

(* The head's line of a chain, as the rules and as resolveBranches take it.*)
LEMMA LineOfHead ==
    ASSUME NEW c, Len(c) \in Nat, Folds(c)
    PROVE  LET sp == Spine(c)
               g == GenOf[HeadEvent(c)]
               line == HeadLineOf(c)
           IN  /\ Numbered(line, g) /\ Last(line) = HeadEvent(c)
               /\ filtered(sp, {i \in DOMAIN sp : GenOf[sp[i]] = g}) = line
               /\ \E n \in 0..Len(sp) : line = SubSeq(sp, n + 1, Len(sp))
<1> DEFINE sp == Spine(c)
           L == Len(sp)
           g == GenOf[Last(sp)]
           line == trimmed(sp, g)
           q == filtered(sp, {i \in DOMAIN sp : GenOf[sp[i]] = g})
<1>1. Spined(sp) /\ sp # <<>> /\ HeadEvent(c) = Last(sp) /\ HeadLineOf(c) = line
  BY SpineSpined DEF Folds, HeadEvent, HeadLineOf
<1> HIDE DEF sp
<1>2. sp \in Seq(ChainEvent) /\ L \in Nat \ {0} /\ Last(sp) = sp[L] /\ DOMAIN sp = 1..L /\ sp[1] = Inception
  BY <1>1 DEF Spined, Last
<1>3. PICK m \in 1..L : (\A i \in 1..L : GenOf[sp[i]] = g <=> i >= m) /\ line = SubSeq(sp, m, L)
  BY <1>1, LineBegins
<1>4. Lined(sp, line)
  BY <1>1, HeadLine
<1>5. line \in Seq(ChainEvent) /\ Len(line) = L + 1 - m /\ \A k \in 1..(L + 1 - m) : line[k] = sp[m + k - 1]
  BY <1>2, <1>3
<1>6. q = line
  <2>1. {i \in DOMAIN sp : GenOf[sp[i]] = g} = m..L
    <3>1. \A i : i \in m..L <=> i \in 1..L /\ i >= m
      BY <1>2
    <3> QED BY <1>2, <1>3, <3>1
  <2>2. m \in 1..(L + 1)
    BY <1>2
  <2> DEFINE r == filtered(sp, m..L)
  <2>3. r \in Seq(ChainEvent) /\ Len(r) = L + 1 - m /\ \A k \in 1..(L + 1 - m) : r[k] = sp[m + k - 1]
    BY <1>2, <2>2, FilterRest
  <2>4. q = r
    BY <2>1
  <2> HIDE DEF r, line, q
  <2>5. r = line
    BY <1>5, <2>3
  <2> QED BY <2>4, <2>5
<1>7. \E n \in 0..L : line = SubSeq(sp, n + 1, L)
  <2>1. m - 1 \in 0..L /\ (m - 1) + 1 = m
    BY <1>2
  <2> QED BY <1>3, <2>1
<1>8. Numbered(line, g)
  <2>1. line # <<>> /\ line[1] = sp[m]
    <3>1. 1 \in 1..(L + 1 - m) /\ m + 1 - 1 = m
      BY <1>2
    <3> QED BY <1>5, <3>1
  <2>2. line[1] = Inception \/ PrevOf[line[1]] = Inception
    <3>1. CASE m = 1
      BY <1>2, <2>1, <3>1
    <3>2. CASE m # 1
      <4> DEFINE h == m - 1
      <4>1. h \in 1..(L - 1) /\ h \in 1..L /\ h + 1 = m /\ ~(h >= m)
        BY <1>2, <3>2
      <4> HIDE DEF h
      <4>2. follows(sp[h + 1], sp[h]) \/ resets(sp[h + 1], sp[h])
        BY <1>1, <4>1 DEF Spined
      <4>3. GenOf[sp[h]] # GenOf[sp[h + 1]]
        BY <1>2, <1>3, <4>1
      <4> QED BY <2>1, <4>1, <4>2, <4>3 DEF follows, resets
    <3> QED BY <3>1, <3>2
  <2>3. g = 0 => line[1] = Inception
    <3> SUFFICES ASSUME g = 0 PROVE m = 1
      BY <1>2, <2>1
    <3>1. 1 \in 1..L /\ GenOf[sp[1]] = 0
      BY <1>2, LogAssumption
    <3>2. 1 >= m
      BY <1>3, <3>1
    <3> QED BY <3>2
  <2> HIDE DEF line
  <2> QED BY <1>4, <1>5, <2>1, <2>2, <2>3 DEF Lined, Numbered
<1>9. Last(line) = Last(sp)
  BY <1>4 DEF Lined
<1> HIDE DEF line, q
<1> QED BY <1>1, <1>6, <1>7, <1>8, <1>9 DEF q, sp

(* One head, one line.                                                     *)
LEMMA SameLine ==
    ASSUME NEW c, NEW d, Len(c) \in Nat, Len(d) \in Nat, Folds(c), Folds(d), HeadEvent(c) = HeadEvent(d)
    PROVE  HeadLineOf(c) = HeadLineOf(d)
<1> DEFINE a == HeadLineOf(c)
           b == HeadLineOf(d)
<1>1. /\ Lined(Spine(c), a) /\ Lined(Spine(d), b)
      /\ Last(Spine(c)) = Last(Spine(d))
  BY FoldedHead DEF HeadEvent
<1> HIDE DEF a, b
<1>2. /\ a \in Seq(ChainEvent) /\ Len(a) \in Nat \ {0} /\ a[Len(a)] = Last(Spine(c)) /\ NumOf[a[Len(a)]] = Len(a) - 1
      /\ b \in Seq(ChainEvent) /\ Len(b) \in Nat \ {0} /\ b[Len(b)] = Last(Spine(c)) /\ NumOf[b[Len(b)]] = Len(b) - 1
  <2>1. a \in Seq(ChainEvent) /\ a # <<>> /\ b \in Seq(ChainEvent) /\ b # <<>>
    BY <1>1 DEF Lined
  <2>2. Len(a) \in Nat \ {0} /\ Len(b) \in Nat \ {0} /\ Last(a) = a[Len(a)] /\ Last(b) = b[Len(b)]
    BY <2>1 DEF Last
  <2>3. Len(a) \in 1..Len(a) /\ Len(b) \in 1..Len(b)
    BY <2>2
  <2> QED BY <1>1, <2>1, <2>2, <2>3 DEF Lined
<1>3. Len(a) = Len(b)
  BY <1>2
<1> DEFINE k == Len(a)
<1>4. k \in 1..Len(a) /\ k <= Len(b) /\ a[k] = b[k]
  BY <1>2, <1>3
<1> HIDE DEF k
<1>5. SubSeq(a, 1, k) = SubSeq(b, 1, k)
  BY <1>1, <1>4, LinesAgree
<1>6. SubSeq(a, 1, Len(a)) = a /\ SubSeq(b, 1, Len(b)) = b
  BY <1>2, WholeLine
<1>7. a = b
  BY <1>3, <1>5, <1>6 DEF k
<1> QED BY <1>7 DEF a, b

(* The contestants of a generation gen among the valid chains: one for     *)
(* each head, with the head's line.                                        *)
Contest(c, gen) ==
    /\ c \in Seq(Range(c)) /\ Len(c) >= 1
    /\ \A i \in 1..Len(c) :
         /\ c[i].branch.chain \in Valid
         /\ c[i].branch.spine = Spine(c[i].branch.chain)
         /\ GenOf[HeadEvent(c[i].branch.chain)] = gen
         /\ c[i].line = HeadLineOf(c[i].branch.chain)
    /\ \A i, j \in 1..Len(c) : HeadEvent(c[i].branch.chain) = HeadEvent(c[j].branch.chain) => i = j
    /\ \A d \in Valid : GenOf[HeadEvent(d)] = gen =>
         \E i \in 1..Len(c) : HeadEvent(c[i].branch.chain) = HeadEvent(d)

Collected == presented \in Seq(Seq(ChainEvent))

(* A valid chain is a sequence of events that folds.                       *)
LEMMA ValidChain ==
    ASSUME Collected, NEW d \in Valid
    PROVE  Len(d) \in Nat /\ d \in Seq(ChainEvent) /\ Folds(d)
<1>1. Range(presented) \subseteq Seq(ChainEvent)
  BY RangeOf DEF Collected
<1>2. d \in Seq(ChainEvent) /\ Folds(d)
  BY <1>1 DEF Valid
<1> QED BY <1>2

(* The branches resolveBranches keeps are those of the valid chains.       *)
LEMMA ValidBranches ==
    ASSUME Collected
    PROVE  /\ Range(validBranches(presented)) = {branchFrom(d) : d \in Valid}
           /\ \E B : validBranches(presented) \in Seq(B)
<1> DEFINE N == Len(presented)
           places == {i \in DOMAIN presented : Folds(presented[i])}
           s == [i \in DOMAIN presented |-> branchFrom(presented[i])]
           B == {branchFrom(d) : d \in Range(presented)}
<1>1. N \in Nat /\ DOMAIN presented = 1..N /\ Range(presented) = {presented[i] : i \in 1..N}
  BY RangeOf DEF Collected
<1>2. s \in Seq(B) /\ Len(s) = N /\ \A i \in 1..N : s[i] = branchFrom(presented[i])
  <2>1. \A i \in 1..N : branchFrom(presented[i]) \in B
    BY <1>1
  <2> HIDE DEF B
  <2> QED BY <1>1, <2>1
<1>3. validBranches(presented) = filtered(s, places)
  BY DEF validBranches
<1>4. \A i \in 1..N : i \in places <=> Folds(presented[i])
  BY <1>1
<1> HIDE DEF s, places, B
<1>5. filtered(s, places) \in Seq(B) /\ Range(filtered(s, places)) = {s[i] : i \in (1..Len(s)) \cap places}
  BY <1>2, FilterType, FilterRange
<1>6. {s[i] : i \in (1..Len(s)) \cap places} = {branchFrom(d) : d \in Valid}
  <2>1. ASSUME NEW i \in (1..Len(s)) \cap places PROVE s[i] \in {branchFrom(d) : d \in Valid}
    <3>1. i \in 1..N /\ Folds(presented[i]) /\ s[i] = branchFrom(presented[i])
      BY <1>2, <1>4
    <3>2. presented[i] \in Valid
      BY <1>1, <3>1 DEF Valid
    <3> QED BY <3>1, <3>2
  <2>2. ASSUME NEW d \in Valid PROVE branchFrom(d) \in {s[i] : i \in (1..Len(s)) \cap places}
    <3>1. PICK i \in 1..N : d = presented[i] /\ Folds(d)
      BY <1>1 DEF Valid
    <3> QED BY <1>2, <1>4, <3>1
  <2> QED BY <2>1, <2>2
<1> QED BY <1>3, <1>5, <1>6

(* A branch has its chain, the chain's spine and the chain's head.         *)
LEMMA BranchParts ==
    ASSUME NEW d
    PROVE  /\ branchFrom(d).chain = d /\ branchFrom(d).spine = Spine(d)
           /\ headState(branchFrom(d)) = HeadEvent(d)
  BY DEF branchFrom, headState, HeadEvent

(* What selectWinner makes of the collected chains.                        *)
LEMMA ContestOf ==
    ASSUME Collected, Valid # {}
    PROVE  LET kept == byHead(validBranches(presented))
               gen == topGen(kept)
           IN  /\ kept # <<>> /\ gen = Max({GenOf[HeadEvent(d)] : d \in Valid})
               /\ Contest(contestants(kept, gen), gen)
<1> DEFINE valid == validBranches(presented)
           kept == byHead(valid)
           K == Len(kept)
           gen == topGen(kept)
           V == Range(valid)
<1>1. V = {branchFrom(d) : d \in Valid}
  BY ValidBranches
<1>2. PICK B : valid \in Seq(B)
  BY ValidBranches
<1> HIDE DEF valid
<1>3. /\ kept \in Seq(B)
      /\ \A i, j \in 1..K : headState(kept[i]) = headState(kept[j]) => i = j
      /\ \A b \in V : \E j \in 1..K : headState(kept[j]) = headState(b)
      /\ Range(kept) \subseteq V
  BY <1>2, OnePerHead
<1> HIDE DEF kept, V
<1>4. K \in Nat /\ DOMAIN kept = 1..K /\ Range(kept) = {kept[i] : i \in 1..K}
  BY <1>3, RangeOf
<1>5. ASSUME NEW i \in 1..K
      PROVE  \E d \in Valid : kept[i] = branchFrom(d) /\ headState(kept[i]) = HeadEvent(d)
  <2>1. kept[i] \in V
    BY <1>3, <1>4
  <2> QED BY <1>1, <2>1, BranchParts
<1>6. ASSUME NEW d \in Valid PROVE \E j \in 1..K : headState(kept[j]) = HeadEvent(d)
  <2>1. branchFrom(d) \in V
    BY <1>1
  <2> QED BY <1>3, <2>1, BranchParts
<1>7. kept # <<>>
  BY <1>4, <1>6
<1> DEFINE G == {GenOf[headState(kept[i])] : i \in 1..K}
<1>8. G = {GenOf[HeadEvent(d)] : d \in Valid}
  <2> DEFINE H == {GenOf[HeadEvent(d)] : d \in Valid}
  <2>1. ASSUME NEW i \in 1..K PROVE GenOf[headState(kept[i])] \in H
    <3>1. PICK d \in Valid : headState(kept[i]) = HeadEvent(d)
      BY <1>5
    <3> QED BY <3>1
  <2>2. ASSUME NEW d \in Valid PROVE GenOf[HeadEvent(d)] \in G
    <3>1. PICK i \in 1..K : headState(kept[i]) = HeadEvent(d)
      BY <1>6
    <3> QED BY <3>1
  <2>3. G \subseteq H
    <3> HIDE DEF H
    <3> QED BY <2>1
  <2>4. H \subseteq G
    <3> HIDE DEF G
    <3> QED BY <2>2
  <2> QED BY <2>3, <2>4
<1>9. gen = Max(G)
  BY <1>4 DEF topGen
<1>10. gen \in G
  <2>1. G \in SUBSET Nat
    <3>1. \A d \in Valid : GenOf[HeadEvent(d)] \in Nat
      BY ValidChain, FoldedHead
    <3> QED BY <1>8, <3>1
  <2>2. IsFiniteSet(G)
    <3> DEFINE h == [i \in 1..K |-> GenOf[headState(kept[i])]]
    <3>1. IsFiniteSet(1..K)
      <4>1. 1 \in Int /\ K \in Int
        BY <1>4
      <4> QED BY <4>1, FS_Interval
    <3>2. h \in Surjection(1..K, G)
      BY DEF Surjection
    <3> HIDE DEF h, G
    <3> QED BY <3>1, <3>2, FS_Surjection
  <2>3. G # {}
    BY <1>6
  <2> HIDE DEF G
  <2> QED BY <1>9, <2>1, <2>2, <2>3, Greatest
<1> DEFINE places == {i \in DOMAIN kept : GenOf[headState(kept[i])] = gen}
           top == filtered(kept, places)
           c == contestants(kept, gen)
<1> HIDE DEF gen
<1>11. \A i \in 1..K : i \in places <=> GenOf[headState(kept[i])] = gen
  BY <1>4
<1>12. Apart(kept)
  BY <1>3 DEF Apart
<1>13. c = [i \in DOMAIN top |-> [branch |-> top[i], line |-> trimmed(top[i].spine, gen)]]
  BY DEF contestants
<1> HIDE DEF places, c
<1>14. top \in Seq(B) /\ Apart(top) /\ Range(top) = {kept[i] : i \in (1..K) \cap places}
  BY <1>3, <1>12, FilterType, FilterApart, FilterRange
<1> DEFINE M == Len(top)
<1> HIDE DEF top
<1>15. M \in Nat /\ DOMAIN top = 1..M /\ Range(top) = {top[i] : i \in 1..M}
  BY <1>14, RangeOf
<1>16. \A i \in 1..M : \E k \in 1..K : k \in places /\ top[i] = kept[k]
  BY <1>14, <1>15
<1>17. \A k \in 1..K : k \in places => \E i \in 1..M : top[i] = kept[k]
  BY <1>14, <1>15
<1>18. c \in Seq(Range(c)) /\ Len(c) = M
       /\ \A i \in 1..M : c[i] = [branch |-> top[i], line |-> trimmed(top[i].spine, gen)]
  <2>1. c = [i \in 1..M |-> [branch |-> top[i], line |-> trimmed(top[i].spine, gen)]]
    BY <1>13, <1>15
  <2>2. DOMAIN c = 1..M /\ \A i \in 1..M : c[i] \in Range(c)
    BY <2>1 DEF Range
  <2>3. c = [i \in 1..M |-> c[i]]
    BY <2>1
  <2>4. c \in Seq(Range(c)) /\ Len(c) = M
    <3> DEFINE R == Range(c)
    <3> HIDE DEF R
    <3>1. \A i \in 1..M : c[i] \in R
      BY <2>2 DEF R
    <3>2. c \in [1..M -> R]
      BY <2>3, <3>1
    <3>3. c \in Seq(R) /\ Len(c) = M
      BY <1>15, <3>2
    <3> QED BY <3>3 DEF R
  <2> QED BY <2>1, <2>4
<1>19. ASSUME NEW i \in 1..M
       PROVE  /\ c[i].branch.chain \in Valid /\ c[i].branch.spine = Spine(c[i].branch.chain)
              /\ GenOf[HeadEvent(c[i].branch.chain)] = gen
              /\ c[i].line = HeadLineOf(c[i].branch.chain)
              /\ HeadEvent(c[i].branch.chain) = headState(top[i])
  <2>1. PICK k \in 1..K : k \in places /\ top[i] = kept[k]
    BY <1>16
  <2>2. PICK d \in Valid : kept[k] = branchFrom(d) /\ headState(kept[k]) = HeadEvent(d)
    BY <1>5
  <2>3. GenOf[HeadEvent(d)] = gen
    BY <1>11, <2>1, <2>2
  <2>4. c[i].branch = top[i] /\ c[i].line = trimmed(top[i].spine, gen)
    <3> DEFINE line == trimmed(top[i].spine, gen)
               x == c[i]
    <3>1. x = [branch |-> top[i], line |-> line]
      BY <1>18
    <3> HIDE DEF line, x
    <3>2. x.branch = top[i] /\ x.line = line
      BY <3>1
    <3> QED BY <3>2 DEF line, x
  <2>5. c[i].branch.chain = d /\ c[i].branch.spine = Spine(d)
    BY <2>1, <2>2, <2>4, BranchParts
  <2>6. c[i].line = HeadLineOf(d)
    BY <2>3, <2>4, <2>5 DEF HeadLineOf
  <2> QED BY <2>1, <2>2, <2>3, <2>5, <2>6
<1>20. ASSUME NEW i \in 1..M, NEW j \in 1..M, headState(top[i]) = headState(top[j]) PROVE i = j
  <2>1. PICK k \in 1..K : top[i] = kept[k]
    BY <1>16
  <2>2. PICK l \in 1..K : top[j] = kept[l]
    BY <1>16
  <2>3. top[i] = top[j]
    BY <1>3, <1>20, <2>1, <2>2
  <2> QED BY <1>14, <2>3 DEF Apart
<1>21. ASSUME NEW d \in Valid, GenOf[HeadEvent(d)] = gen
       PROVE  \E i \in 1..M : HeadEvent(c[i].branch.chain) = HeadEvent(d)
  <2>1. PICK k \in 1..K : headState(kept[k]) = HeadEvent(d)
    BY <1>6
  <2>2. PICK i \in 1..M : top[i] = kept[k]
    BY <1>11, <1>17, <1>21, <2>1
  <2> QED BY <1>19, <2>1, <2>2
<1>22. M >= 1
  <2>1. PICK k \in 1..K : GenOf[headState(kept[k])] = gen
    BY <1>10
  <2>2. PICK i \in 1..M : top[i] = kept[k]
    BY <1>11, <1>17, <2>1
  <2> QED BY <1>15, <2>2
<1>23. Contest(c, gen)
  <2>1. \A i, j \in 1..M : HeadEvent(c[i].branch.chain) = HeadEvent(c[j].branch.chain) => i = j
    BY <1>19, <1>20
  <2> QED BY <1>18, <1>19, <1>21, <1>22, <2>1 DEF Contest
<1> HIDE DEF G
<1>24. gen = Max({GenOf[HeadEvent(d)] : d \in Valid})
  BY <1>8, <1>9 DEF gen
<1> QED BY <1>7, <1>23, <1>24 DEF c, gen, kept, valid

(* Such contestants are rivals of one generation, and their lines are the  *)
(* histories the rules compare.                                            *)
LEMMA ContestRivals ==
    ASSUME Collected, NEW c, NEW gen, Contest(c, gen)
    PROVE  /\ Rivals(Range(c), gen) /\ Apart(c) /\ Range(c) = {c[i] : i \in 1..Len(c)}
           /\ Len(c) \in Nat
<1>1. c \in Seq(Range(c))
  BY DEF Contest
<1>2. Range(c) = {c[i] : i \in 1..Len(c)} /\ Len(c) \in Nat
  BY <1>1, RangeOf
<1>3. ASSUME NEW i \in 1..Len(c)
      PROVE  Numbered(c[i].line, gen) /\ Last(c[i].line) = HeadEvent(c[i].branch.chain)
  <2> DEFINE d == c[i].branch.chain
  <2>1. d \in Valid /\ c[i].line = HeadLineOf(d) /\ GenOf[HeadEvent(d)] = gen
    BY DEF Contest
  <2> HIDE DEF d
  <2>2. Len(d) \in Nat /\ Folds(d)
    BY <2>1, ValidChain
  <2>3. Numbered(HeadLineOf(d), GenOf[HeadEvent(d)]) /\ Last(HeadLineOf(d)) = HeadEvent(d)
    BY <2>2, LineOfHead
  <2> QED BY <2>1, <2>3 DEF d
<1>4. \A i, j \in 1..Len(c) : HeadEvent(c[i].branch.chain) = HeadEvent(c[j].branch.chain) => i = j
  BY DEF Contest
<1>5. Rivals(Range(c), gen)
  <2>1. ASSUME NEW x \in Range(c) PROVE Numbered(x.line, gen)
    BY <1>2, <1>3
  <2>2. ASSUME NEW x \in Range(c), NEW y \in Range(c), Last(x.line) = Last(y.line) PROVE x = y
    <3>1. PICK i \in 1..Len(c) : x = c[i]
      BY <1>2
    <3>2. PICK j \in 1..Len(c) : y = c[j]
      BY <1>2
    <3>3. i = j
      BY <1>3, <1>4, <2>2, <3>1, <3>2
    <3> QED BY <3>1, <3>2, <3>3
  <2> QED BY <2>1, <2>2 DEF Rivals
<1>6. Apart(c)
  BY <1>4 DEF Apart
<1> QED BY <1>2, <1>5, <1>6

(* The lines the contestants are compared by are the spines that the       *)
(* branch rules speak of.                                                  *)
LEMMA ContestLines ==
    ASSUME Collected, NEW c, NEW gen, Contest(c, gen), gen = Max({GenOf[HeadEvent(d)] : d \in Valid})
    PROVE  TopSpines = {x.line : x \in Range(c)}
<1> DEFINE Highest == {d \in Valid : GenOf[HeadEvent(d)] = gen}
<1>1. Range(c) = {c[i] : i \in 1..Len(c)}
  BY ContestRivals
<1>2. TopSpines = {filtered(Spine(d), {i \in DOMAIN Spine(d) : GenOf[Spine(d)[i]] = gen}) : d \in Highest}
  BY DEF TopSpines
<1>3. ASSUME NEW d \in Highest
      PROVE  filtered(Spine(d), {i \in DOMAIN Spine(d) : GenOf[Spine(d)[i]] = gen}) = HeadLineOf(d)
  <2>1. Len(d) \in Nat /\ Folds(d) /\ GenOf[HeadEvent(d)] = gen
    BY ValidChain
  <2>2. filtered(Spine(d), {i \in DOMAIN Spine(d) : GenOf[Spine(d)[i]] = GenOf[HeadEvent(d)]}) = HeadLineOf(d)
    BY <2>1, LineOfHead
  <2> QED BY <2>1, <2>2
<1>4. TopSpines = {HeadLineOf(d) : d \in Highest}
  BY <1>2, <1>3
<1>5. ASSUME NEW d \in Highest PROVE \E x \in Range(c) : x.line = HeadLineOf(d)
  <2>1. PICK i \in 1..Len(c) : HeadEvent(c[i].branch.chain) = HeadEvent(d)
    BY DEF Contest
  <2>2. c[i].branch.chain \in Valid /\ c[i].line = HeadLineOf(c[i].branch.chain)
    BY DEF Contest
  <2>3. HeadLineOf(c[i].branch.chain) = HeadLineOf(d)
    <3> DEFINE e == c[i].branch.chain
    <3>1. e \in Valid /\ d \in Valid /\ HeadEvent(e) = HeadEvent(d)
      BY <2>1, <2>2
    <3> HIDE DEF e
    <3>2. HeadLineOf(e) = HeadLineOf(d)
      BY <3>1, ValidChain, SameLine
    <3> QED BY <3>2 DEF e
  <2> QED BY <1>1, <2>2, <2>3
<1>6. ASSUME NEW x \in Range(c) PROVE \E d \in Highest : x.line = HeadLineOf(d)
  <2>1. PICK i \in 1..Len(c) : x = c[i]
    BY <1>1
  <2>2. /\ c[i].branch.chain \in Valid /\ GenOf[HeadEvent(c[i].branch.chain)] = gen
        /\ c[i].line = HeadLineOf(c[i].branch.chain)
    BY DEF Contest
  <2> QED BY <2>1, <2>2
<1> HIDE DEF Highest
<1>7. {HeadLineOf(d) : d \in Highest} = {x.line : x \in Range(c)}
  BY <1>5, <1>6
<1> QED BY <1>4, <1>7

(* What a contest comes to: a group of one wins, more are in conflict.     *)
LEMMA Concluded ==
    ASSUME NEW v, NEW kept
    PROVE  /\ Len(v) = 1 => concluded(v, kept).winner = v[1].branch.chain
           /\ Len(v) # 1 => /\ concluded(v, kept).winner = <<>>
                            /\ concluded(v, kept).fork = conflicting(v, divergence(v))
<1> DEFINE total == MapThenSumSet(LAMBDA b : lost(b, v[1].branch), Range(kept))
           one == v[1].branch.chain
           many == conflicting(v, divergence(v))
<1>1. concluded(v, kept) =
        IF Len(v) = 1 THEN [winner |-> one, fork |-> {}, superseded |-> total]
        ELSE [winner |-> <<>>, fork |-> many, superseded |-> 0]
  BY DEF concluded
<1> HIDE DEF total, one, many
<1>2. Len(v) = 1 => concluded(v, kept).winner = one
  BY <1>1
<1>3. Len(v) # 1 => concluded(v, kept).winner = <<>> /\ concluded(v, kept).fork = many
  BY <1>1
<1> QED BY <1>2, <1>3 DEF one, many

(* Lines below one line are comparable.                                    *)
LEMMA BelowOne ==
    ASSUME NEW a \in Seq(ChainEvent), NEW b \in Seq(ChainEvent), NEW e \in Seq(ChainEvent),
           Below(a, e), Below(b, e)
    PROVE  Below(a, b) \/ Below(b, a)
  BY DEF Below

(* Lines that differ at a place are not prefixes of each other.            *)
LEMMA DifferAt ==
    ASSUME NEW a \in Seq(ChainEvent), NEW b \in Seq(ChainEvent), NEW k \in Nat \ {0},
           k <= Len(a), k <= Len(b), a[k] # b[k]
    PROVE  Conflict(a, b)
<1>1. ~Below(a, b) /\ ~Below(b, a)
  BY DEF Below
<1> QED BY <1>1, PrefixIsBelow DEF Conflict

(* What a group that parts leaves: two events of one place of the          *)
(* generation, after the same event.                                       *)
LEMMA PartedFork ==
    ASSUME NEW X, NEW gen, Rivals(X, gen), NEW v \in Seq(X), Len(v) >= 1, Parted(v)
    PROVE  /\ Cardinality(conflicting(v, divergence(v))) = 2
           /\ \A d, e \in conflicting(v, divergence(v)) :
                 NumOf[d] = NumOf[e] /\ GenOf[d] = GenOf[e] /\ PrevOf[d] = PrevOf[e]
           /\ \E i \in 1..Len(v) : Conflict(v[1].line, v[i].line)
<1> DEFINE p == divergence(v)
           q == p + 1
           S == {x.line[q] : x \in Range(v)}
           M == Len(v)
<1>1. p \in Nat /\ \A i \in 1..M : p <= Len(v[i].line) /\ \A k \in 1..p : v[i].line[k] = v[1].line[k]
  BY GroupPoint
<1>2. (\A i \in 1..M : Len(v[i].line) > p) /\ \E i \in 1..M : v[1].line[q] # v[i].line[q]
  BY DEF Parted
<1>3. Range(v) = {v[i] : i \in 1..M} /\ Range(v) \subseteq X /\ M \in Nat
  BY RangeOf
<1>4. conflicting(v, p) = smallestTwo(S)
  BY DEF conflicting
<1> HIDE DEF p
<1>5. ASSUME NEW i \in 1..M
      PROVE  /\ v[i].line \in Seq(ChainEvent) /\ Len(v[i].line) \in Nat /\ q \in 1..Len(v[i].line)
             /\ v[i].line[q] \in ChainEvent
             /\ GenOf[v[i].line[q]] = gen /\ NumOf[v[i].line[q]] = p
  <2> DEFINE l == v[i].line
  <2>1. v[i] \in X
    BY <1>3
  <2>2. Numbered(l, gen)
    BY <2>1 DEF Rivals
  <2>3. Len(l) > p
    BY <1>2
  <2> HIDE DEF l
  <2>4. l \in Seq(ChainEvent) /\ \A k \in 1..Len(l) : GenOf[l[k]] = gen /\ NumOf[l[k]] = k - 1
    BY <2>2 DEF Numbered
  <2>5. Len(l) \in Nat /\ q \in 1..Len(l) /\ q - 1 = p
    BY <1>1, <2>3, <2>4
  <2>6. l[q] \in ChainEvent
    BY <2>4, <2>5
  <2> QED BY <2>4, <2>5, <2>6 DEF l
<1>6. ASSUME NEW i \in 1..M PROVE PrevOf[v[i].line[q]] = PrevOf[v[1].line[q]]
  <2> DEFINE a == v[1].line
             b == v[i].line
  <2>1. 1 \in 1..M
    BY <1>3
  <2>2. Numbered(a, gen) /\ Numbered(b, gen)
    BY <1>3, <2>1 DEF Rivals
  <2>3. q \in 1..Len(a) /\ q \in 1..Len(b) /\ Len(a) \in Nat /\ Len(b) \in Nat
    BY <1>5, <2>1
  <2>4. \A k \in 1..p : b[k] = a[k]
    BY <1>1
  <2>5. CASE p = 0
    <3>1. \A j \in 1..M : v[j].line[1] = Inception \/ PrevOf[v[j].line[1]] = Inception
      <4> TAKE j \in 1..M
      <4>1. v[j] \in X
        BY <1>3
      <4>2. Numbered(v[j].line, gen)
        BY <4>1 DEF Rivals
      <4> QED BY <4>2 DEF Numbered
    <3>2. gen # 0
      <4>1. ASSUME gen = 0 PROVE FALSE
        <5>1. ASSUME NEW j \in 1..M PROVE v[j].line[1] = Inception
          <6>1. v[j] \in X
            BY <1>3
          <6>2. Numbered(v[j].line, gen)
            BY <6>1 DEF Rivals
          <6> QED BY <4>1, <6>2 DEF Numbered
        <5>2. q = 1
          BY <2>5
        <5> QED BY <1>2, <2>1, <5>1, <5>2
      <4> QED BY <4>1
    <3>3. GenOf[Inception] = 0
      BY LogAssumption
    <3>4. q = 1
      BY <2>5
    <3>5. a[1] # Inception /\ b[1] # Inception
      BY <1>5, <2>1, <3>2, <3>3, <3>4
    <3> QED BY <2>1, <3>1, <3>4, <3>5
  <2>6. CASE p # 0
    <3>1. p \in 1..p /\ q \in 2..Len(a) /\ q \in 2..Len(b) /\ q - 1 = p
      BY <1>1, <2>3, <2>6
    <3> HIDE DEF a, b
    <3>2. PrevOf[a[q]] = a[p] /\ PrevOf[b[q]] = b[p]
      BY <2>2, <3>1 DEF Numbered
    <3>3. b[p] = a[p]
      BY <2>4, <3>1
    <3> QED BY <3>2, <3>3 DEF a, b
  <2> QED BY <2>5, <2>6
<1>7. S = {v[i].line[q] : i \in 1..M}
  BY <1>3
<1>8. PICK i \in 1..M : v[1].line[q] # v[i].line[q]
  BY <1>2
<1>9. 1 \in 1..M
  BY <1>3
<1>10. S \in SUBSET Nat /\ v[1].line[q] \in S /\ v[i].line[q] \in S
  <2>1. \A j \in 1..M : v[j].line[q] \in Nat
    BY <1>5, LogAssumption
  <2> QED BY <1>7, <1>8, <1>9, <2>1
<1>11. Conflict(v[1].line, v[i].line)
  <2> DEFINE a == v[1].line
             b == v[i].line
  <2>1. /\ a \in Seq(ChainEvent) /\ b \in Seq(ChainEvent) /\ q \in Nat \ {0} /\ q <= Len(a) /\ q <= Len(b)
        /\ a[q] # b[q]
    BY <1>1, <1>5, <1>8, <1>9
  <2> HIDE DEF a, b
  <2> QED BY <2>1, DifferAt DEF a, b
<1>12. \A d, e \in S : NumOf[d] = NumOf[e] /\ GenOf[d] = GenOf[e] /\ PrevOf[d] = PrevOf[e]
  <2>1. ASSUME NEW d \in S
        PROVE  NumOf[d] = p /\ GenOf[d] = gen /\ PrevOf[d] = PrevOf[v[1].line[q]]
    <3>1. PICK j \in 1..M : d = v[j].line[q]
      BY <1>7
    <3>2. NumOf[d] = p /\ GenOf[d] = gen
      BY <1>5, <3>1
    <3>3. PrevOf[d] = PrevOf[v[1].line[q]]
      BY <1>6, <3>1
    <3> QED BY <3>2, <3>3
  <2> QED BY <2>1
<1> DEFINE x == v[1].line[q]
           y == v[i].line[q]
<1> HIDE DEF S
<1>13. Cardinality(smallestTwo(S)) = 2 /\ smallestTwo(S) \subseteq S
  <2>1. x \in S /\ y \in S /\ x # y /\ S \in SUBSET Nat
    BY <1>8, <1>10
  <2> HIDE DEF x, y
  <2> QED BY <2>1, TwoSmallest
<1>14. conflicting(v, divergence(v)) = smallestTwo(S)
  BY <1>4 DEF p, S
<1> QED BY <1>8, <1>11, <1>12, <1>13, <1>14

(* A group of one that all others are below: no two lines contradict each  *)
(* other, and its line takes up where each of them ends.                   *)
LEMMA OneLeft ==
    ASSUME NEW L \in SUBSET Seq(ChainEvent), NEW e \in L, \A a \in L : Below(a, e)
    PROVE  /\ \A s, t \in L : ~Conflict(s, t)
           /\ \A s \in L : IsPrefix(s, e)
<1>1. ASSUME NEW s \in L, NEW t \in L PROVE ~Conflict(s, t)
  <2>1. s \in Seq(ChainEvent) /\ t \in Seq(ChainEvent) /\ e \in Seq(ChainEvent)
    OBVIOUS
  <2>2. Below(s, e) /\ Below(t, e)
    OBVIOUS
  <2>3. Below(s, t) \/ Below(t, s)
    BY <2>1, <2>2, BelowOne
  <2> QED BY <2>1, <2>3, PrefixIsBelow DEF Conflict
<1>2. ASSUME NEW s \in L PROVE IsPrefix(s, e)
  <2>1. s \in Seq(ChainEvent) /\ e \in Seq(ChainEvent) /\ Below(s, e)
    OBVIOUS
  <2> QED BY <2>1, PrefixIsBelow
<1> QED BY <1>1, <1>2

(* What resolveBranches says of chains that are event sequences.           *)
LEMMA WinnerOfAny ==
    ASSUME Collected PROVE WinnerByRules
<1> SUFFICES ASSUME Valid # {} PROVE WinnerByRules
  BY DEF WinnerByRules
<1> DEFINE kept == byHead(validBranches(presented))
           gen == topGen(kept)
           c == contestants(kept, gen)
           end == resolveContenders(c)
           result == resolveBranches(presented)
           lines == {x.line : x \in Range(c)}
           rest(w) == \A s \in TopSpines : \E n \in 0..Len(Spine(w)) :
                         IsPrefix(s, SubSeq(Spine(w), n + 1, Len(Spine(w))))
<1>1. kept # <<>> /\ gen = Max({GenOf[HeadEvent(d)] : d \in Valid}) /\ Contest(c, gen)
  BY ContestOf
<1>2. result = concluded(end, kept)
  BY <1>1 DEF resolveBranches, selectWinner
<1>3. WinnerByRules =
        IF \E s, t \in TopSpines : Conflict(s, t)
        THEN /\ result.winner = <<>>
             /\ Cardinality(result.fork) = 2
             /\ \A d, e \in result.fork :
                   NumOf[d] = NumOf[e] /\ GenOf[d] = GenOf[e] /\ PrevOf[d] = PrevOf[e]
        ELSE result.winner \in Valid /\ rest(result.winner)
  BY DEF WinnerByRules
<1> HIDE DEF result, kept, gen, c, rest
<1>4. Rivals(Range(c), gen) /\ Apart(c) /\ Range(c) = {c[i] : i \in 1..Len(c)} /\ Len(c) \in Nat
  BY <1>1, ContestRivals
<1>5. c \in Seq(Range(c)) /\ Len(c) >= 1
  BY <1>1 DEF Contest
<1>6. TopSpines = lines
  BY <1>1, ContestLines
<1>7. /\ end \in Seq(Range(c)) /\ Len(end) >= 1 /\ Range(end) \subseteq Range(c)
      /\ \A x \in Range(c) \ Range(end), y \in Range(end) : Below(x.line, y.line)
      /\ Len(end) = 1 \/ Parted(end)
  BY <1>4, <1>5, ResolveMany
<1> HIDE DEF end
<1>8. Range(end) = {end[i] : i \in 1..Len(end)} /\ Len(end) \in Nat
  BY <1>7, RangeOf
<1>9. \A x \in Range(c) : x.line \in Seq(ChainEvent)
  BY <1>4 DEF Rivals, Numbered
<1>10. CASE Len(end) = 1
  <2> DEFINE w == end[1]
             e == w.line
             d == w.branch.chain
  <2>1. Range(end) = {w} /\ w \in Range(c)
    BY <1>7, <1>8, <1>10
  <2>2. result.winner = d
    BY <1>2, <1>10, Concluded
  <2>3. PICK i \in 1..Len(c) : w = c[i]
    BY <1>4, <2>1
  <2> HIDE DEF w
  <2>4. d \in Valid /\ e = HeadLineOf(d)
    BY <1>1, <2>3 DEF Contest
  <2>5. \A x \in Range(c) : Below(x.line, e)
    <3>1. Below(e, e)
      BY <1>9, <2>1 DEF Below
    <3> QED BY <1>7, <2>1, <3>1
  <2>6. lines \in SUBSET Seq(ChainEvent) /\ e \in lines /\ \A a \in lines : Below(a, e)
    BY <1>9, <2>1, <2>5
  <2> HIDE DEF lines, e, d
  <2>7. (\A s, t \in lines : ~Conflict(s, t)) /\ \A s \in lines : IsPrefix(s, e)
    BY <2>6, OneLeft
  <2>8. \E n \in 0..Len(Spine(d)) : e = SubSeq(Spine(d), n + 1, Len(Spine(d)))
    <3>1. Len(d) \in Nat /\ Folds(d)
      BY <2>4, ValidChain
    <3> QED BY <2>4, <3>1, LineOfHead
  <2>9. rest(d)
    BY <1>6, <2>7, <2>8 DEF rest
  <2> QED BY <1>3, <1>6, <2>2, <2>4, <2>7, <2>9
<1>11. CASE Len(end) # 1
  <2>1. Parted(end)
    BY <1>7, <1>11
  <2> DEFINE fork == conflicting(end, divergence(end))
  <2>2. /\ Cardinality(fork) = 2
        /\ \A d, e \in fork : NumOf[d] = NumOf[e] /\ GenOf[d] = GenOf[e] /\ PrevOf[d] = PrevOf[e]
        /\ \E i \in 1..Len(end) : Conflict(end[1].line, end[i].line)
    BY <1>4, <1>7, <2>1, PartedFork
  <2>3. result.winner = <<>> /\ result.fork = fork
    BY <1>2, <1>11, Concluded
  <2> HIDE DEF fork
  <2>4. \E s, t \in TopSpines : Conflict(s, t)
    <3>1. PICK i \in 1..Len(end) : Conflict(end[1].line, end[i].line)
      BY <2>2
    <3>2. end[1] \in Range(c) /\ end[i] \in Range(c)
      BY <1>7, <1>8
    <3> QED BY <1>6, <3>1, <3>2
  <2> QED BY <1>3, <2>2, <2>3, <2>4
<1> QED BY <1>10, <1>11

(* Of whatever chains a party has collected, resolveBranches names the     *)
(* winner the branch rules name, and a fork exactly when two of the        *)
(* highest generation's histories contradict each other.                   *)
THEOREM WinnerAlwaysByRules == Spec => []WinnerByRules
<1>1. HistoryInv => Collected
  <2> SUFFICES ASSUME HistoryInv PROVE Collected
    OBVIOUS
  <2>1. world \in World /\ presented \in Seq(world.collected)
    BY DEF HistoryInv, Bounded
  <2>2. world.collected \subseteq Seq(ChainEvent)
    BY <2>1, HistoryAssumption
  <2> QED BY <2>1, <2>2, RangeOf DEF Collected
<1>2. HistoryInv => WinnerByRules
  BY <1>1, WinnerOfAny
<1> QED BY <1>2, HistoryInvariant, PTL

-----------------------------------------------------------------------------
(* The fold of an epoch: what comes before an event, and the state it is   *)
(* judged by.                                                              *)

Before(e) == {a \in Event : <<a, e>> \in Precedes}

(* The pairs that the events of a height add to those of lower ones.       *)
Linking(S, h) ==
    {r \in Event \X Event :
        /\ Height[r[2]] = h
        /\ \E p \in Parents[r[2]] : r[1] = p \/ <<r[1], p>> \in S}

(* Precedes, height by height.                                             *)
LEMMA PrecedesByHeight ==
    \E f : /\ f[0] = {} /\ Precedes = f[MaxHeight]
           /\ \A h \in 1..MaxHeight : f[h] = f[h - 1] \cup Linking(f[h - 1], h)
<1> DEFINE M == MaxHeight
           Body(u, h) == IF h = 0 THEN {} ELSE u[h - 1] \cup Linking(u[h - 1], h)
           upTo == CHOOSE u : u = [h \in 0..M |-> Body(u, h)]
           T == {n \in 0..M : \E u : u = [h \in 0..n |-> Body(u, h)]}
<1>1. M \in Nat
  BY Heights
<1>2. 0 \in T
  <2> DEFINE u == [h \in 0..0 |-> {}]
  <2>1. u = [h \in 0..0 |-> Body(u, h)]
    OBVIOUS
  <2> HIDE DEF u, Body
  <2> QED BY <1>1, <2>1
<1>3. ASSUME NEW n \in 0..(M - 1), n \in T
      PROVE  n + 1 \in T
  <2>1. PICK u : u = [h \in 0..n |-> Body(u, h)]
    BY <1>3
  <2> DEFINE v == [h \in 0..(n + 1) |-> IF h = n + 1 THEN Body(u, n + 1) ELSE u[h]]
  <2>2. ASSUME NEW h \in 0..(n + 1) PROVE v[h] = Body(v, h)
    <3>1. h # 0 => v[h - 1] = u[h - 1]
      OBVIOUS
    <3>2. Body(v, h) = Body(u, h)
      <4> HIDE DEF v
      <4> QED BY <3>1
    <3>3. h # n + 1 => u[h] = Body(u, h)
      <4> HIDE DEF Body
      <4> QED BY <2>1
    <3> HIDE DEF Body
    <3> QED BY <3>2, <3>3
  <2>3. v = [h \in 0..(n + 1) |-> Body(v, h)]
    <3>1. \A h \in 0..(n + 1) : v[h] = Body(v, h)
      BY <2>2
    <3> HIDE DEF Body
    <3> QED BY <3>1
  <2> HIDE DEF v, Body
  <2> QED BY <1>1, <2>3
<1>4. upTo = [h \in 0..M |-> Body(upTo, h)]
  <2>1. M \in T
    <3> HIDE DEF T
    <3>1. 0..M \subseteq T
      BY <1>1, <1>2, <1>3, StepByStep
    <3> QED BY <1>1, <3>1
  <2>2. \E u : u = [h \in 0..M |-> Body(u, h)]
    <3> HIDE DEF Body
    <3> QED BY <2>1
  <2> QED BY <2>2
<1>5. Precedes = upTo[M]
  BY DEF Precedes, Linking
<1> HIDE DEF upTo
<1>6. upTo[0] = {}
  <2>1. upTo[0] = Body(upTo, 0)
    <3> HIDE DEF Body
    <3> QED BY <1>1, <1>4
  <2> QED BY <2>1
<1>7. ASSUME NEW h \in 1..M PROVE upTo[h] = upTo[h - 1] \cup Linking(upTo[h - 1], h)
  <2>1. upTo[h] = Body(upTo, h)
    <3> HIDE DEF Body
    <3> QED BY <1>1, <1>4
  <2> QED BY <1>1, <2>1
<1>8. \A h \in 1..M : upTo[h] = upTo[h - 1] \cup Linking(upTo[h - 1], h)
  BY <1>7
<1> QED BY <1>5, <1>6, <1>8

(* What comes before an event is its parents and what comes before them.   *)
LEMMA PrecedesParents ==
    ASSUME NEW a \in Event, NEW e \in Event
    PROVE  <<a, e>> \in Precedes <=> \E p \in Parents[e] \cap Event : a = p \/ <<a, p>> \in Precedes
<1> DEFINE M == MaxHeight
<1>1. PICK f : /\ f[0] = {} /\ Precedes = f[M]
               /\ \A h \in 1..M : f[h] = f[h - 1] \cup Linking(f[h - 1], h)
  BY PrecedesByHeight
<1>2. M \in Nat /\ \A d \in Event : Height[d] \in 1..M
  BY Heights
<1> DEFINE Low(h) == {r \in Event \X Event : Height[r[2]] <= h}
           T == {h \in 0..M : f[h] \subseteq Low(h)}
           U == {h \in 0..M : \A j \in 0..h : f[h] \cap Low(j) = f[j]}
           New(h) == Linking(f[h - 1], h)
<1>3. 0..M \subseteq T
  <2>1. 0 \in T
    BY <1>1, <1>2
  <2>2. ASSUME NEW h \in 0..(M - 1), h \in T PROVE h + 1 \in T
    <3>1. h + 1 \in 1..M /\ (h + 1) - 1 = h
      BY <1>2
    <3>2. f[h + 1] = f[h] \cup New(h + 1)
      BY <1>1, <3>1
    <3>3. New(h + 1) \subseteq Low(h + 1) /\ Low(h) \subseteq Low(h + 1)
      BY <1>2, <3>1 DEF Linking
    <3> HIDE DEF New, Low
    <3> QED BY <1>2, <2>2, <3>1, <3>2, <3>3
  <2> HIDE DEF T
  <2> QED BY <1>2, <2>1, <2>2, StepByStep
<1>4. 0..M \subseteq U
  <2>1. 0 \in U
    <3>1. f[0] \cap Low(0) = f[0]
      BY <1>1
    <3> HIDE DEF Low
    <3> QED BY <1>2, <3>1
  <2>2. ASSUME NEW h \in 0..(M - 1), h \in U PROVE h + 1 \in U
    <3>1. h + 1 \in 1..M /\ (h + 1) - 1 = h /\ h + 1 \in 0..M
      BY <1>2
    <3>2. f[h + 1] = f[h] \cup New(h + 1)
      BY <1>1, <3>1
    <3>3. ASSUME NEW j \in 0..(h + 1) PROVE f[h + 1] \cap Low(j) = f[j]
      <4>1. CASE j = h + 1
        <5>1. f[h + 1] \subseteq Low(h + 1)
          BY <1>3, <3>1
        <5> HIDE DEF Low
        <5> QED BY <4>1, <5>1
      <4>2. CASE j \in 0..h
        <5>1. f[h] \cap Low(j) = f[j]
          BY <2>2, <4>2
        <5>2. New(h + 1) \cap Low(j) = {}
          BY <1>2, <3>1, <4>2 DEF Linking
        <5> HIDE DEF Low, New
        <5> QED BY <3>2, <5>1, <5>2
      <4> QED BY <4>1, <4>2
    <3> QED BY <3>1, <3>3
  <2> HIDE DEF U
  <2> QED BY <1>2, <2>1, <2>2, StepByStep
<1>5. M \in 0..M
  BY <1>2
<1>6. \A j \in 0..M : f[M] \cap Low(j) = f[j]
  BY <1>4, <1>5
<1> DEFINE h == Height[e]
<1>7. h \in 1..M /\ h \in 0..M /\ h - 1 \in 0..M /\ ~(h <= h - 1)
  BY <1>2
<1>8. f[h] = f[h - 1] \cup New(h)
  BY <1>1, <1>7
<1>9. <<a, e>> \in Precedes <=> <<a, e>> \in f[h]
  <2>1. <<a, e>> \in Low(h)
    BY <1>7
  <2> HIDE DEF Low, h
  <2> QED BY <1>1, <1>6, <1>7, <2>1
<1>10. <<a, e>> \notin f[h - 1]
  <2>1. <<a, e>> \notin Low(h - 1)
    BY <1>7
  <2> HIDE DEF Low, h
  <2> QED BY <1>6, <1>7, <2>1
<1>11. <<a, e>> \in f[h] <=> \E p \in Parents[e] : a = p \/ <<a, p>> \in f[h - 1]
  <2>1. <<a, e>> \in New(h) <=> \E p \in Parents[e] : a = p \/ <<a, p>> \in f[h - 1]
    BY DEF Linking
  <2> HIDE DEF New
  <2> QED BY <1>8, <1>10, <2>1
<1>12. \A p \in Parents[e] : (a = p \/ <<a, p>> \in f[h - 1]) <=> p \in Event /\ (a = p \/ <<a, p>> \in Precedes)
  <2> TAKE p \in Parents[e]
  <2>1. p \in Event => Height[p] < Height[e] /\ Height[p] \in Nat
    BY EpochAssumption
  <2>2. p \in Event => <<a, p>> \in Low(h - 1)
    BY <1>7, <2>1
  <2>3. <<a, p>> \in Low(h - 1) => p \in Event
    OBVIOUS
  <2> HIDE DEF Low, h
  <2> QED BY <1>1, <1>6, <1>7, <2>2, <2>3
<1> HIDE DEF h
<1> QED BY <1>9, <1>11, <1>12

-----------------------------------------------------------------------------
(* States of an epoch as the heads of sets of events.                      *)

(* An event's effect, and the state a chain event opens its epoch with.    *)
LEMMA EffectTypes ==
    /\ \A e \in Event : effect(e) \in EpochState
    /\ \A c \in ChainEvent : anchorState(c) \in EpochState
<1> DEFINE none == [i \in Incarnation |-> 0]
<1>1. emptyState \in EpochState
  BY DEF emptyState, EpochState
<1>2. ASSUME NEW e \in Event PROVE effect(e) \in EpochState
  <2>1. /\ Kind[e] \in {"add", "ren", "rmv", "rev"} /\ Names[e] \in Incarnation
        /\ Denies[e] \in Target /\ e \in Incarnation
    BY EpochAssumption DEF Incarnation
  <2>2. CASE Kind[e] = "rev"
    <3>1. effect(e) = [emptyState EXCEPT !.deny = {Denies[e]}]
      BY <2>2 DEF effect
    <3> QED BY <1>1, <2>1, <3>1 DEF EpochState
  <2>3. CASE Kind[e] = "add"
    <3>1. effect(e) = [emptyState EXCEPT !.added = {e}]
      BY <2>3 DEF effect
    <3> QED BY <1>1, <2>1, <3>1 DEF EpochState
  <2>4. CASE Kind[e] = "ren"
    <3>1. effect(e) = [emptyState EXCEPT !.leases[Names[e]] = LeaseOf[e]]
      BY <2>4 DEF effect
    <3>2. LeaseOf[e] \in Nat
      BY <2>1, EpochAssumption
    <3> QED BY <1>1, <2>1, <3>1, <3>2 DEF EpochState
  <2>5. CASE Kind[e] = "rmv"
    <3>1. effect(e) = [emptyState EXCEPT !.removed = {Names[e]}]
      BY <2>5 DEF effect
    <3> QED BY <1>1, <2>1, <3>1 DEF EpochState
  <2> QED BY <2>1, <2>2, <2>3, <2>4, <2>5
<1>3. ASSUME NEW c \in ChainEvent PROVE anchorState(c) \in EpochState
  <2>1. MembersAt[c] \subseteq Incarnation /\ DenyAt[c] \subseteq Target
    BY EpochAssumption DEF Incarnation, Adds
  <2> QED BY <1>1, <2>1 DEF anchorState, EpochState
<1> QED BY <1>2, <1>3

(* What an epoch starts from.                                              *)
LEMMA AnchorParts ==
    ASSUME NEW c \in ChainEvent
    PROVE  /\ anchorState(c).added = MembersAt[c] /\ anchorState(c).deny = DenyAt[c]
           /\ anchorState(c).removed = {} /\ \A i \in Incarnation : anchorState(c).leases[i] = 0
  BY DEF anchorState, emptyState

(* The greatest of a finite set, once named.                               *)
LEMMA GreatestIs ==
    ASSUME NEW S \in SUBSET Nat, NEW m \in S, \A x \in S : x <= m
    PROVE  Max(S) = m
<1>1. Max(S) \in S /\ \A y \in S : Max(S) >= y
  BY DEF Max
<1> DEFINE g == Max(S)
<1>2. g \in Nat /\ m \in Nat /\ g <= m /\ m <= g
  BY <1>1
<1> HIDE DEF g
<1> QED BY <1>2 DEF g

(* States that add, remove, renew and deny the same have the same join.    *)
LEMMA SameJoin ==
    ASSUME NEW S, NEW T,
           UNION {s.added : s \in S} = UNION {s.added : s \in T},
           UNION {s.removed : s \in S} = UNION {s.removed : s \in T},
           UNION {s.deny : s \in S} = UNION {s.deny : s \in T},
           \A i \in Incarnation : Max({0} \cup {s.leases[i] : s \in S}) = Max({0} \cup {s.leases[i] : s \in T})
    PROVE  Join(S) = Join(T)
<1> DEFINE L(X) == [i \in Incarnation |-> Max({0} \cup {s.leases[i] : s \in X})]
<1>1. L(S) = L(T)
  OBVIOUS
<1>2. \A X : Join(X) = [added |-> UNION {s.added : s \in X}, removed |-> UNION {s.removed : s \in X},
                        leases |-> L(X), deny |-> UNION {s.deny : s \in X}]
  BY DEF Join
<1> HIDE DEF L
<1> QED BY <1>1, <1>2

(* The fields of a join.                                                   *)
LEMMA JoinParts ==
    ASSUME NEW S, S \subseteq EpochState, IsFiniteSet(S)
    PROVE  /\ Join(S) \in EpochState
           /\ Join(S).added = UNION {s.added : s \in S}
           /\ Join(S).removed = UNION {s.removed : s \in S}
           /\ Join(S).deny = UNION {s.deny : s \in S}
           /\ \A i \in Incarnation :
                /\ Join(S).leases[i] \in {0} \cup {s.leases[i] : s \in S}
                /\ \A s \in S : s.leases[i] <= Join(S).leases[i]
<1> DEFINE l == [i \in Incarnation |-> Max({0} \cup {s.leases[i] : s \in S})]
<1>1. ASSUME NEW i \in Incarnation
      PROVE  /\ l[i] \in Nat /\ l[i] \in {0} \cup {s.leases[i] : s \in S}
             /\ \A s \in S : s.leases[i] <= l[i]
  <2> DEFINE X == {s.leases[i] : s \in S}
             h == [s \in S |-> s.leases[i]]
  <2>1. X \in SUBSET Nat
    BY DEF EpochState
  <2>2. h \in Surjection(S, X)
    BY DEF Surjection
  <2>3. IsFiniteSet(X)
    <3> HIDE DEF h, X
    <3> QED BY <2>2, FS_Surjection
  <2>4. {0} \cup X = X \cup {0} /\ {0} \cup X \in SUBSET Nat
    BY <2>1
  <2>5. l[i] = Max({0} \cup X)
    OBVIOUS
  <2>6. \A s \in S : s.leases[i] \in X
    OBVIOUS
  <2> HIDE DEF X, h, l
  <2>7. IsFiniteSet({0} \cup X) /\ {0} \cup X # {}
    BY <2>3, <2>4, FS_AddElement
  <2>8. l[i] \in {0} \cup X /\ \A x \in {0} \cup X : x <= l[i]
    BY <2>4, <2>5, <2>7, Greatest
  <2>9. l[i] \in Nat /\ l[i] \in {0} \cup X
    BY <2>4, <2>8
  <2>10. ASSUME NEW s \in S PROVE s.leases[i] <= l[i]
    BY <2>6, <2>8
  <2> QED BY <2>9, <2>10 DEF X
<1>2. Join(S) = [added |-> UNION {s.added : s \in S}, removed |-> UNION {s.removed : s \in S},
                 leases |-> l, deny |-> UNION {s.deny : s \in S}]
  BY DEF Join
<1>3. l \in [Incarnation -> Nat]
  <2>1. \A i \in Incarnation : l[i] \in Nat
    BY <1>1
  <2> QED BY <2>1
<1>4. /\ UNION {s.added : s \in S} \subseteq Incarnation /\ UNION {s.removed : s \in S} \subseteq Incarnation
      /\ UNION {s.deny : s \in S} \subseteq Target
  BY DEF EpochState
<1> DEFINE a == UNION {s.added : s \in S}
           r == UNION {s.removed : s \in S}
           d == UNION {s.deny : s \in S}
           j == Join(S)
<1>5. j = [added |-> a, removed |-> r, leases |-> l, deny |-> d]
  BY <1>2
<1> HIDE DEF l, a, r, d, j
<1>6. j \in EpochState /\ j.added = a /\ j.removed = r /\ j.deny = d /\ j.leases = l
  <2>1. a \in SUBSET Incarnation /\ r \in SUBSET Incarnation /\ d \in SUBSET Target
    BY <1>4 DEF a, r, d
  <2> QED BY <1>3, <1>5, <2>1 DEF EpochState
<1> QED BY <1>1, <1>6 DEF a, r, d, j

(* HeadOf, field by field.                                                 *)
LEMMA HeadParts ==
    ASSUME NEW c \in ChainEvent, NEW E \in SUBSET Event
    PROVE  /\ HeadOf(c, E) \in EpochState
           /\ HeadOf(c, E).added = MembersAt[c] \cup UNION {effect(e).added : e \in E}
           /\ HeadOf(c, E).removed = UNION {effect(e).removed : e \in E}
           /\ HeadOf(c, E).deny = DenyAt[c] \cup UNION {effect(e).deny : e \in E}
           /\ \A i \in Incarnation :
                /\ HeadOf(c, E).leases[i] \in {0} \cup {effect(e).leases[i] : e \in E}
                /\ \A e \in E : effect(e).leases[i] <= HeadOf(c, E).leases[i]
<1> DEFINE F == {effect(e) : e \in E}
           a == anchorState(c)
           S == {a} \cup F
           j == HeadOf(c, E)
           h == [e \in E |-> effect(e)]
<1>1. a \in EpochState /\ F \subseteq EpochState
  BY EffectTypes
<1>2. IsFiniteSet(F)
  <2>1. IsFiniteSet(E)
    BY EpochAssumption, FS_Subset
  <2>2. h \in Surjection(E, F)
    BY DEF Surjection
  <2> HIDE DEF h, F
  <2> QED BY <2>1, <2>2, FS_Surjection
<1>3. a.added = MembersAt[c] /\ a.deny = DenyAt[c] /\ a.removed = {} /\ \A i \in Incarnation : a.leases[i] = 0
  BY AnchorParts
<1>4. j = Join(S)
  BY DEF HeadOf
<1>5. \A e \in E : effect(e) \in F
  OBVIOUS
<1>6. S \subseteq EpochState /\ IsFiniteSet(S)
  <2>1. S = F \cup {a}
    OBVIOUS
  <2> HIDE DEF F, a, S
  <2> QED BY <1>1, <1>2, <2>1, FS_AddElement
<1>7. /\ UNION {s.added : s \in F} = UNION {effect(e).added : e \in E}
      /\ UNION {s.removed : s \in F} = UNION {effect(e).removed : e \in E}
      /\ UNION {s.deny : s \in F} = UNION {effect(e).deny : e \in E}
  OBVIOUS
<1>8. \A i : {s.leases[i] : s \in F} = {effect(e).leases[i] : e \in E}
  OBVIOUS
<1> HIDE DEF F, a, j, S
<1>9. /\ j \in EpochState
      /\ j.added = UNION {s.added : s \in S}
      /\ j.removed = UNION {s.removed : s \in S}
      /\ j.deny = UNION {s.deny : s \in S}
      /\ \A i \in Incarnation :
           /\ j.leases[i] \in {0} \cup {s.leases[i] : s \in S}
           /\ \A s \in S : s.leases[i] <= j.leases[i]
  BY <1>4, <1>6, JoinParts
<1>10. /\ UNION {s.added : s \in S} = a.added \cup UNION {s.added : s \in F}
       /\ UNION {s.removed : s \in S} = a.removed \cup UNION {s.removed : s \in F}
       /\ UNION {s.deny : s \in S} = a.deny \cup UNION {s.deny : s \in F}
  BY DEF S
<1>11. /\ j.added = MembersAt[c] \cup UNION {effect(e).added : e \in E}
       /\ j.removed = UNION {effect(e).removed : e \in E}
       /\ j.deny = DenyAt[c] \cup UNION {effect(e).deny : e \in E}
  BY <1>3, <1>7, <1>9, <1>10
<1>12. ASSUME NEW i \in Incarnation
       PROVE  /\ j.leases[i] \in {0} \cup {effect(e).leases[i] : e \in E}
              /\ \A e \in E : effect(e).leases[i] <= j.leases[i]
  <2>1. {s.leases[i] : s \in S} = {a.leases[i]} \cup {s.leases[i] : s \in F}
    BY DEF S
  <2>2. {0} \cup {s.leases[i] : s \in S} = {0} \cup {effect(e).leases[i] : e \in E}
    BY <1>3, <1>8, <2>1
  <2>3. \A e \in E : effect(e) \in S
    BY <1>5 DEF S
  <2> QED BY <1>9, <2>2, <2>3
<1> QED BY <1>9, <1>11, <1>12 DEF j

(* The join of the heads of several sets is the head of their union.       *)
LEMMA JoinOfHeads ==
    ASSUME NEW c \in ChainEvent, NEW EE \in SUBSET SUBSET Event, EE # {}
    PROVE  Join({HeadOf(c, E) : E \in EE}) = HeadOf(c, UNION EE)
<1> DEFINE U == UNION EE
           S == {HeadOf(c, E) : E \in EE}
           T == {anchorState(c)} \cup {effect(e) : e \in U}
<1>1. U \in SUBSET Event /\ \A E \in EE : E \in SUBSET Event
  OBVIOUS
<1>2. HeadOf(c, U) = Join(T)
  BY DEF HeadOf
<1>3. IsFiniteSet(U) /\ IsFiniteSet(EE)
  <2>1. IsFiniteSet(Event)
    BY EpochAssumption
  <2>2. IsFiniteSet(SUBSET Event)
    BY <2>1, FS_SUBSET
  <2>3. EE \subseteq SUBSET Event
    OBVIOUS
  <2> QED BY <1>1, <2>1, <2>2, <2>3, FS_Subset
<1>4. \A E \in EE :
         /\ HeadOf(c, E).added = MembersAt[c] \cup UNION {effect(e).added : e \in E}
         /\ HeadOf(c, E).removed = UNION {effect(e).removed : e \in E}
         /\ HeadOf(c, E).deny = DenyAt[c] \cup UNION {effect(e).deny : e \in E}
  BY <1>1, HeadParts
<1>5. anchorState(c).added = MembersAt[c] /\ anchorState(c).deny = DenyAt[c] /\ anchorState(c).removed = {}
  BY AnchorParts
<1>6. UNION {s.added : s \in S} = UNION {s.added : s \in T}
  <2>1. UNION {s.added : s \in S} = UNION {HeadOf(c, E).added : E \in EE}
    OBVIOUS
  <2>2. UNION {s.added : s \in T} = anchorState(c).added \cup UNION {effect(e).added : e \in U}
    OBVIOUS
  <2>3. UNION {HeadOf(c, E).added : E \in EE} = MembersAt[c] \cup UNION {effect(e).added : e \in U}
    <3>1. ASSUME NEW x, x \in UNION {HeadOf(c, E).added : E \in EE}
          PROVE  x \in MembersAt[c] \cup UNION {effect(e).added : e \in U}
      BY <1>4, <3>1
    <3>2. ASSUME NEW x, x \in MembersAt[c] \cup UNION {effect(e).added : e \in U}
          PROVE  x \in UNION {HeadOf(c, E).added : E \in EE}
      BY <1>4, <3>2
    <3> QED BY <3>1, <3>2
  <2> QED BY <1>5, <2>1, <2>2, <2>3
<1>7. UNION {s.deny : s \in S} = UNION {s.deny : s \in T}
  <2>1. UNION {s.deny : s \in S} = UNION {HeadOf(c, E).deny : E \in EE}
    OBVIOUS
  <2>2. UNION {s.deny : s \in T} = anchorState(c).deny \cup UNION {effect(e).deny : e \in U}
    OBVIOUS
  <2>3. UNION {HeadOf(c, E).deny : E \in EE} = DenyAt[c] \cup UNION {effect(e).deny : e \in U}
    <3>1. ASSUME NEW x, x \in UNION {HeadOf(c, E).deny : E \in EE}
          PROVE  x \in DenyAt[c] \cup UNION {effect(e).deny : e \in U}
      BY <1>4, <3>1
    <3>2. ASSUME NEW x, x \in DenyAt[c] \cup UNION {effect(e).deny : e \in U}
          PROVE  x \in UNION {HeadOf(c, E).deny : E \in EE}
      BY <1>4, <3>2
    <3> QED BY <3>1, <3>2
  <2> QED BY <1>5, <2>1, <2>2, <2>3
<1>8. UNION {s.removed : s \in S} = UNION {s.removed : s \in T}
  <2>1. UNION {s.removed : s \in S} = UNION {HeadOf(c, E).removed : E \in EE}
    OBVIOUS
  <2>2. UNION {s.removed : s \in T} = anchorState(c).removed \cup UNION {effect(e).removed : e \in U}
    OBVIOUS
  <2>3. UNION {HeadOf(c, E).removed : E \in EE} = UNION {effect(e).removed : e \in U}
    <3>1. ASSUME NEW x, x \in UNION {HeadOf(c, E).removed : E \in EE}
          PROVE  x \in UNION {effect(e).removed : e \in U}
      BY <1>4, <3>1
    <3>2. ASSUME NEW x, x \in UNION {effect(e).removed : e \in U}
          PROVE  x \in UNION {HeadOf(c, E).removed : E \in EE}
      BY <1>4, <3>2
    <3> QED BY <3>1, <3>2
  <2> QED BY <1>5, <2>1, <2>2, <2>3
<1>9. ASSUME NEW i \in Incarnation
      PROVE  Max({0} \cup {s.leases[i] : s \in S}) = Max({0} \cup {s.leases[i] : s \in T})
  <2> DEFINE X == {0} \cup {s.leases[i] : s \in S}
             Y == {0} \cup {s.leases[i] : s \in T}
             m == HeadOf(c, U).leases[i]
             eff(e) == effect(e).leases[i]
             head(E) == HeadOf(c, E).leases[i]
  <2>1. \A e \in Event : eff(e) \in Nat
    BY EffectTypes DEF EpochState
  <2>2. \A E \in EE : head(E) \in {0} \cup {eff(e) : e \in E} /\ \A e \in E : eff(e) <= head(E)
    BY <1>1, HeadParts
  <2>3. m \in {0} \cup {eff(e) : e \in U} /\ \A e \in U : eff(e) <= m
    BY <1>1, HeadParts
  <2>4. X = {0} \cup {head(E) : E \in EE}
    OBVIOUS
  <2>5. Y = {0} \cup {eff(e) : e \in U}
    <3>1. anchorState(c).leases[i] = 0
      BY AnchorParts
    <3> QED BY <3>1
  <2> HIDE DEF X, Y, m, eff, head, U
  <2>6. m \in Nat /\ \A E \in EE : head(E) \in Nat
    <3>1. m \in Nat
      <4>1. CASE m = 0
        BY <4>1
      <4>2. CASE m # 0
        <5>1. PICK e \in U : m = eff(e)
          BY <2>3, <4>2
        <5> QED BY <1>1, <2>1, <5>1
      <4> QED BY <4>1, <4>2
    <3>2. ASSUME NEW E \in EE PROVE head(E) \in Nat
      BY <1>1, <2>1, <2>2
    <3> QED BY <3>1, <3>2
  <2>7. Max(Y) = m
    <3>1. Y \in SUBSET Nat /\ m \in Y /\ \A x \in Y : x <= m
      BY <1>1, <2>1, <2>3, <2>5, <2>6
    <3> QED BY <3>1, GreatestIs
  <2>8. Max(X) = m
    <3>1. X \in SUBSET Nat
      BY <2>4, <2>6
    <3>2. \A E \in EE : head(E) <= m
      <4> TAKE E \in EE
      <4>1. CASE head(E) = 0
        BY <2>6, <4>1
      <4>2. CASE head(E) # 0
        <5>1. PICK e \in E : head(E) = eff(e)
          BY <2>2, <4>2
        <5>2. e \in U
          BY DEF U
        <5> QED BY <2>3, <5>1, <5>2
      <4> QED BY <4>1, <4>2
    <3>3. m \in X
      <4>1. CASE m = 0
        BY <2>4, <4>1
      <4>2. CASE m # 0
        <5>1. PICK e \in U : m = eff(e)
          BY <2>3, <4>2
        <5>2. PICK E \in EE : e \in E
          BY <5>1 DEF U
        <5>3. m <= head(E)
          BY <2>2, <5>1, <5>2
        <5>4. head(E) = m
          BY <2>6, <3>2, <5>3
        <5> QED BY <2>4, <5>4
      <4> QED BY <4>1, <4>2
    <3>4. \A x \in X : x <= m
      BY <2>4, <2>6, <3>2
    <3> QED BY <3>1, <3>3, <3>4, GreatestIs
  <2> QED BY <2>7, <2>8 DEF X, Y
<1> HIDE DEF S, T, U
<1>10. Join(S) = Join(T)
  BY <1>6, <1>7, <1>8, <1>9, SameJoin
<1> QED BY <1>2, <1>10 DEF S, U

(* Nothing but the snapshot makes a head.                                  *)
LEMMA EmptyHead ==
    ASSUME NEW c \in ChainEvent PROVE HeadOf(c, {}) = anchorState(c)
<1> DEFINE a == anchorState(c)
           l == [i \in Incarnation |-> Max({0} \cup {s.leases[i] : s \in {a}})]
<1>1. HeadOf(c, {}) = Join({a})
  <2>1. {anchorState(c)} \cup {effect(e) : e \in {}} = {a}
    OBVIOUS
  <2> QED BY <2>1 DEF HeadOf
<1>2. a = [added |-> MembersAt[c], removed |-> {}, leases |-> [i \in Incarnation |-> 0], deny |-> DenyAt[c]]
  <2>1. a \in EpochState
    BY EffectTypes
  <2>2. a.added = MembersAt[c] /\ a.deny = DenyAt[c] /\ a.removed = {} /\ \A i \in Incarnation : a.leases[i] = 0
    BY AnchorParts
  <2> HIDE DEF a, l
  <2>3. a.leases \in [Incarnation -> Nat] /\ a = [added |-> a.added, removed |-> a.removed, leases |-> a.leases, deny |-> a.deny]
    BY <2>1 DEF EpochState
  <2>4. a.leases = [i \in Incarnation |-> 0]
    BY <2>2, <2>3
  <2> QED BY <2>2, <2>3, <2>4
<1>3. l = [i \in Incarnation |-> 0]
  <2>1. ASSUME NEW i \in Incarnation PROVE Max({0} \cup {s.leases[i] : s \in {a}}) = 0
    <3>1. {0} \cup {s.leases[i] : s \in {a}} = {0}
      BY <1>2
    <3>2. Max({0}) = 0
      BY GreatestIs
    <3> QED BY <3>1, <3>2
  <2> QED BY <2>1
<1>4. Join({a}) = [added |-> UNION {s.added : s \in {a}}, removed |-> UNION {s.removed : s \in {a}},
                   leases |-> l, deny |-> UNION {s.deny : s \in {a}}]
  BY DEF Join
<1> HIDE DEF l
<1>5. /\ UNION {s.added : s \in {a}} = MembersAt[c] /\ UNION {s.removed : s \in {a}} = {}
      /\ UNION {s.deny : s \in {a}} = DenyAt[c]
  BY <1>2
<1> HIDE DEF a
<1>6. Join({a}) = a
  BY <1>2, <1>3, <1>4, <1>5
<1> QED BY <1>1, <1>6 DEF a

(* An event that applies joins a head.                                     *)
LEMMA JoinEffect ==
    ASSUME NEW c \in ChainEvent, NEW E \in SUBSET Event, NEW e \in Event
    PROVE  Join({HeadOf(c, E), effect(e)}) = HeadOf(c, E \cup {e})
<1> DEFINE h == HeadOf(c, E)
           f == effect(e)
           g == HeadOf(c, {e})
           S == {h, f}
           T == {h, g}
           EE == {E, {e}}
<1>1. EE \in SUBSET SUBSET Event /\ EE # {} /\ UNION EE = E \cup {e} /\ {HeadOf(c, D) : D \in EE} = T
  OBVIOUS
<1>2. Join(T) = HeadOf(c, E \cup {e})
  <2> HIDE DEF EE, T
  <2> QED BY <1>1, JoinOfHeads
<1>3. h.added = MembersAt[c] \cup UNION {effect(d).added : d \in E} /\ h.deny = DenyAt[c] \cup UNION {effect(d).deny : d \in E}
  BY HeadParts
<1>4. /\ g.added = MembersAt[c] \cup f.added /\ g.removed = f.removed /\ g.deny = DenyAt[c] \cup f.deny
      /\ \A i \in Incarnation : g.leases[i] \in {0, f.leases[i]} /\ f.leases[i] <= g.leases[i]
  <2>1. {e} \in SUBSET Event
    OBVIOUS
  <2>2. /\ g.added = MembersAt[c] \cup UNION {effect(d).added : d \in {e}}
        /\ g.removed = UNION {effect(d).removed : d \in {e}}
        /\ g.deny = DenyAt[c] \cup UNION {effect(d).deny : d \in {e}}
        /\ \A i \in Incarnation :
                /\ g.leases[i] \in {0} \cup {effect(d).leases[i] : d \in {e}}
                /\ \A d \in {e} : effect(d).leases[i] <= g.leases[i]
    BY <2>1, HeadParts
  <2>3. /\ UNION {effect(d).added : d \in {e}} = f.added /\ UNION {effect(d).removed : d \in {e}} = f.removed
        /\ UNION {effect(d).deny : d \in {e}} = f.deny
        /\ \A i : {effect(d).leases[i] : d \in {e}} = {f.leases[i]}
    OBVIOUS
  <2> HIDE DEF f, g
  <2>4. ASSUME NEW i \in Incarnation PROVE g.leases[i] \in {0, f.leases[i]} /\ f.leases[i] <= g.leases[i]
    <3>1. f = effect(e)
      BY DEF f
    <3> QED BY <2>2, <2>3, <3>1
  <2> QED BY <2>2, <2>3, <2>4
<1>5. \A i \in Incarnation : f.leases[i] \in Nat
  BY EffectTypes DEF EpochState
<1> HIDE DEF h, f, g
<1>6. \A i \in Incarnation : g.leases[i] = f.leases[i]
  <2> TAKE i \in Incarnation
  <2>1. f.leases[i] \in Nat /\ g.leases[i] \in {0, f.leases[i]} /\ f.leases[i] <= g.leases[i]
    BY <1>4, <1>5
  <2> QED BY <2>1
<1>7. /\ UNION {s.added : s \in S} = UNION {s.added : s \in T}
      /\ UNION {s.removed : s \in S} = UNION {s.removed : s \in T}
      /\ UNION {s.deny : s \in S} = UNION {s.deny : s \in T}
  <2>1. h.added \cup f.added = h.added \cup g.added
    BY <1>3, <1>4
  <2>2. h.deny \cup f.deny = h.deny \cup g.deny
    BY <1>3, <1>4
  <2>3. h.removed \cup f.removed = h.removed \cup g.removed
    BY <1>4
  <2> QED BY <2>1, <2>2, <2>3
<1>8. \A i \in Incarnation : Max({0} \cup {s.leases[i] : s \in S}) = Max({0} \cup {s.leases[i] : s \in T})
  <2> TAKE i \in Incarnation
  <2>1. {s.leases[i] : s \in S} = {h.leases[i], f.leases[i]} /\ {s.leases[i] : s \in T} = {h.leases[i], g.leases[i]}
    OBVIOUS
  <2> HIDE DEF S, T
  <2> QED BY <1>6, <2>1
<1> HIDE DEF S, T
<1>9. Join(S) = Join(T)
  BY <1>7, <1>8, SameJoin
<1> QED BY <1>2, <1>9 DEF S, h, f

(* The state an event is judged by is the join of its parents' states.     *)
LEMMA PastFromParents ==
    ASSUME NEW c \in ChainEvent, NEW e \in Event, Parents[e] \subseteq Event \cup {c}
    PROVE  /\ Past[c][e] = HeadOf(c, Before(e)) /\ Before(e) \in SUBSET Event
           /\ Join({HeadOf(c, Before(p) \cup {p}) : p \in Parents[e] \cap Event}
                   \cup {anchorState(p) : p \in Parents[e] \cap {c}}) = Past[c][e]
<1> DEFINE P == Parents[e] \cap Event
           A == {Before(p) \cup {p} : p \in P}
           B == {{} : p \in Parents[e] \cap {c}}
           EE == A \cup B
           S == {HeadOf(c, Before(p) \cup {p}) : p \in P} \cup {anchorState(p) : p \in Parents[e] \cap {c}}
<1>1. Past[c][e] = HeadOf(c, Before(e)) /\ Before(e) \in SUBSET Event
  BY DEF Past, HeadOf, Before
<1>2. UNION EE = Before(e)
  <2>1. \A a \in Event : a \in Before(e) <=> \E p \in P : a = p \/ a \in Before(p)
    BY PrecedesParents DEF Before
  <2>2. UNION B = {} /\ UNION EE = UNION A \cup UNION B
    OBVIOUS
  <2>3. UNION A = Before(e)
    <3>1. \A a : a \in UNION A <=> \E p \in P : a = p \/ a \in Before(p)
      OBVIOUS
    <3>2. \A a : a \in Before(e) => a \in Event
      BY DEF Before
    <3>3. \A p : \A a : a \in Before(p) => a \in Event
      BY DEF Before
    <3> HIDE DEF A
    <3> QED BY <2>1, <3>1, <3>2, <3>3
  <2> QED BY <2>2, <2>3
<1>3. EE \in SUBSET SUBSET Event
  BY DEF Before
<1>4. EE # {}
  <2>1. Parents[e] # {}
    BY EpochAssumption
  <2>2. PICK p \in Parents[e] : TRUE
    BY <2>1
  <2>3. CASE p \in Event
    <3>1. Before(p) \cup {p} \in A
      BY <2>2, <2>3
    <3> HIDE DEF A, B
    <3> QED BY <3>1
  <2>4. CASE p = c
    <3>1. {} \in B
      BY <2>2, <2>4
    <3> HIDE DEF A, B
    <3> QED BY <3>1
  <2> QED BY <2>3, <2>4
<1>5. {HeadOf(c, E) : E \in EE} = S
  <2>1. {HeadOf(c, E) : E \in A} = {HeadOf(c, Before(p) \cup {p}) : p \in P}
    OBVIOUS
  <2>2. {HeadOf(c, E) : E \in B} = {anchorState(p) : p \in Parents[e] \cap {c}}
    <3>1. HeadOf(c, {}) = anchorState(c)
      BY EmptyHead
    <3> QED BY <3>1
  <2>3. {HeadOf(c, E) : E \in EE} = {HeadOf(c, E) : E \in A} \cup {HeadOf(c, E) : E \in B}
    <3> HIDE DEF A, B
    <3> QED OBVIOUS
  <2> QED BY <2>1, <2>2, <2>3
<1> HIDE DEF EE, S
<1>6. Join(S) = HeadOf(c, UNION EE)
  BY <1>3, <1>4, <1>5, JoinOfHeads
<1> QED BY <1>1, <1>2, <1>6 DEF S

-----------------------------------------------------------------------------
(* The invariant of the fold.                                              *)

evaluated == {e \in candidates : waiting[e] = 0} \ ready

Right == Applies(Anchor, memory, shown)

Triaged ==
    LET own == Own(Anchor, memory \cup shown)
    IN  candidates = own \ crossEpoch(own, shown) /\ ready \subseteq candidates

(* A candidate waits for its parents that have not applied.                *)
Awaits ==
    /\ DOMAIN waiting = candidates
    /\ \A d \in candidates : waiting[d] = Cardinality(Parents[d] \ (Range(applied) \cup {Anchor}))
    /\ \A d \in ready : waiting[d] = 0

(* The state after an event is held while some child has yet to be         *)
(* evaluated.                                                              *)
StatesHeld ==
    /\ DOMAIN after = {p \in Range(applied) : children(p) \ evaluated # {}}
    /\ DOMAIN unread = DOMAIN after
    /\ \A p \in DOMAIN after :
         /\ after[p] = HeadOf(Anchor, Before(p) \cup {p})
         /\ unread[p] = Cardinality(children(p) \ evaluated)

(* A sequence of events in the order the reference counts them in.         *)
Ordered(s, E) ==
    /\ s \in Seq(E)
    /\ \A n \in 1..Len(s) :
         LET S == {s[k] : k \in 1..(n - 1)}
         IN  s[n] \notin S /\ s[n] = NextOf(Anchor, E, S)

InOrder == Ordered(applied, Right)

Authenticated ==
    /\ DOMAIN authentic = Range(applied)
    /\ \A e \in Range(applied) : authentic[e] = KeptCopy(e, memory, shown)

Folding ==
    /\ Triaged /\ Awaits /\ StatesHeld /\ InOrder /\ Authenticated
    /\ Range(applied) = evaluated \cap Right
    /\ union = HeadOf(Anchor, Range(applied))

(* The last answer tells of what is remembered.                            *)
Answered ==
    /\ answer.head = HeadOf(Anchor, answer.applied)
    /\ answer.applied \in SUBSET Event
    /\ answer.saturated <=> Saturates(memory)
    /\ ~answer.saturated => answer.applied = EventsOf(memory)

FoldInv ==
    /\ Epochal(Anchor, memory) /\ memory \subseteq Genuine /\ shown \subseteq Copy
    /\ Answered
    /\ pc = "fold" => Folding

-----------------------------------------------------------------------------
(* One evaluation of the fold.                                             *)

(* The anchor is an event of the chain and none of the epoch.              *)
LEMMA AnchorApart ==
    Anchor \in ChainEvent /\ Anchor \notin Event
  BY FoldAssumption, EpochAssumption DEF Incarnation

(* Only candidates are right, and they are when what applies allows them.  *)
LEMMA RightFacts ==
    ASSUME FoldInv, pc = "fold"
    PROVE  /\ candidates \in SUBSET Event /\ IsFiniteSet(candidates)
           /\ Right \subseteq candidates
           /\ \A e \in candidates : e \in Right <=> Applicable(Anchor, memory, shown, e, Right)
<1> DEFINE own == Own(Anchor, memory \cup shown)
<1>1. memory \cup shown \subseteq Copy /\ candidates = own \ crossEpoch(own, shown)
  BY DEF FoldInv, Folding, Triaged, Epochal
<1>2. own \subseteq Event
  BY <1>1, OwnEvents
<1>3. /\ Right \subseteq own
      /\ \A e \in own : e \in Right <=> Applicable(Anchor, memory, shown, e, Right)
  BY <1>2, AnchorApart, AppliesFixpoint DEF Right
<1>4. ASSUME NEW e \in Right PROVE e \notin crossEpoch(own, shown)
  <2>1. Parents[e] \subseteq Right \cup {Anchor}
    BY <1>3 DEF Applicable
  <2>2. Parents[e] \ (own \cup {Anchor}) = {}
    BY <1>3, <2>1
  <2> HIDE DEF own
  <2> QED BY <2>2 DEF crossEpoch
<1>5. IsFiniteSet(candidates)
  BY <1>1, <1>2, FS_Subset, EpochAssumption
<1> HIDE DEF own
<1> QED BY <1>1, <1>2, <1>3, <1>4, <1>5

(* A candidate waits for nothing when all its parents have applied.        *)
LEMMA WaitsForNone ==
    ASSUME FoldInv, pc = "fold", NEW d \in candidates
    PROVE  waiting[d] \in Nat /\ (waiting[d] = 0 <=> Parents[d] \subseteq Range(applied) \cup {Anchor})
<1> DEFINE W == Parents[d] \ (Range(applied) \cup {Anchor})
<1>1. d \in Event /\ IsFiniteSet(Parents[d])
  BY RightFacts, EpochAssumption
<1>2. waiting[d] = Cardinality(W)
  BY DEF FoldInv, Folding, Awaits
<1>3. IsFiniteSet(W)
  BY <1>1, FS_Subset
<1>4. W = {} <=> Parents[d] \subseteq Range(applied) \cup {Anchor}
  OBVIOUS
<1> HIDE DEF W
<1> QED BY <1>2, <1>3, <1>4, FS_EmptySet, FS_CardinalityType

(* The fold evaluates the smallest of the ready events.                    *)
LEMMA SmallestReady ==
    ASSUME FoldInv, pc = "fold", ready # {}, NEW e, e = Smallest(ready)
    PROVE  e \in ready /\ \A d \in ready : e <= d
<1>1. ready \in SUBSET Nat
  BY RightFacts, EpochAssumption DEF FoldInv, Folding, Triaged
<1>2. \E x \in ready : \A y \in ready : x <= y
  BY <1>1, LeastNatural
<1> QED BY <1>2 DEF Smallest

(* An event is judged by its causal past, and passes when it is right.     *)
LEMMA JudgedRight ==
    ASSUME FoldInv, pc = "fold", ready # {}, NEW e, e = Smallest(ready)
    PROVE  /\ e \in candidates /\ e \in Event /\ e \notin Range(applied) /\ e \notin evaluated
           /\ Parents[e] \subseteq Range(applied) \cup {Anchor} /\ waiting[e] = 0
           /\ causal(e) = Past[Anchor][e]
           /\ passes(e) <=> e \in Right
<1>1. e \in ready /\ e \in candidates /\ e \in Event /\ waiting[e] = 0
  BY SmallestReady, RightFacts DEF FoldInv, Folding, Triaged, Awaits
<1>2. e \notin evaluated
  BY <1>1 DEF evaluated
<1>3. e \notin Range(applied)
  BY <1>2 DEF FoldInv, Folding
<1>4. Parents[e] \subseteq Range(applied) \cup {Anchor}
  BY <1>1, WaitsForNone
<1>5. Range(applied) \subseteq Right /\ Range(applied) \subseteq Event
  BY RightFacts DEF FoldInv, Folding
<1>6. causal(e) = Past[Anchor][e]
  <2> DEFINE P == Parents[e] \cap Event
             S == {HeadOf(Anchor, Before(p) \cup {p}) : p \in P}
  <2>1. Parents[e] \cap DOMAIN after = P
    <3>1. ASSUME NEW p \in P PROVE p \in DOMAIN after
      <4>1. p \in Range(applied)
        BY <1>4, AnchorApart
      <4>2. e \in children(p) \ evaluated
        BY <1>1, <1>2 DEF children
      <4> QED BY <4>1, <4>2 DEF FoldInv, Folding, StatesHeld
    <3>2. DOMAIN after \subseteq Event
      BY <1>5 DEF FoldInv, Folding, StatesHeld
    <3> QED BY <3>1, <3>2
  <2>2. \A p \in P : after[p] = HeadOf(Anchor, Before(p) \cup {p})
    BY <2>1 DEF FoldInv, Folding, StatesHeld
  <2>3. {after[p] : p \in P} = S
    BY <2>2
  <2>4. causal(e) = Join(S \cup {anchorState(p) : p \in Parents[e] \cap {Anchor}})
    <3> HIDE DEF S, P
    <3> QED BY <2>1, <2>3 DEF causal
  <2>5. Parents[e] \subseteq Event \cup {Anchor}
    BY <1>4, <1>5
  <2> QED BY <1>1, <2>4, <2>5, AnchorApart, PastFromParents
<1>7. passes(e) <=> e \in Right
  <2>1. verifies(e) <=> Authentic(e, memory, shown)
    BY DEF verifies, Trusted, Authentic, CopiesOf
  <2>2. e \in Right <=> Applicable(Anchor, memory, shown, e, Right)
    BY <1>1, RightFacts
  <2>3. Parents[e] \subseteq Right \cup {Anchor}
    BY <1>4, <1>5
  <2> QED BY <1>6, <2>1, <2>2, <2>3 DEF passes, Applicable, Permitted
<1> QED BY <1>1, <1>2, <1>3, <1>4, <1>6, <1>7

(* A state is dropped once its last child has read it.                     *)
LEMMA ReadByLast ==
    ASSUME FoldInv, pc = "fold", ready # {}, NEW e, e = Smallest(ready)
    PROVE  /\ DOMAIN released(e) = {p \in Range(applied) : children(p) \ (evaluated \cup {e}) # {}}
           /\ DOMAIN counted(e) = DOMAIN released(e)
           /\ \A p \in DOMAIN released(e) :
                /\ released(e)[p] = HeadOf(Anchor, Before(p) \cup {p})
                /\ counted(e)[p] = Cardinality(children(p) \ (evaluated \cup {e}))
<1> DEFINE Due(p) == children(p) \ evaluated
           Left(p) == children(p) \ (evaluated \cup {e})
           D == DOMAIN after \ lastRead(e)
<1>1. /\ DOMAIN after = {p \in Range(applied) : Due(p) # {}} /\ DOMAIN unread = DOMAIN after
      /\ \A p \in DOMAIN after : after[p] = HeadOf(Anchor, Before(p) \cup {p}) /\ unread[p] = Cardinality(Due(p))
  BY DEF FoldInv, Folding, StatesHeld
<1>2. e \in candidates /\ e \notin evaluated /\ IsFiniteSet(candidates)
  BY JudgedRight, RightFacts
<1>3. ASSUME NEW p \in DOMAIN after
      PROVE  /\ unread[p] \in Nat
             /\ p \in lastRead(e) <=> Left(p) = {}
             /\ Cardinality(Left(p)) = unread[p] - (IF p \in Parents[e] THEN 1 ELSE 0)
  <2>1. IsFiniteSet(Due(p)) /\ Due(p) # {} /\ unread[p] = Cardinality(Due(p))
    <3>1. Due(p) \subseteq candidates
      BY DEF children
    <3> HIDE DEF Due
    <3> QED BY <1>1, <1>2, <3>1, FS_Subset
  <2>2. e \in Due(p) <=> p \in Parents[e]
    BY <1>2 DEF children
  <2>3. Left(p) = Due(p) \ {e}
    OBVIOUS
  <2>4. p \in lastRead(e) <=> p \in Parents[e] /\ unread[p] = 1
    BY <1>1 DEF lastRead
  <2> HIDE DEF Due, Left
  <2>5. Cardinality(Due(p)) \in Nat
    BY <2>1, FS_CardinalityType
  <2>6. CASE p \in Parents[e]
    <3>1. Cardinality(Left(p)) = Cardinality(Due(p)) - 1 /\ IsFiniteSet(Left(p))
      BY <2>1, <2>2, <2>3, <2>6, FS_RemoveElement
    <3>2. Left(p) = {} <=> Cardinality(Left(p)) = 0
      BY <3>1, FS_EmptySet
    <3> QED BY <2>1, <2>4, <2>5, <2>6, <3>1, <3>2
  <2>7. CASE p \notin Parents[e]
    <3>1. Left(p) = Due(p)
      BY <2>2, <2>3, <2>7
    <3> QED BY <2>1, <2>4, <2>5, <2>7, <3>1
  <2> QED BY <2>6, <2>7
<1>4. /\ DOMAIN released(e) = D /\ DOMAIN counted(e) = D
      /\ \A p \in D : /\ released(e)[p] = after[p]
                      /\ counted(e)[p] = unread[p] - (IF p \in Parents[e] THEN 1 ELSE 0)
  BY <1>1 DEF released, counted, Restrict
<1>5. D = {p \in Range(applied) : Left(p) # {}}
  <2>1. ASSUME NEW p \in Range(applied) PROVE p \in D <=> Left(p) # {}
    <3>1. CASE p \in DOMAIN after
      <4> HIDE DEF Left
      <4> QED BY <1>3, <3>1
    <3>2. CASE p \notin DOMAIN after
      <4>1. Due(p) = {}
        BY <1>1, <3>2
      <4>2. Left(p) = {}
        BY <4>1
      <4> QED BY <3>2, <4>2
    <3> QED BY <3>1, <3>2
  <2>2. D \subseteq Range(applied)
    BY <1>1
  <2> HIDE DEF D, Left
  <2> QED BY <2>1, <2>2
<1>6. \A p \in D : /\ released(e)[p] = HeadOf(Anchor, Before(p) \cup {p})
                   /\ counted(e)[p] = Cardinality(Left(p))
  <2> TAKE p \in D
  <2>1. p \in DOMAIN after
    OBVIOUS
  <2> HIDE DEF Due, Left
  <2> QED BY <1>1, <1>3, <1>4, <2>1
<1> HIDE DEF D
<1> QED BY <1>4, <1>5, <1>6

(* A refused event counts as evaluated, and nothing else changes.          *)
LEMMA RejectFolds ==
    ASSUME FoldInv, NEW e \in Event, Reject(e)
    PROVE  FoldInv' /\ evaluated' = evaluated \cup {e}
<1>1. /\ pc = "fold" /\ ready # {} /\ e = Smallest(ready) /\ ~passes(e)
      /\ ready' = ready \ {e} /\ after' = released(e) /\ unread' = counted(e)
      /\ UNCHANGED <<memory, answer, folds, pc, shown, candidates, waiting, applied, union, authentic>>
  BY DEF Reject, Evaluate
<1>2. Folding
  BY <1>1 DEF FoldInv
<1>3. /\ e \in candidates /\ e \in ready /\ e \notin evaluated /\ e \notin Range(applied) /\ waiting[e] = 0
      /\ e \notin Right
  BY <1>1, JudgedRight, SmallestReady
<1>4. Right' = Right /\ \A p : children(p)' = children(p)
  BY <1>1 DEF Right, children
<1>5. evaluated' = evaluated \cup {e}
  BY <1>1, <1>3 DEF evaluated
<1>6. Triaged'
  BY <1>1, <1>2 DEF Folding, Triaged, crossEpoch
<1>7. Awaits'
  BY <1>1, <1>2 DEF Folding, Awaits
<1>8. StatesHeld'
  <2>1. /\ DOMAIN after' = {p \in Range(applied) : children(p) \ (evaluated \cup {e}) # {}}
        /\ DOMAIN unread' = DOMAIN after'
        /\ \A p \in DOMAIN after' :
             /\ after'[p] = HeadOf(Anchor, Before(p) \cup {p})
             /\ unread'[p] = Cardinality(children(p) \ (evaluated \cup {e}))
    BY <1>1, ReadByLast
  <2> QED BY <1>1, <1>4, <1>5, <2>1 DEF StatesHeld
<1>9. InOrder' /\ Authenticated' /\ union' = HeadOf(Anchor, Range(applied'))
  <2>1. InOrder'
    BY <1>1, <1>2, <1>4 DEF Folding, InOrder
  <2> QED BY <1>1, <1>2, <2>1 DEF Folding, Authenticated
<1>10. Range(applied') = evaluated' \cap Right'
  BY <1>1, <1>2, <1>3, <1>4, <1>5 DEF Folding
<1>11. (Epochal(Anchor, memory) /\ memory \subseteq Genuine /\ shown \subseteq Copy /\ Answered)'
  BY <1>1 DEF FoldInv, Answered
<1> QED BY <1>5, <1>6, <1>7, <1>8, <1>9, <1>10, <1>11 DEF FoldInv, Folding

(* The event of the next turn may be appended.                             *)
LEMMA OrderedAppend ==
    ASSUME NEW E, NEW s, Ordered(s, E), NEW e \in E, e \notin Range(s), e = NextOf(Anchor, E, Range(s))
    PROVE  Ordered(Append(s, e), E) /\ Range(Append(s, e)) = Range(s) \cup {e}
<1> DEFINE t == Append(s, e)
           L == Len(s)
           Earlier(n) == {s[k] : k \in 1..(n - 1)}
<1>1. s \in Seq(E) /\ \A n \in 1..L : s[n] \notin Earlier(n) /\ s[n] = NextOf(Anchor, E, Earlier(n))
  BY DEF Ordered
<1>2. /\ t \in Seq(E) /\ Len(t) = L + 1 /\ L \in Nat /\ t[L + 1] = e
      /\ \A n \in 1..L : t[n] = s[n]
  BY <1>1
<1>3. Range(s) = Earlier(L + 1)
  BY <1>1 DEF Range
<1>4. ASSUME NEW n \in 1..(L + 1) PROVE {t[k] : k \in 1..(n - 1)} = Earlier(n)
  <2>1. \A k \in 1..(n - 1) : t[k] = s[k]
    BY <1>2
  <2> HIDE DEF t
  <2> QED BY <2>1
<1>5. Range(t) = Range(s) \cup {e}
  <2>1. Range(s) = {s[n] : n \in 1..L} /\ Range(t) = {t[n] : n \in 1..(L + 1)}
    <3>1. DOMAIN s = 1..L /\ DOMAIN t = 1..(L + 1)
      BY <1>1, <1>2
    <3> HIDE DEF t, L
    <3> QED BY <3>1 DEF Range
  <2>2. \A x \in Range(t) : x \in Range(s) \cup {e}
    BY <1>2, <2>1
  <2>3. \A x \in Range(s) : x \in Range(t)
    BY <1>2, <2>1
  <2>4. e \in Range(t)
    <3>1. L + 1 \in 1..(L + 1)
      BY <1>2
    <3> HIDE DEF t, L
    <3> QED BY <1>2, <2>1, <3>1
  <2> HIDE DEF t
  <2> QED BY <2>2, <2>3, <2>4
<1>6. ASSUME NEW n \in 1..Len(t)
      PROVE  t[n] \notin {t[k] : k \in 1..(n - 1)} /\ t[n] = NextOf(Anchor, E, {t[k] : k \in 1..(n - 1)})
  <2>1. n \in 1..(L + 1)
    BY <1>2
  <2>2. t[n] \notin Earlier(n) /\ t[n] = NextOf(Anchor, E, Earlier(n))
    <3>1. CASE n = L + 1
      <4> HIDE DEF t, Earlier
      <4> QED BY <1>2, <1>3, <3>1
    <3>2. CASE n \in 1..L
      <4> HIDE DEF t, Earlier
      <4> QED BY <1>1, <1>2, <3>2
    <3> QED BY <1>2, <2>1, <3>1, <3>2
  <2>3. {t[k] : k \in 1..(n - 1)} = Earlier(n)
    BY <1>4, <2>1
  <2> HIDE DEF t, Earlier
  <2> QED BY <2>2, <2>3
<1> HIDE DEF t
<1>7. Ordered(t, E)
  BY <1>2, <1>6 DEF Ordered
<1> QED BY <1>5, <1>7 DEF t

(* The event evaluated is the next of those that apply.                    *)
LEMMA NextInTurn ==
    ASSUME FoldInv, pc = "fold", ready # {}, NEW e, e = Smallest(ready), e \in Right
    PROVE  e = NextOf(Anchor, Right, Range(applied))
<1> DEFINE S == Range(applied)
           N == {d \in Right \ S : Parents[d] \subseteq S \cup {Anchor}}
<1>1. e \in N
  BY JudgedRight
<1>2. ASSUME NEW d \in N PROVE d \in ready
  <2>1. d \in candidates
    BY RightFacts
  <2>2. waiting[d] = 0
    BY <2>1, WaitsForNone
  <2>3. d \notin evaluated
    BY DEF FoldInv, Folding
  <2> QED BY <2>1, <2>2, <2>3 DEF evaluated
<1>3. \A d \in N : e <= d
  BY <1>2, SmallestReady
<1>4. N \in SUBSET Nat
  BY RightFacts, EpochAssumption
<1> HIDE DEF N
<1>5. Min(N) \in N /\ \A d \in N : Min(N) <= d
  BY <1>1, <1>3 DEF Min
<1>6. Min(N) \in Nat /\ e \in Nat /\ e <= Min(N) /\ Min(N) <= e
  BY <1>1, <1>3, <1>4, <1>5
<1>7. e = Min(N)
  <2> DEFINE m == Min(N)
  <2> HIDE DEF m
  <2>1. m \in Nat /\ e \in Nat /\ e <= m /\ m <= e
    BY <1>6 DEF m
  <2> QED BY <2>1 DEF m
<1> QED BY <1>7 DEF N, NextOf

(* The events that wait for one that applies wait for one fewer.           *)
LEMMA ChildrenWait ==
    ASSUME FoldInv, pc = "fold", ready # {}, NEW e, e = Smallest(ready)
    PROVE  \A d \in candidates :
             /\ waiting[d] \in Nat
             /\ Cardinality(Parents[d] \ (Range(applied) \cup {e} \cup {Anchor}))
                  = waiting[d] - (IF d \in children(e) THEN 1 ELSE 0)
             /\ d \in children(e) => waiting[d] # 0 /\ d # e /\ d \notin evaluated
<1> TAKE d \in candidates
<1> DEFINE W == Parents[d] \ (Range(applied) \cup {Anchor})
           V == Parents[d] \ (Range(applied) \cup {e} \cup {Anchor})
<1>1. /\ waiting[d] \in Nat /\ waiting[d] = Cardinality(W) /\ d \in Event
      /\ IsFiniteSet(W) /\ V = W \ {e}
  <2>1. d \in Event /\ IsFiniteSet(Parents[d])
    BY RightFacts, EpochAssumption
  <2>2. waiting[d] = Cardinality(W) /\ waiting[d] \in Nat
    BY WaitsForNone DEF FoldInv, Folding, Awaits
  <2> QED BY <2>1, <2>2, FS_Subset
<1>2. e \in Event /\ e # Anchor /\ e \notin Range(applied) /\ Parents[e] \subseteq Range(applied) \cup {Anchor}
  BY JudgedRight, AnchorApart
<1>3. d \in children(e) <=> e \in W
  BY <1>2 DEF children
<1>4. ASSUME d \in children(e) PROVE waiting[d] # 0 /\ d # e /\ d \notin evaluated
  <2>1. W # {}
    BY <1>3, <1>4
  <2>2. waiting[d] # 0
    <3> HIDE DEF W
    <3> QED BY <1>1, <2>1, FS_EmptySet
  <2>3. waiting[e] = 0
    BY JudgedRight
  <2> QED BY <2>2, <2>3 DEF evaluated
<1> HIDE DEF W, V
<1>5. Cardinality(V) = waiting[d] - (IF d \in children(e) THEN 1 ELSE 0)
  <2>1. CASE e \in W
    <3>1. Cardinality(W \ {e}) = Cardinality(W) - 1
      BY <1>1, <2>1, FS_RemoveElement
    <3> QED BY <1>1, <1>3, <2>1, <3>1
  <2>2. CASE e \notin W
    <3>1. V = W
      BY <1>1, <2>2
    <3> QED BY <1>1, <1>3, <2>2, <3>1
  <2> QED BY <2>1, <2>2
<1> QED BY <1>1, <1>4, <1>5 DEF V

(* What an event that applies changes, whether anything waits for it or    *)
(* not.                                                                    *)
LEMMA ApplyChanges ==
    ASSUME FoldInv, NEW e \in Event, Apply(e)
    PROVE  /\ pc = "fold" /\ ready # {} /\ e = Smallest(ready) /\ passes(e)
           /\ UNCHANGED <<memory, answer, folds, pc, shown, candidates>>
           /\ applied' = Append(applied, e) /\ union' = Join({union, effect(e)})
           /\ authentic' = With(authentic, e, keptCopy(e))
           /\ DOMAIN waiting' = candidates
           /\ \A d \in candidates : waiting'[d] = waiting[d] - (IF d \in children(e) THEN 1 ELSE 0)
           /\ ready' = (ready \ {e}) \cup {d \in children(e) : waiting[d] = 1}
           /\ DOMAIN after' = DOMAIN released(e) \cup {p \in {e} : children(e) # {}}
           /\ DOMAIN unread' = DOMAIN counted(e) \cup {p \in {e} : children(e) # {}}
           /\ \A p \in DOMAIN released(e) \ {e} : after'[p] = released(e)[p] /\ unread'[p] = counted(e)[p]
           /\ children(e) # {} => /\ after'[e] = Join({causal(e), effect(e)})
                                  /\ unread'[e] = Cardinality(children(e))
<1>1. /\ pc = "fold" /\ ready # {} /\ e = Smallest(ready) /\ passes(e)
      /\ UNCHANGED <<memory, answer, folds, pc, shown, candidates>>
      /\ applied' = Append(applied, e) /\ union' = Join({union, effect(e)})
      /\ authentic' = With(authentic, e, keptCopy(e))
  BY DEF Apply, Evaluate
<1>2. DOMAIN waiting = candidates /\ \A d \in candidates : waiting[d] \in Nat
  BY <1>1, WaitsForNone DEF FoldInv, Folding, Awaits
<1>3. DOMAIN counted(e) = DOMAIN released(e)
  BY <1>1, ReadByLast
<1>4. CASE children(e) = {}
  <2>1. /\ ready' = ready \ {e} /\ after' = released(e) /\ unread' = counted(e) /\ waiting' = waiting
    BY <1>4 DEF Apply
  <2>2. {d \in children(e) : waiting[d] = 1} = {} /\ {p \in {e} : children(e) # {}} = {}
    BY <1>4
  <2>3. \A d \in candidates : waiting'[d] = waiting[d] - (IF d \in children(e) THEN 1 ELSE 0)
    BY <1>2, <1>4, <2>1
  <2> QED BY <1>1, <1>2, <1>4, <2>1, <2>2, <2>3
<1>5. CASE children(e) # {}
  <2>1. /\ after' = With(released(e), e, Join({causal(e), effect(e)}))
        /\ unread' = With(counted(e), e, Cardinality(children(e)))
        /\ waiting' = [d \in candidates |-> waiting[d] - (IF d \in children(e) THEN 1 ELSE 0)]
        /\ ready' = (ready \ {e}) \cup {d \in children(e) : waiting[d] = 1}
    BY <1>5 DEF Apply
  <2>2. {p \in {e} : children(e) # {}} = {e}
    BY <1>5
  <2>3. \A f, v : /\ DOMAIN With(f, e, v) = DOMAIN f \cup {e} /\ With(f, e, v)[e] = v
                  /\ \A p \in DOMAIN f \ {e} : With(f, e, v)[p] = f[p]
    BY DEF With
  <2>4. /\ DOMAIN after' = DOMAIN released(e) \cup {e} /\ DOMAIN unread' = DOMAIN counted(e) \cup {e}
        /\ \A p \in DOMAIN released(e) \ {e} : after'[p] = released(e)[p] /\ unread'[p] = counted(e)[p]
        /\ after'[e] = Join({causal(e), effect(e)}) /\ unread'[e] = Cardinality(children(e))
    BY <1>3, <2>1, <2>3
  <2>5. /\ DOMAIN waiting' = candidates
        /\ \A d \in candidates : waiting'[d] = waiting[d] - (IF d \in children(e) THEN 1 ELSE 0)
    BY <2>1
  <2> QED BY <1>1, <2>1, <2>2, <2>4, <2>5
<1> QED BY <1>4, <1>5

(* An event that applies keeps the fold's account.                         *)
LEMMA ApplyFolds ==
    ASSUME FoldInv, NEW e \in Event, Apply(e)
    PROVE  FoldInv' /\ evaluated' = evaluated \cup {e}
<1> DEFINE S == Range(applied)
<1>1. /\ pc = "fold" /\ ready # {} /\ e = Smallest(ready) /\ passes(e)
      /\ memory' = memory /\ answer' = answer /\ pc' = pc /\ shown' = shown /\ candidates' = candidates
      /\ applied' = Append(applied, e) /\ union' = Join({union, effect(e)})
      /\ authentic' = With(authentic, e, keptCopy(e))
  BY ApplyChanges
<1>2. Folding
  BY <1>1 DEF FoldInv
<1>3. /\ e \in candidates /\ e \in ready /\ e \notin evaluated /\ e \notin S /\ waiting[e] = 0 /\ e \in Right
      /\ causal(e) = Past[Anchor][e] /\ Parents[e] \subseteq S \cup {Anchor}
  BY <1>1, JudgedRight, SmallestReady
<1>4. Right' = Right /\ \A p : children(p)' = children(p)
  BY <1>1 DEF Right, children
<1>5. /\ DOMAIN waiting' = candidates
      /\ \A d \in candidates :
           /\ waiting[d] \in Nat
           /\ waiting'[d] = waiting[d] - (IF d \in children(e) THEN 1 ELSE 0)
           /\ waiting'[d] = Cardinality(Parents[d] \ (S \cup {e} \cup {Anchor}))
           /\ d \in children(e) => waiting[d] # 0 /\ d # e /\ d \notin evaluated
      /\ ready' = (ready \ {e}) \cup {d \in children(e) : waiting[d] = 1}
  <2>1. /\ DOMAIN waiting' = candidates
        /\ ready' = (ready \ {e}) \cup {d \in children(e) : waiting[d] = 1}
    BY ApplyChanges
  <2>2. \A d \in candidates : waiting'[d] = waiting[d] - (IF d \in children(e) THEN 1 ELSE 0)
    BY ApplyChanges
  <2>3. \A d \in candidates :
             /\ waiting[d] \in Nat
             /\ Cardinality(Parents[d] \ (Range(applied) \cup {e} \cup {Anchor}))
                  = waiting[d] - (IF d \in children(e) THEN 1 ELSE 0)
             /\ d \in children(e) => waiting[d] # 0 /\ d # e /\ d \notin evaluated
    BY <1>1, ChildrenWait
  <2> DEFINE Fewer(d) == waiting[d] - (IF d \in children(e) THEN 1 ELSE 0)
  <2>4. ASSUME NEW d \in candidates PROVE waiting'[d] = Cardinality(Parents[d] \ (S \cup {e} \cup {Anchor}))
    <3>1. waiting'[d] = Fewer(d) /\ Cardinality(Parents[d] \ (Range(applied) \cup {e} \cup {Anchor})) = Fewer(d)
      BY <2>2, <2>3
    <3> QED BY <3>1
  <2> QED BY <2>1, <2>2, <2>3, <2>4
<1>6. ready \subseteq candidates /\ (\A d \in ready : waiting[d] = 0) /\ children(e) \subseteq candidates
  BY <1>2 DEF Folding, Triaged, Awaits, children
<1>7. evaluated' = evaluated \cup {e}
  <2>1. ASSUME NEW d \in candidates PROVE (waiting'[d] = 0 /\ d \notin ready') <=> (d \in evaluated \/ d = e)
    <3>1. CASE d \in children(e)
      <4>1. waiting[d] \in Nat /\ waiting[d] # 0 /\ waiting'[d] = waiting[d] - 1 /\ d # e /\ d \notin evaluated
        BY <1>5, <3>1
      <4> QED BY <1>5, <3>1, <4>1
    <3>2. CASE d \notin children(e)
      <4>1. waiting[d] \in Nat /\ waiting'[d] = waiting[d] - 0
        BY <1>5, <3>2
      <4>2. waiting'[d] = waiting[d]
        BY <4>1
      <4>3. d \in ready' <=> d \in ready /\ d # e
        BY <1>5, <3>2
      <4> QED BY <1>3, <4>2, <4>3 DEF evaluated
    <3> QED BY <3>1, <3>2
  <2>2. evaluated' = {d \in candidates : waiting'[d] = 0} \ ready'
    BY <1>1 DEF evaluated
  <2>3. evaluated \subseteq candidates
    BY DEF evaluated
  <2> QED BY <1>3, <2>1, <2>2, <2>3
<1>8. applied \in Seq(Right) /\ S \subseteq Event /\ Range(applied') = S \cup {e} /\ InOrder'
  <2>1. Ordered(applied, Right)
    BY <1>2 DEF Folding, InOrder
  <2>2. e = NextOf(Anchor, Right, S)
    BY <1>1, <1>3, NextInTurn
  <2>3. Ordered(Append(applied, e), Right) /\ Range(Append(applied, e)) = S \cup {e}
    BY <1>3, <2>1, <2>2, OrderedAppend
  <2>4. S \subseteq Event
    BY <1>1, <1>2, RightFacts DEF Folding
  <2>5. Ordered(applied', Right')
    BY <1>1, <1>4, <2>3
  <2>6. applied \in Seq(Right)
    BY <2>1 DEF Ordered
  <2> QED BY <1>1, <2>3, <2>4, <2>5, <2>6 DEF InOrder
<1>9. Triaged'
  <2>1. ready' \subseteq candidates
    BY <1>5, <1>6
  <2> QED BY <1>1, <1>2, <2>1 DEF Folding, Triaged, crossEpoch
<1>10. Awaits'
  <2>1. \A d \in ready' : waiting'[d] = 0
    <3> TAKE d \in ready'
    <3>1. CASE d \in ready
      <4>1. waiting[d] = 0 /\ d \in candidates
        BY <1>6, <3>1
      <4>2. d \notin children(e) /\ waiting'[d] = waiting[d] - 0
        BY <1>5, <4>1
      <4> QED BY <4>1, <4>2
    <3>2. CASE d \notin ready
      <4>1. d \in children(e) /\ waiting[d] = 1 /\ d \in candidates
        BY <1>5, <1>6, <3>2
      <4>2. waiting'[d] = waiting[d] - 1
        BY <1>5, <4>1
      <4> QED BY <4>1, <4>2
    <3> QED BY <3>1, <3>2
  <2>2. \A d \in candidates' : waiting'[d] = Cardinality(Parents[d] \ (Range(applied') \cup {Anchor}))
    BY <1>1, <1>5, <1>8
  <2> QED BY <1>1, <1>5, <2>1, <2>2 DEF Awaits
<1>11. StatesHeld'
  <2> DEFINE Left(p) == children(p) \ (evaluated \cup {e})
  <2>1. /\ DOMAIN released(e) = {p \in S : Left(p) # {}}
        /\ DOMAIN counted(e) = DOMAIN released(e)
        /\ \A p \in DOMAIN released(e) :
             /\ released(e)[p] = HeadOf(Anchor, Before(p) \cup {p})
             /\ counted(e)[p] = Cardinality(Left(p))
    BY <1>1, ReadByLast
  <2>2. Left(e) = children(e)
    BY <1>5, <1>6
  <2>3. Join({causal(e), effect(e)}) = HeadOf(Anchor, Before(e) \cup {e})
    <3>1. Parents[e] \subseteq Event \cup {Anchor}
      BY <1>3, <1>8
    <3>2. Past[Anchor][e] = HeadOf(Anchor, Before(e)) /\ Before(e) \in SUBSET Event
      BY <3>1, AnchorApart, PastFromParents
    <3>3. Join({HeadOf(Anchor, Before(e)), effect(e)}) = HeadOf(Anchor, Before(e) \cup {e})
      BY <3>2, AnchorApart, JoinEffect
    <3> QED BY <1>3, <3>2, <3>3
  <2>4. DOMAIN after' = {p \in Range(applied') : Left(p) # {}}
    <3>1. DOMAIN after' = {p \in S : Left(p) # {}} \cup {p \in {e} : Left(p) # {}}
      <4>1. {p \in {e} : children(e) # {}} = {p \in {e} : Left(p) # {}}
        BY <2>2
      <4>2. DOMAIN after' = DOMAIN released(e) \cup {p \in {e} : children(e) # {}}
        BY ApplyChanges
      <4> HIDE DEF Left
      <4> QED BY <2>1, <4>1, <4>2
    <3> HIDE DEF Left
    <3> QED BY <1>8, <3>1
  <2>5. DOMAIN unread' = DOMAIN after'
    BY <2>1, ApplyChanges
  <2>6. ASSUME NEW p \in DOMAIN after'
        PROVE  after'[p] = HeadOf(Anchor, Before(p) \cup {p}) /\ unread'[p] = Cardinality(Left(p))
    <3>1. CASE p = e
      <4>1. children(e) # {}
        BY <2>2, <2>4, <3>1
      <4>2. after'[e] = Join({causal(e), effect(e)}) /\ unread'[e] = Cardinality(children(e))
        BY <4>1, ApplyChanges
      <4> HIDE DEF Left
      <4> QED BY <2>2, <2>3, <3>1, <4>2
    <3>2. CASE p # e
      <4>1. p \in DOMAIN released(e)
        <5> HIDE DEF Left
        <5> QED BY <1>8, <2>1, <2>4, <3>2
      <4>2. after'[p] = released(e)[p] /\ unread'[p] = counted(e)[p]
        BY <3>2, <4>1, ApplyChanges
      <4> HIDE DEF Left
      <4> QED BY <2>1, <4>1, <4>2
    <3> QED BY <3>1, <3>2
  <2>7. \A p : Left(p) = children(p)' \ evaluated'
    BY <1>4, <1>7
  <2> HIDE DEF Left
  <2>8. DOMAIN after' = {p \in Range(applied') : children(p)' \ evaluated' # {}}
    BY <2>4, <2>7
  <2> QED BY <2>5, <2>6, <2>7, <2>8 DEF StatesHeld
<1>12. Authenticated'
  <2>1. DOMAIN authentic = S /\ \A d \in S : authentic[d] = KeptCopy(d, memory, shown)
    BY <1>2 DEF Folding, Authenticated
  <2>2. DOMAIN authentic' = S \cup {e}
    BY <1>1, <2>1 DEF With
  <2>3. \A d \in S \cup {e} : authentic'[d] = KeptCopy(d, memory, shown)
    BY <1>1, <1>3, <2>1 DEF With, keptCopy
  <2> HIDE DEF S
  <2> QED BY <1>1, <1>8, <2>2, <2>3 DEF Authenticated
<1>13. union' = HeadOf(Anchor, Range(applied'))
  <2>1. union = HeadOf(Anchor, S)
    BY <1>2 DEF Folding
  <2> HIDE DEF S
  <2> QED BY <1>1, <1>8, <2>1, AnchorApart, JoinEffect
<1>14. Range(applied') = evaluated' \cap Right'
  BY <1>2, <1>3, <1>4, <1>7, <1>8 DEF Folding
<1>15. (Epochal(Anchor, memory) /\ memory \subseteq Genuine /\ shown \subseteq Copy /\ Answered)'
  BY <1>1 DEF FoldInv, Answered
<1> QED BY <1>7, <1>8, <1>9, <1>10, <1>11, <1>12, <1>13, <1>14, <1>15 DEF FoldInv, Folding

-----------------------------------------------------------------------------
(* The end of a fold.                                                      *)

(* The right events are finitely many, each with its parents.              *)
LEMMA RightRooted ==
    ASSUME FoldInv, pc = "fold"
    PROVE  Right \in SUBSET Event /\ Rooted(Anchor, Right) /\ IsFiniteSet(Right)
<1>1. Right \subseteq candidates /\ candidates \subseteq Event /\ IsFiniteSet(candidates)
      /\ \A e \in Right : Applicable(Anchor, memory, shown, e, Right)
  BY RightFacts
<1> QED BY <1>1, FS_Subset DEF Rooted, Applicable

(* When nothing is ready, all that is right has applied.                   *)
LEMMA AllApplied ==
    ASSUME FoldInv, pc = "fold", ready = {}
    PROVE  Range(applied) = Right
<1> DEFINE S == Range(applied)
           N == {e \in Right \ S : Parents[e] \subseteq S \cup {Anchor}}
           d == Min(N)
<1>1. S \subseteq Right
  BY DEF FoldInv, Folding
<1>2. SUFFICES ASSUME S # Right PROVE FALSE
  OBVIOUS
<1>3. d \in N
  <2> HIDE DEF S
  <2> QED BY <1>1, <1>2, RightRooted, NextRooted
<1> HIDE DEF d
<1>4. d \in candidates /\ d \in Right \ S /\ Parents[d] \subseteq S \cup {Anchor}
  BY <1>3, RightFacts
<1>5. waiting[d] = 0
  BY <1>4, WaitsForNone
<1>6. d \in evaluated
  BY <1>4, <1>5 DEF evaluated
<1> QED BY <1>4, <1>6 DEF FoldInv, Folding

(* A sequence in order has no event twice.                                 *)
LEMMA OrderedLength ==
    ASSUME NEW E, NEW s, Ordered(s, E)
    PROVE  Len(s) \in Nat /\ Len(s) = Cardinality(Range(s))
<1> DEFINE L == Len(s)
<1>1. /\ s \in Seq(E) /\ L \in Nat /\ DOMAIN s = 1..L
      /\ \A n \in 1..L : s[n] \notin {s[k] : k \in 1..(n - 1)}
  <2>1. s \in Seq(E) /\ \A n \in 1..L : s[n] \notin {s[k] : k \in 1..(n - 1)}
    BY DEF Ordered
  <2> QED BY <2>1
<1>2. Range(s) = {s[n] : n \in 1..L}
  BY <1>1 DEF Range
<1>3. \A m, n \in 1..L : m < n => s[m] # s[n]
  <2> TAKE m, n \in 1..L
  <2> HAVE m < n
  <2>1. m \in 1..(n - 1)
    BY <1>1
  <2> HIDE DEF L
  <2> QED BY <1>1, <2>1
<1>4. \A m, n \in 1..L : s[m] = s[n] => m = n
  <2> TAKE m, n \in 1..L
  <2> HAVE s[m] = s[n]
  <2>1. ~(m < n) /\ ~(n < m) /\ m \in Int /\ n \in Int
    BY <1>3
  <2> QED BY <2>1
<1> HIDE DEF L
<1>5. s \in Bijection(1..L, Range(s))
  <2>1. s \in [1..L -> Range(s)]
    BY <1>1, <1>2
  <2> QED BY <1>2, <1>4, <2>1 DEF Bijection, Injection, Surjection, IsInjective
<1>6. IsFiniteSet(1..L) /\ Cardinality(1..L) = L
  <2>1. 1 \in Int /\ L \in Int
    BY <1>1
  <2>2. Cardinality(1..L) = IF 1 > L THEN 0 ELSE L - 1 + 1
    BY <2>1, FS_Interval
  <2> QED BY <1>1, <2>1, <2>2, FS_Interval
<1>7. Cardinality(Range(s)) = L
  BY <1>5, <1>6, FS_Bijection DEF ExistsBijection
<1> QED BY <1>1, <1>7 DEF L

(* What appliedCopies keeps is what the reference keeps.                   *)
LEMMA KeptFirst ==
    ASSUME FoldInv, pc = "fold", ready = {}
    PROVE  /\ Range(keptEvents) = Kept(Anchor, Right)
           /\ Len(applied) > MAX_EPOCH_EVENTS <=> Saturates(Right)
<1> DEFINE L == Len(applied)
           M == MAX_EPOCH_EVENTS + 1
<1>1. Ordered(applied, Right) /\ Range(applied) = Right
  BY AllApplied DEF FoldInv, Folding, InOrder
<1>2. L \in Nat /\ L = Cardinality(Right) /\ MAX_EPOCH_EVENTS \in Nat /\ M \in Nat
  BY <1>1, OrderedLength, EpochAssumption
<1>3. (L > MAX_EPOCH_EVENTS) <=> Saturates(Right)
  BY <1>2 DEF Saturates
<1>4. applied \in Seq(Right) /\ DOMAIN applied = 1..L
      /\ \A n \in 1..L : applied[n] = NextOf(Anchor, Right, {applied[k] : k \in 1..(n - 1)})
  BY <1>1 DEF Ordered
<1>0. PICK f : Counts(f, Anchor, Right)
  BY KeptSteps
<1>5. /\ f[0] = {}
      /\ Saturates(Right) => Kept(Anchor, Right) = f[M]
      /\ ~Saturates(Right) => Kept(Anchor, Right) = Right
      /\ \A n \in 1..M : f[n] = f[n - 1] \cup {NextOf(Anchor, Right, f[n - 1])}
  BY <1>0 DEF Counts
<1>6. CASE ~Saturates(Right)
  <2>1. keptEvents = SubSeq(applied, 1, L)
    BY <1>3, <1>6 DEF keptEvents
  <2>2. SubSeq(applied, 1, L) = applied
    BY <1>4
  <2> QED BY <1>1, <1>3, <1>5, <1>6, <2>1, <2>2
<1>7. CASE Saturates(Right)
  <2> DEFINE First(n) == {applied[k] : k \in 1..n}
             T == {n \in 0..M : f[n] = First(n)}
  <2>1. M <= L
    BY <1>2, <1>3, <1>7
  <2>2. 0 \in T
    BY <1>2, <1>5
  <2>3. ASSUME NEW n \in 0..(M - 1), n \in T PROVE n + 1 \in T
    <3>1. n + 1 \in 1..M /\ (n + 1) - 1 = n /\ n + 1 \in 1..L /\ n + 1 \in 0..M /\ n \in Nat
      BY <1>2, <2>1
    <3>2. f[n + 1] = f[n] \cup {NextOf(Anchor, Right, f[n])}
      BY <1>5, <3>1
    <3>3. applied[n + 1] = NextOf(Anchor, Right, First(n))
      BY <1>4, <3>1
    <3>4. First(n + 1) = First(n) \cup {applied[n + 1]}
      <4>1. 1..(n + 1) = (1..n) \cup {n + 1}
        BY <3>1
      <4> QED BY <4>1
    <3>5. f[n] = First(n)
      BY <2>3
    <3> HIDE DEF First
    <3> QED BY <3>1, <3>2, <3>3, <3>4, <3>5
  <2>4. f[M] = First(M)
    <3>1. 0..M \subseteq T
      <4> HIDE DEF T
      <4> QED BY <1>2, <2>2, <2>3, StepByStep
    <3>2. M \in 0..M
      BY <1>2
    <3> HIDE DEF First
    <3> QED BY <3>1, <3>2
  <2>5. Range(keptEvents) = First(M)
    <3>1. keptEvents = SubSeq(applied, 1, M)
      BY <1>3, <1>7 DEF keptEvents
    <3>2. /\ DOMAIN SubSeq(applied, 1, M) = 1..M
          /\ \A k \in 1..M : SubSeq(applied, 1, M)[k] = applied[k]
      BY <1>2, <1>4, <2>1
    <3> DEFINE q == SubSeq(applied, 1, M)
    <3> HIDE DEF q
    <3>3. keptEvents = q /\ DOMAIN q = 1..M /\ \A k \in 1..M : q[k] = applied[k]
      BY <3>1, <3>2 DEF q
    <3> HIDE DEF M
    <3> QED BY <3>3 DEF Range
  <2> QED BY <1>3, <1>5, <1>7, <2>4, <2>5
<1> QED BY <1>6, <1>7

(* A rooted set holds the ancestors of its events.                         *)
LEMMA RootedPast ==
    ASSUME NEW c \in ChainEvent, NEW E \in SUBSET Event, Rooted(c, E)
    PROVE  \A e \in E : Before(e) \subseteq E
<1> DEFINE H == {Height[e] : e \in {d \in E : ~(Before(d) \subseteq E)}}
<1>1. SUFFICES ASSUME H # {} PROVE FALSE
  OBVIOUS
<1>2. H \in SUBSET Nat
  BY EpochAssumption
<1>3. PICK h \in H : \A j \in H : h <= j
  <2> HIDE DEF H
  <2> QED BY <1>1, <1>2, LeastNatural
<1>4. PICK e \in E : Height[e] = h /\ ~(Before(e) \subseteq E)
  OBVIOUS
<1>5. PICK a \in Before(e) : a \notin E
  BY <1>4
<1>6. a \in Event /\ <<a, e>> \in Precedes
  BY DEF Before
<1>7. PICK p \in Parents[e] \cap Event : a = p \/ <<a, p>> \in Precedes
  BY <1>6, PrecedesParents
<1>8. p \in E
  BY EpochAssumption DEF Rooted, Incarnation
<1>9. a \in Before(p)
  BY <1>5, <1>6, <1>7, <1>8 DEF Before
<1>10. Height[p] \in H /\ Height[p] < Height[e] /\ Height[p] \in Nat /\ Height[e] \in Nat
  BY <1>5, <1>8, <1>9, EpochAssumption
<1> QED BY <1>3, <1>4, <1>10

(* Only an event that adds a member adds, and it adds its own incarnation. *)
LEMMA EffectAdds ==
    ASSUME NEW e \in Event
    PROVE  effect(e).added = IF Kind[e] = "add" THEN {e} ELSE {}
<1>1. Kind[e] \in {"add", "ren", "rmv", "rev"}
  BY EpochAssumption
<1> QED BY <1>1 DEF effect, emptyState

(* More events only add to a head.                                         *)
LEMMA HeadGrows ==
    ASSUME NEW c \in ChainEvent, NEW D, NEW E \in SUBSET Event, D \subseteq E
    PROVE  /\ HeadOf(c, D).added \subseteq HeadOf(c, E).added
           /\ HeadOf(c, D).removed \subseteq HeadOf(c, E).removed
           /\ HeadOf(c, D).deny \subseteq HeadOf(c, E).deny
<1>1. D \in SUBSET Event
  OBVIOUS
<1>2. /\ HeadOf(c, D).added = MembersAt[c] \cup UNION {effect(e).added : e \in D}
      /\ HeadOf(c, D).removed = UNION {effect(e).removed : e \in D}
      /\ HeadOf(c, D).deny = DenyAt[c] \cup UNION {effect(e).deny : e \in D}
  BY <1>1, HeadParts
<1>3. /\ HeadOf(c, E).added = MembersAt[c] \cup UNION {effect(e).added : e \in E}
      /\ HeadOf(c, E).removed = UNION {effect(e).removed : e \in E}
      /\ HeadOf(c, E).deny = DenyAt[c] \cup UNION {effect(e).deny : e \in E}
  BY HeadParts
<1>4. /\ UNION {effect(e).added : e \in D} \subseteq UNION {effect(e).added : e \in E}
      /\ UNION {effect(e).removed : e \in D} \subseteq UNION {effect(e).removed : e \in E}
      /\ UNION {effect(e).deny : e \in D} \subseteq UNION {effect(e).deny : e \in E}
  OBVIOUS
<1> QED BY <1>2, <1>3, <1>4

(* "One key, one live incarnation along any causal line."                  *)
LEMMA OneIncarnation ==
    ASSUME NEW c \in ChainEvent, NEW t, NEW s, t \cup s \subseteq Copy,
           NEW i \in effective(HeadOf(c, Applies(c, t, s))), NEW j \in effective(HeadOf(c, Applies(c, t, s))),
           i # j, Pin[i] = Pin[j]
    PROVE  i \in Event /\ j \in Event /\ <<i, j>> \notin Precedes
<1> DEFINE A == Applies(c, t, s)
           head == HeadOf(c, A)
           Adding(d) == d \in A /\ Kind[d] = "add"
<1>1. A \in SUBSET Event /\ \A e \in A : Applicable(c, t, s, e, A)
  <2>1. Own(c, t \cup s) \subseteq Event
    BY OwnEvents
  <2> QED BY <2>1, AppliesFixpoint
<1>2. Rooted(c, A)
  BY <1>1 DEF Rooted, Applicable
<1> HIDE DEF A
<1>3. \A d \in head.added : d \in MembersAt[c] \/ Adding(d)
  <2>1. head.added = MembersAt[c] \cup UNION {effect(e).added : e \in A}
    BY <1>1, HeadParts
  <2>2. \A e \in A : effect(e).added = IF Kind[e] = "add" THEN {e} ELSE {}
    BY <1>1, EffectAdds
  <2> HIDE DEF head
  <2>3. ASSUME NEW d \in UNION {effect(e).added : e \in A} PROVE Adding(d)
    <3>1. PICK e \in A : d \in effect(e).added
      OBVIOUS
    <3>2. effect(e).added = {} \/ (Kind[e] = "add" /\ effect(e).added = {e})
      BY <2>2
    <3> QED BY <3>1, <3>2
  <2> QED BY <2>1, <2>3
<1>4. i \in head.added /\ j \in head.added /\ isEffective(head, i) /\ isEffective(head, j)
  BY DEF effective, A
<1>5. ASSUME NEW d, Adding(d), NEW o, o \in MembersAt[c] \/ (Adding(o) /\ <<o, d>> \in Precedes), Pin[o] = Pin[d]
      PROVE  ~isEffective(head, o)
  <2> DEFINE past == Past[c][d]
  <2>1. d \in Event /\ Parents[d] \subseteq A \cup {c} /\ ruleAllows(c, d, past) /\ Kind[d] = "add"
    BY <1>1, <1>5 DEF Applicable, Permitted
  <2>2. past = HeadOf(c, Before(d)) /\ Before(d) \subseteq A
    <3>1. Parents[d] \subseteq Event \cup {c}
      BY <1>1, <2>1
    <3> QED BY <1>1, <1>2, <1>5, <2>1, <3>1, PastFromParents, RootedPast
  <2>3. past.removed \subseteq head.removed /\ past.deny \subseteq head.deny
    BY <1>1, <2>2, HeadGrows
  <2>4. o \in past.added
    <3>1. past.added = MembersAt[c] \cup UNION {effect(e).added : e \in Before(d)}
      <4>1. Before(d) \in SUBSET Event
        BY <1>1, <2>2
      <4> QED BY <2>2, <4>1, HeadParts
    <3>2. CASE o \in MembersAt[c]
      BY <3>1, <3>2
    <3>3. CASE Adding(o) /\ <<o, d>> \in Precedes
      <4>1. o \in Before(d) /\ effect(o).added = {o}
        BY <1>1, <3>3, EffectAdds DEF Before
      <4> HIDE DEF past
      <4> QED BY <3>1, <4>1
    <3> QED BY <1>5, <3>2, <3>3
  <2>5. ~isEffective(past, o)
    <3>1. \A x \in past.added : Pin[x] = Pin[d] => ~isEffective(past, x)
      BY <2>1 DEF ruleAllows
    <3> HIDE DEF past
    <3> QED BY <1>5, <2>4, <3>1
  <2> HIDE DEF past, head
  <2> QED BY <2>3, <2>5 DEF isEffective, isDenied
<1>6. ~(i \in MembersAt[c] /\ j \in MembersAt[c])
  BY EpochAssumption
<1>7. ~(i \in MembersAt[c] /\ Adding(j)) /\ ~(j \in MembersAt[c] /\ Adding(i))
  <2> HIDE DEF Adding, head
  <2> QED BY <1>4, <1>5
<1>8. Adding(i) /\ Adding(j)
  <2> HIDE DEF Adding, head
  <2> QED BY <1>3, <1>4, <1>6, <1>7
<1>9. <<i, j>> \notin Precedes
  <2> HIDE DEF Adding, head
  <2> QED BY <1>4, <1>5, <1>8
<1> QED BY <1>1, <1>8, <1>9

(* The fold agrees with its reference, whatever it remembers.              *)
LEMMA FoldIsSound ==
    ASSUME FoldInv
    PROVE  /\ FoldSound
           /\ pc = "fold" /\ ready = {} =>
                {authentic[e] : e \in Range(keptEvents)} = Remembered(Anchor, memory, shown)
<1> SUFFICES ASSUME pc = "fold", ready = {}
             PROVE  FoldSound /\ {authentic[e] : e \in Range(keptEvents)} = Remembered(Anchor, memory, shown)
  BY DEF FoldSound
<1> DEFINE A == Applies(Anchor, memory, shown)
           R == Remembered(Anchor, memory, shown)
           kept == {authentic[e] : e \in Range(keptEvents)}
<1>1. Range(applied) = A /\ A = Right /\ union = HeadOf(Anchor, Range(applied))
  BY AllApplied DEF FoldInv, Folding, Right
<1>2. Range(keptEvents) = Kept(Anchor, A)
  BY <1>1, KeptFirst
<1>3. memory \subseteq Copy /\ shown \subseteq Copy /\ memory \subseteq Genuine /\ Anchor \in ChainEvent
  BY AnchorApart DEF FoldInv, Epochal
<1>4. Epochal(Anchor, R) /\ EventsOf(R) = Kept(Anchor, A) /\ Kept(Anchor, A) \subseteq A
  BY <1>3, RememberedEpochal
<1>5. kept = R
  <2>1. \A e \in A : authentic[e] = KeptCopy(e, memory, shown)
    BY <1>1 DEF FoldInv, Folding, Authenticated
  <2>2. R = {KeptCopy(e, memory, shown) : e \in Kept(Anchor, A)}
    BY DEF Remembered
  <2> HIDE DEF A, R
  <2> QED BY <1>2, <1>4, <2>1, <2>2
<1>6. R \subseteq Genuine
  BY <1>3, RememberedGenuine
<1>7. Applies(Anchor, R, {}) = Range(keptEvents)
  <2>1. {} \subseteq Copy
    OBVIOUS
  <2> HIDE DEF R
  <2> QED BY <1>2, <1>3, <1>4, <2>1, HeldApplies
<1>8. \A i, j \in effective(union) :
         i # j /\ Pin[i] = Pin[j] => i \in Event /\ j \in Event /\ <<i, j>> \notin Precedes
  <2>1. memory \cup shown \subseteq Copy /\ union = HeadOf(Anchor, Applies(Anchor, memory, shown))
    BY <1>1, <1>3
  <2> QED BY <1>3, <2>1, OneIncarnation
<1> HIDE DEF A, R, kept
<1>9. FoldSound
  <2>1. /\ kept = R /\ kept \subseteq Genuine /\ Applies(Anchor, kept, {}) = Range(keptEvents)
    BY <1>5, <1>6, <1>7
  <2> QED BY <1>1, <1>8, <2>1 DEF FoldSound, kept, A, R
<1> QED BY <1>5, <1>9 DEF kept, R

(* A presentation starts the account.                                      *)
LEMMA TriageFolds ==
    ASSUME FoldInv, NEW copies \in Presentation, Triage(copies)
    PROVE  FoldInv' /\ evaluated' = {}
<1>1. /\ pc' = "fold" /\ shown' = copies /\ memory' = memory /\ answer' = answer
      /\ candidates' = Own(Anchor, memory \cup copies) \ crossEpoch(Own(Anchor, memory \cup copies), copies)
      /\ waiting' = [e \in candidates' |-> Cardinality(Parents[e] \ {Anchor})]
      /\ ready' = {e \in candidates' : waiting'[e] = 0}
      /\ after' = Nothing /\ unread' = Nothing /\ applied' = <<>> /\ authentic' = Nothing
      /\ union' = anchorState(Anchor)
  BY DEF Triage
<1>2. Range(applied') = {} /\ DOMAIN Nothing = {}
  BY <1>1 DEF Range, Nothing
<1>3. Triaged'
  BY <1>1 DEF Triaged, crossEpoch
<1>4. Awaits'
  <2>1. \A d \in candidates' : waiting'[d] = Cardinality(Parents[d] \ (Range(applied') \cup {Anchor}))
    BY <1>1, <1>2
  <2> QED BY <1>1, <2>1 DEF Awaits
<1>5. StatesHeld'
  <2>1. {p \in Range(applied') : children(p)' \ evaluated' # {}} = {}
    BY <1>2
  <2>2. DOMAIN after' = {} /\ DOMAIN unread' = {}
    BY <1>1, <1>2
  <2> QED BY <2>1, <2>2 DEF StatesHeld
<1>6. InOrder'
  <2>1. \A E : Ordered(<<>>, E)
    BY DEF Ordered
  <2> QED BY <1>1, <2>1 DEF InOrder
<1>7. Authenticated'
  BY <1>1, <1>2 DEF Authenticated
<1>8. evaluated' = {}
  BY <1>1 DEF evaluated
<1>9. union' = HeadOf(Anchor, Range(applied'))
  BY <1>1, <1>2, AnchorApart, EmptyHead
<1>10. (Epochal(Anchor, memory) /\ memory \subseteq Genuine /\ shown \subseteq Copy /\ Answered)'
  BY <1>1, FoldAssumption DEF FoldInv, Answered
<1> QED BY <1>2, <1>3, <1>4, <1>5, <1>6, <1>7, <1>8, <1>9, <1>10 DEF FoldInv, Folding

(* What the fold answers tells of what it then remembers.                  *)
LEMMA FinishFolds ==
    ASSUME FoldInv, Finish
    PROVE  FoldInv' /\ answer'.applied = Applies(Anchor, memory, shown)
           /\ (answer'.saturated <=> Saturates(Applies(Anchor, memory, shown)))
<1> DEFINE A == Applies(Anchor, memory, shown)
           R == Remembered(Anchor, memory, shown)
<1>1. /\ pc = "fold" /\ ready = {} /\ pc' = "idle" /\ shown' = {}
      /\ answer' = [head |-> union, applied |-> Range(applied), saturated |-> Len(applied) > MAX_EPOCH_EVENTS]
      /\ memory' = {authentic[e] : e \in Range(keptEvents)}
  BY DEF Finish, Return
<1>2. Range(applied) = A /\ A = Right /\ union = HeadOf(Anchor, A) /\ A \in SUBSET Event
  BY <1>1, AllApplied, RightRooted DEF FoldInv, Folding, Right
<1>3. memory' = R /\ (Len(applied) > MAX_EPOCH_EVENTS <=> Saturates(A))
  BY <1>1, <1>2, FoldIsSound, KeptFirst
<1>4. memory \subseteq Copy /\ shown \subseteq Copy /\ memory \subseteq Genuine /\ Anchor \in ChainEvent
  BY AnchorApart DEF FoldInv, Epochal
<1>5. /\ Epochal(Anchor, R) /\ EventsOf(R) = Kept(Anchor, A) /\ R \subseteq Genuine
      /\ Saturates(Kept(Anchor, A)) <=> Saturates(A)
      /\ ~Saturates(A) => Kept(Anchor, A) = A
  BY <1>4, RememberedEpochal, RememberedGenuine
<1> HIDE DEF A, R
<1>6. Saturates(R) <=> Saturates(A)
  BY <1>5, EpochalFinite
<1>7. /\ answer'.head = HeadOf(Anchor, A) /\ answer'.applied = A
      /\ answer'.saturated <=> Saturates(A)
  BY <1>1, <1>2, <1>3
<1>8. Answered'
  <2>1. memory' = R
    BY <1>3
  <2> QED BY <1>2, <1>5, <1>6, <1>7, <2>1 DEF Answered
<1>9. FoldInv'
  <2>1. pc' # "fold" /\ shown' \subseteq Copy /\ Epochal(Anchor, memory') /\ memory' \subseteq Genuine
    BY <1>1, <1>3, <1>5
  <2> QED BY <1>8, <2>1 DEF FoldInv
<1> QED BY <1>7, <1>9 DEF A

(* Every step of the fold keeps its invariant.                             *)
LEMMA FoldStep ==
    ASSUME FoldInv, [FoldNext]_foldVars
    PROVE  FoldInv'
<1>1. CASE \E copies \in Presentation : Triage(copies)
  BY <1>1, TriageFolds
<1>2. CASE \E e \in Event : Reject(e)
  BY <1>2, RejectFolds
<1>3. CASE \E e \in Event : Apply(e)
  BY <1>3, ApplyFolds
<1>4. CASE Finish
  BY <1>4, FinishFolds
<1>5. CASE (\E e \in Event : Exhaust(e)) \/ Throw
  BY <1>5 DEF Exhaust, Throw, Return, FoldInv, Answered
<1>6. CASE UNCHANGED foldVars
  <2>1. /\ UNCHANGED <<memory, answer, pc, shown, candidates, waiting, ready>>
        /\ UNCHANGED <<after, unread, applied, union, authentic>>
    BY <1>6 DEF foldVars, local
  <2>2. Right' = Right /\ evaluated' = evaluated /\ Triaged' = Triaged /\ \A p : children(p)' = children(p)
    BY <2>1 DEF Right, evaluated, Triaged, crossEpoch, children
  <2>3. Awaits' = Awaits /\ Authenticated' = Authenticated /\ Answered' = Answered
    BY <2>1 DEF Awaits, Authenticated, Answered
  <2>4. InOrder' = InOrder /\ StatesHeld' = StatesHeld
    BY <2>1, <2>2 DEF InOrder, StatesHeld
  <2>5. Folding' = Folding
    BY <2>1, <2>2, <2>3, <2>4 DEF Folding
  <2> QED BY <2>1, <2>3, <2>5 DEF FoldInv
<1> QED BY <1>1, <1>2, <1>3, <1>4, <1>5, <1>6 DEF FoldNext

(* A fold keeps its account: it waits for parents that have yet to apply,  *)
(* it holds the states some child has yet to read, it applies what is      *)
(* right in the order of the reference, and its last answer tells of what  *)
(* it remembers.                                                           *)
THEOREM FoldInvariant == FoldSpec => []FoldInv
<1>1. FoldInit => FoldInv
  <2> SUFFICES ASSUME FoldInit PROVE FoldInv
    OBVIOUS
  <2>1. /\ memory = {} /\ shown = {} /\ pc = "idle"
        /\ answer = [head |-> anchorState(Anchor), applied |-> {}, saturated |-> FALSE]
    BY DEF FoldInit
  <2>2. Epochal(Anchor, {})
    BY DEF Epochal, EventsOf, Rooted
  <2>3. ~Saturates({}) /\ EventsOf({}) = {}
    BY FS_EmptySet, EpochAssumption DEF Saturates, EventsOf
  <2>4. Answered
    BY <2>1, <2>3, AnchorApart, EmptyHead DEF Answered
  <2> QED BY <2>1, <2>2, <2>4 DEF FoldInv
<1>2. FoldInv /\ [FoldNext]_foldVars => FoldInv'
  BY FoldStep
<1> QED BY <1>1, <1>2, PTL DEF FoldSpec

(* The events that apply and the head are those of the reference, whatever *)
(* digests order the evaluation; what is remembered verified and gives the *)
(* same events again; and no key has two live incarnations on one causal   *)
(* line.                                                                   *)
THEOREM FoldAlwaysSound == FoldSpec => []FoldSound
<1>1. FoldInv => FoldSound
  BY FoldIsSound
<1> QED BY <1>1, FoldInvariant, PTL

(* A step of the fold takes back nothing that was answered for.            *)
LEMMA ForgetsNothing ==
    ASSUME FoldInv, [FoldNext]_foldVars
    PROVE  /\ answer.saturated => answer'.saturated
           /\ answer'.saturated \/
                /\ answer.applied \subseteq answer'.applied
                /\ answer.head.deny \subseteq answer'.head.deny
                /\ answer.head.removed \subseteq answer'.head.removed
<1>1. CASE Finish
  <2> DEFINE A == Applies(Anchor, memory, shown)
  <2>1. Answered /\ Answered' /\ answer'.applied = A /\ (answer'.saturated <=> Saturates(A))
    BY <1>1, FinishFolds DEF FoldInv
  <2>2. \/ Saturates(A)
        \/ ~Saturates(memory) /\ EventsOf(memory) \subseteq A
    BY AnchorApart, HeldStays DEF FoldInv
  <2> HIDE DEF A
  <2>3. answer.saturated => answer'.saturated
    BY <2>1, <2>2 DEF Answered
  <2>4. ASSUME ~answer'.saturated PROVE answer.applied \subseteq answer'.applied
    BY <2>1, <2>2, <2>3, <2>4 DEF Answered
  <2>5. ASSUME ~answer'.saturated
        PROVE  answer.head.deny \subseteq answer'.head.deny /\ answer.head.removed \subseteq answer'.head.removed
    <3>1. answer.head = HeadOf(Anchor, answer.applied) /\ answer'.head = HeadOf(Anchor, answer'.applied)
          /\ answer'.applied \in SUBSET Event
      BY <2>1 DEF Answered
    <3> QED BY <2>4, <2>5, <3>1, AnchorApart, HeadGrows
  <2> QED BY <2>3, <2>4, <2>5
<1>2. CASE ~Finish
  <2>1. answer' = answer
    BY <1>2 DEF FoldNext, Triage, Reject, Apply, Exhaust, Throw, foldVars
  <2> QED BY <2>1
<1> QED BY <1>1, <1>2

(* Within an epoch nothing a verifier answered for is taken back.          *)
THEOREM NothingEverForgotten == FoldSpec => NothingForgotten
<1>1. FoldInv /\ [FoldNext]_foldVars =>
        [/\ answer.saturated => answer'.saturated
         /\ answer'.saturated \/
              /\ answer.applied \subseteq answer'.applied
              /\ answer.head.deny \subseteq answer'.head.deny
              /\ answer.head.removed \subseteq answer'.head.removed]_foldVars
  BY ForgetsNothing
<1> QED BY <1>1, FoldInvariant, PTL DEF FoldSpec, NothingForgotten

-----------------------------------------------------------------------------
(* The failing signatures that a presentation makes a verifier check.      *)

(* The sum of g over a set.                                                *)
Total(g, S) == MapThenSumSet(LAMBDA x : g[x], S)

pick(s) == CHOOSE x \in s : TRUE

(* How the sum is worked out: one element after the other.                 *)
OneByOne(g, it, s) == IF s = {} THEN 0 ELSE g[pick(s)] + it[s \ {pick(s)}]

SumBy(it, g, S) == it = [s \in SUBSET S |-> OneByOne(g, it, s)]

(* A total is computed by the recursion that SumBy states.                 *)
LEMMA TotalIs ==
    ASSUME NEW g, NEW S
    PROVE  Total(g, S) = (CHOOSE it : SumBy(it, g, S))[S]
  BY DEF Total, MapThenSumSet, MapThenFoldSet, OneByOne, pick, SumBy

(* There is one such sum for every part of a finite set.                   *)
LEMMA SumsOf ==
    ASSUME NEW S, IsFiniteSet(S), NEW g, \A x \in S : g[x] \in Nat
    PROVE  \E it : SumBy(it, g, S)
<1> DEFINE N == Cardinality(S)
           Small(n) == {s \in SUBSET S : Cardinality(s) <= n}
           Good(u, n) == \A s \in Small(n) : u[s] = OneByOne(g, u, s)
           T == {n \in 0..N : \E u : u = [s \in SUBSET S |-> u[s]] /\ Good(u, n)}
<1>1. N \in Nat /\ \A s \in SUBSET S : IsFiniteSet(s) /\ Cardinality(s) \in 0..N
  <2>1. N \in Nat
    BY FS_CardinalityType
  <2>2. ASSUME NEW s \in SUBSET S PROVE IsFiniteSet(s) /\ Cardinality(s) \in 0..N
    <3>1. IsFiniteSet(s) /\ Cardinality(s) <= N
      BY FS_Subset
    <3>2. Cardinality(s) \in Nat
      BY <3>1, FS_CardinalityType
    <3> HIDE DEF N
    <3> QED BY <2>1, <3>1, <3>2
  <2> QED BY <2>1, <2>2
<1>2. 0 \in T
  <2> DEFINE u == [s \in SUBSET S |-> 0]
  <2>1. Good(u, 0)
    <3> SUFFICES ASSUME NEW s \in Small(0) PROVE u[s] = OneByOne(g, u, s)
      OBVIOUS
    <3>1. Cardinality(s) = 0 /\ IsFiniteSet(s)
      BY <1>1
    <3>2. s = {}
      BY <3>1, FS_EmptySet
    <3> QED BY <3>2 DEF OneByOne
  <2>2. u = [s \in SUBSET S |-> u[s]]
    OBVIOUS
  <2> HIDE DEF u, Good
  <2> QED BY <1>1, <2>1, <2>2
<1>3. ASSUME NEW n \in 0..(N - 1), n \in T PROVE n + 1 \in T
  <2>1. PICK u : u = [s \in SUBSET S |-> u[s]] /\ Good(u, n)
    BY <1>3
  <2> DEFINE v == [s \in SUBSET S |-> OneByOne(g, u, s)]
  <2>2. ASSUME NEW s \in Small(n + 1) PROVE v[s] = OneByOne(g, v, s)
    <3>1. v[s] = OneByOne(g, u, s)
      OBVIOUS
    <3>2. CASE s = {}
      BY <3>1, <3>2 DEF OneByOne
    <3>3. CASE s # {}
      <4> DEFINE r == s \ {pick(s)}
      <4>1. pick(s) \in s /\ IsFiniteSet(s) /\ Cardinality(s) \in Nat /\ Cardinality(s) <= n + 1
        BY <1>1, <3>3 DEF pick
      <4>2. Cardinality(r) = Cardinality(s) - 1
        BY <4>1, FS_RemoveElement
      <4>3. r \in Small(n)
        BY <4>1, <4>2
      <4>4. v[r] = u[r]
        <5>1. r \in SUBSET S
          OBVIOUS
        <5>2. v[r] = OneByOne(g, u, r)
          <6> HIDE DEF r
          <6> QED BY <5>1
        <5> HIDE DEF v, r, Small
        <5> QED BY <2>1, <4>3, <5>2
      <4> HIDE DEF v, Good, Small
      <4> QED BY <3>1, <3>3, <4>4 DEF OneByOne
    <3> QED BY <3>2, <3>3
  <2>3. Good(v, n + 1)
    <3> HIDE DEF v, Small
    <3> QED BY <2>2
  <2>4. v = [s \in SUBSET S |-> v[s]] /\ n + 1 \in 0..N
    BY <1>1
  <2> HIDE DEF v, Good
  <2> QED BY <2>3, <2>4
<1>4. N \in T
  <2> HIDE DEF T
  <2>1. 0..N \subseteq T
    BY <1>1, <1>2, <1>3, StepByStep
  <2> QED BY <1>1, <2>1
<1>5. PICK u : u = [s \in SUBSET S |-> u[s]] /\ Good(u, N)
  BY <1>4
<1>6. \A s \in SUBSET S : u[s] = OneByOne(g, u, s)
  <2> TAKE s \in SUBSET S
  <2>1. s \in Small(N)
    BY <1>1
  <2> HIDE DEF Small
  <2> QED BY <1>5, <2>1
<1>7. u = [s \in SUBSET S |-> OneByOne(g, u, s)]
  <2> HIDE DEF Good
  <2> QED BY <1>5, <1>6
<1> QED BY <1>7 DEF SumBy

(* it sums g over the parts of S.                                          *)
Sums(it, g, S) ==
    /\ \A s \in SUBSET S : it[s] \in Nat /\ it[s] = Total(g, s)
    /\ it[{}] = 0
    /\ \A s \in SUBSET S : \A x \in s : it[s] = g[x] + it[s \ {x}]

(* A sum of one part is the same whatever set it is a part of.             *)
LEMMA SameSum ==
    ASSUME NEW S, IsFiniteSet(S), NEW g, NEW R \in SUBSET S,
           NEW it, SumBy(it, g, S), NEW jt, SumBy(jt, g, R)
    PROVE  it[R] = jt[R]
<1> DEFINE T == {n \in 0..Cardinality(R) : \A s \in SUBSET R : Cardinality(s) = n => it[s] = jt[s]}
<1>1. IsFiniteSet(R) /\ Cardinality(R) \in Nat
  BY FS_Subset, FS_CardinalityType
<1>2. ASSUME NEW s \in SUBSET R PROVE /\ it[s] = OneByOne(g, it, s) /\ jt[s] = OneByOne(g, jt, s)
                                      /\ IsFiniteSet(s) /\ Cardinality(s) \in Nat
  <2>1. s \in SUBSET S
    OBVIOUS
  <2>2. IsFiniteSet(s) /\ Cardinality(s) \in Nat
    BY <1>1, FS_Subset, FS_CardinalityType
  <2> QED BY <2>1, <2>2 DEF SumBy
<1>3. 0 \in T
  <2>1. ASSUME NEW s \in SUBSET R, Cardinality(s) = 0 PROVE it[s] = jt[s]
    <3>1. s = {}
      BY <1>2, <2>1, FS_EmptySet
    <3> QED BY <1>2, <3>1 DEF OneByOne
  <2> QED BY <1>1, <2>1
<1>4. ASSUME NEW n \in 0..(Cardinality(R) - 1), n \in T PROVE n + 1 \in T
  <2>1. ASSUME NEW s \in SUBSET R, Cardinality(s) = n + 1 PROVE it[s] = jt[s]
    <3> DEFINE r == s \ {pick(s)}
    <3>1. s # {}
      BY <1>1, <2>1, FS_EmptySet
    <3>2. pick(s) \in s
      BY <3>1 DEF pick
    <3>3. Cardinality(r) = n
      BY <1>1, <1>2, <2>1, <3>2, FS_RemoveElement
    <3>4. it[r] = jt[r]
      <4>1. r \in SUBSET R
        OBVIOUS
      <4> HIDE DEF r
      <4> QED BY <1>4, <3>3, <4>1
    <3> QED BY <1>2, <3>1, <3>4 DEF OneByOne
  <2> QED BY <1>1, <2>1
<1>5. 0..Cardinality(R) \subseteq T
  <2> HIDE DEF T
  <2> QED BY <1>1, <1>3, <1>4, StepByStep
<1> QED BY <1>1, <1>5

(* The order in which the elements are taken does not matter.              *)
LEMMA SumsExist ==
    ASSUME NEW S, IsFiniteSet(S), NEW g, \A x \in S : g[x] \in Nat
    PROVE  \E it : Sums(it, g, S)
<1>1. PICK it : SumBy(it, g, S)
  BY SumsOf
<1>2. ASSUME NEW s \in SUBSET S PROVE it[s] = OneByOne(g, it, s) /\ IsFiniteSet(s) /\ Cardinality(s) \in Nat
  <2>1. IsFiniteSet(s) /\ Cardinality(s) \in Nat
    BY FS_Subset, FS_CardinalityType
  <2> QED BY <1>1, <2>1 DEF SumBy
<1>3. ASSUME NEW s \in SUBSET S PROVE it[s] = Total(g, s)
  <2> DEFINE jt == CHOOSE u : SumBy(u, g, s)
  <2>1. Total(g, s) = jt[s]
    BY TotalIs
  <2>2. \E u : SumBy(u, g, s)
    BY <1>2, SumsOf
  <2>3. SumBy(jt, g, s)
    BY <2>2
  <2> HIDE DEF jt
  <2>4. it[s] = jt[s]
    BY <1>1, <2>3, SameSum
  <2> QED BY <2>1, <2>4
<1> DEFINE Adds1(s) == it[s] \in Nat /\ \A x \in s : it[s] = g[x] + it[s \ {x}]
           T == {n \in 0..Cardinality(S) : \A s \in SUBSET S : Cardinality(s) <= n => Adds1(s)}
<1>4. it[{}] = 0
  BY <1>2 DEF OneByOne
<1>5. 0 \in T
  <2>1. ASSUME NEW s \in SUBSET S, Cardinality(s) <= 0 PROVE Adds1(s)
    <3>1. s = {}
      BY <1>2, <2>1, FS_EmptySet
    <3> QED BY <1>4, <3>1
  <2> HIDE DEF Adds1
  <2> QED BY <2>1, FS_CardinalityType
<1>6. ASSUME NEW n \in 0..(Cardinality(S) - 1), n \in T PROVE n + 1 \in T
  <2>1. ASSUME NEW s \in SUBSET S, Cardinality(s) = n + 1 PROVE Adds1(s)
    <3> DEFINE p == pick(s)
    <3>1. Cardinality(S) \in Nat /\ n \in Nat /\ IsFiniteSet(s)
      BY <1>2, FS_CardinalityType
    <3>2. s # {}
      BY <2>1, <3>1, FS_EmptySet
    <3>3. p \in s
      BY <3>2 DEF pick
    <3>4. it[s] = g[p] + it[s \ {p}]
      BY <1>2, <3>2 DEF OneByOne
    <3>5. \A x \in s : Cardinality(s \ {x}) = n /\ s \ {x} \in SUBSET S
      <4> TAKE x \in s
      <4>1. Cardinality(s \ {x}) = Cardinality(s) - 1
        BY <3>1, FS_RemoveElement
      <4> QED BY <2>1, <3>1, <4>1
    <3> HIDE DEF p
    <3>6. \A x \in s : Adds1(s \ {x})
      <4>1. \A x \in s : Cardinality(s \ {x}) <= n /\ s \ {x} \in SUBSET S
        BY <3>1, <3>5
      <4> HIDE DEF Adds1
      <4> QED BY <1>6, <4>1
    <3>7. it[s] \in Nat
      <4>1. it[s \ {p}] \in Nat /\ g[p] \in Nat
        BY <3>3, <3>6
      <4> QED BY <3>4, <4>1
    <3>8. ASSUME NEW x \in s PROVE it[s] = g[x] + it[s \ {x}]
      <4>1. CASE x = p
        BY <3>4, <4>1
      <4>2. CASE x # p
        <5> DEFINE r == (s \ {p}) \ {x}
        <5>1. (s \ {x}) \ {p} = r
          OBVIOUS
        <5>2. it[s \ {p}] = g[x] + it[r] /\ it[s \ {x}] = g[p] + it[r]
          BY <3>3, <3>6, <4>2, <5>1
        <5>3. it[r] \in Nat /\ g[x] \in Nat /\ g[p] \in Nat
          <6>1. r \in SUBSET S /\ r \in SUBSET (s \ {p}) /\ IsFiniteSet(s \ {p}) /\ Cardinality(s \ {p}) = n
            BY <1>2, <3>3, <3>5
          <6>2. Cardinality(r) <= n
            BY <6>1, FS_Subset
          <6>3. it[r] \in Nat
            BY <1>6, <6>1, <6>2
          <6> QED BY <3>3, <6>3
        <5> HIDE DEF r
        <5> QED BY <3>4, <5>2, <5>3
      <4> QED BY <4>1, <4>2
    <3> QED BY <3>7, <3>8
  <2>2. n + 1 \in 0..Cardinality(S) /\ n \in Nat
    BY FS_CardinalityType
  <2>3. ASSUME NEW s \in SUBSET S, Cardinality(s) <= n + 1 PROVE Adds1(s)
    <3>1. Cardinality(s) <= n \/ Cardinality(s) = n + 1
      BY <1>2, <2>2, <2>3
    <3> HIDE DEF Adds1
    <3> QED BY <1>6, <2>1, <3>1
  <2> HIDE DEF Adds1
  <2> QED BY <2>2, <2>3
<1>7. 0..Cardinality(S) \subseteq T
  <2> HIDE DEF T
  <2> QED BY <1>5, <1>6, StepByStep, FS_CardinalityType
<1>8. \A s \in SUBSET S : Adds1(s)
  <2> TAKE s \in SUBSET S
  <2>1. Cardinality(s) <= Cardinality(S) /\ Cardinality(S) \in Nat /\ Cardinality(S) \in 0..Cardinality(S)
    BY FS_Subset, FS_CardinalityType
  <2> HIDE DEF Adds1
  <2> QED BY <1>7, <2>1
<1> QED BY <1>3, <1>4, <1>8 DEF Sums

(* A larger set has no smaller sum.                                        *)
LEMMA SumsGrow ==
    ASSUME NEW S, IsFiniteSet(S), NEW g, \A x \in S : g[x] \in Nat,
           NEW it, Sums(it, g, S), NEW D \in SUBSET S
    PROVE  \A E \in SUBSET D : it[E] <= it[D]
<1> DEFINE Bad == {R \in SUBSET S : ~\A E \in SUBSET R : it[E] <= it[R]}
           N == {Cardinality(R) : R \in Bad}
<1>1. SUFFICES ASSUME N # {} PROVE FALSE
  OBVIOUS
<1>2. \A R \in SUBSET S : IsFiniteSet(R) /\ Cardinality(R) \in Nat /\ it[R] \in Nat
  <2> TAKE R \in SUBSET S
  <2>1. IsFiniteSet(R) /\ Cardinality(R) \in Nat
    BY FS_Subset, FS_CardinalityType
  <2> QED BY <2>1 DEF Sums
<1>3. N \in SUBSET Nat
  BY <1>2
<1>4. PICK n \in N : \A m \in N : n <= m
  <2> HIDE DEF N
  <2> QED BY <1>1, <1>3, LeastNatural
<1>5. PICK R \in Bad : Cardinality(R) = n
  OBVIOUS
<1>6. PICK E \in SUBSET R : ~(it[E] <= it[R])
  OBVIOUS
<1>7. E # R /\ R \in SUBSET S /\ E \in SUBSET S
  BY <1>2, <1>6
<1>8. PICK x \in R : x \notin E
  BY <1>7
<1> DEFINE Q == R \ {x}
<1>9. it[R] = g[x] + it[Q] /\ Q \in SUBSET S /\ E \in SUBSET Q /\ x \in S
  BY <1>7, <1>8 DEF Sums
<1>10. it[E] \in Nat /\ it[Q] \in Nat /\ g[x] \in Nat /\ it[R] \in Nat
  BY <1>2, <1>7, <1>9
<1>11. Cardinality(Q) = Cardinality(R) - 1 /\ Cardinality(R) \in Nat
  BY <1>2, <1>7, <1>8, FS_RemoveElement
<1> HIDE DEF Q
<1>12. Q \notin Bad
  <2>1. Cardinality(Q) \notin N
    <3>1. ~(n <= Cardinality(Q))
      BY <1>5, <1>11
    <3> HIDE DEF N
    <3> QED BY <1>4, <3>1
  <2> HIDE DEF Bad
  <2> QED BY <2>1
<1>13. it[E] <= it[Q]
  BY <1>9, <1>12
<1> QED BY <1>6, <1>9, <1>10, <1>13

(* What one event's copies charge.                                         *)
ByCharge(it, S) ==
    it = [s \in SUBSET S |-> IF s = {} THEN 0 ELSE pick(s).charge + it[s \ {pick(s)}]]

(* The copies of an event charge a natural number of failures.             *)
LEMMA ChargeNatural ==
    ASSUME NEW copies, copies \subseteq Copy, IsFiniteSet(copies)
    PROVE  Charge(copies) \in Nat
<1> DEFINE F == {k \in copies \ Genuine : \A d \in copies \cap Genuine : k.rank < d.rank}
           g == [k \in F |-> k.charge]
<1>1. IsFiniteSet(F)
  BY FS_Subset
<1>2. \A k \in F : g[k] \in Nat
  BY EpochAssumption
<1>3. Charge(copies) = (CHOOSE it : ByCharge(it, F))[F]
  BY DEF Charge, MapThenSumSet, MapThenFoldSet, ByCharge, pick
<1>4. \A s \in SUBSET F : s # {} => pick(s) \in F /\ g[pick(s)] = pick(s).charge
  <2> TAKE s \in SUBSET F
  <2> HAVE s # {}
  <2>1. pick(s) \in s
    BY DEF pick
  <2> HIDE DEF F
  <2> QED BY <2>1
<1> HIDE DEF F, g
<1>5. \A it : ByCharge(it, F) <=> SumBy(it, g, F)
  <2> TAKE it
  <2>1. \A s \in SUBSET F :
          (IF s = {} THEN 0 ELSE pick(s).charge + it[s \ {pick(s)}]) = OneByOne(g, it, s)
    BY <1>4 DEF OneByOne
  <2>2. [s \in SUBSET F |-> IF s = {} THEN 0 ELSE pick(s).charge + it[s \ {pick(s)}]]
          = [s \in SUBSET F |-> OneByOne(g, it, s)]
    BY <2>1
  <2> QED BY <2>2 DEF ByCharge, SumBy
<1>6. (CHOOSE it : ByCharge(it, F)) = (CHOOSE it : SumBy(it, g, F))
  BY <1>5
<1>7. Charge(copies) = Total(g, F)
  BY <1>3, <1>6, TotalIs
<1>8. PICK it : Sums(it, g, F)
  BY <1>1, <1>2, SumsExist
<1> QED BY <1>7, <1>8 DEF Sums

(* What the events of a set charge together.                               *)
Charges(copies) == [e \in Event |-> Charge(CopiesOf(e, copies))]

ByEvent(it, S, copies) ==
    it = [s \in SUBSET S |-> IF s = {} THEN 0 ELSE Charge(CopiesOf(pick(s), copies)) + it[s \ {pick(s)}]]

(* The failures of a set of events are the total of what each charges.     *)
LEMMA EventsCharge ==
    ASSUME NEW S \in SUBSET Event, NEW copies
    PROVE  MapThenSumSet(LAMBDA e : Charge(CopiesOf(e, copies)), S) = Total(Charges(copies), S)
<1> DEFINE g == Charges(copies)
<1>1. MapThenSumSet(LAMBDA e : Charge(CopiesOf(e, copies)), S) = (CHOOSE it : ByEvent(it, S, copies))[S]
  BY DEF MapThenSumSet, MapThenFoldSet, ByEvent, pick
<1>2. \A s \in SUBSET S : s # {} => g[pick(s)] = Charge(CopiesOf(pick(s), copies))
  <2> TAKE s \in SUBSET S
  <2> HAVE s # {}
  <2>1. pick(s) \in s
    BY DEF pick
  <2>2. pick(s) \in Event
    BY <2>1
  <2> QED BY <2>2 DEF Charges
<1> HIDE DEF g
<1>3. \A it : ByEvent(it, S, copies) <=> SumBy(it, g, S)
  <2> TAKE it
  <2>1. \A s \in SUBSET S :
          (IF s = {} THEN 0 ELSE Charge(CopiesOf(pick(s), copies)) + it[s \ {pick(s)}]) = OneByOne(g, it, s)
    BY <1>2 DEF OneByOne
  <2>2. [s \in SUBSET S |-> IF s = {} THEN 0 ELSE Charge(CopiesOf(pick(s), copies)) + it[s \ {pick(s)}]]
          = [s \in SUBSET S |-> OneByOne(g, it, s)]
    BY <2>1
  <2> QED BY <2>2 DEF ByEvent, SumBy
<1>4. (CHOOSE it : ByEvent(it, S, copies)) = (CHOOSE it : SumBy(it, g, S))
  BY <1>3
<1> QED BY <1>1, <1>4, TotalIs DEF g

(* The presented events whose signatures a fold has to check.              *)
Checked ==
    {e \in Own(Anchor, shown) :
        /\ CopiesOf(e, memory) = {}
        /\ Parents[e] \subseteq Right \cup {Anchor}
        /\ signerStands(e, Past[Anchor][e])}

(* The failures so far are those of the events evaluated.                  *)
Counted ==
    /\ IsFiniteSet(shown)
    /\ pc = "fold" => /\ failures = Total(Charges(shown), evaluated \cap Checked)
                      /\ failures <= MAX_FAILED_SIGNATURES

(* Every event whose signatures must be checked is a candidate.            *)
LEMMA CheckedFacts ==
    ASSUME FoldInv, pc = "fold"
    PROVE  Checked \subseteq candidates /\ Checked \in SUBSET Event
<1> DEFINE own == Own(Anchor, memory \cup shown)
<1>1. candidates = own \ crossEpoch(own, shown) /\ Right \subseteq candidates /\ candidates \in SUBSET Event
  BY RightFacts DEF FoldInv, Folding, Triaged
<1>2. Own(Anchor, shown) \subseteq own
  BY DEF Own
<1>3. ASSUME NEW e \in Checked PROVE e \in candidates
  <2>1. e \in own /\ Parents[e] \ (own \cup {Anchor}) = {}
    BY <1>1, <1>2 DEF Checked
  <2> HIDE DEF own
  <2> QED BY <1>1, <2>1 DEF crossEpoch
<1> QED BY <1>1, <1>3

(* Failing is the total charged by the events to be checked.               *)
LEMMA FailingIs ==
    ASSUME FoldInv, pc = "fold"
    PROVE  Failing(Anchor, memory, shown) = Total(Charges(shown), Checked)
<1>1. Failing(Anchor, memory, shown) = MapThenSumSet(LAMBDA e : Charge(CopiesOf(e, shown)), Checked)
  BY DEF Failing, Checked, Right
<1> QED BY <1>1, CheckedFacts, EventsCharge

(* What the events of a presentation charge has a total.                   *)
LEMMA ChargesSum ==
    ASSUME shown \subseteq Copy, IsFiniteSet(shown)
    PROVE  /\ \A e \in Event : Charges(shown)[e] \in Nat
           /\ \E it : Sums(it, Charges(shown), Event)
<1>1. \A e \in Event : Charges(shown)[e] \in Nat
  <2> TAKE e \in Event
  <2>1. CopiesOf(e, shown) \subseteq Copy /\ IsFiniteSet(CopiesOf(e, shown))
    BY FS_Subset DEF CopiesOf
  <2> QED BY <2>1, ChargeNatural DEF Charges
<1> QED BY <1>1, SumsExist, EpochAssumption

(* Evaluating an event charges its copies if it has to be checked.         *)
LEMMA ChargedIs ==
    ASSUME FoldInv, pc = "fold", ready # {}, NEW e, e = Smallest(ready)
    PROVE  charged(e) = IF e \in Checked THEN Charges(shown)[e] ELSE 0
<1>1. /\ e \in candidates /\ e \in Event /\ causal(e) = Past[Anchor][e]
      /\ Parents[e] \subseteq Range(applied) \cup {Anchor} /\ Range(applied) \subseteq Right
  BY JudgedRight DEF FoldInv, Folding
<1>2. e \in Own(Anchor, memory \cup shown)
  BY <1>1 DEF FoldInv, Folding, Triaged
<1>3. CopiesOf(e, memory) = {} => e \in Own(Anchor, shown)
  BY <1>2 DEF Own, CopiesOf
<1>4. e \in Checked <=> signerStands(e, causal(e)) /\ Trusted(e) = {}
  BY <1>1, <1>3 DEF Checked, Trusted
<1> QED BY <1>1, <1>4 DEF charged, Charges

(* Evaluating an event counts what its copies charge, once.                *)
LEMMA EvaluatedCounts ==
    ASSUME FoldInv, Counted, NEW e \in Event, Reject(e) \/ Apply(e)
    PROVE  Counted'
<1> DEFINE X == evaluated \cap Checked
           g == Charges(shown)
<1>1. /\ pc = "fold" /\ ready # {} /\ e = Smallest(ready)
      /\ failures + charged(e) <= MAX_FAILED_SIGNATURES /\ failures' = failures + charged(e)
      /\ memory' = memory /\ shown' = shown
  BY DEF Reject, Apply, Evaluate, withinBudget
<1>2. evaluated' = evaluated \cup {e} /\ Checked' = Checked
  BY <1>1, RejectFolds, ApplyFolds DEF Checked, Right
<1>3. PICK it : Sums(it, g, Event)
  BY ChargesSum DEF FoldInv, Counted
<1>4. X \in SUBSET Event /\ e \notin X /\ Checked \in SUBSET Event
  BY <1>1, CheckedFacts, JudgedRight
<1>5. failures = it[X]
  BY <1>1, <1>3, <1>4 DEF Counted, Sums
<1>6. failures' = Total(g, evaluated' \cap Checked)
  <2>1. CASE e \in Checked
    <3> DEFINE Y == X \cup {e}
    <3>1. evaluated' \cap Checked = Y /\ Y \in SUBSET Event /\ e \in Y /\ Y \ {e} = X
      BY <1>2, <1>4, <2>1
    <3>2. charged(e) = g[e]
      BY <1>1, <2>1, ChargedIs
    <3> HIDE DEF X, Y, g
    <3>3. it[Y] = g[e] + it[X] /\ it[Y] = Total(g, Y)
      BY <1>3, <3>1 DEF Sums
    <3>4. it[X] \in Nat /\ g[e] \in Nat
      BY <1>3, <1>4, ChargesSum DEF Sums, FoldInv, Counted, g
    <3>5. failures' = it[X] + g[e] /\ it[X] + g[e] = g[e] + it[X]
      BY <1>1, <1>5, <3>2, <3>4
    <3>6. failures' = it[Y]
      BY <3>3, <3>5
    <3> QED BY <3>1, <3>3, <3>6
  <2>2. CASE e \notin Checked
    <3>1. evaluated' \cap Checked = X
      BY <1>2, <2>2
    <3>2. charged(e) = 0
      BY <1>1, <2>2, ChargedIs
    <3>3. it[X] \in Nat /\ it[X] = Total(g, X)
      BY <1>3, <1>4 DEF Sums
    <3> QED BY <1>1, <1>5, <3>1, <3>2, <3>3
  <2> QED BY <2>1, <2>2
<1> QED BY <1>1, <1>2, <1>6 DEF Counted

(* Every step keeps the count of failures exact.                           *)
LEMMA CountedStep ==
    ASSUME FoldInv, Counted, [FoldNext]_foldVars
    PROVE  Counted'
<1>1. CASE \E copies \in Presentation : Triage(copies)
  <2>1. PICK copies \in Presentation : Triage(copies)
    BY <1>1
  <2>2. shown' = copies /\ failures' = 0 /\ evaluated' = {} /\ copies \subseteq Copy /\ IsFiniteSet(copies)
    BY <2>1, TriageFolds, FoldAssumption DEF Triage
  <2>3. Total(Charges(copies), {}) = 0
    <3>1. {} \in SUBSET {} /\ IsFiniteSet({}) /\ \A x \in {} : Charges(copies)[x] \in Nat
      BY FS_EmptySet
    <3>2. PICK it : Sums(it, Charges(copies), {})
      BY <3>1, SumsExist
    <3> QED BY <3>1, <3>2 DEF Sums
  <2>4. evaluated' \cap Checked' = {}
    BY <2>2
  <2> QED BY <2>2, <2>3, <2>4, EpochAssumption DEF Counted
<1>2. CASE \E e \in Event : Reject(e) \/ Apply(e)
  BY <1>2, EvaluatedCounts
<1>3. CASE Finish \/ Throw \/ \E e \in Event : Exhaust(e)
  <2>1. pc' = "idle" /\ shown' = {}
    BY <1>3 DEF Finish, Throw, Exhaust, Return
  <2> QED BY <2>1, FS_EmptySet DEF Counted
<1>4. CASE UNCHANGED foldVars
  <2>1. UNCHANGED <<memory, pc, shown, candidates, waiting, ready, failures>>
    BY <1>4 DEF foldVars, local
  <2>2. evaluated' = evaluated /\ Checked' = Checked
    BY <2>1 DEF evaluated, Checked, Right
  <2> QED BY <2>1, <2>2 DEF Counted
<1> QED BY <1>1, <1>2, <1>3, <1>4 DEF FoldNext

(* A fold charges the failures of the events it has evaluated, and stays   *)
(* within the limit.                                                       *)
LEMMA CountedInvariant == FoldSpec => []Counted
<1>1. FoldInit => Counted
  BY FS_EmptySet DEF FoldInit, Counted
<1>2. FoldInv /\ Counted /\ [FoldNext]_foldVars => Counted'
  BY CountedStep
<1> QED BY <1>1, <1>2, FoldInvariant, PTL DEF FoldSpec

(* A count that is exact refuses exactly the presentations above the       *)
(* budget.                                                                 *)
LEMMA RefusesExactly ==
    ASSUME FoldInv, Counted
    PROVE  /\ (\E e \in Event : Exhaust(e)) => Failing(Anchor, memory, shown) > MAX_FAILED_SIGNATURES
           /\ Finish => Failing(Anchor, memory, shown) <= MAX_FAILED_SIGNATURES
<1> DEFINE X == evaluated \cap Checked
           g == Charges(shown)
<1>1. ASSUME NEW e \in Event, Exhaust(e)
      PROVE  Failing(Anchor, memory, shown) > MAX_FAILED_SIGNATURES
  <2>1. pc = "fold" /\ ready # {} /\ e = Smallest(ready) /\ ~(failures + charged(e) <= MAX_FAILED_SIGNATURES)
    BY <1>1 DEF Exhaust, Evaluate, withinBudget
  <2>2. PICK it : Sums(it, g, Event)
    BY ChargesSum DEF FoldInv, Counted
  <2>3. X \in SUBSET Event /\ e \notin X /\ Checked \in SUBSET Event
    BY <2>1, CheckedFacts, JudgedRight
  <2>4. failures = it[X] /\ failures <= MAX_FAILED_SIGNATURES /\ it[X] \in Nat
    BY <2>1, <2>2, <2>3 DEF Counted, Sums
  <2>5. e \in Checked
    <3> SUFFICES ASSUME e \notin Checked PROVE FALSE
      OBVIOUS
    <3>1. charged(e) = 0
      BY <2>1, ChargedIs
    <3> QED BY <2>1, <2>4, <3>1
  <2>6. charged(e) = g[e] /\ g[e] \in Nat
    BY <2>1, <2>5, ChargedIs, ChargesSum DEF FoldInv, Counted
  <2> DEFINE Y == X \cup {e}
  <2>7. Y \in SUBSET Event /\ e \in Y /\ Y \ {e} = X /\ Y \in SUBSET Checked
    BY <2>3, <2>5
  <2>8. IsFiniteSet(Event) /\ \A x \in Event : g[x] \in Nat
    BY ChargesSum, EpochAssumption DEF FoldInv, Counted
  <2>9. Failing(Anchor, memory, shown) = Total(g, Checked)
    BY <2>1, FailingIs
  <2> HIDE DEF X, Y, g
  <2>10. it[Y] = g[e] + it[X] /\ it[Checked] = Total(g, Checked) /\ it[Checked] \in Nat
    BY <2>2, <2>3, <2>7 DEF Sums
  <2>11. it[Y] <= it[Checked]
    BY <2>2, <2>3, <2>7, <2>8, SumsGrow
  <2>12. MAX_FAILED_SIGNATURES \in Nat
    BY EpochAssumption
  <2> QED BY <2>1, <2>4, <2>6, <2>9, <2>10, <2>11, <2>12
<1>2. ASSUME Finish PROVE Failing(Anchor, memory, shown) <= MAX_FAILED_SIGNATURES
  <2>1. pc = "fold" /\ ready = {}
    BY <1>2 DEF Finish
  <2>2. ASSUME NEW e \in Checked PROVE e \in evaluated
    <3>1. e \in candidates /\ Parents[e] \subseteq Right \cup {Anchor}
      BY <2>1, CheckedFacts DEF Checked
    <3>2. waiting[e] = 0
      BY <2>1, <3>1, AllApplied, WaitsForNone
    <3> QED BY <2>1, <3>1, <3>2 DEF evaluated
  <2>3. X = Checked
    BY <2>2
  <2> QED BY <2>1, <2>3, FailingIs DEF Counted
<1> QED BY <1>1, <1>2

(* "stopping as soon as it passes the limit refuses exactly the            *)
(* presentations that would have passed it anyway": a fold that is refused *)
(* had more failing signatures to check than the limit, and one that       *)
(* finishes had not.                                                       *)
THEOREM AlwaysRefusedExactly == FoldSpec => RefusedExactly
<1>1. FoldInv /\ Counted /\ [FoldNext]_foldVars =>
        [/\ (\E e \in Event : Exhaust(e)) => Failing(Anchor, memory, shown) > MAX_FAILED_SIGNATURES
         /\ Finish => Failing(Anchor, memory, shown) <= MAX_FAILED_SIGNATURES]_foldVars
  BY RefusesExactly
<1> QED BY <1>1, FoldInvariant, CountedInvariant, PTL DEF FoldSpec, RefusedExactly

(* Between folds there are no local variables.                             *)
Resting ==
    /\ shown = {} /\ candidates = {} /\ ready = {} /\ applied = <<>> /\ failures = 0
    /\ waiting = Nothing /\ after = Nothing /\ unread = Nothing /\ authentic = Nothing
    /\ union = emptyState

Typed ==
    /\ pc \in {"idle", "fold"} /\ folds \in 0..MaxPresentations
    /\ answer \in [head : EpochState, applied : SUBSET Event, saturated : BOOLEAN]
    /\ waiting = [d \in candidates |-> waiting[d]]
    /\ pc = "idle" => Resting

(* Every step keeps the fold's variables in their types.                   *)
LEMMA TypedStep ==
    ASSUME FoldInv, Typed, [FoldNext]_foldVars
    PROVE  Typed'
<1>1. Resting => candidates = {} /\ waiting = [d \in candidates |-> waiting[d]]
  BY DEF Resting, Nothing
<1>2. CASE \E copies \in Presentation : Triage(copies)
  <2>1. PICK copies \in Presentation : Triage(copies)
    BY <1>2
  <2>2. /\ folds < MaxPresentations /\ folds' = folds + 1 /\ pc' = "fold" /\ answer' = answer
        /\ waiting' = [e \in candidates' |-> Cardinality(Parents[e] \ {Anchor})]
    BY <2>1 DEF Triage
  <2>3. waiting' = [d \in candidates' |-> waiting'[d]]
    BY <2>2
  <2> QED BY <2>2, <2>3, FoldAssumption DEF Typed
<1>3. CASE \E e \in Event : Reject(e) \/ Apply(e)
  <2>1. PICK e \in Event : Reject(e) \/ Apply(e)
    BY <1>3
  <2>2. pc = "fold" /\ UNCHANGED <<pc, folds, answer, candidates>>
    BY <2>1 DEF Reject, Apply, Evaluate
  <2>3. \/ waiting' = waiting
        \/ waiting' = [d \in candidates |-> waiting[d] - (IF d \in children(e) THEN 1 ELSE 0)]
    BY <2>1 DEF Reject, Apply
  <2>4. waiting' = [d \in candidates' |-> waiting'[d]]
    BY <2>2, <2>3 DEF Typed
  <2> QED BY <2>2, <2>4 DEF Typed
<1>4. CASE Finish \/ Throw \/ \E e \in Event : Exhaust(e)
  <2>1. Return /\ folds' = folds
    BY <1>4 DEF Finish, Throw, Exhaust
  <2>2. pc' = "idle" /\ Resting'
    BY <2>1 DEF Return, Resting
  <2>3. waiting' = [d \in candidates' |-> waiting'[d]]
    BY <2>2 DEF Resting, Nothing
  <2>4. answer' \in [head : EpochState, applied : SUBSET Event, saturated : BOOLEAN]
    <3>1. CASE Finish
      <4>1. /\ pc = "fold" /\ ready = {}
            /\ answer' = [head |-> union, applied |-> Range(applied), saturated |-> Len(applied) > MAX_EPOCH_EVENTS]
        BY <3>1 DEF Finish
      <4>2. union = HeadOf(Anchor, Range(applied)) /\ Range(applied) \in SUBSET Event
        BY <4>1, AllApplied, RightRooted DEF FoldInv, Folding
      <4>3. union \in EpochState
        BY <4>2, AnchorApart, HeadParts
      <4>4. (Len(applied) > MAX_EPOCH_EVENTS) \in BOOLEAN
        OBVIOUS
      <4> QED BY <4>1, <4>2, <4>3, <4>4
    <3>2. CASE Throw \/ \E e \in Event : Exhaust(e)
      BY <3>2 DEF Throw, Exhaust, Typed
    <3> QED BY <1>4, <3>1, <3>2
  <2> QED BY <2>1, <2>2, <2>3, <2>4 DEF Typed
<1>5. CASE UNCHANGED foldVars
  BY <1>5 DEF foldVars, local, Typed, Resting
<1> QED BY <1>2, <1>3, <1>4, <1>5 DEF FoldNext

(* The invariants together give the fold's type correctness.               *)
LEMMA TypedFold ==
    ASSUME FoldInv, Counted, Typed
    PROVE  FoldTypeOK
<1>1. memory \subseteq Copy /\ shown \subseteq Copy
  BY DEF FoldInv, Epochal
<1>2. CASE pc = "idle"
  <2>1. Resting
    BY <1>2 DEF Typed
  <2>2. Range(<<>>) = {} /\ DOMAIN Nothing = {}
    BY DEF Range, Nothing
  <2>3. emptyState \in EpochState
    BY DEF emptyState, EpochState
  <2>4. waiting \in [candidates -> Nat]
    BY <2>1, <2>2 DEF Resting, Typed
  <2> QED BY <1>1, <2>1, <2>2, <2>3, <2>4 DEF FoldTypeOK, Resting, Typed
<1>3. CASE pc = "fold"
  <2>1. Folding /\ candidates \in SUBSET Event /\ IsFiniteSet(candidates) /\ Right \subseteq candidates
        /\ ready \subseteq candidates /\ Range(applied) \subseteq Right
    BY <1>3, RightFacts DEF FoldInv, Folding, Triaged
  <2>2. waiting \in [candidates -> Nat]
    <3>1. \A d \in candidates : waiting[d] \in Nat
      BY <1>3, WaitsForNone
    <3> QED BY <3>1 DEF Typed
  <2>3. /\ DOMAIN after \subseteq candidates /\ DOMAIN unread = DOMAIN after
        /\ \A e \in DOMAIN after : after[e] \in EpochState /\ unread[e] \in Nat
    <3>1. DOMAIN after \subseteq Range(applied) /\ DOMAIN unread = DOMAIN after
      BY <2>1 DEF Folding, StatesHeld
    <3>2. ASSUME NEW e \in DOMAIN after PROVE after[e] \in EpochState /\ unread[e] \in Nat
      <4>1. after[e] = HeadOf(Anchor, Before(e) \cup {e}) /\ unread[e] = Cardinality(children(e) \ evaluated)
        BY <2>1 DEF Folding, StatesHeld
      <4>2. Before(e) \cup {e} \in SUBSET Event
        BY <2>1, <3>1 DEF Before
      <4>3. after[e] \in EpochState
        BY <4>1, <4>2, AnchorApart, HeadParts
      <4>4. children(e) \ evaluated \in SUBSET candidates
        BY DEF children
      <4>5. IsFiniteSet(children(e) \ evaluated)
        BY <2>1, <4>4, FS_Subset
      <4> QED BY <4>1, <4>3, <4>5, FS_CardinalityType
    <3> QED BY <2>1, <3>1, <3>2
  <2>4. applied \in Seq(candidates)
    <3>1. applied \in Seq(Right)
      BY <2>1 DEF Folding, InOrder, Ordered
    <3> QED BY <2>1, <3>1
  <2>5. union \in EpochState
    <3>1. union = HeadOf(Anchor, Range(applied)) /\ Range(applied) \in SUBSET Event
      BY <2>1 DEF Folding
    <3> QED BY <3>1, AnchorApart, HeadParts
  <2>6. failures \in Nat
    <3>1. PICK it : Sums(it, Charges(shown), Event)
      BY <1>1, ChargesSum DEF Counted
    <3>2. evaluated \cap Checked \in SUBSET Event
      BY <1>3, CheckedFacts
    <3> QED BY <1>3, <3>1, <3>2 DEF Counted, Sums
  <2>7. DOMAIN authentic = Range(applied) /\ \A e \in DOMAIN authentic : authentic[e] \in CopiesOf(e, Copy)
    <3>1. DOMAIN authentic = Range(applied)
      BY <2>1 DEF Folding, Authenticated
    <3>2. ASSUME NEW e \in Range(applied) PROVE authentic[e] \in CopiesOf(e, Copy)
      <4>1. authentic[e] = KeptCopy(e, memory, shown) /\ Authentic(e, memory, shown)
        BY <1>3, <2>1, RightFacts DEF Folding, Authenticated, Applicable
      <4>2. KeptCopy(e, memory, shown) \in memory \cup shown /\ KeptCopy(e, memory, shown).event = e
        BY <1>1, <4>1, CopyKept
      <4> QED BY <1>1, <4>1, <4>2 DEF CopiesOf
    <3> QED BY <3>1, <3>2
  <2> QED BY <1>1, <1>3, <2>1, <2>2, <2>3, <2>4, <2>5, <2>6, <2>7 DEF FoldTypeOK, Typed
<1> QED BY <1>2, <1>3 DEF Typed

(* The fold's variables keep their types.                                  *)
THEOREM FoldTypeCorrect == FoldSpec => []FoldTypeOK
<1>1. FoldInit => Typed
  <2> SUFFICES ASSUME FoldInit PROVE Typed
    OBVIOUS
  <2>1. anchorState(Anchor) \in EpochState
    BY AnchorApart, EffectTypes
  <2>2. Resting /\ waiting = [d \in candidates |-> waiting[d]]
    BY DEF FoldInit, Resting, Nothing
  <2> QED BY <2>1, <2>2, FoldAssumption DEF FoldInit, Typed
<1>2. FoldInv /\ Typed /\ [FoldNext]_foldVars => Typed'
  BY TypedStep
<1>3. FoldInv /\ Counted /\ Typed => FoldTypeOK
  BY TypedFold
<1> QED BY <1>1, <1>2, <1>3, FoldInvariant, CountedInvariant, PTL DEF FoldSpec
=============================================================================
