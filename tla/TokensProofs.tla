---------------------------- MODULE TokensProofs ----------------------------
(***************************************************************************)
(* What verifyToken promises, proved for every set of tokens, options,     *)
(* documents and identities, for caches of every size and every order in   *)
(* which calls, resolvers and providers settle.                            *)
(***************************************************************************)
EXTENDS Tokens, WellFoundedInduction, TLAPS

(* A set of indices has a least one.                                       *)
LEMMA Least ==
    ASSUME NEW T \in SUBSET Nat, T # {}
    PROVE  \E n \in T : \A m \in T : n <= m
<1> DEFINE R == OpToRel(<, Nat)
<1>1. IsWellFoundedOn(R, Nat)
  BY NatLessThanWellFounded
<1>2. PICK n \in T : \A m \in T : <<m, n>> \notin R
  <2> HIDE DEF R
  <2> QED
    BY <1>1, WFMin
<1>3. \A m \in T : <<m, n>> \in R <=> m < n
  BY DEF OpToRel
<1>4. \A m \in T : ~(m < n)
  BY <1>2, <1>3
<1>5. QED
  <2> HIDE DEF R
  <2> QED
    BY <1>4

-----------------------------------------------------------------------------
(* Filtered, one element at a time.                                        *)

Taking(s, S, f, m) ==
    f = [n \in 0..m |-> IF n = 0 THEN <<>>
                        ELSE IF n \in S THEN Append(f[n - 1], s[n]) ELSE f[n - 1]]

LEMMA TakingExists ==
    ASSUME NEW s, NEW S, NEW m \in Nat
    PROVE  \E f : Taking(s, S, f, m)
<1> DEFINE Bad == {n \in Nat : ~\E f : Taking(s, S, f, n)}
<1>1. SUFFICES ASSUME Bad # {} PROVE FALSE
  OBVIOUS
<1>2. PICK n \in Bad : \A k \in Bad : n <= k
  BY <1>1, Least
<1>3. CASE n = 0
  <2>1. PICK f : f = [k \in 0..0 |-> <<>>]
    OBVIOUS
  <2>2. Taking(s, S, f, 0)
    BY <2>1 DEF Taking
  <2>3. QED
    BY <1>2, <1>3, <2>2
<1>4. CASE n # 0
  <2>1. n - 1 \in Nat /\ n - 1 \notin Bad
    BY <1>2, <1>4
  <2>2. PICK f : Taking(s, S, f, n - 1)
    BY <2>1
  <2>3. PICK g : g = [k \in 0..n |-> IF k = n THEN IF n \in S THEN Append(f[n - 1], s[n]) ELSE f[n - 1]
                                      ELSE f[k]]
    OBVIOUS
  <2>4. \A k \in 0..(n - 1) : g[k] = f[k]
    BY <2>3
  <2>5. \A k \in 0..n : g[k] = IF k = 0 THEN <<>>
                               ELSE IF k \in S THEN Append(g[k - 1], s[k]) ELSE g[k - 1]
    <3>1. SUFFICES ASSUME NEW k \in 0..n
          PROVE  g[k] = IF k = 0 THEN <<>>
                        ELSE IF k \in S THEN Append(g[k - 1], s[k]) ELSE g[k - 1]
      OBVIOUS
    <3>2. CASE k = n
      <4>1. k # 0 /\ k - 1 \in 0..(n - 1) /\ g[k - 1] = f[n - 1]
        BY <3>2, <1>4, <2>1, <2>4
      <4>2. QED
        BY <4>1, <3>2, <2>3
    <3>3. CASE k # n
      <4>1. k \in 0..(n - 1) /\ g[k] = f[k] /\ (k # 0 => g[k - 1] = f[k - 1])
        BY <3>3, <2>1, <2>4
      <4>2. QED
        BY <4>1, <2>2 DEF Taking
    <3>4. QED
      BY <3>2, <3>3
  <2>6. Taking(s, S, g, n)
    BY <2>3, <2>5 DEF Taking
  <2>7. QED
    BY <1>2, <2>6
<1>5. QED
  BY <1>3, <1>4

LEMMA FilteredIs ==
    ASSUME NEW s, NEW S, Len(s) \in Nat
    PROVE  \E f : Taking(s, S, f, Len(s)) /\ Filtered(s, S) = f[Len(s)]
<1> DEFINE take == CHOOSE f : Taking(s, S, f, Len(s))
<1>1. Taking(s, S, take, Len(s))
  BY TakingExists
<1>2. Filtered(s, S) = take[Len(s)]
  BY DEF Filtered, Taking
<1> HIDE DEF take
<1>3. QED
  BY <1>1, <1>2

(* t holds the elements of s at the places in S up to n: f is the place    *)
(* each has in s.                                                          *)
Picked(s, S, n, t, f) ==
    /\ DOMAIN t = 1..Len(t) /\ Len(t) \in Nat
    /\ f \in [1..Len(t) -> S \cap (1..n)]
    /\ \A i, j \in 1..Len(t) : i < j => f[i] < f[j]
    /\ \A i \in S \cap (1..n) : \E j \in 1..Len(t) : f[j] = i
    /\ \A j \in 1..Len(t) : t[j] = s[f[j]]
    /\ Len(t) <= n
    /\ \A i \in 1..n : i \notin S => Len(t) < n

LEMMA TakenPicks ==
    ASSUME NEW T, NEW s \in Seq(T), NEW S, NEW take, Taking(s, S, take, Len(s)),
           NEW l \in 0..Len(s)
    PROVE  take[l] \in Seq(T) /\ \E f : Picked(s, S, l, take[l], f)
<1> DEFINE Fine(n) == take[n] \in Seq(T) /\ \E f : Picked(s, S, n, take[n], f)
           Bad == {n \in 0..Len(s) : ~Fine(n)}
<1>1. SUFFICES ASSUME Bad # {} PROVE FALSE
  <2>1. Fine(l)
    <3> HIDE DEF Fine
    <3> QED
      BY <1>1
  <2>2. QED
    BY <2>1
<1>2. PICK n \in Bad : \A k \in Bad : n <= k
  <2>1. Bad \in SUBSET Nat
    <3> HIDE DEF Fine
    <3> QED
      OBVIOUS
  <2>2. QED
    <3> HIDE DEF Bad
    <3> QED
      BY <1>1, <2>1, Least
<1>3. n \in 0..Len(s) /\ ~Fine(n) /\ (n # 0 => Fine(n - 1))
  <2> HIDE DEF Fine
  <2> QED
    BY <1>2
<1> HIDE DEF Bad
<1>4. CASE n = 0
  <2>1. take[0] = <<>>
    BY DEF Taking
  <2>2. PICK f : f = [j \in 1..0 |-> 0]
    OBVIOUS
  <2>3. Picked(s, S, 0, <<>>, f)
    BY <2>2 DEF Picked
  <2>4. QED
    BY <1>3, <1>4, <2>1, <2>3
<1>5. CASE n # 0 /\ n \in S
  <2>1. take[n] = Append(take[n - 1], s[n])
    BY <1>3, <1>5 DEF Taking
  <2>2. PICK f : Picked(s, S, n - 1, take[n - 1], f)
    BY <1>3, <1>5
  <2>3. take[n - 1] \in Seq(T) /\ s[n] \in T /\ n \in 1..Len(s)
    BY <1>3, <1>5
  <2>4. PICK m \in Nat : m = Len(take[n - 1])
    BY <2>3
  <2>5. PICK g : g = [j \in 1..(m + 1) |-> IF j = m + 1 THEN n ELSE f[j]]
    OBVIOUS
  <2>6. /\ take[n] \in Seq(T) /\ Len(take[n]) = m + 1 /\ DOMAIN take[n] = 1..(m + 1)
        /\ take[n][m + 1] = s[n] /\ \A j \in 1..m : take[n][j] = take[n - 1][j]
    BY <2>1, <2>3, <2>4
  <2>7. f \in [1..m -> S \cap (1..(n - 1))] /\ m <= n - 1
    BY <2>2, <2>4 DEF Picked
  <2>8. \A j \in 1..m : f[j] \in S /\ f[j] \in 1..(n - 1)
    BY <2>7
  <2>9. \A i, j \in 1..(m + 1) : i < j => g[i] < g[j]
    <3>1. SUFFICES ASSUME NEW i \in 1..(m + 1), NEW j \in 1..(m + 1), i < j PROVE g[i] < g[j]
      OBVIOUS
    <3>2. i \in 1..m /\ g[i] = f[i]
      BY <3>1, <2>5
    <3>3. CASE j = m + 1
      BY <3>2, <3>3, <2>5, <2>8, <2>3
    <3>4. CASE j # m + 1
      <4>1. j \in 1..m /\ g[j] = f[j]
        BY <3>4, <2>5
      <4>2. QED
        BY <4>1, <3>1, <3>2, <2>2, <2>4 DEF Picked
    <3>5. QED
      BY <3>3, <3>4
  <2>10. \A i \in S \cap (1..n) : \E j \in 1..(m + 1) : g[j] = i
    <3>1. SUFFICES ASSUME NEW i \in S \cap (1..n) PROVE \E j \in 1..(m + 1) : g[j] = i
      OBVIOUS
    <3>2. CASE i = n
      BY <3>2, <2>5
    <3>3. CASE i # n
      <4>1. i \in S \cap (1..(n - 1))
        BY <3>1, <3>3, <2>3
      <4>2. PICK j \in 1..m : f[j] = i
        BY <4>1, <2>2, <2>4 DEF Picked
      <4>3. QED
        BY <4>2, <2>5
    <3>4. QED
      BY <3>2, <3>3
  <2>11. g \in [1..(m + 1) -> S \cap (1..n)]
    BY <2>5, <2>8, <2>3, <1>5
  <2>12. \A j \in 1..(m + 1) : take[n][j] = s[g[j]]
    BY <2>5, <2>6, <2>2, <2>4 DEF Picked
  <2>13. \A i \in 1..n : i \notin S => m + 1 < n
    <3>1. SUFFICES ASSUME NEW i \in 1..n, i \notin S PROVE m < n - 1
      BY <2>3
    <3>2. i \in 1..(n - 1)
      BY <3>1, <1>5, <2>3
    <3>3. QED
      BY <3>1, <3>2, <2>2, <2>4 DEF Picked
  <2>14. Picked(s, S, n, take[n], g)
    BY <2>6, <2>7, <2>9, <2>10, <2>11, <2>12, <2>13, <2>3 DEF Picked
  <2>15. QED
    BY <2>14, <2>6, <1>3
<1>6. CASE n # 0 /\ n \notin S
  <2>1. take[n] = take[n - 1]
    BY <1>3, <1>6 DEF Taking
  <2>2. PICK f : Picked(s, S, n - 1, take[n - 1], f)
    BY <1>3, <1>6
  <2>3. take[n - 1] \in Seq(T) /\ n \in 1..Len(s)
    BY <1>3, <1>6
  <2>4. S \cap (1..n) = S \cap (1..(n - 1))
    BY <2>3, <1>6
  <2>5. Picked(s, S, n, take[n], f)
    BY <2>1, <2>2, <2>3, <2>4 DEF Picked
  <2>6. QED
    BY <2>5, <2>1, <2>3, <1>3
<1>7. QED
  BY <1>4, <1>5, <1>6

(* Filtered(s, S) is s read at the places in S, in increasing order.       *)
LEMMA FilteredPicks ==
    ASSUME NEW T, NEW s \in Seq(T), NEW S
    PROVE  /\ Filtered(s, S) \in Seq(T)
           /\ \E f : Picked(s, S, Len(s), Filtered(s, S), f)
<1>1. PICK take : Taking(s, S, take, Len(s)) /\ Filtered(s, S) = take[Len(s)]
  BY FilteredIs
<1>2. Len(s) \in 0..Len(s)
  OBVIOUS
<1>3. QED
  BY <1>1, <1>2, TakenPicks

(* Array.find: the first of the places in S is what Head(Filtered) reads.  *)
LEMMA FilteredFirst ==
    ASSUME NEW T, NEW s \in Seq(T), NEW S,
           NEW i \in S \cap (1..Len(s)), \A k \in S \cap (1..Len(s)) : i <= k
    PROVE  Filtered(s, S) # <<>> /\ Head(Filtered(s, S)) = s[i]
<1>1. PICK f : Picked(s, S, Len(s), Filtered(s, S), f)
  BY FilteredPicks
<1>2. Filtered(s, S) \in Seq(T)
  BY FilteredPicks
<1>3. PICK t \in Seq(T) : t = Filtered(s, S)
  BY <1>2
<1>4. PICK j \in 1..Len(t) : f[j] = i
  BY <1>1, <1>3 DEF Picked
<1>5. 1 \in 1..Len(t) /\ f[1] \in S \cap (1..Len(s))
  BY <1>1, <1>3, <1>4 DEF Picked
<1>6. f[1] = i
  <2>1. CASE j = 1
    BY <2>1, <1>4
  <2>2. CASE j # 1
    <3>1. 1 < j
      BY <2>2, <1>4, <1>3
    <3>2. f[1] < f[j]
      BY <1>1, <1>3, <1>4, <1>5, <3>1 DEF Picked
    <3>3. f[1] \in Int /\ i \in Int /\ i <= f[1]
      BY <1>5
    <3>4. QED
      BY <3>2, <3>3, <1>4
  <2>3. QED
    BY <2>1, <2>2
<1>7. t[1] = s[i]
  BY <1>1, <1>3, <1>5, <1>6 DEF Picked
<1>8. t # <<>> /\ Head(t) = t[1]
  BY <1>3, <1>5
<1>9. QED
  BY <1>3, <1>7, <1>8

LEMMA FilteredNone ==
    ASSUME NEW T, NEW s \in Seq(T), NEW S, S \cap (1..Len(s)) = {}
    PROVE  Filtered(s, S) = <<>>
<1>1. PICK f : Picked(s, S, Len(s), Filtered(s, S), f)
  BY FilteredPicks
<1>2. PICK t \in Seq(T) : t = Filtered(s, S)
  BY FilteredPicks
<1>3. Len(t) = 0
  <2>1. SUFFICES ASSUME Len(t) # 0 PROVE FALSE
    OBVIOUS
  <2>2. 1 \in 1..Len(t)
    BY <2>1, <1>2
  <2>3. f[1] \in S \cap (1..Len(s))
    BY <2>2, <1>1, <1>2 DEF Picked
  <2>4. QED
    BY <2>3
<1>4. QED
  BY <1>2, <1>3

(* What a filtered sequence holds, and how long it is.                     *)
LEMMA FilteredHolds ==
    ASSUME NEW T, NEW s \in Seq(T), NEW S
    PROVE  /\ \A j \in 1..Len(Filtered(s, S)) :
                 \E i \in S \cap (1..Len(s)) : Filtered(s, S)[j] = s[i]
           /\ \A i \in S \cap (1..Len(s)) :
                 \E j \in 1..Len(Filtered(s, S)) : Filtered(s, S)[j] = s[i]
           /\ Len(Filtered(s, S)) <= Len(s)
           /\ \A i \in 1..Len(s) : i \notin S => Len(Filtered(s, S)) < Len(s)
<1>1. PICK f : Picked(s, S, Len(s), Filtered(s, S), f)
  BY FilteredPicks
<1>2. PICK t \in Seq(T) : t = Filtered(s, S)
  BY FilteredPicks
<1>3. \A j \in 1..Len(t) : \E i \in S \cap (1..Len(s)) : t[j] = s[i]
  BY <1>1, <1>2 DEF Picked
<1>4. \A i \in S \cap (1..Len(s)) : \E j \in 1..Len(t) : t[j] = s[i]
  BY <1>1, <1>2 DEF Picked
<1>5. Len(t) <= Len(s) /\ \A i \in 1..Len(s) : i \notin S => Len(t) < Len(s)
  BY <1>1, <1>2 DEF Picked
<1>6. QED
  BY <1>2, <1>3, <1>4, <1>5

(* Two places of a filtered sequence come from two of the other.           *)
Apart(s, S, t) ==
    \A a, b \in 1..Len(t) : a # b =>
       \E i, k \in S \cap (1..Len(s)) : i # k /\ t[a] = s[i] /\ t[b] = s[k]

LEMMA FilteredApart ==
    ASSUME NEW T, NEW s \in Seq(T), NEW S
    PROVE  Apart(s, S, Filtered(s, S))
<1>1. PICK f : Picked(s, S, Len(s), Filtered(s, S), f)
  BY FilteredPicks
<1>2. PICK t \in Seq(T) : t = Filtered(s, S)
  BY FilteredPicks
<1>3. ASSUME NEW a \in 1..Len(t), NEW b \in 1..Len(t), a # b
      PROVE  \E i, k \in S \cap (1..Len(s)) : i # k /\ t[a] = s[i] /\ t[b] = s[k]
  <2>1. f[a] \in S \cap (1..Len(s)) /\ f[b] \in S \cap (1..Len(s))
        /\ t[a] = s[f[a]] /\ t[b] = s[f[b]]
    BY <1>1, <1>2 DEF Picked
  <2>2. a < b \/ b < a
    BY <1>3, <1>2
  <2>3. f[a] < f[b] \/ f[b] < f[a]
    BY <2>2, <1>1, <1>2 DEF Picked
  <2>4. QED
    BY <2>1, <2>3
<1>4. Apart(s, S, t)
  BY <1>3 DEF Apart
<1>5. QED
  BY <1>2, <1>4

LEMMA FilteredOne ==
    ASSUME NEW T, NEW s \in Seq(T), NEW S, NEW k, S \cap (1..Len(s)) = {k}
    PROVE  Filtered(s, S) = <<s[k]>>
<1>1. PICK t \in Seq(T) : t = Filtered(s, S)
  BY FilteredPicks
<1>2. ASSUME NEW j \in 1..Len(t)
      PROVE  t[j] = s[k]
  <2>1. \A m \in 1..Len(t) : \E i \in S \cap (1..Len(s)) : t[m] = s[i]
    BY <1>1, FilteredHolds
  <2>2. PICK i \in S \cap (1..Len(s)) : t[j] = s[i]
    BY <2>1
  <2>3. QED
    BY <2>2
<1>3. \E j \in 1..Len(t) : t[j] = s[k]
  <2>1. \A i \in S \cap (1..Len(s)) : \E j \in 1..Len(t) : t[j] = s[i]
    BY <1>1, FilteredHolds
  <2>2. QED
    BY <2>1
<1>4. \A a, b \in 1..Len(t) : a = b
  <2>1. Apart(s, S, t)
    BY <1>1, FilteredApart
  <2>2. QED
    BY <2>1 DEF Apart
<1>5. Len(t) = 1
  <2>1. Len(t) >= 1
    BY <1>1, <1>3
  <2>2. CASE Len(t) > 1
    <3>1. 1 \in 1..Len(t) /\ 2 \in 1..Len(t)
      BY <2>2
    <3>2. QED
      BY <3>1, <1>4
  <2>3. PICK l \in Nat : l = Len(t)
    OBVIOUS
  <2>4. l >= 1 /\ (l > 1 => l = 1)
    BY <2>1, <2>2, <2>3
  <2>5. l = 1
    BY <2>4
  <2>6. QED
    BY <2>3, <2>5
<1>6. t[1] = s[k]
  BY <1>2, <1>5
<1>7. t = <<t[1]>>
  BY <1>1, <1>5
<1>8. QED
  BY <1>1, <1>6, <1>7

-----------------------------------------------------------------------------
(* The caches: a refreshed one holds what it held and the new element, a   *)
(* cut one its newest.                                                     *)

LEMMA RefreshedHolds ==
    ASSUME NEW T, NEW s \in Seq(T), NEW e \in T
    PROVE  \E r \in Seq(T) :
              /\ r = Refreshed(s, e)
              /\ \A j \in 1..Len(r) : r[j] = e \/ \E i \in 1..Len(s) : r[j] = s[i]
              /\ IsInjective(s) => IsInjective(r)
              /\ Contains(s, e) => Len(r) <= Len(s)
<1> DEFINE Others == {i \in DOMAIN s : s[i] # e}
<1>1. PICK t \in Seq(T) : t = Filtered(s, Others)
  BY FilteredPicks
<1>2. PICK r \in Seq(T) : r = Append(t, e)
  <2>1. Append(t, e) \in Seq(T)
    OBVIOUS
  <2>2. QED
    BY <2>1
<1>3. r = Refreshed(s, e)
  BY <1>1, <1>2 DEF Refreshed
<1>4. Len(r) = Len(t) + 1 /\ r[Len(t) + 1] = e /\ \A j \in 1..Len(t) : r[j] = t[j]
  BY <1>1, <1>2
<1>5. \A j \in 1..Len(t) : \E i \in 1..Len(s) : t[j] = s[i] /\ s[i] # e
  <2> HIDE DEF Others
  <2>1. \A j \in 1..Len(t) : \E i \in Others \cap (1..Len(s)) : t[j] = s[i]
    BY <1>1, FilteredHolds
  <2>2. QED
    BY <2>1 DEF Others
<1>6. \A j \in 1..Len(r) : r[j] = e \/ \E i \in 1..Len(s) : r[j] = s[i]
  BY <1>4, <1>5
<1>7. ASSUME IsInjective(s), NEW a \in 1..Len(r), NEW b \in 1..Len(r), r[a] = r[b]
      PROVE  a = b
  <2>1. \A x, y \in 1..Len(t) : x # y => t[x] # t[y]
    <3>1. \A x, y \in 1..Len(t) : x # y =>
             \E i, k \in Others \cap (1..Len(s)) : i # k /\ t[x] = s[i] /\ t[y] = s[k]
      <4> HIDE DEF Others
      <4>1. Apart(s, Others, Filtered(s, Others))
        BY FilteredApart
      <4>2. Apart(s, Others, t)
        BY <1>1, <4>1
      <4>3. QED
        BY <4>2 DEF Apart
    <3>2. \A i, k \in 1..Len(s) : i # k => s[i] # s[k]
      BY <1>7 DEF IsInjective
    <3>3. ASSUME NEW x \in 1..Len(t), NEW y \in 1..Len(t), x # y
          PROVE  t[x] # t[y]
      <4>1. PICK i \in Others \cap (1..Len(s)), k \in Others \cap (1..Len(s)) :
               i # k /\ t[x] = s[i] /\ t[y] = s[k]
        BY <3>1, <3>3
      <4>2. s[i] # s[k]
        BY <3>2, <4>1
      <4>3. QED
        BY <4>1, <4>2
    <3>4. QED
      BY <3>3
  <2>2. \A x \in 1..Len(t) : r[x] # e
    BY <1>4, <1>5
  <2>3. QED
    BY <2>1, <2>2, <1>4, <1>7
<1>8. ASSUME Contains(s, e) PROVE Len(r) <= Len(s)
  <2>1. PICK i \in 1..Len(s) : s[i] = e
    BY <1>8 DEF Contains
  <2>2. i \notin Others
    BY <2>1
  <2>3. Len(t) < Len(s)
    <3> HIDE DEF Others
    <3> QED
      BY <1>1, <2>1, <2>2, FilteredHolds
  <2>4. QED
    BY <2>3, <1>4
<1>9. IsInjective(s) => IsInjective(r)
  BY <1>7 DEF IsInjective
<1>10. QED
  BY <1>3, <1>6, <1>8, <1>9

LEMMA NewestHolds ==
    ASSUME NEW T, NEW s \in Seq(T), NEW n \in Nat
    PROVE  /\ Newest(s, n) \in Seq(T)
           /\ Len(Newest(s, n)) <= n
           /\ \A j \in 1..Len(Newest(s, n)) : \E i \in 1..Len(s) : Newest(s, n)[j] = s[i]
           /\ IsInjective(s) => IsInjective(Newest(s, n))
<1>1. CASE Len(s) <= n
  BY <1>1 DEF Newest
<1>2. CASE ~(Len(s) <= n)
  <2>1. PICK t \in Seq(T) : t = SubSeq(s, Len(s) - n + 1, Len(s))
    <3>1. SubSeq(s, Len(s) - n + 1, Len(s)) \in Seq(T)
      BY <1>2
    <3>2. QED
      BY <3>1
  <2>2. t = Newest(s, n)
    BY <2>1, <1>2 DEF Newest
  <2> DEFINE l == Len(s)
  <2>9. l \in Nat /\ n < l
    BY <1>2
  <2>3. Len(t) = n /\ \A j \in 1..n : t[j] = s[l - n + j]
    <3>1. l - n + 1 \in 1..(l + 1) /\ l - (l - n + 1) + 1 = n
      BY <2>9
    <3>2. \A j \in 1..n : l - n + 1 + j - 1 = l - n + j
      BY <2>9
    <3>3. QED
      BY <2>1, <2>9, <3>1, <3>2
  <2>4. \A j \in 1..n : l - n + j \in 1..Len(s)
    BY <2>9
  <2>5. \A j \in 1..Len(t) : \E i \in 1..Len(s) : t[j] = s[i]
    BY <2>3, <2>4
  <2>6. ASSUME IsInjective(s), NEW a \in 1..Len(t), NEW b \in 1..Len(t), t[a] = t[b]
        PROVE  a = b
    <3> DEFINE i == l - n + a
               k == l - n + b
    <3>1. i \in 1..Len(s) /\ k \in 1..Len(s) /\ s[i] = s[k]
      BY <2>3, <2>4, <2>6
    <3>2. i = k
      <4> HIDE DEF i, k
      <4> QED
        BY <2>6, <3>1 DEF IsInjective
    <3>3. QED
      BY <3>2, <2>3, <2>9
  <2>7. IsInjective(s) => IsInjective(t)
    BY <2>6 DEF IsInjective
  <2>8. QED
    BY <2>2, <2>3, <2>5, <2>7
<1>3. QED
  BY <1>1, <1>2

-----------------------------------------------------------------------------
(* The bytes of a memo, one entry at a time.                               *)

MemoEntries == [scope : Provider, alg : Text, key : Key, sig : Signature, message : Data]

Summing(s, f, m) ==
    f = [n \in 0..m |-> IF n = 0 THEN 0 ELSE f[n - 1] + Length(s[n].message)]

LEMMA SummingExists ==
    ASSUME NEW s, NEW m \in Nat
    PROVE  \E f : Summing(s, f, m)
<1> DEFINE Bad == {n \in Nat : ~\E f : Summing(s, f, n)}
<1>1. SUFFICES ASSUME Bad # {} PROVE FALSE
  OBVIOUS
<1>2. PICK n \in Bad : \A k \in Bad : n <= k
  BY <1>1, Least
<1>3. CASE n = 0
  <2>1. PICK f : f = [k \in 0..0 |-> 0]
    OBVIOUS
  <2>2. Summing(s, f, 0)
    BY <2>1 DEF Summing
  <2>3. QED
    BY <1>2, <1>3, <2>2
<1>4. CASE n # 0
  <2>1. n - 1 \in Nat /\ n - 1 \notin Bad
    BY <1>2, <1>4
  <2>2. PICK f : Summing(s, f, n - 1)
    BY <2>1
  <2>3. PICK g : g = [k \in 0..n |-> IF k = n THEN f[n - 1] + Length(s[n].message) ELSE f[k]]
    OBVIOUS
  <2>4. \A k \in 0..(n - 1) : g[k] = f[k]
    BY <2>3
  <2>5. \A k \in 0..n : g[k] = IF k = 0 THEN 0 ELSE g[k - 1] + Length(s[k].message)
    <3>1. SUFFICES ASSUME NEW k \in 0..n
          PROVE  g[k] = IF k = 0 THEN 0 ELSE g[k - 1] + Length(s[k].message)
      OBVIOUS
    <3>2. CASE k = n
      <4>1. k # 0 /\ k - 1 \in 0..(n - 1) /\ g[k - 1] = f[n - 1]
        BY <3>2, <1>4, <2>1, <2>4
      <4>2. QED
        BY <4>1, <3>2, <2>3
    <3>3. CASE k # n
      <4>1. k \in 0..(n - 1) /\ g[k] = f[k] /\ (k # 0 => g[k - 1] = f[k - 1])
        BY <3>3, <2>1, <2>4
      <4>2. QED
        BY <4>1, <2>2 DEF Summing
    <3>4. QED
      BY <3>2, <3>3
  <2>6. Summing(s, g, n)
    BY <2>3, <2>5 DEF Summing
  <2>7. QED
    BY <1>2, <2>6
<1>5. QED
  BY <1>3, <1>4

LEMMA LengthCounts ==
    ASSUME NEW e \in MemoEntries
    PROVE  Length(e.message) \in Nat
BY DEF MemoEntries, Length, Data, Claims

(* f counts the bytes of the entries of s up to each place.                *)
Counts(s, f) ==
    /\ f \in [0..Len(s) -> Nat]
    /\ f[0] = 0 /\ \A n \in 1..Len(s) : f[n] = f[n - 1] + Length(s[n].message)

LEMMA BytesCounted ==
    ASSUME NEW s \in Seq(MemoEntries)
    PROVE  \E f : Counts(s, f) /\ Bytes(s) = f[Len(s)]
<1> DEFINE f == CHOOSE f : Summing(s, f, Len(s))
<1>1. Summing(s, f, Len(s))
  BY SummingExists
<1>2. Bytes(s) = f[Len(s)]
  BY DEF Bytes, Summing
<1> HIDE DEF f
<1>3. \A n \in 1..Len(s) : Length(s[n].message) \in Nat
  <2>1. \A n \in 1..Len(s) : s[n] \in MemoEntries
    OBVIOUS
  <2>2. QED
    BY <2>1, LengthCounts
<1>4. f[0] = 0 /\ \A n \in 1..Len(s) : f[n] = f[n - 1] + Length(s[n].message)
  BY <1>1 DEF Summing
<1>5. \A n \in 0..Len(s) : f[n] \in Nat
  <2> DEFINE Bad == {n \in 0..Len(s) : f[n] \notin Nat}
  <2>1. SUFFICES ASSUME Bad # {} PROVE FALSE
    OBVIOUS
  <2>2. PICK n \in Bad : \A k \in Bad : n <= k
    <3>1. Bad \in SUBSET Nat
      OBVIOUS
    <3>2. QED
      <4> HIDE DEF Bad
      <4> QED
        BY <2>1, <3>1, Least
  <2>3. n # 0 /\ n \in 1..Len(s)
    BY <2>2, <1>4
  <2>4. f[n - 1] \in Nat
    BY <2>2, <2>3
  <2>5. f[n] \in Nat
    BY <2>3, <2>4, <1>3, <1>4
  <2>6. QED
    BY <2>5, <2>2
<1>6. f \in [0..Len(s) -> Nat]
  BY <1>1, <1>5 DEF Summing
<1>7. QED
  BY <1>2, <1>4, <1>6 DEF Counts

(* Sequences that agree up to n count the same up to n.                    *)
LEMMA CountsAgree ==
    ASSUME NEW s \in Seq(MemoEntries), NEW t \in Seq(MemoEntries), NEW f, NEW g,
           Counts(s, f), Counts(t, g),
           NEW n \in Nat, n <= Len(s), n <= Len(t), \A i \in 1..n : s[i] = t[i]
    PROVE  f[n] = g[n]
<1> DEFINE Bad == {i \in 0..n : f[i] # g[i]}
<1>1. SUFFICES ASSUME Bad # {} PROVE FALSE
  OBVIOUS
<1>2. PICK i \in Bad : \A k \in Bad : i <= k
  <2>1. Bad \in SUBSET Nat
    OBVIOUS
  <2>2. QED
    <3> HIDE DEF Bad
    <3> QED
      BY <1>1, <2>1, Least
<1>3. i # 0
  BY <1>2 DEF Counts
<1>4. i \in 1..n /\ i \in 1..Len(s) /\ i \in 1..Len(t) /\ f[i - 1] = g[i - 1]
  BY <1>2, <1>3
<1>5. f[i] = g[i]
  BY <1>4 DEF Counts
<1>6. QED
  BY <1>5, <1>2

LEMMA BytesAppend ==
    ASSUME NEW s \in Seq(MemoEntries), NEW e \in MemoEntries
    PROVE  /\ Append(s, e) \in Seq(MemoEntries) /\ Bytes(s) \in Nat
           /\ Bytes(Append(s, e)) = Bytes(s) + Length(e.message)
<1>1. PICK f : Counts(s, f) /\ Bytes(s) = f[Len(s)]
  BY BytesCounted
<1>2. Append(s, e) \in Seq(MemoEntries)
  OBVIOUS
<1>3. PICK t \in Seq(MemoEntries) : t = Append(s, e)
  BY <1>2
<1>4. PICK g : Counts(t, g) /\ Bytes(t) = g[Len(t)]
  BY BytesCounted
<1>5. Len(t) = Len(s) + 1 /\ t[Len(s) + 1] = e /\ \A i \in 1..Len(s) : t[i] = s[i]
  BY <1>3
<1>6. f[Len(s)] = g[Len(s)]
  <2>1. Len(s) \in Nat /\ Len(s) <= Len(t)
    BY <1>5
  <2>2. QED
    BY <2>1, <1>1, <1>4, <1>5, CountsAgree
<1>7. g[Len(s) + 1] = g[Len(s)] + Length(e.message)
  <2>1. Len(s) + 1 \in 1..Len(t) /\ Len(s) + 1 - 1 = Len(s)
    BY <1>5
  <2>2. QED
    BY <2>1, <1>4, <1>5 DEF Counts
<1>8. f[Len(s)] \in Nat
  BY <1>1 DEF Counts
<1>9. QED
  BY <1>1, <1>3, <1>4, <1>5, <1>6, <1>7, <1>8

LEMMA BytesEmpty == Bytes(<<>>) = 0
<1>1. <<>> \in Seq(MemoEntries) /\ Len(<<>>) = 0
  OBVIOUS
<1>2. PICK f : Counts(<<>>, f) /\ Bytes(<<>>) = f[Len(<<>>)]
  BY <1>1, BytesCounted
<1>3. QED
  BY <1>1, <1>2 DEF Counts

(* What is cut off the front of a memo and what is left make the whole.    *)
LEMMA BytesSplit ==
    ASSUME NEW s \in Seq(MemoEntries), NEW n \in 0..Len(s)
    PROVE  /\ SubSeq(s, 1, n) \in Seq(MemoEntries)
           /\ SubSeq(s, n + 1, Len(s)) \in Seq(MemoEntries)
           /\ Bytes(SubSeq(s, n + 1, Len(s))) = Bytes(s) - Bytes(SubSeq(s, 1, n))
<1>1. SubSeq(s, 1, n) \in Seq(MemoEntries) /\ SubSeq(s, n + 1, Len(s)) \in Seq(MemoEntries)
  OBVIOUS
<1>2. PICK a \in Seq(MemoEntries) : a = SubSeq(s, 1, n)
  BY <1>1
<1>3. PICK b \in Seq(MemoEntries) : b = SubSeq(s, n + 1, Len(s))
  BY <1>1
<1>4. PICK l \in Nat : l = Len(s)
  OBVIOUS
<1>5. n \in Nat /\ n <= l
  BY <1>4
<1>6. Len(a) = n /\ \A i \in 1..n : a[i] = s[i]
  BY <1>2, <1>4, <1>5
<1>7. Len(b) = l - n /\ \A i \in 1..(l - n) : b[i] = s[n + i]
  <2>1. PICK k \in Nat : k = n + 1
    BY <1>5
  <2>2. b = SubSeq(s, k, Len(s)) /\ k \in 1..(Len(s) + 1)
    BY <2>1, <1>3, <1>4, <1>5
  <2>3. Len(b) = Len(s) - k + 1 /\ \A i \in 1..(Len(s) - k + 1) : b[i] = s[k + i - 1]
    BY <2>2
  <2>4. l - k + 1 = l - n /\ \A i \in 1..(l - n) : k + i - 1 = n + i
    BY <2>1, <1>5
  <2>5. QED
    BY <2>3, <2>4, <1>4
<1>8. PICK f : Counts(s, f) /\ Bytes(s) = f[l]
  BY <1>4, BytesCounted
<1>9. PICK g : Counts(a, g) /\ Bytes(a) = g[n]
  BY <1>6, BytesCounted
<1>10. PICK h : Counts(b, h) /\ Bytes(b) = h[l - n]
  BY <1>7, BytesCounted
<1>11. g[n] = f[n]
  BY <1>4, <1>5, <1>6, <1>8, <1>9, CountsAgree
<1>12. \A i \in 0..(l - n) : h[i] = f[n + i] - f[n]
  <2> DEFINE Bad == {i \in 0..(l - n) : h[i] # f[n + i] - f[n]}
  <2>1. SUFFICES ASSUME Bad # {} PROVE FALSE
    OBVIOUS
  <2>2. l - n \in Nat
    BY <1>5
  <2>3. PICK i \in Bad : \A k \in Bad : i <= k
    <3>1. Bad \in SUBSET Nat
      BY <2>2
    <3>2. QED
      <4> HIDE DEF Bad
      <4> QED
        BY <2>1, <3>1, Least
  <2>4. \A k \in 0..l : f[k] \in Nat
    BY <1>4, <1>8 DEF Counts
  <2>5. i # 0
    <3>1. f[n + 0] - f[n] = 0 /\ h[0] = 0
      BY <2>4, <1>5, <1>10 DEF Counts
    <3>2. QED
      BY <3>1, <2>3
  <2>6. i \in 1..(l - n) /\ i - 1 \in 0..(l - n) /\ h[i - 1] = f[n + (i - 1)] - f[n]
    BY <2>2, <2>3, <2>5
  <2>7. h[i] = h[i - 1] + Length(b[i].message)
    BY <2>6, <1>7, <1>10 DEF Counts
  <2>8. f[n + i] = f[n + (i - 1)] + Length(s[n + i].message)
    <3>1. n + i \in 1..l /\ n + i - 1 = n + (i - 1)
      BY <2>6, <1>5
    <3>2. QED
      BY <3>1, <1>4, <1>8 DEF Counts
  <2>9. Length(s[n + i].message) \in Nat
    <3>1. n + i \in 1..Len(s)
      BY <2>6, <1>4, <1>5
    <3>2. s[n + i] \in MemoEntries
      BY <3>1
    <3>3. QED
      BY <3>2, LengthCounts
  <2>10. f[n + (i - 1)] \in Nat /\ f[n] \in Nat
    BY <2>4, <2>6, <1>5
  <2>11. h[i] = f[n + i] - f[n]
    <3>1. b[i] = s[n + i]
      BY <2>6, <1>7
    <3>2. h[i] = f[n + (i - 1)] - f[n] + Length(s[n + i].message)
      BY <3>1, <2>6, <2>7
    <3>3. QED
      BY <3>2, <2>8, <2>9, <2>10
  <2>12. QED
    BY <2>11, <2>3
<1>13. h[l - n] = f[l] - f[n]
  <2>1. l - n \in 0..(l - n) /\ n + (l - n) = l
    BY <1>5
  <2>2. QED
    BY <2>1, <1>12
<1>14. QED
  BY <1>1, <1>2, <1>3, <1>4, <1>8, <1>9, <1>10, <1>11, <1>13

(* The entries that pass a test and those that do not make the whole.      *)
LEMMA BytesFiltered ==
    ASSUME NEW s \in Seq(MemoEntries), NEW S
    PROVE  Bytes(Filtered(s, S)) + Bytes(Filtered(s, DOMAIN s \ S)) = Bytes(s)
<1> DEFINE C == DOMAIN s \ S
<1>1. PICK f : Taking(s, S, f, Len(s)) /\ Filtered(s, S) = f[Len(s)]
  BY FilteredIs
<1>2. PICK g : Taking(s, C, g, Len(s)) /\ Filtered(s, C) = g[Len(s)]
  BY FilteredIs
<1>3. PICK h : Counts(s, h) /\ Bytes(s) = h[Len(s)]
  BY BytesCounted
<1>4. \A n \in 0..Len(s) : f[n] \in Seq(MemoEntries) /\ g[n] \in Seq(MemoEntries)
  BY <1>1, <1>2, TakenPicks
<1> DEFINE Bad == {n \in 0..Len(s) : Bytes(f[n]) + Bytes(g[n]) # h[n]}
<1>5. Bad = {}
  <2>1. SUFFICES ASSUME Bad # {} PROVE FALSE
    OBVIOUS
  <2>2. PICK n \in Bad : \A k \in Bad : n <= k
    <3>1. Bad \in SUBSET Nat
      OBVIOUS
    <3>2. QED
      <4> HIDE DEF Bad
      <4> QED
        BY <2>1, <3>1, Least
  <2>3. CASE n = 0
    <3>1. f[0] = <<>> /\ g[0] = <<>> /\ h[0] = 0
      BY <1>1, <1>2, <1>3 DEF Taking, Counts
    <3>2. QED
      BY <3>1, <2>2, <2>3, BytesEmpty
  <2>4. CASE n # 0
    <3>1. n \in 1..Len(s) /\ n - 1 \in 0..Len(s) /\ n - 1 \notin Bad
      BY <2>2, <2>4
    <3>2. Bytes(f[n - 1]) + Bytes(g[n - 1]) = h[n - 1]
      BY <3>1
    <3>3. h[n] = h[n - 1] + Length(s[n].message)
      BY <3>1, <1>3 DEF Counts
    <3>4. s[n] \in MemoEntries /\ Length(s[n].message) \in Nat
      <4>1. s[n] \in MemoEntries
        BY <3>1
      <4>2. QED
        BY <4>1, LengthCounts
    <3>5. PICK x \in Seq(MemoEntries) : x = f[n - 1]
      BY <3>1, <1>4
    <3>6. PICK y \in Seq(MemoEntries) : y = g[n - 1]
      BY <3>1, <1>4
    <3>7. /\ Bytes(x) \in Nat /\ Bytes(Append(x, s[n])) = Bytes(x) + Length(s[n].message)
          /\ Bytes(y) \in Nat /\ Bytes(Append(y, s[n])) = Bytes(y) + Length(s[n].message)
      BY <3>4, BytesAppend
    <3>8. CASE n \in S
      <4>1. f[n] = Append(x, s[n]) /\ g[n] = y
        BY <3>1, <3>5, <3>6, <3>8, <1>1, <1>2, <2>4 DEF Taking
      <4>2. Bytes(f[n]) + Bytes(g[n]) = h[n]
        BY <4>1, <3>2, <3>3, <3>4, <3>5, <3>6, <3>7
      <4>3. QED
        BY <4>2, <2>2
    <3>9. CASE n \notin S
      <4> n \in C
        BY <3>1, <3>9
      <4>1. f[n] = x /\ g[n] = Append(y, s[n])
        BY <3>1, <3>5, <3>6, <3>9, <1>1, <1>2, <2>4 DEF Taking
      <4>2. Bytes(f[n]) + Bytes(g[n]) = h[n]
        BY <4>1, <3>2, <3>3, <3>4, <3>5, <3>6, <3>7
      <4>3. QED
        BY <4>2, <2>2
    <3>10. QED
      BY <3>8, <3>9
  <2>5. QED
    BY <2>3, <2>4
<1>6. Len(s) \in 0..Len(s) /\ Len(s) \notin Bad
  BY <1>5
<1>7. QED
  BY <1>1, <1>2, <1>3, <1>6

-----------------------------------------------------------------------------
(* The memo of verified signatures: no key twice, no more entries or bytes *)
(* than it may hold, and the count exact.                                  *)

KeysApart(s) == \A i, k \in 1..Len(s) : memoKey(s[i]) = memoKey(s[k]) => i = k

MemoOK(s, bytes) ==
    /\ s \in Seq(MemoEntries)
    /\ KeysApart(s)
    /\ bytes = Bytes(s) /\ bytes \in Nat /\ bytes <= VERIFIED_MEMO_MAX_TOTAL_BYTES
    /\ Len(s) <= VERIFIED_MEMO_SIZE

LEMMA FilteredKeysApart ==
    ASSUME NEW s \in Seq(MemoEntries), NEW S, KeysApart(s)
    PROVE  KeysApart(Filtered(s, S))
<1>1. PICK t \in Seq(MemoEntries) : t = Filtered(s, S)
  BY FilteredPicks
<1>0. Apart(s, S, Filtered(s, S))
  BY FilteredApart
<1>2. Apart(s, S, t)
  BY <1>0, <1>1
<1>3. ASSUME NEW a \in 1..Len(t), NEW b \in 1..Len(t), memoKey(t[a]) = memoKey(t[b])
      PROVE  a = b
  <2>1. SUFFICES ASSUME a # b PROVE FALSE
    OBVIOUS
  <2>2. PICK i \in S \cap (1..Len(s)), k \in S \cap (1..Len(s)) :
           i # k /\ t[a] = s[i] /\ t[b] = s[k]
    BY <1>2, <2>1 DEF Apart
  <2>3. memoKey(s[i]) = memoKey(s[k])
    BY <1>3, <2>2
  <2>4. i = k
    BY <2>3 DEF KeysApart
  <2>5. QED
    BY <2>2, <2>4
<1>4. KeysApart(t)
  BY <1>3 DEF KeysApart
<1>5. QED
  BY <1>1, <1>4

(* Asked for an entry it has, the memo moves it to the end.                *)
LEMMA MemoRefreshed ==
    ASSUME NEW s \in Seq(MemoEntries), NEW bytes, MemoOK(s, bytes),
           NEW e \in MemoEntries, Contains(s, e)
    PROVE  MemoOK(Refreshed(s, e), bytes)
<1> DEFINE Others == {i \in DOMAIN s : s[i] # e}
<1>1. s \in Seq(MemoEntries) /\ KeysApart(s)
  BY DEF MemoOK
<1>2. PICK k \in 1..Len(s) : s[k] = e
  BY <1>1 DEF Contains
<1>3. \A i \in 1..Len(s) : s[i] = e => i = k
  BY <1>1, <1>2 DEF KeysApart
<1>4. PICK t \in Seq(MemoEntries) : t = Filtered(s, Others)
  BY <1>1, FilteredPicks
<1>5. Filtered(s, DOMAIN s \ Others) = <<e>>
  <2>1. (DOMAIN s \ Others) \cap (1..Len(s)) = {k}
    BY <1>1, <1>2, <1>3
  <2>2. QED
    <3> HIDE DEF Others
    <3> QED
      BY <1>1, <1>2, <2>1, FilteredOne
<1>6. Bytes(t) + Bytes(<<e>>) = Bytes(s)
  <2> HIDE DEF Others
  <2> QED
    BY <1>1, <1>4, <1>5, BytesFiltered
<1>7. Bytes(<<e>>) = Length(e.message) /\ Length(e.message) \in Nat
  <2>1. <<>> \in Seq(MemoEntries) /\ Append(<<>>, e) = <<e>>
    OBVIOUS
  <2>2. Bytes(Append(<<>>, e)) = Bytes(<<>>) + Length(e.message)
    BY <2>1, BytesAppend
  <2>3. QED
    BY <2>1, <2>2, BytesEmpty, LengthCounts
<1>8. Bytes(t) \in Nat /\ Bytes(Append(t, e)) = Bytes(t) + Length(e.message)
  BY BytesAppend
<1>9. PICK r \in Seq(MemoEntries) : r = Append(t, e)
  <2>1. Append(t, e) \in Seq(MemoEntries)
    OBVIOUS
  <2>2. QED
    BY <2>1
<1>10. r = Refreshed(s, e)
  BY <1>4, <1>9 DEF Refreshed
<1>11. Bytes(r) = Bytes(s)
  BY <1>6, <1>7, <1>8, <1>9
<1>12. Len(r) <= Len(s)
  BY <1>1, <1>10, RefreshedHolds
<1>13. KeysApart(r)
  <2>2. \A x \in 1..Len(t) : \E i \in Others \cap (1..Len(s)) : t[x] = s[i]
    <3> HIDE DEF Others
    <3>1. \A x \in 1..Len(Filtered(s, Others)) :
             \E i \in Others \cap (1..Len(s)) : Filtered(s, Others)[x] = s[i]
      BY FilteredHolds
    <3>2. QED
      BY <3>1, <1>4
  <2>1. KeysApart(t)
    <3> HIDE DEF Others
    <3> QED
      BY <1>1, <1>4, FilteredKeysApart
  <2>3. \A x, y \in 1..Len(t) : x # y => memoKey(t[x]) # memoKey(t[y])
    BY <2>1 DEF KeysApart
  <2>4. \A x \in 1..Len(t) : memoKey(t[x]) # memoKey(e)
    <3>1. SUFFICES ASSUME NEW x \in 1..Len(t) PROVE memoKey(t[x]) # memoKey(e)
      OBVIOUS
    <3>2. PICK i \in 1..Len(s) : t[x] = s[i] /\ s[i] # e
      BY <2>2
    <3>3. i # k
      BY <3>2, <1>2
    <3>4. QED
      BY <3>2, <3>3, <1>1, <1>2 DEF KeysApart
  <2>5. Len(r) = Len(t) + 1 /\ r[Len(t) + 1] = e /\ \A x \in 1..Len(t) : r[x] = t[x]
    BY <1>9
  <2>6. QED
    BY <2>3, <2>4, <2>5 DEF KeysApart
<1>14. Len(r) <= VERIFIED_MEMO_SIZE
  BY <1>1, <1>12, TokensAssumption DEF MemoOK
<1>15. QED
  BY <1>10, <1>11, <1>13, <1>14 DEF MemoOK

LEMMA MinIn ==
    ASSUME NEW T \in SUBSET Nat, T # {}
    PROVE  Min(T) \in T
BY Least DEF Min

(* A new entry replaces the one with its key and pushes out the oldest.    *)
LEMMA MemoRemembers ==
    ASSUME memo \in Seq(MemoEntries), MemoOK(memo, totalBytes),
           NEW e \in MemoEntries, remember(e)
    PROVE  /\ MemoOK(memo', totalBytes')
           /\ \A j \in 1..Len(memo') : memo'[j] = e \/ \E i \in 1..Len(memo) : memo'[j] = memo[i]
<1> DEFINE Others == DOMAIN memo \ SameKey(e)
           all == Append(Filtered(memo, Others), e)
           bytes == totalBytes - Replaced(e) + Length(e.message)
           Without(n) == SubSeq(all, n + 1, Len(all))
           BytesWithout(n) == bytes - Bytes(SubSeq(all, 1, n))
           Fits == {n \in 0..Len(all) :
                       n = Len(all) \/ /\ Len(Without(n)) <= VERIFIED_MEMO_SIZE
                                       /\ BytesWithout(n) <= VERIFIED_MEMO_MAX_TOTAL_BYTES}
<1>1. KeysApart(memo) /\ totalBytes = Bytes(memo)
  BY DEF MemoOK
<1>2. PICK t \in Seq(MemoEntries) : t = Filtered(memo, Others)
  <2> HIDE DEF Others
  <2> QED
    BY FilteredPicks
<1>3. PICK a \in Seq(MemoEntries) : a = Append(t, e)
  <2>1. Append(t, e) \in Seq(MemoEntries)
    OBVIOUS
  <2>2. QED
    BY <2>1
<1>4. a = all
  BY <1>2, <1>3
<1>5. bytes = Bytes(a) /\ Bytes(a) \in Nat
  <2>1. Replaced(e) + Bytes(t) = Bytes(memo)
    BY <1>2, BytesFiltered DEF Replaced
  <2>2. PICK same \in Seq(MemoEntries) : same = Filtered(memo, SameKey(e))
    BY FilteredPicks
  <2>3. Replaced(e) \in Nat
    BY <2>2, BytesAppend DEF Replaced
  <2>4. Bytes(t) \in Nat /\ Bytes(a) = Bytes(t) + Length(e.message)
    BY <1>3, BytesAppend
  <2>5. Length(e.message) \in Nat
    BY LengthCounts
  <2>6. QED
    BY <2>1, <2>3, <2>4, <2>5, <1>1
<1>6. Len(a) = Len(t) + 1 /\ a[Len(t) + 1] = e /\ \A x \in 1..Len(t) : a[x] = t[x]
  BY <1>3
<1>7. \A x \in 1..Len(t) : \E i \in Others \cap (1..Len(memo)) : t[x] = memo[i]
  <2> HIDE DEF Others
  <2>1. \A x \in 1..Len(Filtered(memo, Others)) :
           \E i \in Others \cap (1..Len(memo)) : Filtered(memo, Others)[x] = memo[i]
    BY FilteredHolds
  <2>2. QED
    BY <2>1, <1>2
<1>8. KeysApart(a)
  <2>1. KeysApart(t)
    <3> HIDE DEF Others
    <3> QED
      BY <1>1, <1>2, FilteredKeysApart
  <2>2. \A x, y \in 1..Len(t) : x # y => memoKey(t[x]) # memoKey(t[y])
    BY <2>1 DEF KeysApart
  <2>3. \A x \in 1..Len(t) : memoKey(t[x]) # memoKey(e)
    BY <1>7 DEF SameKey
  <2>4. QED
    BY <2>2, <2>3, <1>6 DEF KeysApart
<1>9. PICK drop \in Fits : drop = Min(Fits)
  <2>1. Fits \in SUBSET Nat
    OBVIOUS
  <2>2. Len(a) \in Fits
    BY <1>3, <1>4
  <2>3. QED
    <3> HIDE DEF Fits
    <3> QED
      BY <2>1, <2>2, MinIn
<1>10. drop \in 0..Len(a)
  BY <1>4, <1>9
<1>11. memo' = SubSeq(a, drop + 1, Len(a)) /\ totalBytes' = Bytes(a) - Bytes(SubSeq(a, 1, drop))
  <2>1. memo' = Without(Min(Fits)) /\ totalBytes' = BytesWithout(Min(Fits))
    BY DEF remember
  <2>2. QED
    BY <2>1, <1>4, <1>5, <1>9
<1>12. PICK m \in Seq(MemoEntries) : m = memo'
  BY <1>10, <1>11, BytesSplit
<1>13. Bytes(m) = totalBytes' /\ Bytes(m) \in Nat
  BY <1>10, <1>11, <1>12, BytesSplit, BytesAppend
<1>14. Len(m) <= VERIFIED_MEMO_SIZE /\ totalBytes' <= VERIFIED_MEMO_MAX_TOTAL_BYTES
  <2>1. CASE drop = Len(a)
    <3>1. m = <<>>
      BY <2>1, <1>11, <1>12
    <3>2. QED
      BY <3>1, <1>13, BytesEmpty, TokensAssumption
  <2>2. CASE drop # Len(a)
    <3>1. Len(Without(drop)) <= VERIFIED_MEMO_SIZE
          /\ BytesWithout(drop) <= VERIFIED_MEMO_MAX_TOTAL_BYTES
      BY <2>2, <1>4, <1>9
    <3>2. QED
      BY <3>1, <1>4, <1>5, <1>11, <1>12
  <2>3. QED
    BY <2>1, <2>2
<1>15. \A j \in 1..Len(m) : drop + j \in 1..Len(a) /\ m[j] = a[drop + j]
  <2>1. PICK k \in Nat : k = drop + 1
    BY <1>10
  <2>2. m = SubSeq(a, k, Len(a)) /\ k \in 1..(Len(a) + 1)
    BY <2>1, <1>10, <1>11, <1>12
  <2>3. Len(m) = Len(a) - k + 1 /\ \A i \in 1..(Len(a) - k + 1) : m[i] = a[k + i - 1]
    BY <2>2
  <2>4. PICK l \in Nat : l = Len(a)
    OBVIOUS
  <2>5. \A i \in 1..(l - k + 1) : k + i - 1 = drop + i /\ drop + i \in 1..l
    BY <2>1, <2>2, <2>4, <1>10
  <2>6. QED
    BY <2>3, <2>4, <2>5
<1>16. KeysApart(m)
  <2>1. SUFFICES ASSUME NEW i \in 1..Len(m), NEW k \in 1..Len(m), memoKey(m[i]) = memoKey(m[k])
                 PROVE  i = k
    BY DEF KeysApart
  <2>2. PICK x \in 1..Len(a) : x = drop + i
    BY <1>15
  <2>3. PICK y \in 1..Len(a) : y = drop + k
    BY <1>15
  <2>4. x = y
    BY <2>1, <2>2, <2>3, <1>8, <1>15 DEF KeysApart
  <2>5. QED
    BY <2>2, <2>3, <2>4, <1>10
<1>17. \A j \in 1..Len(m) : m[j] = e \/ \E i \in 1..Len(memo) : m[j] = memo[i]
  <2> HIDE DEF Others
  <2>1. \A x \in 1..Len(a) : a[x] = e \/ \E i \in 1..Len(memo) : a[x] = memo[i]
    <3>1. \A x \in 1..Len(a) : x \in 1..Len(t) \/ x = Len(t) + 1
      BY <1>6
    <3>2. QED
      BY <3>1, <1>6, <1>7
  <2>2. SUFFICES ASSUME NEW j \in 1..Len(m)
                 PROVE  m[j] = e \/ \E i \in 1..Len(memo) : m[j] = memo[i]
    OBVIOUS
  <2>3. PICK x \in 1..Len(a) : x = drop + j
    BY <1>15
  <2>4. QED
    BY <2>1, <2>3, <1>15
<1>18. QED
  BY <1>12, <1>13, <1>14, <1>16, <1>17 DEF MemoOK

-----------------------------------------------------------------------------
(* Key agreement: what an identity publishes is what it agrees with.       *)

KemPlaces(keys) == {i \in DOMAIN keys : keys[i].purpose = "kem" /\ keys[i].alg = "X25519"}

(* The document of an identity publishes its first X25519 key, if any.     *)
LEMMA DocumentMeets ==
    ASSUME NEW keys \in Seq(IdentityKey)
    PROVE  /\ \A i \in KemPlaces(keys) : (\A k \in KemPlaces(keys) : i <= k) =>
                 /\ FoundKey(KeysFor("kem", "X25519", keys)) = keys[i]
                 /\ getAgreementKey(buildDoc(keys)) = PublicKey(keys[i])
           /\ KemPlaces(keys) = {} =>
                 /\ FoundKey(KeysFor("kem", "X25519", keys)) = NoKey
                 /\ getAgreementKey(buildDoc(keys)) = NoKey
<1> DEFINE S == {i \in DOMAIN keys : keys[i].purpose = "kem"}
           all == [i \in 1..Len(keys) |-> i]
           doc == buildDoc(keys)
           kem == doc.keyAgreement
           published == [i \in DOMAIN kem |-> doc.verificationMethod[kem[i]]]
           P == {i \in DOMAIN published : published[i].alg = "X25519"}
<1>1. all \in Seq(Nat) /\ Len(all) = Len(keys)
  OBVIOUS
<1>2. kem = Filtered(all, S)
  BY DEF buildDoc, Fragments
<1>3. PICK f : Picked(all, S, Len(keys), kem, f)
  <2> HIDE DEF all, S
  <2> QED
    BY <1>1, <1>2, FilteredPicks
<1>4. kem \in Seq(Nat)
  <2> HIDE DEF all, S
  <2> QED
    BY <1>1, <1>2, FilteredPicks
<1>5. \A j \in 1..Len(kem) : kem[j] \in S /\ kem[j] \in 1..Len(keys)
  BY <1>3 DEF Picked
<1>6. \A a, b \in 1..Len(kem) : a < b => kem[a] < kem[b]
  BY <1>3 DEF Picked
<1>7. \A i \in S : \E j \in 1..Len(kem) : kem[j] = i
  <2>1. SUFFICES ASSUME NEW i \in S PROVE \E j \in 1..Len(kem) : kem[j] = i
    OBVIOUS
  <2>2. i \in S \cap (1..Len(keys)) /\ all[i] = i
    BY <2>1
  <2> HIDE DEF S, all, kem
  <2>3. PICK j \in 1..Len(kem) : f[j] = i
    BY <2>2, <1>3 DEF Picked
  <2>4. QED
    BY <2>2, <2>3, <1>3 DEF Picked
<1>8. /\ DOMAIN published = 1..Len(kem)
      /\ \A j \in 1..Len(kem) : published[j] = PublicKey(keys[kem[j]])
  <2> HIDE DEF S
  <2>1. DOMAIN kem = 1..Len(kem)
    BY <1>4
  <2>2. doc.verificationMethod = [i \in 1..Len(keys) |-> PublicKey(keys[i])]
    BY DEF buildDoc
  <2> HIDE DEF kem, doc
  <2>3. QED
    BY <2>1, <2>2, <1>5
<1> HIDE DEF all, kem, doc
<1>9. \A i \in 1..Len(keys) : PublicKey(keys[i]) \in Key /\ PublicKey(keys[i]).alg = keys[i].alg
  <2>1. \A i \in 1..Len(keys) : keys[i] \in IdentityKey
    OBVIOUS
  <2>2. QED
    BY <2>1 DEF PublicKey, Key, IdentityKey
<1>10. published \in Seq(Key) /\ Len(published) = Len(kem)
  <2>1. \A j \in 1..Len(kem) : published[j] \in Key
    BY <1>5, <1>8, <1>9
  <2>2. published \in [1..Len(kem) -> Key] /\ Len(kem) \in Nat
    BY <2>1, <1>4, <1>8
  <2> HIDE DEF published
  <2>3. QED
    BY <2>2
<1>11. getAgreementKey(doc) = FoundKey(Filtered(published, P))
  BY DEF getAgreementKey, kem
<1> HIDE DEF published
<1>12. P \cap (1..Len(published)) = {j \in 1..Len(kem) : keys[kem[j]].alg = "X25519"}
  BY <1>5, <1>8, <1>9, <1>10
<1>13. ASSUME NEW i \in KemPlaces(keys), \A k \in KemPlaces(keys) : i <= k
       PROVE  FoundKey(KeysFor("kem", "X25519", keys)) = keys[i] /\ getAgreementKey(doc) = PublicKey(keys[i])
  <2>1. /\ Filtered(keys, KemPlaces(keys)) # <<>>
        /\ Head(Filtered(keys, KemPlaces(keys))) = keys[i]
    <3>1. i \in KemPlaces(keys) \cap (1..Len(keys))
      BY <1>13 DEF KemPlaces
    <3>2. QED
      BY <3>1, <1>13, FilteredFirst
  <2>2. FoundKey(KeysFor("kem", "X25519", keys)) = keys[i]
    BY <2>1 DEF KeysFor, FoundKey, KemPlaces
  <2>3. PICK j \in 1..Len(kem) : kem[j] = i
    BY <1>7 DEF KemPlaces
  <2>4. j \in P \cap (1..Len(published))
    BY <2>3, <1>12 DEF KemPlaces
  <2>5. ASSUME NEW k \in P \cap (1..Len(published)) PROVE j <= k
    <3>1. k \in 1..Len(kem) /\ kem[k] \in KemPlaces(keys)
      BY <1>5, <1>12 DEF KemPlaces
    <3>2. kem[j] <= kem[k] /\ kem[j] \in Nat /\ kem[k] \in Nat
      BY <3>1, <2>3, <1>13, <1>5
    <3>3. ~(kem[k] < kem[j])
      BY <3>2
    <3>4. ~(k < j)
      BY <3>1, <3>3, <2>3, <1>6
    <3>5. QED
      BY <3>1, <3>4, <2>3
  <2>6. Filtered(published, P) # <<>> /\ Head(Filtered(published, P)) = published[j]
    <3> HIDE DEF P
    <3> QED
      BY <2>4, <2>5, <1>10, FilteredFirst
  <2>7. QED
    BY <2>2, <2>3, <2>6, <1>8, <1>11 DEF FoundKey
<1>14. ASSUME KemPlaces(keys) = {}
       PROVE  FoundKey(KeysFor("kem", "X25519", keys)) = NoKey /\ getAgreementKey(doc) = NoKey
  <2>1. Filtered(keys, KemPlaces(keys)) = <<>>
    BY <1>14, FilteredNone
  <2>2. P \cap (1..Len(published)) = {}
    BY <1>5, <1>12, <1>14 DEF KemPlaces
  <2>3. Filtered(published, P) = <<>>
    <3> HIDE DEF P
    <3> QED
      BY <2>2, <1>10, FilteredNone
  <2>4. QED
    BY <2>1, <2>3, <1>11 DEF KeysFor, FoundKey, KemPlaces
<1>15. QED
  BY <1>13, <1>14 DEF doc

(* The method an identity gets, and what its DID publishes.                *)
LEMMA CreatedMeets ==
    ASSUME NEW spec, spec.keys \in Seq(IdentityKey),
           spec.didMethod \in {"unset", "key", "peer"},
           NEW made, made = createIdentity(spec), made # NoIdentity,
           isPeer4(made.id) \/ made.keys[1].alg = "EdDSA"
    PROVE  resolveX25519Key(made.longForm) = pickAgreementSecret(made)
<1> DEFINE method == chooseMethod(spec)
<1>1. PICK keys \in Seq(IdentityKey) : keys = spec.keys
  OBVIOUS
<1>2. Fragments(keys, "sig") # <<>> /\ method # "invalid" /\ made = buildIdentity(method, keys)
  BY <1>1 DEF createIdentity
<1>3. method = "peer" \/ (method = "key" /\ OneSigningKey(keys))
  BY <1>1, <1>2 DEF chooseMethod
<1> HIDE DEF method
<1>4. made.keys = keys
  BY <1>2 DEF buildIdentity
<1>5. /\ \A i \in KemPlaces(keys) : keys[i] \in IdentityKey /\ keys[i].alg = "X25519"
      /\ \A i \in KemPlaces(keys) : keys[i] # NoKey /\ PublicKey(keys[i]) # NoKey
  <2>1. \A i \in 1..Len(keys) : keys[i] \in IdentityKey
    OBVIOUS
  <2>2. QED
    BY <2>1 DEF KemPlaces, NoKey, PublicKey, IdentityKey
<1>6. CASE method = "peer"
  <2> DEFINE doc == buildDoc(keys)
  <2>1. made.longForm = encodePeer4(doc) /\ made.id = normalizeDID(encodePeer4(doc))
    BY <1>2, <1>6 DEF buildIdentity
  <2>2. /\ encodePeer4(doc).method = "peer" /\ encodePeer4(doc).doc = doc
        /\ getPeer4ShortForm(encodePeer4(doc)).doc = NoDoc
        /\ getPeer4ShortForm(encodePeer4(doc)).method = "peer"
    BY DEF encodePeer4, Blank, getPeer4ShortForm
  <2>3. doc.authentication # NoDoc.authentication
    BY <1>2 DEF buildDoc, NoDoc
  <2>4. isPeer4(made.id) /\ isPeer4(made.longForm) /\ isLong(made.longForm)
    BY <2>1, <2>2, <2>3 DEF isPeer4, normalizeDID, isLong
  <2>5. resolveX25519Key(made.longForm) = getAgreementKey(doc)
    BY <2>1, <2>2, <2>4 DEF resolveX25519Key
  <2>6. CASE KemPlaces(keys) = {}
    <3>1. FoundKey(KeysFor("kem", "X25519", keys)) = NoKey /\ getAgreementKey(doc) = NoKey
      BY <2>6, DocumentMeets
    <3>2. QED
      BY <3>1, <2>4, <2>5, <1>4 DEF pickAgreementSecret
  <2>7. CASE KemPlaces(keys) # {}
    <3>1. PICK i \in KemPlaces(keys) : \A k \in KemPlaces(keys) : i <= k
      <4>1. KemPlaces(keys) \in SUBSET Nat
        BY DEF KemPlaces
      <4>2. QED
        BY <4>1, <2>7, Least
    <3>2. FoundKey(KeysFor("kem", "X25519", keys)) = keys[i] /\ getAgreementKey(doc) = PublicKey(keys[i])
      BY <3>1, DocumentMeets
    <3>3. QED
      BY <3>2, <2>5, <1>4, <1>5 DEF pickAgreementSecret
  <2>8. QED
    BY <2>6, <2>7
<1>7. CASE method = "key" /\ OneSigningKey(keys)
  <2>1. made.longForm = getDID(keys[1]) /\ made.id = normalizeDID(getDID(keys[1]))
    BY <1>2, <1>7 DEF buildIdentity
  <2>2. getDID(keys[1]).method = "key" /\ getDID(keys[1]).key = [alg |-> "EdDSA", n |-> keys[1].n]
    BY DEF getDID, Blank
  <2>3. ~isPeer4(made.id) /\ ~isPeer4(made.longForm) /\ keys[1].alg = "EdDSA"
    BY <2>1, <2>2, <1>4 DEF isPeer4, normalizeDID
  <2>4. resolveX25519Key(made.longForm) = [alg |-> "montgomery", n |-> keys[1].n]
    BY <2>1, <2>2, <2>3 DEF resolveX25519Key, toMontgomery
  <2>5. FoundKey(KeysFor("kem", "X25519", keys)) = NoKey
    <3>1. KemPlaces(keys) = {}
      BY <1>7 DEF KemPlaces, OneSigningKey
    <3>2. QED
      BY <3>1, DocumentMeets
  <2>6. FoundKey(KeysFor("sig", "EdDSA", keys)) = keys[1]
    <3> DEFINE S == {i \in DOMAIN keys : keys[i].purpose = "sig" /\ keys[i].alg = "EdDSA"}
    <3>1. 1 \in S \cap (1..Len(keys)) /\ \A k \in S \cap (1..Len(keys)) : 1 <= k
      BY <2>3, <1>7 DEF OneSigningKey
    <3>2. Filtered(keys, S) # <<>> /\ Head(Filtered(keys, S)) = keys[1]
      <4> HIDE DEF S
      <4> QED
        BY <3>1, FilteredFirst
    <3>3. QED
      BY <3>2 DEF KeysFor, FoundKey
  <2>7. keys[1] # NoKey
    BY <2>3 DEF NoKey
  <2>8. pickAgreementSecret(made) = toMontgomery(keys[1])
    BY <2>3, <2>5, <2>6, <2>7, <1>4 DEF pickAgreementSecret
  <2>9. QED
    BY <2>4, <2>8 DEF toMontgomery
<1>8. QED
  BY <1>3, <1>6, <1>7

(* What a sender takes from an identity's DID is what the identity agrees  *)
(* with, whatever keys it is made of.                                      *)
THEOREM AgreementsMeet == Spec => []AgreementMeets
<1> DEFINE Made == identity = NoIdentity \/ \E spec \in world.specs : identity = createIdentity(spec)
           MadeInv == world \in World /\ Made
<1>1. Init => MadeInv
  BY DEF Init
<1>2. MadeInv /\ [Next]_vars => MadeInv'
  <2>1. SUFFICES ASSUME MadeInv, [Next]_vars PROVE MadeInv'
    OBVIOUS
  <2> DEFINE Kept == world' = world /\ identity' = identity
  <2>2. CASE \E spec \in world.specs : CreateIdentity(spec)
    BY <2>1, <2>2 DEF CreateIdentity
  <2>3. CASE UNCHANGED vars
    BY <2>1, <2>3 DEF vars, signer
  <2>4. CASE Next /\ ~\E spec \in world.specs : CreateIdentity(spec)
    <3>1. ASSUME NEW aud, NEW kid, NEW embed, NEW body, SignToken(aud, kid, embed, body) PROVE Kept
      BY <3>1 DEF SignToken
    <3>2. ASSUME NEW i, NEW kid, NEW exp, NEW body, SignForDID(i, kid, exp, body) PROVE Kept
      BY <3>2 DEF SignForDID
    <3>3. ASSUME NEW s, Signed(s) \/ SignFails(s) PROVE Kept
      BY <3>3 DEF Signed, SignFails
    <3>4. ASSUME Rotate \/ Tick PROVE Kept
      BY <3>4 DEF Rotate, Tick, signer
    <3>5. ASSUME NEW c, NEW t, NEW form, NEW opts, VerifyToken(c, t, form, opts) PROVE Kept
      BY <3>5 DEF VerifyToken, signer
    <3>6. ASSUME NEW c, NEW o, Mutate(c, o) PROVE Kept
      BY <3>6 DEF Mutate, signer
    <3>7. ASSUME NEW c, Step(c) PROVE Kept
      BY <3>7 DEF Step, ResolverAnswers, ResolverFails, MethodAnswers, MethodFails, AskCustom,
         CustomAnswers, AskMemo, Enqueue, Learn, Conclude, Finish, Resolved, signer
    <3>8. ASSUME NEW g, Work(g) PROVE Kept
      BY <3>8 DEF Work, Seal, ProviderAnswers, ProviderFails, signer
    <3>9. Kept
      <4> HIDE DEF Kept
      <4> QED
        BY <2>4, <3>1, <3>2, <3>3, <3>4, <3>5, <3>6, <3>7, <3>8 DEF Next
    <3>10. QED
      BY <3>9, <2>1
  <2>5. QED
    BY <2>1, <2>2, <2>3, <2>4
<1>3. MadeInv => AgreementMeets
  <2>1. SUFFICES ASSUME MadeInv, identity # NoIdentity, isPeer4(identity.id) \/ identity.keys[1].alg = "EdDSA"
                 PROVE  resolveX25519Key(identity.longForm) = pickAgreementSecret(identity)
    BY DEF AgreementMeets
  <2>2. PICK spec \in world.specs : identity = createIdentity(spec)
    BY <2>1
  <2>3. spec.keys \in Seq(IdentityKey) /\ spec.didMethod \in {"unset", "key", "peer"}
    BY <2>1, <2>2, TokensAssumption
  <2>4. QED
    BY <2>1, <2>2, <2>3, CreatedMeets
<1>4. QED
  BY <1>1, <1>2, <1>3, PTL DEF Spec

-----------------------------------------------------------------------------
(* The inductive invariant of verifying.                                   *)

KeyPcs == {"resolved", "custom", "waiting", "checked", "finish"}
PCs == {"idle", "resolver", "method", "done"} \cup KeyPcs

Outs == {"none", "accepted", "unsigned", "bad", "unresolvable", "fault"}
GroupStates == {"open", "sealed", "answered", "failed"}

Policy == [verifier : {"none", "default", "custom"}, crypto : Provider \cup {"none"},
           resolver : BOOLEAN, cache : BOOLEAN, methods : {"none", "current", "full"}]
Proof == [data : Data, policy : Policy, sig : Signature, key : Key, historic : BOOLEAN]
Object == [claims : Claims, data : Data, sig : Signature, pub : Key, proof : Proof]
CallRecord == [pc : PCs, opts : Options \cup {NoPolicy}, claims : Claims, data : Data,
               sig : Signature, key : Key, doc : Doc, slot : Nat \X Nat, ok : BOOLEAN,
               out : Outs, live : SUBSET Key, at : Nat]
GroupRecord == [crypto : Provider, state : GroupStates, items : Seq(Call), results : Seq(BOOLEAN)]
Token == [data : Data, sig : Signature]

IdentityTyped ==
    identity = NoIdentity \/
    /\ identity.keys \in Seq(IdentityKey) /\ Fragments(identity.keys, "sig") # <<>>
    /\ identity.id \in DID /\ identity.longForm \in DID

Typed ==
    /\ world \in World /\ now \in Nat
    /\ IdentityTyped
    /\ held \in Seq(Key) /\ held # <<>>
    /\ \A i \in 1..Len(held) : held[i] = [alg |-> "EdDSA", n |-> i]
    /\ signing \subseteq Signature /\ wire \subseteq Token
    /\ call \in [Call -> CallRecord]
    /\ object \in [Call -> Object]
    /\ pending \in [Provider -> Nat] /\ group \in Seq(GroupRecord)

CachesTyped ==
    /\ memo \in Seq(MemoEntries) /\ MemoOK(memo, totalBytes)
    /\ decoded \in Seq(DID) /\ IsInjective(decoded) /\ Len(decoded) <= PEER4_DECODE_MEMO_SIZE
    /\ docs \in Seq(Doc) /\ IsInjective(docs) /\ Len(docs) <= MaxDocs

(* A signature that came with a token.                                     *)
Carried(sig) == sig = NoSig \/ \E t \in wire : t.sig = sig

Checks(r) == r.sig.key = r.key /\ r.sig.over = r.data

(* Good(c), of the record of a call.                                       *)
GoodCall(r) ==
    LET claims == r.data.claims
        iss == claims.iss
    IN  /\ r.sig.over = r.data
        /\ claims.exp = 0 /\ assertAudienceValid(claims, r.opts)
        /\ \/ iss.method = "key" /\ r.sig.key = iss.key
           \/ iss.method = "kokuin" /\ r.live = {r.sig.key}
              /\ (claims.kid = NoKid \/ claims.kid = r.sig.key.n)
           \/ /\ isPeer4(iss) /\ (isLong(iss) => iss.hash = iss.doc)
              /\ claims.kid \in Range(iss.hash.authentication)
              /\ claims.kid \in DOMAIN iss.hash.verificationMethod
              /\ iss.hash.verificationMethod[claims.kid] = r.sig.key

(* The key a call checks with is one of the issuer's; its document too.    *)
KeyOK(r) ==
    LET iss == r.data.claims.iss
    IN  /\ r.key \in Authorised(iss)
        /\ iss.method = "kokuin" /\ ~r.opts.historic => r.key \in r.live
        /\ r.doc # NoDoc => isPeer4(iss) /\ iss.hash = r.doc
        /\ GoodCall(r) => r.key = r.sig.key

AcceptedOK(r) ==
    /\ r.sig.over.claims = r.claims
    /\ r.sig.key \in Authorised(r.claims.iss)
    /\ r.opts.audience \in {"any", r.claims.aud}
    /\ r.claims.exp = 0 \/ r.claims.exp + r.opts.tolerance >= r.at

RefusedOK(r) ==
    /\ r.out # "bad"
    /\ r.out = "unresolvable" => LET iss == r.data.claims.iss
                                 IN  iss.method = "kokuin" \/ (isPeer4(iss) /\ ~isLong(iss))

(* What holds of a call at each point it waits at, and of its answer.      *)
RecordOK(r) ==
    /\ r.pc = "idle" => r = Idle
    /\ r.pc # "idle" => r.opts \in world.opts
    /\ r.pc \notin {"idle", "done"} => Last(held) \in r.live /\ r.data # NoData /\ Carried(r.sig)
    /\ r.pc = "resolver" => isPeer4(r.data.claims.iss) /\ ~isLong(r.data.claims.iss)
    /\ r.pc = "method" => r.data.claims.iss.method = "kokuin"
    /\ r.pc \in KeyPcs => KeyOK(r)
    /\ r.pc = "custom" => r.opts.verifier # "default"
    /\ r.pc = "checked" /\ Sound(r.opts) => (r.ok <=> Checks(r))
    /\ r.pc = "finish" /\ Sound(r.opts) => Checks(r)
    /\ r.pc = "done" /\ r.out = "accepted" /\ Sound(r.opts) => AcceptedOK(r)
    /\ r.pc = "done" /\ r.data # NoData /\ Sound(r.opts) /\ GoodCall(r) => RefusedOK(r)

(* A waiting call has a place of its own in a group of its provider.       *)
PlaceOK(c, r) ==
    LET g == group[r.slot[1]]
        i == r.slot[2]
    IN  /\ r.slot[1] \in DOMAIN group /\ i \in DOMAIN g.items /\ g.items[i] = c
        /\ g.crypto = r.opts.crypto
        /\ g.state = "answered" /\ g.crypto = "noble" =>
              i \in DOMAIN g.results /\ (g.results[i] <=> Checks(r))

GroupsOK ==
    /\ \A c \in Call : call[c].pc = "waiting" => PlaceOK(c, call[c])
    /\ \A p \in Provider : pending[p] # 0 =>
          /\ pending[p] \in DOMAIN group
          /\ group[pending[p]].state = "open" /\ group[pending[p]].crypto = p

(* Some call of the same policy was answered with these claims by a key    *)
(* that was current.                                                       *)
Witness(policy, claims) ==
    \E d \in Call :
       /\ Done(d, "accepted") /\ ~call[d].opts.historic
       /\ capturePolicy(call[d].opts) = policy
       /\ call[d].claims = claims /\ call[d].sig.key \in call[d].live

ObjectOK(o) ==
    /\ Carried(o.sig)
    /\ o.proof # NoProof /\ Sound(o.proof.policy) =>
          /\ o.proof.sig.over = o.proof.data
          /\ o.proof.sig.key \in Authorised(o.proof.data.claims.iss)

ObjectWitnessed(o) ==
    /\ o.proof # NoProof /\ Sound(o.proof.policy) /\ ~o.proof.historic
    /\ o.proof.data.claims.iss = KokuinDID
    => Witness(o.proof.policy, o.proof.data.claims)

CallWitnessed(r) ==
    /\ r.pc = "done" /\ r.out = "accepted" /\ Sound(r.opts) /\ ~r.opts.historic
    /\ r.claims.iss = KokuinDID
    => Witness(capturePolicy(r.opts), r.claims)

(* A document one of whose keys has signed a token for it.                 *)
Earned(doc) == \E t \in wire : LET iss == t.sig.over.claims.iss
                               IN  isPeer4(iss) /\ iss.hash = doc /\ t.sig.key \in Authorised(iss)

MemoSound ==
    \A i \in DOMAIN memo : memo[i].scope = "noble" =>
       memo[i].sig.key = memo[i].key /\ memo[i].sig.over = memo[i].message

DecodedSound == \A i \in DOMAIN decoded : verifyMultihash(decoded[i])

DocsEarned == (\A opts \in world.opts : Sound(opts)) => \A i \in DOMAIN docs : Earned(docs[i])

IInv ==
    /\ Typed /\ CachesTyped
    /\ \A c \in Call : RecordOK(call[c])
    /\ GroupsOK
    /\ \A c \in Call : ObjectOK(object[c])
    /\ \A c \in Call : ObjectWitnessed(object[c]) /\ CallWitnessed(call[c])
    /\ MemoSound /\ DecodedSound /\ DocsEarned

-----------------------------------------------------------------------------
(* How a call ends, and how it goes on with a key.                         *)

LEMMA GoodOf ==
    ASSUME NEW r, NEW n, n.data = r.data, n.sig = r.sig, n.opts = r.opts, n.live = r.live
    PROVE  GoodCall(n) <=> GoodCall(r)
BY DEF GoodCall

LEMMA EndsOK ==
    ASSUME NEW r \in CallRecord, r.opts \in world.opts,
           NEW out \in {"bad", "unresolvable", "unsigned", "fault"},
           r.data # NoData /\ Sound(r.opts) /\ GoodCall(r) =>
              /\ out # "bad"
              /\ out = "unresolvable" =>
                    \/ r.data.claims.iss.method = "kokuin"
                    \/ isPeer4(r.data.claims.iss) /\ ~isLong(r.data.claims.iss)
    PROVE  /\ Ends(r, out) \in CallRecord /\ RecordOK(Ends(r, out))
           /\ Ends(r, out).pc = "done" /\ Ends(r, out).out = out
<1>1. PICK n : n = Ends(r, out)
  OBVIOUS
<1>2. /\ n \in CallRecord /\ n.pc = "done" /\ n.out = out /\ n.data = r.data /\ n.sig = r.sig
      /\ n.opts = r.opts /\ n.live = r.live
  BY <1>1 DEF Ends, CallRecord, PCs, Outs
<1>3. GoodCall(n) <=> GoodCall(r)
  BY <1>2, GoodOf
<1>4. RecordOK(n)
  BY <1>2, <1>3 DEF RecordOK, RefusedOK, KeyPcs
<1>5. QED
  BY <1>1, <1>2, <1>4

LEMMA WithKeyOK ==
    ASSUME NEW r \in CallRecord, r.opts \in world.opts, Last(held) \in r.live,
           r.data # NoData, Carried(r.sig), NEW key \in Key, NEW doc \in Doc,
           key # NoKey =>
              /\ key \in Authorised(r.data.claims.iss)
              /\ r.data.claims.iss.method = "kokuin" /\ ~r.opts.historic => key \in r.live
              /\ doc # NoDoc => isPeer4(r.data.claims.iss) /\ r.data.claims.iss.hash = doc,
           GoodCall(r) => key # NoKey /\ key = r.sig.key
    PROVE  /\ WithKey(r, key, doc) \in CallRecord /\ RecordOK(WithKey(r, key, doc))
           /\ WithKey(r, key, doc).pc \in {"done", "resolved"}
           /\ WithKey(r, key, doc).pc = "done" => WithKey(r, key, doc).out = "bad"
           /\ WithKey(r, key, doc).out = "accepted" => r.out = "accepted"
<1>1. CASE key = NoKey
  <2>1. WithKey(r, key, doc) = Ends(r, "bad")
    BY <1>1 DEF WithKey
  <2>2. QED
    BY <2>1, <1>1, EndsOK
<1>2. CASE key # NoKey
  <2>1. PICK n : n = [r EXCEPT !.pc = "resolved", !.key = key, !.doc = doc]
    OBVIOUS
  <2>2. n = WithKey(r, key, doc)
    BY <2>1, <1>2 DEF WithKey
  <2>3. /\ n \in CallRecord /\ n.pc = "resolved" /\ n.key = key /\ n.doc = doc /\ n.data = r.data
        /\ n.sig = r.sig /\ n.opts = r.opts /\ n.live = r.live /\ n.out = r.out
    BY <2>1 DEF CallRecord, PCs, KeyPcs
  <2>4. GoodCall(n) <=> GoodCall(r)
    BY <2>3, GoodOf
  <2>5. KeyOK(n)
    BY <2>3, <2>4, <1>2 DEF KeyOK
  <2>6. RecordOK(n)
    BY <2>3, <2>5 DEF RecordOK, KeyPcs
  <2>7. QED
    BY <2>2, <2>3, <2>6
<1>3. QED
  BY <1>1, <1>2

(* What resolveKidOrAuth finds is listed for authentication, and it finds  *)
(* what is listed.                                                         *)
LEMMA KidResolves ==
    ASSUME NEW doc \in Doc, NEW kid \in Nat
    PROVE  /\ resolveKidOrAuth(doc, kid) \in Key
           /\ resolveKidOrAuth(doc, kid) # NoKey =>
                 \E i \in Range(doc.authentication) :
                    resolveKidOrAuth(doc, kid) = doc.verificationMethod[i]
           /\ /\ kid \in Range(doc.authentication) /\ kid \in DOMAIN doc.verificationMethod
              /\ doc.verificationMethod[kid].alg \in SIGNATURE_ALGORITHMS
              => /\ resolveKidOrAuth(doc, kid) # NoKey
                 /\ resolveKidOrAuth(doc, kid) = doc.verificationMethod[kid]
<1>1. PICK auth \in Seq(Fragment) : auth = doc.authentication
  BY DEF Doc
<1>2. PICK keys \in Seq(Key) : keys = doc.verificationMethod
  BY DEF Doc
<1>3. NoKey \in Key /\ NoKey.alg \notin SIGNATURE_ALGORITHMS
  BY DEF NoKey, Key, Text, SIGNATURE_ALGORITHMS
<1>4. \A k : resolveKidFromDoc(doc, k) \in Key
  BY <1>2, <1>3 DEF resolveKidFromDoc
<1>5. \A k : resolveKidFromDoc(doc, k) # NoKey => resolveKidFromDoc(doc, k) = keys[k]
  BY <1>2 DEF resolveKidFromDoc
<1>6. auth # <<>> => Head(auth) \in Range(auth)
  BY DEF Range
<1>7. Contains(auth, kid) <=> kid \in Range(auth)
  BY DEF Contains, Range
<1>8. resolveKidOrAuth(doc, kid) \in Key
  BY <1>3, <1>4 DEF resolveKidOrAuth
<1>9. resolveKidOrAuth(doc, kid) # NoKey =>
         \E i \in Range(auth) : resolveKidOrAuth(doc, kid) = keys[i]
  <2>1. CASE kid = NoKid
    BY <2>1, <1>1, <1>5, <1>6 DEF resolveKidOrAuth
  <2>2. CASE kid # NoKid
    BY <2>2, <1>1, <1>5, <1>7 DEF resolveKidOrAuth
  <2>3. QED
    BY <2>1, <2>2
<1>10. ASSUME kid \in Range(auth), kid \in DOMAIN keys, keys[kid].alg \in SIGNATURE_ALGORITHMS
       PROVE  resolveKidOrAuth(doc, kid) # NoKey /\ resolveKidOrAuth(doc, kid) = keys[kid]
  <2>1. kid # NoKid
    BY <1>10 DEF Range, Fragment
  <2>2. resolveKidOrAuth(doc, kid) = resolveKidFromDoc(doc, kid)
    BY <2>1, <1>1, <1>7, <1>10 DEF resolveKidOrAuth
  <2>3. QED
    BY <2>2, <1>2, <1>3, <1>10 DEF resolveKidFromDoc
<1>11. QED
  BY <1>1, <1>2, <1>8, <1>9, <1>10

(* The values nothing has yet are of their types.                          *)
LEMMA Blanks ==
    /\ NoKey \in Key /\ NoDoc \in Doc /\ Blank \in DID /\ NoClaims \in Claims /\ NoData \in Data
    /\ NoSig \in Signature /\ NoProof \in Proof /\ NoObject \in Object /\ Idle \in CallRecord
    /\ KokuinDID \in DID
<1>1. NoKey \in Key
  BY DEF NoKey, Key, Text
<1>2. NoDoc \in Doc
  BY DEF NoDoc, Doc
<1>3. Blank \in DID /\ KokuinDID \in DID
  BY <1>1, <1>2 DEF Blank, DID, KokuinDID, Text
<1>4. NoClaims \in Claims
  BY <1>3 DEF NoClaims, Claims, Text, NoKid
<1>5. NoData \in Data
  BY <1>4 DEF NoData, Data, Text
<1>6. NoSig \in Signature
  BY DEF Signature
<1>7. NoPolicy \in Policy
  BY DEF NoPolicy, Policy
<1>8. NoProof \in Proof
  BY <1>1, <1>5, <1>6, <1>7 DEF NoProof, Proof
<1>9. NoObject \in Object
  BY <1>1, <1>4, <1>5, <1>6, <1>8 DEF NoObject, Object
<1>10. <<0, 0>> \in Nat \X Nat
  OBVIOUS
<1>11. Idle \in CallRecord
  BY <1>1, <1>2, <1>4, <1>5, <1>6, <1>10 DEF Idle, CallRecord, PCs, Outs
<1>12. QED
  BY <1>1, <1>2, <1>3, <1>4, <1>5, <1>6, <1>8, <1>9, <1>11

LEMMA SerializeTyped ==
    ASSUME NEW claims \in Claims
    PROVE  serialize(claims) \in Data /\ serialize(claims) # NoData
           /\ serialize(claims).claims = claims
<1>1. serialize(claims) \in Data /\ serialize(claims).claims = claims
  BY DEF serialize, Data, Text
<1>2. serialize(claims).spelling = "plain" /\ NoData.spelling = "none"
  BY DEF serialize, NoData
<1>3. QED
  BY <1>1, <1>2

(* A good token carries a signature by a key that can sign.                *)
LEMMA GoodSigned ==
    ASSUME NEW r \in CallRecord, r.data # NoData, GoodCall(r)
    PROVE  r.sig.key \in Key /\ r.sig.key.alg \in SIGNATURE_ALGORITHMS /\ r.sig.key # NoKey
<1>1. r.sig.over = r.data
  BY DEF GoodCall
<1>2. r.sig # NoSig
  BY <1>1 DEF NoSig
<1>3. r.sig \in Signature
  BY DEF CallRecord
<1>4. r.sig \in [key : [alg : SIGNATURE_ALGORITHMS, n : Nat], over : Data]
  BY <1>2, <1>3 DEF Signature
<1>5. r.sig.key \in [alg : SIGNATURE_ALGORITHMS, n : Nat]
  BY <1>4
<1>6. PICK k \in [alg : SIGNATURE_ALGORITHMS, n : Nat] : k = r.sig.key
  BY <1>5
<1>7. k \in Key /\ k.alg \in SIGNATURE_ALGORITHMS /\ k # NoKey
  BY DEF SIGNATURE_ALGORITHMS, Key, Text, NoKey
<1>8. QED
  BY <1>6, <1>7

(* The document a did:peer:4 stands for tells its keys.                    *)
LEMMA PeerKeyOK ==
    ASSUME NEW r \in CallRecord, r.opts \in world.opts, Last(held) \in r.live,
           r.data # NoData, Carried(r.sig), isPeer4(r.data.claims.iss),
           isLong(r.data.claims.iss) => r.data.claims.iss.hash = r.data.claims.iss.doc
    PROVE  LET claims == r.data.claims
               n == WithKey(r, resolveKidOrAuth(claims.iss.hash, claims.kid), claims.iss.hash)
           IN  /\ n \in CallRecord /\ RecordOK(n) /\ n.pc \in {"done", "resolved"}
               /\ n.pc = "done" => n.out = "bad"
               /\ n.out = "accepted" => r.out = "accepted"
<1> DEFINE claims == r.data.claims
           iss == claims.iss
           key == resolveKidOrAuth(iss.hash, claims.kid)
<1>1. iss \in DID /\ claims.kid \in Nat
  BY DEF CallRecord, Data, Claims
<1>2. iss.hash \in Doc /\ iss.doc \in Doc
  BY <1>1 DEF DID
<1>3. key \in Key
  BY <1>1, <1>2, KidResolves
<1>4. iss.method = "peer"
  BY DEF isPeer4
<1>5. key # NoKey => key \in Authorised(iss)
  BY <1>1, <1>2, <1>4, KidResolves DEF Authorised
<1>6. GoodCall(r) => key # NoKey /\ key = r.sig.key
  <2>1. SUFFICES ASSUME GoodCall(r) PROVE key # NoKey /\ key = r.sig.key
    OBVIOUS
  <2>2. /\ claims.kid \in Range(iss.hash.authentication)
        /\ claims.kid \in DOMAIN iss.hash.verificationMethod
        /\ iss.hash.verificationMethod[claims.kid] = r.sig.key
    BY <2>1, <1>4 DEF GoodCall
  <2>3. r.sig.key.alg \in SIGNATURE_ALGORITHMS
    BY <2>1, GoodSigned
  <2>4. QED
    BY <2>2, <2>3, <1>1, <1>2, KidResolves
<1> HIDE DEF key
<1>7. /\ WithKey(r, key, iss.hash) \in CallRecord /\ RecordOK(WithKey(r, key, iss.hash))
      /\ WithKey(r, key, iss.hash).pc \in {"done", "resolved"}
      /\ WithKey(r, key, iss.hash).pc = "done" => WithKey(r, key, iss.hash).out = "bad"
      /\ WithKey(r, key, iss.hash).out = "accepted" => r.out = "accepted"
  BY <1>2, <1>3, <1>4, <1>5, <1>6, WithKeyOK
<1>8. QED
  BY <1>7 DEF key

(* The issuer is resolved to the first await.                              *)
LEMMA ResolveOK ==
    ASSUME Typed, decoded \in Seq(DID), \A i \in DOMAIN decoded : verifyMultihash(decoded[i]),
           NEW r \in CallRecord, r.opts \in world.opts, r.live = {Last(held)},
           r.data # NoData, Carried(r.sig), r.out # "accepted"
    PROVE  /\ resolveIssuer(r) \in CallRecord /\ RecordOK(resolveIssuer(r))
           /\ resolveIssuer(r).pc \in {"done", "resolved", "method", "resolver"}
           /\ resolveIssuer(r).out # "accepted"
<1> DEFINE claims == r.data.claims
           iss == claims.iss
           OK(n) == /\ n \in CallRecord /\ RecordOK(n)
                    /\ n.pc \in {"done", "resolved", "method", "resolver"} /\ n.out # "accepted"
<1> SUFFICES OK(resolveIssuer(r))
  OBVIOUS
<1>1. claims \in Claims /\ iss \in DID /\ claims.kid \in Nat
  BY DEF CallRecord, Data, Claims
<1>2. iss.method \in Text /\ iss.key \in Key /\ iss.hash \in Doc /\ iss.doc \in Doc
  BY <1>1 DEF DID
<1>3. Last(held) \in r.live /\ (GoodCall(r) => r.sig.key \in Key
        /\ r.sig.key.alg \in SIGNATURE_ALGORITHMS /\ r.sig.key # NoKey)
  BY GoodSigned
<1>4. ASSUME NEW pc \in {"method", "resolver"},
             pc = "resolver" => isPeer4(iss) /\ ~isLong(iss), pc = "method" => iss.method = "kokuin"
      PROVE  OK([r EXCEPT !.pc = pc])
  <2>1. PICK n : n = [r EXCEPT !.pc = pc]
    OBVIOUS
  <2>2. /\ n \in CallRecord /\ n.pc = pc /\ n.data = r.data /\ n.sig = r.sig /\ n.opts = r.opts
        /\ n.live = r.live /\ n.out = r.out
    BY <2>1 DEF CallRecord, PCs
  <2>3. RecordOK(n)
    BY <2>2, <1>3, <1>4 DEF RecordOK, KeyPcs
  <2>4. QED
    BY <2>1, <2>2, <2>3
<1>5. CASE iss = Blank
  <2>1. ~GoodCall(r)
    BY <1>5 DEF GoodCall, Blank, isPeer4
  <2>2. resolveIssuer(r) = Ends(r, "bad")
    BY <1>5 DEF resolveIssuer
  <2>3. QED
    BY <2>1, <2>2, EndsOK
<1>6. CASE iss # Blank /\ resolvesByMethod(r)
  <2>1. iss.method = "kokuin"
    BY <1>6 DEF resolvesByMethod
  <2>2. CASE r.opts.historic /\ r.opts.methods = "current"
    <3>1. resolveIssuer(r) = Ends(r, "unresolvable")
      BY <1>6, <2>2 DEF resolveIssuer
    <3>2. QED
      BY <2>1, <3>1, EndsOK
  <2>3. CASE ~(r.opts.historic /\ r.opts.methods = "current")
    <3>1. resolveIssuer(r) = [r EXCEPT !.pc = "method"]
      BY <1>6, <2>3 DEF resolveIssuer
    <3>2. QED
      BY <1>4, <2>1, <3>1
  <2>4. QED
    BY <2>2, <2>3
<1> DEFINE key(doc) == resolveKidOrAuth(doc, claims.kid)
<1>7. ASSUME isPeer4(iss), isLong(iss) => iss.hash = iss.doc
      PROVE  OK(WithKey(r, key(iss.hash), iss.hash))
  BY <1>3, <1>7, PeerKeyOK
<1>8. CASE iss # Blank /\ ~resolvesByMethod(r) /\ isLong(iss)
  <2>1. isPeer4(iss)
    BY <1>8 DEF isLong
  <2>2. CASE decodeFails(iss)
    <3>1. ~verifyMultihash(iss)
      BY <2>2 DEF decodeFails
    <3>2. ~GoodCall(r)
      BY <1>8, <2>1, <3>1 DEF GoodCall, verifyMultihash, isPeer4
    <3>3. resolveIssuer(r) = Ends(r, "bad")
      BY <1>8, <2>2 DEF resolveIssuer
    <3>4. QED
      BY <3>2, <3>3, EndsOK
  <2>3. CASE ~decodeFails(iss)
    <3>1. verifyMultihash(iss)
      BY <2>3 DEF decodeFails, Contains
    <3>2. iss.hash = iss.doc
      BY <3>1 DEF verifyMultihash
    <3>3. resolveIssuer(r) = WithKey(r, key(iss.doc), iss.doc)
      BY <1>8, <2>3 DEF resolveIssuer
    <3> HIDE DEF key, OK
    <3>4. QED
      BY <3>2, <3>3, <2>1, <1>7
  <2>4. QED
    BY <2>2, <2>3
<1>9. CASE iss # Blank /\ ~resolvesByMethod(r) /\ ~isLong(iss) /\ isPeer4(iss)
  <2>1. CASE r.opts.cache /\ Contains(docs, iss.hash)
    <3>1. resolveIssuer(r) = WithKey(r, key(iss.hash), iss.hash)
      BY <1>9, <2>1 DEF resolveIssuer
    <3> HIDE DEF key, OK
    <3>2. QED
      BY <3>1, <1>7, <1>9
  <2>2. CASE ~(r.opts.cache /\ Contains(docs, iss.hash)) /\ r.opts.resolver
    <3>1. resolveIssuer(r) = [r EXCEPT !.pc = "resolver"]
      BY <1>9, <2>2 DEF resolveIssuer
    <3>2. QED
      BY <3>1, <1>4, <1>9
  <2>3. CASE ~(r.opts.cache /\ Contains(docs, iss.hash)) /\ ~r.opts.resolver
    <3>1. resolveIssuer(r) = Ends(r, "unresolvable")
      BY <1>9, <2>3 DEF resolveIssuer
    <3>2. QED
      BY <3>1, <1>9, EndsOK
  <2>4. QED
    BY <2>1, <2>2, <2>3
<1>10. CASE iss # Blank /\ ~resolvesByMethod(r) /\ ~isLong(iss) /\ ~isPeer4(iss) /\ iss.method = "key"
  <2>1. resolveIssuer(r) = WithKey(r, iss.key, NoDoc)
    BY <1>10 DEF resolveIssuer
  <2>2. iss.key \in Authorised(iss)
    BY <1>10 DEF Authorised
  <2>3. GoodCall(r) => iss.key # NoKey /\ iss.key = r.sig.key
    BY <1>3, <1>10 DEF GoodCall
  <2>4. QED
    BY <1>2, <1>3, <1>10, <2>1, <2>2, <2>3, Blanks, WithKeyOK
<1>11. CASE iss # Blank /\ ~resolvesByMethod(r) /\ ~isLong(iss) /\ ~isPeer4(iss) /\ iss.method # "key"
  <2>1. resolveIssuer(r) = Ends(r, "unresolvable")
    BY <1>11 DEF resolveIssuer
  <2>2. GoodCall(r) => iss.method = "kokuin"
    BY <1>11 DEF GoodCall
  <2>3. QED
    BY <2>1, <2>2, EndsOK
<1>12. QED
  BY <1>5, <1>6, <1>8, <1>9, <1>10, <1>11

-----------------------------------------------------------------------------
(* What a caller may present, and where its call begins.                   *)

LEMMA ParsedOK ==
    ASSUME NEW t \in wire, wire \subseteq Token
    PROVE  /\ Parsed(t) \in Object /\ Parsed(t).claims = t.data.claims /\ Parsed(t).data = t.data
           /\ Parsed(t).sig = t.sig /\ Parsed(t).proof = NoProof
<1>1. t \in Token /\ t.data \in Data /\ t.data.claims \in Claims /\ t.sig \in Signature
  BY DEF Token, Data
<1>2. PICK o : o = NoObject
  OBVIOUS
<1>3. o \in Object /\ o.proof = NoProof
  BY <1>2, Blanks DEF NoObject
<1>4. PICK n : n = [o EXCEPT !.claims = t.data.claims, !.data = t.data, !.sig = t.sig]
  OBVIOUS
<1>5. /\ n \in Object /\ n.claims = t.data.claims /\ n.data = t.data /\ n.sig = t.sig
      /\ n.proof = NoProof
  BY <1>1, <1>3, <1>4 DEF Object
<1>6. n = Parsed(t)
  BY <1>2, <1>4 DEF Parsed
<1>7. QED
  BY <1>5, <1>6

LEMMA SigKeyTyped ==
    ASSUME NEW sig \in Signature
    PROVE  sig.key \in Key
<1>1. CASE sig = NoSig
  BY <1>1, Blanks DEF NoSig
<1>2. CASE sig # NoSig
  <2>1. sig.key \in [alg : SIGNATURE_ALGORITHMS, n : Nat]
    BY <1>2 DEF Signature
  <2>2. PICK k \in [alg : SIGNATURE_ALGORITHMS, n : Nat] : k = sig.key
    BY <2>1
  <2>3. k \in Key
    BY DEF SIGNATURE_ALGORITHMS, Key, Text
  <2>4. QED
    BY <2>2, <2>3
<1>3. QED
  BY <1>1, <1>2

LEMMA PresentedOK ==
    ASSUME wire \subseteq Token, object \in [Call -> Object],
           \A c \in Call : ObjectOK(object[c]) /\ ObjectWitnessed(object[c]),
           NEW p \in Presentations
    PROVE  /\ p[1] \in Object /\ ObjectOK(p[1]) /\ ObjectWitnessed(p[1])
           /\ p[2] = "string" => p[1].claims = p[1].data.claims
<1> DEFINE OK(o) == o \in Object /\ ObjectOK(o) /\ ObjectWitnessed(o)
<1>1. PICK form \in world.forms : p \in
         IF form \in {"held", "copy"}
         THEN {<<IF form = "held" THEN object[d] ELSE [object[d] EXCEPT !.proof = NoProof], form>> :
                  d \in {e \in Call : object[e] # NoObject}}
         ELSE {<<CASE form = "bare" -> [Parsed(t) EXCEPT !.data = NoData]
                   [] form = "claimed" -> [Parsed(t) EXCEPT !.pub = t.sig.key]
                   [] OTHER -> Parsed(t), form>> : t \in wire}
  BY DEF Presentations
<1>2. CASE form \in {"held", "copy"}
  <2>1. PICK d \in Call :
           p = <<IF form = "held" THEN object[d] ELSE [object[d] EXCEPT !.proof = NoProof], form>>
    BY <1>1, <1>2
  <2>2. PICK o : o = object[d]
    OBVIOUS
  <2>3. OK(o)
    BY <2>2
  <2>4. PICK n : n = [o EXCEPT !.proof = NoProof]
    OBVIOUS
  <2>5. n \in Object /\ n.proof = NoProof /\ n.sig = o.sig
    BY <2>3, <2>4, Blanks DEF Object
  <2>6. OK(n)
    BY <2>3, <2>5 DEF ObjectOK, ObjectWitnessed
  <2>7. p[2] # "string" /\ (p[1] = o \/ p[1] = n)
    BY <1>2, <2>1, <2>2, <2>4
  <2>8. QED
    BY <2>3, <2>6, <2>7
<1>3. CASE form \notin {"held", "copy"}
  <2>1. PICK t \in wire : p = <<CASE form = "bare" -> [Parsed(t) EXCEPT !.data = NoData]
                                  [] form = "claimed" -> [Parsed(t) EXCEPT !.pub = t.sig.key]
                                  [] OTHER -> Parsed(t), form>>
    BY <1>1, <1>3
  <2>2. PICK o : o = Parsed(t)
    OBVIOUS
  <2>3. o \in Object /\ o.sig = t.sig /\ o.proof = NoProof /\ o.claims = o.data.claims
    BY <2>2, ParsedOK
  <2>4. OK(o)
    BY <2>3 DEF ObjectOK, ObjectWitnessed, Carried
  <2>5. CASE form = "bare"
    <3>1. PICK n : n = [o EXCEPT !.data = NoData]
      OBVIOUS
    <3>2. n \in Object /\ n.sig = o.sig /\ n.proof = NoProof
      BY <2>3, <3>1, Blanks DEF Object
    <3>3. OK(n)
      BY <2>3, <3>2 DEF ObjectOK, ObjectWitnessed, Carried
    <3>4. p[1] = n /\ p[2] = "bare"
      BY <2>1, <2>2, <2>5, <3>1
    <3>5. QED
      BY <3>3, <3>4
  <2>6. CASE form = "claimed"
    <3>1. PICK n : n = [o EXCEPT !.pub = t.sig.key]
      OBVIOUS
    <3>2. t.sig.key \in Key
      BY SigKeyTyped DEF Token
    <3>3. n \in Object /\ n.sig = o.sig /\ n.proof = NoProof
      BY <2>3, <3>1, <3>2 DEF Object
    <3>4. OK(n)
      BY <2>3, <3>3 DEF ObjectOK, ObjectWitnessed, Carried
    <3>5. p[1] = n /\ p[2] = "claimed"
      BY <2>1, <2>2, <2>6, <3>1
    <3>6. QED
      BY <3>4, <3>5
  <2>7. CASE form \notin {"bare", "claimed"}
    <3>1. p[1] = o
      BY <2>1, <2>2, <2>7
    <3>2. QED
      BY <3>1, <2>3, <2>4
  <2>8. QED
    BY <2>5, <2>6, <2>7
<1>4. QED
  BY <1>2, <1>3

Begin(opts) == [Idle EXCEPT !.opts = opts, !.live = {Last(held)}]

LEMMA BeginTyped ==
    ASSUME Typed, NEW opts \in world.opts
    PROVE  /\ opts \in Options /\ Begin(opts) \in CallRecord /\ Begin(opts).opts = opts
           /\ Begin(opts).live = {Last(held)} /\ Begin(opts).data = NoData
           /\ Begin(opts).out = "none" /\ Last(held) \in Key
<1>1. opts \in Options
  BY TokensAssumption DEF Typed
<1>2. Last(held) \in Key
  BY DEF Last, Typed
<1>3. PICK i : i = Idle
  OBVIOUS
<1>4. i \in CallRecord /\ i.data = NoData /\ i.out = "none"
  BY <1>3, Blanks DEF Idle
<1>5. PICK n : n = [i EXCEPT !.opts = opts, !.live = {Last(held)}]
  OBVIOUS
<1>6. /\ n \in CallRecord /\ n.opts = opts /\ n.live = {Last(held)} /\ n.data = NoData
      /\ n.out = "none"
  BY <1>1, <1>2, <1>4, <1>5 DEF CallRecord
<1>7. n = Begin(opts)
  BY <1>3, <1>5 DEF Begin
<1>8. QED
  BY <1>1, <1>2, <1>6, <1>7

(* What the fast path answers was proved of the object before.             *)
LEMMA FastOK ==
    ASSUME Typed, NEW o \in Object, ObjectOK(o), ObjectWitnessed(o),
           NEW opts \in world.opts, FastPath(o, opts), matchesVerifiableData(o, o.proof.data),
           assertTimeClaimsValid(o.claims, opts), assertAudienceValid(o.claims, opts),
           NEW n, n = [Begin(opts) EXCEPT !.pc = "done", !.out = "accepted", !.claims = o.claims,
                                          !.sig = o.sig, !.key = o.pub, !.at = now]
    PROVE  /\ n \in CallRecord /\ RecordOK(n) /\ CallWitnessed(n)
           /\ n.pc = "done"
<1>1. PICK r : r = Begin(opts)
  OBVIOUS
<1>2. /\ r \in CallRecord /\ opts \in Options /\ r.opts = opts /\ r.data = NoData
  BY <1>1, BeginTyped
<1>3. /\ o.claims \in Claims /\ o.sig \in Signature /\ o.pub \in Key /\ o.proof \in Proof
      /\ now \in Nat
  BY DEF Object, Typed
<1>4. /\ n \in CallRecord /\ n.pc = "done" /\ n.out = "accepted" /\ n.claims = o.claims
      /\ n.sig = o.sig /\ n.at = now /\ n.opts = opts /\ n.data = NoData
  BY <1>1, <1>2, <1>3 DEF CallRecord, PCs, Outs
<1>5. /\ o.proof # NoProof /\ o.proof.policy = capturePolicy(opts) /\ o.proof.sig = o.sig
      /\ ~(~opts.historic /\ o.proof.historic) /\ o.proof.data.claims = o.claims
  BY DEF FastPath, isVerifiedToken, samePolicy, Weaker, matchesVerifiableData
<1>6. Sound(opts) => Sound(o.proof.policy)
  BY <1>5 DEF Sound, capturePolicy
<1>7. Sound(opts) => AcceptedOK(n)
  <2>1. SUFFICES ASSUME Sound(opts) PROVE AcceptedOK(n)
    OBVIOUS
  <2>2. o.sig.over.claims = o.claims /\ o.sig.key \in Authorised(o.claims.iss)
    BY <2>1, <1>5, <1>6 DEF ObjectOK
  <2>3. opts.audience \in {"any", o.claims.aud}
    BY DEF assertAudienceValid
  <2>4. o.claims.exp = 0 \/ o.claims.exp + opts.tolerance >= now
    <3>1. o.claims.exp \in Nat /\ opts.tolerance \in Nat
      BY <1>2, <1>3 DEF Claims, Options
    <3>2. QED
      BY <3>1, <1>3 DEF assertTimeClaimsValid
  <2>5. QED
    BY <1>4, <2>2, <2>3, <2>4 DEF AcceptedOK
<1>8. RecordOK(n)
  BY <1>4, <1>7 DEF RecordOK, KeyPcs
<1>9. CallWitnessed(n)
  BY <1>4, <1>5, <1>6 DEF CallWitnessed, ObjectWitnessed
<1>10. QED
  BY <1>4, <1>8, <1>9

BeginsOK(n) ==
    /\ n \in CallRecord /\ RecordOK(n) /\ CallWitnessed(n)
    /\ n.pc \in {"done", "resolved", "method", "resolver"}

LEMMA BegunOK ==
    ASSUME Typed, decoded \in Seq(DID), \A i \in DOMAIN decoded : verifyMultihash(decoded[i]),
           NEW o \in Object, ObjectOK(o), ObjectWitnessed(o), NEW opts \in world.opts
    PROVE  /\ BeginsOK(verifyObject(Begin(opts), o))
           /\ o.claims = o.data.claims => BeginsOK(verifyString(Begin(opts), o))
<1>1. PICK r : r = Begin(opts)
  OBVIOUS
<1>2. /\ r \in CallRecord /\ opts \in Options /\ r.opts = opts /\ r.data = NoData
      /\ r.live = {Last(held)} /\ r.out = "none"
  BY <1>1, BeginTyped
<1>3. \A out \in {"bad", "unsigned"} : BeginsOK(Ends(r, out))
  <2>1. SUFFICES ASSUME NEW out \in {"bad", "unsigned"} PROVE BeginsOK(Ends(r, out))
    OBVIOUS
  <2>2. Ends(r, out) \in CallRecord /\ RecordOK(Ends(r, out))
        /\ Ends(r, out).pc = "done" /\ Ends(r, out).out = out
    BY <1>2, EndsOK
  <2>3. QED
    BY <2>2 DEF BeginsOK, CallWitnessed
<1>4. ASSUME NEW data \in Data, data # NoData
      PROVE  BeginsOK(resolveIssuer([r EXCEPT !.data = data, !.sig = o.sig]))
  <2>1. PICK n : n = [r EXCEPT !.data = data, !.sig = o.sig]
    OBVIOUS
  <2>2. /\ n \in CallRecord /\ n.opts = opts /\ n.data = data /\ n.sig = o.sig
        /\ n.live = {Last(held)} /\ n.out = "none"
    BY <1>2, <2>1 DEF CallRecord, Object
  <2>3. Carried(n.sig)
    BY <2>2 DEF ObjectOK
  <2>4. /\ resolveIssuer(n) \in CallRecord /\ RecordOK(resolveIssuer(n))
        /\ resolveIssuer(n).pc \in {"done", "resolved", "method", "resolver"}
        /\ resolveIssuer(n).out # "accepted"
    BY <1>4, <2>2, <2>3, ResolveOK
  <2>5. QED
    BY <2>1, <2>4 DEF BeginsOK, CallWitnessed
<1>5. BeginsOK(verifyObject(r, o))
  <2>1. CASE isUnsignedToken(o)
    BY <1>2, <1>3, <2>1 DEF verifyObject
  <2>2. CASE ~isUnsignedToken(o) /\ isVerifiedToken(o) /\ ~matchesVerifiableData(o, o.proof.data)
    BY <1>3, <2>2 DEF verifyObject
  <2>3. CASE /\ ~isUnsignedToken(o)
             /\ ~(isVerifiedToken(o) /\ ~matchesVerifiableData(o, o.proof.data))
             /\ FastPath(o, opts)
    <3>1. matchesVerifiableData(o, o.proof.data)
      BY <2>3 DEF FastPath
    <3>2. CASE assertTimeClaimsValid(o.claims, opts) /\ assertAudienceValid(o.claims, opts)
      <4>1. PICK n : n = [r EXCEPT !.pc = "done", !.out = "accepted", !.claims = o.claims,
                                   !.sig = o.sig, !.key = o.pub, !.at = now]
        OBVIOUS
      <4>2. verifyObject(r, o) = n
        BY <1>2, <2>3, <3>2, <4>1 DEF verifyObject
      <4>3. n \in CallRecord /\ RecordOK(n) /\ CallWitnessed(n) /\ n.pc = "done"
        BY <1>1, <2>3, <3>1, <3>2, <4>1, FastOK
      <4>4. QED
        BY <4>2, <4>3 DEF BeginsOK
    <3>3. CASE ~(assertTimeClaimsValid(o.claims, opts) /\ assertAudienceValid(o.claims, opts))
      <4>1. verifyObject(r, o) = Ends(r, "bad")
        BY <1>2, <2>3, <3>3 DEF verifyObject
      <4>2. QED
        BY <1>3, <4>1
    <3>4. QED
      BY <3>2, <3>3
  <2>4. CASE /\ ~isUnsignedToken(o)
             /\ ~(isVerifiedToken(o) /\ ~matchesVerifiableData(o, o.proof.data))
             /\ ~FastPath(o, opts)
    <3>1. CASE isSignedToken(o) /\ o.data = NoData
      <4>1. verifyObject(r, o) = resolveIssuer([r EXCEPT !.data = serialize(o.claims), !.sig = o.sig])
        BY <1>2, <2>4, <3>1 DEF verifyObject
      <4>2. serialize(o.claims) \in Data /\ serialize(o.claims) # NoData
        BY SerializeTyped DEF Object
      <4>3. QED
        BY <1>4, <4>1, <4>2
    <3>2. CASE isSignedToken(o) /\ o.data # NoData /\ matchesVerifiableData(o, o.data)
      <4>1. verifyObject(r, o) = resolveIssuer([r EXCEPT !.data = o.data, !.sig = o.sig])
        BY <1>2, <2>4, <3>2 DEF verifyObject
      <4>2. o.data \in Data
        BY DEF Object
      <4>3. QED
        BY <1>4, <3>2, <4>1, <4>2
    <3>3. CASE ~isSignedToken(o) \/ (o.data # NoData /\ ~matchesVerifiableData(o, o.data))
      <4>1. verifyObject(r, o) = Ends(r, "bad")
        BY <1>2, <2>4, <3>3 DEF verifyObject
      <4>2. QED
        BY <1>3, <4>1
    <3>4. QED
      BY <3>1, <3>2, <3>3
  <2>5. QED
    BY <2>1, <2>2, <2>3, <2>4
<1>6. ASSUME o.claims = o.data.claims
      PROVE  BeginsOK(verifyString(r, o))
  <2>1. CASE o.claims.alg = "none"
    BY <1>2, <1>3, <2>1 DEF verifyString
  <2>2. CASE o.claims.alg # "none" /\ o.claims.alg \in SIGNATURE_ALGORITHMS
    <3>1. verifyString(r, o) = resolveIssuer([r EXCEPT !.data = o.data, !.sig = o.sig])
      BY <2>2 DEF verifyString
    <3>2. o.data \in Data /\ o.data # NoData
      BY <1>6, <2>2 DEF Object, NoData, NoClaims
    <3>3. QED
      BY <1>4, <3>1, <3>2
  <2>3. CASE o.claims.alg # "none" /\ o.claims.alg \notin SIGNATURE_ALGORITHMS
    <3>1. verifyString(r, o) = Ends(r, "bad")
      BY <2>3 DEF verifyString
    <3>2. QED
      BY <1>3, <3>1
  <2>4. QED
    BY <2>1, <2>2, <2>3
<1>7. QED
  BY <1>1, <1>5, <1>6

-----------------------------------------------------------------------------
(* What a step leaves alone keeps what held of it.                         *)

LEMMA RecordKept ==
    ASSUME held' = held, world' = world, wire \subseteq wire', NEW r, RecordOK(r)
    PROVE  RecordOK(r)'
<1>1. \A iss : Authorised(iss)' = Authorised(iss)
  BY DEF Authorised
<1>2. Carried(r.sig) => Carried(r.sig)'
  BY DEF Carried
<1>3. KeyOK(r) => KeyOK(r)'
  BY <1>1 DEF KeyOK, GoodCall, assertAudienceValid
<1>4. AcceptedOK(r) => AcceptedOK(r)'
  BY <1>1 DEF AcceptedOK
<1>5. GoodCall(r)' <=> GoodCall(r)
  BY DEF GoodCall, assertAudienceValid
<1>6. RefusedOK(r) => RefusedOK(r)'
  BY DEF RefusedOK
<1>7. Last(held)' = Last(held)
  BY DEF Last
<1>8. QED
  BY <1>2, <1>3, <1>4, <1>5, <1>6, <1>7 DEF RecordOK, Checks, Sound

LEMMA RecordsKept ==
    ASSUME IInv, held' = held, world' = world, wire \subseteq wire',
           \A c \in Call : call'[c] = call[c] \/ RecordOK(call'[c])
    PROVE  (\A c \in Call : RecordOK(call[c]))'
<1>1. SUFFICES ASSUME NEW c \in Call PROVE RecordOK(call[c])'
  BY DEF Call
<1>2. PICK r : r = call'[c]
  OBVIOUS
<1>3. RecordOK(r)
  BY <1>2 DEF IInv
<1>4. RecordOK(r)'
  BY <1>3, RecordKept
<1>5. QED
  BY <1>2, <1>4

LEMMA WitnessKept ==
    ASSUME \A c \in Call : call[c].pc = "done" => call'[c] = call[c],
           NEW policy, NEW claims, Witness(policy, claims)
    PROVE  Witness(policy, claims)'
<1>1. PICK d \in Call :
         /\ Done(d, "accepted") /\ ~call[d].opts.historic
         /\ capturePolicy(call[d].opts) = policy
         /\ call[d].claims = claims /\ call[d].sig.key \in call[d].live
  BY DEF Witness
<1>2. call'[d] = call[d]
  BY <1>1 DEF Done
<1>3. QED
  BY <1>1, <1>2 DEF Witness, Done, Call

LEMMA ObjectsKept ==
    ASSUME IInv, held' = held, wire \subseteq wire', object' = object,
           \A c \in Call : call[c].pc = "done" => call'[c] = call[c]
    PROVE  (\A c \in Call : ObjectOK(object[c]) /\ ObjectWitnessed(object[c]))'
<1>1. SUFFICES ASSUME NEW c \in Call PROVE ObjectOK(object[c])' /\ ObjectWitnessed(object[c])'
  BY DEF Call
<1>2. PICK o : o = object[c]
  OBVIOUS
<1>3. ObjectOK(o) /\ ObjectWitnessed(o)
  BY <1>2 DEF IInv
<1>4. \A iss : Authorised(iss)' = Authorised(iss)
  BY DEF Authorised
<1>5. ObjectOK(o)'
  BY <1>3, <1>4 DEF ObjectOK, Carried, Sound
<1>6. ObjectWitnessed(o)'
  BY <1>3, WitnessKept DEF ObjectWitnessed, Sound
<1>7. QED
  BY <1>2, <1>5, <1>6

LEMMA WitnessedKept ==
    ASSUME IInv, \A c \in Call : call[c].pc = "done" => call'[c] = call[c],
           \A c \in Call : call'[c] = call[c] \/ CallWitnessed(call'[c])
    PROVE  (\A c \in Call : CallWitnessed(call[c]))'
<1>1. SUFFICES ASSUME NEW c \in Call PROVE CallWitnessed(call[c])'
  BY DEF Call
<1>2. PICK r : r = call'[c]
  OBVIOUS
<1>3. CallWitnessed(r)
  BY <1>2 DEF IInv
<1>4. CallWitnessed(r)'
  BY <1>3, WitnessKept DEF CallWitnessed, Sound, capturePolicy
<1>5. QED
  BY <1>2, <1>4

LEMMA GroupsKept ==
    ASSUME IInv, group' = group, pending' = pending,
           \A c \in Call : call'[c] = call[c] \/ call'[c].pc # "waiting"
    PROVE  GroupsOK'
<1>1. GroupsOK
  BY DEF IInv
<1>2. ASSUME NEW c \in Call, call'[c].pc = "waiting" PROVE PlaceOK(c, call[c])'
  <2>1. PICK r : r = call'[c]
    OBVIOUS
  <2>2. PlaceOK(c, r)
    BY <2>1, <1>1, <1>2 DEF GroupsOK
  <2>3. PlaceOK(c, r)'
    BY <2>2 DEF PlaceOK, Checks
  <2>4. QED
    BY <2>1, <2>3
<1>3. QED
  BY <1>1, <1>2 DEF GroupsOK, Call, Provider

LEMMA DocsKept ==
    ASSUME DocsEarned, world' = world, held' = held, wire \subseteq wire', docs' = docs
    PROVE  DocsEarned'
<1>1. \A iss : Authorised(iss)' = Authorised(iss)
  BY DEF Authorised
<1>2. \A doc : Earned(doc) => Earned(doc)'
  BY <1>1 DEF Earned
<1>3. QED
  BY <1>2 DEF DocsEarned, Sound

LEMMA CachesKept ==
    ASSUME IInv, world' = world, held' = held, wire \subseteq wire', caches' = caches
    PROVE  CachesTyped' /\ MemoSound' /\ DecodedSound' /\ DocsEarned'
<1>1. DocsEarned'
  BY DocsKept DEF IInv, caches
<1>2. CachesTyped'
  BY DEF IInv, CachesTyped, MemoOK, KeysApart, IsInjective, memoKey, MemoEntries, Bytes, caches
<1>3. MemoSound' /\ DecodedSound'
  BY DEF IInv, MemoSound, DecodedSound, verifyMultihash, caches
<1>4. QED
  BY <1>1, <1>2, <1>3

LEMMA QuietKept ==
    ASSUME IInv, Typed', UNCHANGED <<world, held, call, object, pending, group, caches>>,
           wire \subseteq wire'
    PROVE  IInv'
<1>1. (\A c \in Call : RecordOK(call[c]))'
  BY RecordsKept
<1>2. (\A c \in Call : ObjectOK(object[c]) /\ ObjectWitnessed(object[c]))'
  BY ObjectsKept
<1>3. (\A c \in Call : CallWitnessed(call[c]))'
  BY WitnessedKept
<1>4. GroupsOK'
  BY GroupsKept
<1>5. CachesTyped' /\ MemoSound' /\ DecodedSound' /\ DocsEarned'
  BY CachesKept
<1>6. QED
  BY <1>1, <1>2, <1>3, <1>4, <1>5 DEF IInv

-----------------------------------------------------------------------------
(* Signing.                                                                *)

LEMMA KeyPublished ==
    ASSUME NEW k \in IdentityKey
    PROVE  PublicKey(k) \in Key /\ getDID(k) \in DID
<1>1. PublicKey(k) \in Key
  BY DEF PublicKey, Key, IdentityKey
<1>2. [alg |-> "EdDSA", n |-> k.n] \in Key
  BY DEF Key, IdentityKey, Text
<1>3. PICK b : b = Blank
  OBVIOUS
<1>4. b \in DID
  BY <1>3, Blanks
<1>5. PICK d : d = [b EXCEPT !.method = "key", !.key = [alg |-> "EdDSA", n |-> k.n]]
  OBVIOUS
<1>6. d \in DID
  BY <1>2, <1>4, <1>5 DEF DID, Text
<1>7. d = getDID(k)
  BY <1>3, <1>5 DEF getDID
<1>8. QED
  BY <1>1, <1>6, <1>7

LEMMA FragmentsTyped ==
    ASSUME NEW keys \in Seq(IdentityKey), NEW purpose
    PROVE  /\ Fragments(keys, purpose) \in Seq(Fragment)
           /\ \A j \in 1..Len(Fragments(keys, purpose)) : Fragments(keys, purpose)[j] \in 1..Len(keys)
<1> DEFINE all == [i \in 1..Len(keys) |-> i]
           S == {i \in DOMAIN keys : keys[i].purpose = purpose}
<1>1. all \in Seq(1..Len(keys)) /\ all \in Seq(Fragment)
  BY DEF Fragment, NoKid
<1>2. Fragments(keys, purpose) = Filtered(all, S)
  BY DEF Fragments
<1> HIDE DEF all, S
<1>3. Filtered(all, S) \in Seq(Fragment)
  BY <1>1, FilteredPicks
<1>4. PICK t \in Seq(1..Len(keys)) : t = Filtered(all, S)
  BY <1>1, FilteredPicks
<1>5. QED
  BY <1>2, <1>3, <1>4

LEMMA BuiltTyped ==
    ASSUME NEW keys \in Seq(IdentityKey)
    PROVE  encodePeer4(buildDoc(keys)) \in DID /\ normalizeDID(encodePeer4(buildDoc(keys))) \in DID
<1>1. [i \in 1..Len(keys) |-> PublicKey(keys[i])] \in Seq(Key)
  <2>1. \A i \in 1..Len(keys) : keys[i] \in IdentityKey
    OBVIOUS
  <2>2. \A i \in 1..Len(keys) : PublicKey(keys[i]) \in Key
    BY <2>1, KeyPublished
  <2>3. QED
    BY <2>2
<1>2. buildDoc(keys) \in Doc
  BY <1>1, FragmentsTyped DEF buildDoc, Doc
<1>3. PICK b : b = Blank
  OBVIOUS
<1>4. b \in DID
  BY <1>3, Blanks
<1>5. PICK d : d = [b EXCEPT !.method = "peer", !.hash = buildDoc(keys), !.doc = buildDoc(keys)]
  OBVIOUS
<1>6. d \in DID
  BY <1>2, <1>4, <1>5 DEF DID, Text
<1>7. d = encodePeer4(buildDoc(keys))
  BY <1>3, <1>5 DEF encodePeer4
<1>8. PICK e : e = [d EXCEPT !.doc = NoDoc]
  OBVIOUS
<1>9. e \in DID
  BY <1>6, <1>8, Blanks DEF DID
<1>10. normalizeDID(d) \in {d, e}
  BY <1>8 DEF normalizeDID, getPeer4ShortForm
<1>11. QED
  BY <1>6, <1>7, <1>9, <1>10

LEMMA CreateKeeps ==
    ASSUME IInv, NEW spec \in world.specs, CreateIdentity(spec)
    PROVE  IInv'
<1>1. PICK keys \in Seq(IdentityKey) : keys = spec.keys
  BY TokensAssumption DEF IInv, Typed
<1>2. spec.didMethod \in {"unset", "key", "peer"}
  BY TokensAssumption DEF IInv, Typed
<1>3. CASE Fragments(keys, "sig") = <<>> \/ chooseMethod(spec) = "invalid"
  <2>1. identity' = NoIdentity
    BY <1>1, <1>3 DEF CreateIdentity, createIdentity
  <2>2. Typed'
    BY <2>1 DEF CreateIdentity, IInv, Typed, IdentityTyped
  <2>3. QED
    BY <2>2, QuietKept DEF CreateIdentity
<1>4. CASE ~(Fragments(keys, "sig") = <<>> \/ chooseMethod(spec) = "invalid")
  <2>1. identity' = buildIdentity(chooseMethod(spec), keys)
    BY <1>1, <1>4 DEF CreateIdentity, createIdentity
  <2>2. chooseMethod(spec) = "key" => keys[1] \in IdentityKey
    BY <1>1, <1>2, <1>4 DEF chooseMethod, OneSigningKey
  <2>3. CASE chooseMethod(spec) = "key"
    <3>1. identity'.keys = keys /\ identity'.longForm = getDID(keys[1])
          /\ identity'.id = normalizeDID(getDID(keys[1]))
      BY <2>1, <2>3 DEF buildIdentity
    <3>2. ~isPeer4(getDID(keys[1]))
      BY DEF getDID, Blank, isPeer4
    <3>3. getDID(keys[1]) \in DID
      BY <2>2, <2>3, KeyPublished
    <3>4. IdentityTyped'
      BY <1>4, <3>1, <3>2, <3>3 DEF IdentityTyped, normalizeDID
    <3>5. Typed'
      BY <3>4 DEF CreateIdentity, IInv, Typed
    <3>6. QED
      BY <3>5, QuietKept DEF CreateIdentity
  <2>4. CASE chooseMethod(spec) # "key"
    <3>1. identity'.keys = keys /\ identity'.longForm = encodePeer4(buildDoc(keys))
          /\ identity'.id = normalizeDID(encodePeer4(buildDoc(keys)))
      BY <2>1, <2>4 DEF buildIdentity
    <3>2. IdentityTyped'
      BY <1>4, <3>1, BuiltTyped DEF IdentityTyped
    <3>3. Typed'
      BY <3>2 DEF CreateIdentity, IInv, Typed
    <3>4. QED
      BY <3>3, QuietKept DEF CreateIdentity
  <2>5. QED
    BY <2>3, <2>4
<1>5. QED
  BY <1>3, <1>4

LEMMA SignKeeps ==
    ASSUME IInv, NEW aud \in world.auds, NEW kid \in world.kids, NEW embed \in world.embeds,
           NEW body \in world.bodies, SignToken(aud, kid, embed, body)
    PROVE  IInv'
<1> DEFINE fragment == pickSigningKey(identity.keys, kid)
           picked == pickIss(identity, sentTo, aud, embed)
           claims == [alg |-> "EdDSA", kid |-> IF isPeer4(identity.id) THEN fragment ELSE NoKid,
                      iss |-> picked.iss, aud |-> aud, exp |-> 0, body |-> body]
           key == PublicKey(identity.keys[fragment])
           sig == [key |-> key, over |-> serialize(claims)]
<1>1. identity # NoIdentity /\ fragment # NoKid
      /\ signing' = IF identity.keys[fragment].alg # "EdDSA" THEN signing ELSE signing \cup {sig}
  BY DEF SignToken
<1>2. kid \in Nat /\ body \in Nat /\ aud \in Text
  BY TokensAssumption DEF IInv, Typed
<1>3. PICK keys \in Seq(IdentityKey) : keys = identity.keys
  BY <1>1 DEF IInv, Typed, IdentityTyped
<1>4. /\ identity.id \in DID /\ identity.longForm \in DID /\ Fragments(keys, "sig") # <<>>
  BY <1>1, <1>3 DEF IInv, Typed, IdentityTyped
<1>5. fragment \in 1..Len(keys)
  <2>1. CASE kid # NoKid
    BY <1>1, <1>3, <2>1 DEF pickSigningKey
  <2>2. CASE kid = NoKid
    <3>1. PICK t \in Seq(Fragment) : t = Fragments(keys, "sig")
      BY FragmentsTyped
    <3>2. t # <<>> /\ \A j \in 1..Len(t) : t[j] \in 1..Len(keys)
      BY <1>4, <3>1, FragmentsTyped
    <3>3. Head(t) \in 1..Len(keys)
      BY <3>2
    <3>4. QED
      BY <2>2, <3>1, <3>3, <1>3 DEF pickSigningKey
  <2>3. QED
    BY <2>1, <2>2
<1>6. picked.iss \in {identity.id, identity.longForm}
  BY DEF pickIss
<1> HIDE DEF fragment, picked
<1>7. claims \in Claims
  BY <1>2, <1>4, <1>5, <1>6 DEF Claims, Text, NoKid
<1> HIDE DEF claims
<1>8. keys[fragment] \in IdentityKey
  BY <1>5
<1>9. identity.keys[fragment].alg = "EdDSA" => sig \in Signature
  <2>1. SUFFICES ASSUME keys[fragment].alg = "EdDSA" PROVE sig \in Signature
    BY <1>3
  <2>2. key \in [alg : SIGNATURE_ALGORITHMS, n : Nat]
    BY <1>3, <1>8, <2>1 DEF PublicKey, SIGNATURE_ALGORITHMS, IdentityKey
  <2>3. serialize(claims) \in Data
    BY <1>7, SerializeTyped
  <2> HIDE DEF key
  <2>4. QED
    BY <2>2, <2>3 DEF Signature
<1> HIDE DEF sig, key
<1>10. signing' \subseteq Signature
  BY <1>1, <1>9 DEF IInv, Typed
<1>11. Typed'
  BY <1>10 DEF SignToken, IInv, Typed, IdentityTyped
<1>12. QED
  BY <1>11, QuietKept DEF SignToken

LEMMA SignForKeeps ==
    ASSUME IInv, NEW i \in DOMAIN held, NEW kid \in world.kokuin, NEW exp \in world.exps,
           NEW body \in world.bodies, SignForDID(i, kid, exp, body)
    PROVE  IInv'
<1> DEFINE claims == [alg |-> "EdDSA", kid |-> kid, iss |-> KokuinDID, aud |-> "none", exp |-> exp,
                      body |-> body]
<1>1. kid \in Nat /\ exp \in Nat /\ body \in Nat
  BY TokensAssumption DEF IInv, Typed
<1>2. claims \in Claims
  BY <1>1, Blanks DEF Claims, Text
<1>3. held[i] \in [alg : SIGNATURE_ALGORITHMS, n : Nat]
  <2>1. i \in 1..Len(held) /\ i \in Nat
    <3>1. held \in Seq(Key)
      BY DEF IInv, Typed
    <3>2. QED
      BY <3>1
  <2>2. held[i] = [alg |-> "EdDSA", n |-> i]
    BY <2>1 DEF IInv, Typed
  <2>3. QED
    BY <2>1, <2>2 DEF SIGNATURE_ALGORITHMS
<1>4. signing' = signing \cup {[key |-> held[i], over |-> serialize(claims)]}
  BY DEF SignForDID
<1> HIDE DEF claims
<1>5. [key |-> held[i], over |-> serialize(claims)] \in Signature
  BY <1>2, <1>3, SerializeTyped DEF Signature
<1>6. signing' \subseteq Signature
  BY <1>4, <1>5 DEF IInv, Typed
<1>7. Typed'
  BY <1>6 DEF SignForDID, IInv, Typed, IdentityTyped
<1>8. QED
  BY <1>7, QuietKept DEF SignForDID

LEMMA SignedKeeps ==
    ASSUME IInv, NEW s \in signing, Signed(s) \/ SignFails(s)
    PROVE  IInv'
<1>1. CASE Signed(s)
  <2>1. s \in Signature /\ s.over \in Data
    <3>1. s \in Signature
      BY DEF IInv, Typed
    <3>2. QED
      BY <3>1, Blanks DEF Signature, NoSig
  <2>2. [data |-> s.over, sig |-> s] \in Token
    BY <2>1 DEF Token
  <2>3. wire' \subseteq Token /\ wire \subseteq wire' /\ signing' \subseteq Signature
    BY <1>1, <2>2 DEF Signed, IInv, Typed
  <2>4. Typed'
    BY <1>1, <2>3 DEF Signed, IInv, Typed, IdentityTyped
  <2>5. QED
    BY <1>1, <2>3, <2>4, QuietKept DEF Signed
<1>2. CASE SignFails(s)
  <2>1. Typed'
    BY <1>2 DEF SignFails, IInv, Typed, IdentityTyped
  <2>2. QED
    BY <1>2, <2>1, QuietKept DEF SignFails
<1>3. QED
  BY <1>1, <1>2

LEMMA TickKeeps ==
    ASSUME IInv, Tick
    PROVE  IInv'
<1>1. Typed'
  BY DEF Tick, IInv, Typed, IdentityTyped, signer
<1>2. QED
  BY <1>1, QuietKept DEF Tick, signer

-----------------------------------------------------------------------------
(* The issuer rotates its key under the calls that are running.            *)

LEMMA RotateRecord ==
    ASSUME Typed, NEW next \in Key, held' = Append(held, next), world' = world, wire' = wire,
           NEW r \in CallRecord, RecordOK(r),
           NEW n, n = IF r.pc \notin {"idle", "done"} THEN [r EXCEPT !.live = @ \cup {next}] ELSE r
    PROVE  /\ n \in CallRecord /\ RecordOK(n)'
           /\ n.pc = r.pc /\ n.sig = r.sig /\ n.key = r.key /\ n.data = r.data /\ n.opts = r.opts
           /\ n.slot = r.slot
<1>1. \A iss : Authorised(iss) \subseteq Authorised(iss)'
  <2>1. held \in Seq(Key)
    BY DEF Typed
  <2>2. \A i \in DOMAIN held : i \in DOMAIN held' /\ held'[i] = held[i]
    BY <2>1
  <2>3. QED
    BY <2>2 DEF Authorised
<1>2. Last(held)' = next
  <2>1. held \in Seq(Key)
    BY DEF Typed
  <2>2. Len(held') = Len(held) + 1 /\ held'[Len(held) + 1] = next
    BY <2>1
  <2>3. QED
    BY <2>2 DEF Last
<1>3. Carried(r.sig)' <=> Carried(r.sig)
  BY DEF Carried
<1>4. CASE r.pc \in {"idle", "done"}
  <2>1. n = r
    BY <1>4
  <2>2. AcceptedOK(r) => AcceptedOK(r)'
    BY <1>1 DEF AcceptedOK
  <2>3. GoodCall(r)' <=> GoodCall(r)
    BY DEF GoodCall, assertAudienceValid
  <2>4. RefusedOK(r) => RefusedOK(r)'
    BY DEF RefusedOK
  <2>5. RecordOK(r)'
    BY <1>4, <2>2, <2>3, <2>4 DEF RecordOK, Sound, KeyPcs
  <2>6. QED
    BY <2>1, <2>5
<1>5. CASE r.pc \notin {"idle", "done"}
  <2>1. /\ n \in CallRecord /\ n.pc = r.pc /\ n.sig = r.sig /\ n.key = r.key /\ n.data = r.data
        /\ n.opts = r.opts /\ n.slot = r.slot /\ n.doc = r.doc /\ n.ok = r.ok /\ n.out = r.out
        /\ n.live = r.live \cup {next}
    BY <1>5 DEF CallRecord
  <2>2. Last(held) \in r.live
    BY <1>5 DEF RecordOK
  <2>3. GoodCall(n) => GoodCall(r)
    <3>1. n.live = {r.sig.key} => r.live = {r.sig.key}
      BY <2>1, <2>2
    <3>2. QED
      BY <3>1, <2>1 DEF GoodCall
  <2>4. GoodCall(n)' <=> GoodCall(n)
    BY DEF GoodCall, assertAudienceValid
  <2>5. KeyOK(r) => KeyOK(n)'
    BY <1>1, <2>1, <2>3, <2>4 DEF KeyOK
  <2>6. RecordOK(n)'
    BY <1>2, <1>3, <1>5, <2>1, <2>5 DEF RecordOK, Sound, Checks
  <2>7. QED
    BY <2>1, <2>6
<1>6. QED
  BY <1>4, <1>5

LEMMA RotateKeeps ==
    ASSUME IInv, Rotate
    PROVE  IInv'
<1> DEFINE next == [alg |-> "EdDSA", n |-> Len(held) + 1]
<1>1. PICK h \in Seq(Key) : h = held
  BY DEF IInv, Typed
<1>2. next \in Key
  BY <1>1 DEF Key, Text
<1>3. held' = Append(held, next)
  BY DEF Rotate
<1>4. \A c \in Call : call'[c] = IF call[c].pc \notin {"idle", "done"}
                                 THEN [call[c] EXCEPT !.live = @ \cup {next}] ELSE call[c]
  BY DEF Rotate, Active
<1>5. UNCHANGED <<world, identity, sentTo, signing, signs, wire, now, moves, object, pending,
                  group, caches>>
  BY DEF Rotate
<1> HIDE DEF next
<1>6. ASSUME NEW c \in Call
      PROVE  /\ call'[c] \in CallRecord /\ RecordOK(call[c])'
             /\ call'[c].pc = call[c].pc /\ call'[c].sig = call[c].sig /\ call'[c].key = call[c].key
             /\ call'[c].data = call[c].data /\ call'[c].opts = call[c].opts
             /\ call'[c].slot = call[c].slot
             /\ call[c].pc = "done" => call'[c] = call[c]
  <2>1. PICK r \in CallRecord : r = call[c]
    BY DEF IInv, Typed
  <2>2. PICK n : n = call'[c]
    OBVIOUS
  <2>3. n = IF r.pc \notin {"idle", "done"} THEN [r EXCEPT !.live = @ \cup {next}] ELSE r
    BY <1>4, <2>1, <2>2
  <2>4. RecordOK(r) /\ Typed
    BY <2>1 DEF IInv
  <2>5. /\ n \in CallRecord /\ RecordOK(n)'
        /\ n.pc = r.pc /\ n.sig = r.sig /\ n.key = r.key /\ n.data = r.data /\ n.opts = r.opts
        /\ n.slot = r.slot
    BY <1>2, <1>3, <1>5, <2>3, <2>4, RotateRecord
  <2>6. QED
    BY <2>1, <2>2, <2>3, <2>5
<1>7. Typed'
  <2>1. h' = h /\ held' \in Seq(Key) /\ held' # <<>> /\ Len(held') = Len(held) + 1
        /\ \A i \in 1..Len(held) : held'[i] = held[i]
    BY <1>1, <1>2, <1>3
  <2>2. held'[Len(held) + 1] = next
    BY <1>1, <1>3
  <2>3. \A i \in 1..Len(held') : held'[i] = [alg |-> "EdDSA", n |-> i]
    <3>1. SUFFICES ASSUME NEW i \in 1..Len(held') PROVE held'[i] = [alg |-> "EdDSA", n |-> i]
      OBVIOUS
    <3>2. CASE i = Len(held) + 1
      BY <3>2, <2>2 DEF next
    <3>3. CASE i # Len(held) + 1
      <4>1. i \in 1..Len(held)
        BY <3>3, <2>1, <1>1
      <4>2. QED
        BY <4>1, <2>1 DEF IInv, Typed
    <3>4. QED
      BY <3>2, <3>3
  <2>4. call' \in [Call -> CallRecord]
    <3>1. call' = [c \in Call |-> call'[c]]
      BY DEF Rotate
    <3>2. QED
      BY <1>6, <3>1
  <2>5. QED
    BY <1>5, <2>1, <2>3, <2>4 DEF IInv, Typed, IdentityTyped
<1>8. \A iss : Authorised(iss) \subseteq Authorised(iss)'
  <2>1. \A i \in DOMAIN held : i \in DOMAIN held' /\ held'[i] = held[i]
    BY <1>1, <1>3
  <2>2. QED
    BY <2>1 DEF Authorised
<1>9. ASSUME NEW c \in Call
      PROVE  ObjectOK(object[c])' /\ ObjectWitnessed(object[c])' /\ CallWitnessed(call[c])'
  <2>1. PICK o : o = object[c]
    OBVIOUS
  <2>2. ObjectOK(o) /\ ObjectWitnessed(o)
    BY <2>1 DEF IInv
  <2>3. ObjectOK(o)'
    BY <1>5, <1>8, <2>2 DEF ObjectOK, Carried, Sound
  <2>4. ObjectWitnessed(o)'
    BY <1>6, <2>2, WitnessKept DEF ObjectWitnessed, Sound
  <2>5. PICK r : r = call'[c]
    OBVIOUS
  <2>6. r.pc = "done" => CallWitnessed(r)
    BY <1>6, <2>5 DEF IInv
  <2>7. CallWitnessed(r)'
    BY <1>6, <2>6, WitnessKept DEF CallWitnessed, Sound, capturePolicy
  <2>8. QED
    BY <1>5, <2>1, <2>3, <2>4, <2>5, <2>7
<1>10. GroupsOK'
  <2>1. GroupsOK
    BY DEF IInv
  <2>2. ASSUME NEW c \in Call, call'[c].pc = "waiting" PROVE PlaceOK(c, call[c])'
    <3>1. PICK n : n = call'[c]
      OBVIOUS
    <3>2. PlaceOK(c, call[c])
      BY <2>1, <2>2, <1>6 DEF GroupsOK
    <3>3. PlaceOK(c, n)'
      BY <3>1, <3>2, <1>5, <1>6 DEF PlaceOK, Checks
    <3>4. QED
      BY <3>1, <3>3
  <2>3. QED
    BY <2>1, <2>2, <1>5 DEF GroupsOK, Call, Provider
<1>11. DocsEarned'
  BY <1>5, <1>8 DEF IInv, DocsEarned, Earned, Sound, caches
<1>12. CachesTyped'
  BY <1>5 DEF IInv, CachesTyped, MemoOK, KeysApart, IsInjective, memoKey, MemoEntries, Bytes, caches
<1>13. MemoSound' /\ DecodedSound'
  BY <1>5 DEF IInv, MemoSound, DecodedSound, verifyMultihash, caches
<1>14. QED
  BY <1>6, <1>7, <1>9, <1>10, <1>11, <1>12, <1>13 DEF IInv, Call

-----------------------------------------------------------------------------
(* A call begins; the holder of an object writes to it.                    *)

LEMMA DecodedKeeps ==
    ASSUME CachesTyped, DecodedSound, NEW iss \in DID, ~decodeFails(iss),
           decoded' = rememberPeer4Decode(iss)
    PROVE  /\ decoded' \in Seq(DID) /\ IsInjective(decoded') /\ Len(decoded') <= PEER4_DECODE_MEMO_SIZE
           /\ DecodedSound'
<1>1. decoded \in Seq(DID) /\ IsInjective(decoded) /\ PEER4_DECODE_MEMO_SIZE \in Nat
  BY TokensAssumption DEF CachesTyped
<1>2. PICK s \in Seq(DID) :
         /\ s = Refreshed(decoded, iss)
         /\ \A j \in 1..Len(s) : s[j] = iss \/ \E i \in 1..Len(decoded) : s[j] = decoded[i]
         /\ IsInjective(decoded) => IsInjective(s)
  BY <1>1, RefreshedHolds
<1>3. IsInjective(s) /\ \A j \in 1..Len(s) : s[j] = iss \/ \E i \in 1..Len(decoded) : s[j] = decoded[i]
  BY <1>1, <1>2
<1>4. PICK t \in Seq(DID) : t = Newest(s, PEER4_DECODE_MEMO_SIZE)
  BY <1>1, NewestHolds
<1>5. /\ IsInjective(t) /\ Len(t) <= PEER4_DECODE_MEMO_SIZE
      /\ \A j \in 1..Len(t) : \E i \in 1..Len(s) : t[j] = s[i]
  BY <1>1, <1>3, <1>4, NewestHolds
<1>6. decoded' = t
  BY <1>2, <1>4 DEF rememberPeer4Decode
<1>7. verifyMultihash(iss)
  <2>1. Contains(decoded, iss) => verifyMultihash(iss)
    BY <1>1 DEF Contains, DecodedSound
  <2>2. QED
    BY <2>1 DEF decodeFails
<1>8. \A i \in 1..Len(decoded) : verifyMultihash(decoded[i])
  BY <1>1 DEF DecodedSound
<1>9. \A j \in 1..Len(t) : verifyMultihash(t[j])
  BY <1>3, <1>5, <1>7, <1>8
<1>10. DecodedSound'
  BY <1>6, <1>9 DEF DecodedSound, verifyMultihash
<1>11. QED
  BY <1>5, <1>6, <1>10

LEMMA DocsTouched ==
    ASSUME CachesTyped, DocsEarned, world' = world, held' = held, wire \subseteq wire',
           NEW doc \in Doc, Contains(docs, doc), docs' = Refreshed(docs, doc)
    PROVE  docs' \in Seq(Doc) /\ IsInjective(docs') /\ Len(docs') <= MaxDocs /\ DocsEarned'
<1>1. docs \in Seq(Doc) /\ IsInjective(docs) /\ Len(docs) <= MaxDocs /\ MaxDocs \in Nat
  BY TokensAssumption DEF CachesTyped
<1>2. PICK s \in Seq(Doc) :
         /\ s = Refreshed(docs, doc)
         /\ \A j \in 1..Len(s) : s[j] = doc \/ \E i \in 1..Len(docs) : s[j] = docs[i]
         /\ IsInjective(docs) => IsInjective(s)
         /\ Contains(docs, doc) => Len(s) <= Len(docs)
  BY <1>1, RefreshedHolds
<1>3. /\ IsInjective(s) /\ Len(s) <= Len(docs)
      /\ \A j \in 1..Len(s) : s[j] = doc \/ \E i \in 1..Len(docs) : s[j] = docs[i]
  BY <1>1, <1>2
<1>4. \A j \in 1..Len(s) : \E i \in 1..Len(docs) : s[j] = docs[i]
  <2>1. \E i \in 1..Len(docs) : docs[i] = doc
    BY <1>1 DEF Contains
  <2>2. QED
    BY <1>3, <2>1
<1>5. \A iss : Authorised(iss)' = Authorised(iss)
  BY DEF Authorised
<1>6. \A d : Earned(d) => Earned(d)'
  BY <1>5 DEF Earned
<1>7. (\A opts \in world.opts : Sound(opts)) => \A i \in 1..Len(docs) : Earned(docs[i])
  BY <1>1 DEF DocsEarned
<1>8. (\A opts \in world.opts : Sound(opts)) => \A j \in 1..Len(s) : Earned(s[j])
  BY <1>4, <1>7
<1>9. DocsEarned'
  BY <1>2, <1>6, <1>8 DEF DocsEarned, Sound
<1>10. Len(s) <= MaxDocs
  <2>1. Len(s) \in Nat /\ Len(docs) \in Nat
    BY <1>1
  <2>2. QED
    BY <2>1, <1>1, <1>3
<1>11. QED
  BY <1>2, <1>3, <1>9, <1>10

LEMMA VerifyKeeps ==
    ASSUME IInv, NEW c \in Call, MayCall(c), NEW p \in Presentations, NEW opts \in world.opts,
           VerifyToken(c, p[1], p[2], opts)
    PROVE  IInv'
<1> DEFINE begun == IF p[2] = "string" THEN verifyString(Begin(opts), p[1])
                    ELSE verifyObject(Begin(opts), p[1])
           iss == begun.data.claims.iss
           opened == begun.data # NoData /\ ~resolvesByMethod(begun)
<1>1. /\ call' = [call EXCEPT ![c] = begun]
      /\ decoded' = IF opened /\ isLong(iss) /\ ~decodeFails(iss) THEN rememberPeer4Decode(iss)
                    ELSE decoded
      /\ docs' = IF /\ opened /\ isPeer4(iss) /\ ~isLong(iss)
                    /\ opts.cache /\ Contains(docs, iss.hash)
                 THEN Refreshed(docs, iss.hash) ELSE docs
      /\ UNCHANGED <<world, signer, now, moves, object, pending, group, memo, totalBytes>>
  BY DEF VerifyToken, Begin
<1>2. p[1] \in Object /\ ObjectOK(p[1]) /\ ObjectWitnessed(p[1])
      /\ (p[2] = "string" => p[1].claims = p[1].data.claims)
  BY PresentedOK DEF IInv, Typed
<1>3. BeginsOK(begun)
  <2>1. Typed /\ decoded \in Seq(DID) /\ \A i \in DOMAIN decoded : verifyMultihash(decoded[i])
    BY DEF IInv, CachesTyped, DecodedSound
  <2>2. QED
    BY <1>2, <2>1, BegunOK
<1> HIDE DEF begun
<1>4. /\ begun \in CallRecord /\ RecordOK(begun) /\ CallWitnessed(begun) /\ begun.pc # "waiting"
      /\ call[c].pc = "idle"
  BY <1>3 DEF BeginsOK, MayCall
<1>5. iss \in DID /\ iss.hash \in Doc
  BY <1>4 DEF CallRecord, Data, Claims, DID
<1>6. Typed'
  BY <1>1, <1>4 DEF IInv, Typed, IdentityTyped, signer
<1>7. call'[c] = begun /\ \A d \in Call : d # c => call'[d] = call[d]
  BY <1>1 DEF IInv, Typed
<1>8. UNCHANGED <<world, held, wire, object, pending, group, memo, totalBytes>>
  BY <1>1 DEF signer
<1>9. (\A d \in Call : RecordOK(call[d]))'
  BY <1>4, <1>7, <1>8, RecordsKept
<1>10. \A d \in Call : call[d].pc = "done" => call'[d] = call[d]
  BY <1>4, <1>7
<1>11. (\A d \in Call : ObjectOK(object[d]) /\ ObjectWitnessed(object[d]))'
  BY <1>8, <1>10, ObjectsKept
<1>12. (\A d \in Call : CallWitnessed(call[d]))'
  BY <1>4, <1>7, <1>10, WitnessedKept
<1>13. GroupsOK'
  BY <1>4, <1>7, <1>8, GroupsKept
<1>14. decoded' \in Seq(DID) /\ IsInjective(decoded') /\ Len(decoded') <= PEER4_DECODE_MEMO_SIZE
       /\ DecodedSound'
  <2>1. CASE decoded' = decoded
    BY <2>1 DEF IInv, CachesTyped, DecodedSound, verifyMultihash
  <2>2. CASE decoded' # decoded
    <3>1. decoded' = rememberPeer4Decode(iss) /\ ~decodeFails(iss)
      BY <1>1, <2>2
    <3>2. QED
      BY <3>1, <1>5, DecodedKeeps DEF IInv
  <2>3. QED
    BY <2>1, <2>2
<1>15. docs' \in Seq(Doc) /\ IsInjective(docs') /\ Len(docs') <= MaxDocs /\ DocsEarned'
  <2>1. CASE docs' = docs
    <3>1. DocsEarned'
      BY <1>8, <2>1, DocsKept DEF IInv
    <3>2. QED
      BY <2>1, <3>1 DEF IInv, CachesTyped
  <2>2. CASE docs' # docs
    <3>1. docs' = Refreshed(docs, iss.hash) /\ Contains(docs, iss.hash)
      BY <1>1, <2>2
    <3>2. QED
      BY <3>1, <1>5, <1>8, DocsTouched DEF IInv
  <2>3. QED
    BY <2>1, <2>2
<1>16. memo' \in Seq(MemoEntries) /\ MemoOK(memo, totalBytes)' /\ MemoSound'
  BY <1>8 DEF IInv, CachesTyped, MemoOK, KeysApart, memoKey, MemoEntries, Bytes, MemoSound
<1>17. CachesTyped'
  BY <1>14, <1>15, <1>16 DEF CachesTyped, IsInjective
<1>18. QED
  BY <1>6, <1>9, <1>11, <1>12, <1>13, <1>14, <1>15, <1>16, <1>17 DEF IInv

LEMMA RewritesOK ==
    ASSUME wire \subseteq Token, NEW o \in Object, ObjectOK(o), ObjectWitnessed(o),
           NEW n \in Rewrites(o)
    PROVE  n \in Object /\ ObjectOK(n) /\ ObjectWitnessed(n)
<1>1. PICK claims \in Claims : claims = o.claims
  BY DEF Object
<1>2. PICK other : other = [claims EXCEPT !.body = IF @ = 1 THEN 2 ELSE 1]
  OBVIOUS
<1>3. other \in Claims
  BY <1>2 DEF Claims
<1>4. serialize(other) \in Data
  BY <1>3, SerializeTyped
<1>5. \/ n = [o EXCEPT !.claims = other]
      \/ n = [o EXCEPT !.claims = other, !.data = serialize(other)]
      \/ n = [o EXCEPT !.data = NoData]
      \/ \E t \in wire : n = [o EXCEPT !.sig = t.sig]
      \/ \E t \in wire : n = [o EXCEPT !.pub = t.sig.key]
  BY <1>1, <1>2 DEF Rewrites
<1>6. n \in Object /\ n.proof = o.proof /\ (n.sig = o.sig \/ \E t \in wire : n.sig = t.sig)
  <2>1. CASE n = [o EXCEPT !.claims = other]
    BY <1>3, <2>1 DEF Object
  <2>2. CASE n = [o EXCEPT !.claims = other, !.data = serialize(other)]
    BY <1>3, <1>4, <2>2 DEF Object
  <2>3. CASE n = [o EXCEPT !.data = NoData]
    BY <2>3, Blanks DEF Object
  <2>4. CASE \E t \in wire : n = [o EXCEPT !.sig = t.sig]
    <3>1. PICK t \in wire : n = [o EXCEPT !.sig = t.sig]
      BY <2>4
    <3>2. t.sig \in Signature
      BY DEF Token
    <3>3. QED
      BY <3>1, <3>2 DEF Object
  <2>5. CASE \E t \in wire : n = [o EXCEPT !.pub = t.sig.key]
    <3>1. PICK t \in wire : n = [o EXCEPT !.pub = t.sig.key]
      BY <2>5
    <3>2. t.sig.key \in Key
      BY SigKeyTyped DEF Token
    <3>3. QED
      BY <3>1, <3>2 DEF Object
  <2>6. QED
    BY <1>5, <2>1, <2>2, <2>3, <2>4, <2>5
<1>7. QED
  BY <1>6 DEF ObjectOK, ObjectWitnessed, Carried

LEMMA MutateKeeps ==
    ASSUME IInv, NEW c \in Call, NEW o \in Rewrites(object[c]), Mutate(c, o)
    PROVE  IInv'
<1>1. object[c] \in Object /\ ObjectOK(object[c]) /\ ObjectWitnessed(object[c])
      /\ wire \subseteq Token
  BY DEF IInv, Typed
<1>2. o \in Object /\ ObjectOK(o) /\ ObjectWitnessed(o)
  BY <1>1, RewritesOK
<1>3. /\ object' = [object EXCEPT ![c] = o]
      /\ UNCHANGED <<world, signer, now, call, pending, group, caches>>
  BY DEF Mutate
<1>4. UNCHANGED <<world, held, wire, call, pending, group, caches>>
  BY <1>3 DEF signer
<1>5. Typed'
  BY <1>2, <1>3 DEF IInv, Typed, IdentityTyped, signer
<1>6. ASSUME NEW d \in Call PROVE ObjectOK(object[d])' /\ ObjectWitnessed(object[d])'
  <2>1. PICK n : n = object'[d]
    OBVIOUS
  <2>2. ObjectOK(n) /\ ObjectWitnessed(n)
    BY <1>2, <1>3, <2>1 DEF IInv, Typed
  <2>3. ObjectOK(n)'
    BY <1>4, <2>2 DEF ObjectOK, Carried, Sound, Authorised
  <2>4. ObjectWitnessed(n)'
    BY <1>4, <2>2, WitnessKept DEF ObjectWitnessed, Sound
  <2>5. QED
    BY <2>1, <2>3, <2>4
<1>7. (\A d \in Call : RecordOK(call[d]))'
  BY <1>4, RecordsKept
<1>8. (\A d \in Call : CallWitnessed(call[d]))'
  BY <1>4, WitnessedKept
<1>9. GroupsOK'
  BY <1>4, GroupsKept
<1>10. CachesTyped' /\ MemoSound' /\ DecodedSound' /\ DocsEarned'
  BY <1>4, CachesKept
<1>11. QED
  BY <1>5, <1>6, <1>7, <1>8, <1>9, <1>10 DEF IInv, Call
-----------------------------------------------------------------------------
(* A call goes on, in a record that is all right.                          *)

LEMMA CallMoves ==
    ASSUME IInv, NEW c \in Call, call[c].pc \notin {"idle", "done"},
           NEW n \in CallRecord, RecordOK(n), n.pc = "done" => n.out # "accepted",
           call' = [call EXCEPT ![c] = n], UNCHANGED <<world, signer, object>>
    PROVE  /\ call' \in [Call -> CallRecord] /\ call'[c] = n
           /\ \A d \in Call : d # c => call'[d] = call[d]
           /\ (\A d \in Call : RecordOK(call[d]))'
           /\ (\A d \in Call : ObjectOK(object[d]) /\ ObjectWitnessed(object[d]))'
           /\ (\A d \in Call : CallWitnessed(call[d]))'
<1>1. call' \in [Call -> CallRecord] /\ call'[c] = n /\ \A d \in Call : d # c => call'[d] = call[d]
  BY DEF IInv, Typed
<1>2. UNCHANGED <<world, held, wire, object>>
  BY DEF signer
<1>3. (\A d \in Call : RecordOK(call[d]))'
  BY <1>1, <1>2, RecordsKept
<1>4. \A d \in Call : call[d].pc = "done" => call'[d] = call[d]
  BY <1>1
<1>5. (\A d \in Call : ObjectOK(object[d]) /\ ObjectWitnessed(object[d]))'
  BY <1>2, <1>4, ObjectsKept
<1>6. CallWitnessed(n)
  BY DEF CallWitnessed
<1>7. (\A d \in Call : CallWitnessed(call[d]))'
  BY <1>1, <1>4, <1>6, WitnessedKept
<1>8. QED
  BY <1>1, <1>3, <1>5, <1>7

(* The rest of what is typed does not change when a call goes on.          *)
LEMMA StillTyped ==
    ASSUME Typed, call' \in [Call -> CallRecord], UNCHANGED <<world, signer, now, object>>,
           pending' \in [Provider -> Nat], group' \in Seq(GroupRecord)
    PROVE  Typed'
BY DEF Typed, IdentityTyped, signer

LEMMA AnswerKeeps ==
    ASSUME IInv, NEW c \in Call, call[c].pc \notin {"idle", "done"},
           NEW n \in CallRecord, RecordOK(n), n.pc = "done" => n.out # "accepted",
           n.pc # "waiting", Resolved(c, n)
    PROVE  IInv'
<1>1. /\ call' = [call EXCEPT ![c] = n]
      /\ UNCHANGED <<world, signer, now, object, pending, group, caches>>
      /\ UNCHANGED <<world, held, wire, object, pending, group>>
  BY DEF Resolved, signer
<1>2. /\ call' \in [Call -> CallRecord] /\ call'[c] = n
      /\ \A d \in Call : d # c => call'[d] = call[d]
      /\ (\A d \in Call : RecordOK(call[d]))'
      /\ (\A d \in Call : ObjectOK(object[d]) /\ ObjectWitnessed(object[d]))'
      /\ (\A d \in Call : CallWitnessed(call[d]))'
  BY <1>1, CallMoves
<1>3. Typed'
  BY <1>1, <1>2, StillTyped DEF IInv, Typed
<1>4. GroupsOK'
  BY <1>1, <1>2, GroupsKept
<1>5. CachesTyped' /\ MemoSound' /\ DecodedSound' /\ DocsEarned'
  BY <1>1, CachesKept
<1>6. QED
  BY <1>2, <1>3, <1>4, <1>5 DEF IInv

-----------------------------------------------------------------------------
(* The answers of resolvers.                                               *)

LEMMA ResolverAnswersKeeps ==
    ASSUME IInv, NEW c \in Call, NEW doc, ResolverAnswers(c, doc)
    PROVE  IInv'
<1>1. PICK r \in CallRecord : r = call[c]
  BY DEF IInv, Typed
<1>2. /\ r.pc = "resolver" /\ r.opts \in world.opts /\ Last(held) \in r.live
      /\ r.data # NoData /\ Carried(r.sig) /\ isPeer4(r.data.claims.iss) /\ ~isLong(r.data.claims.iss)
  BY <1>1 DEF ResolverAnswers, At, IInv, RecordOK
<1> DEFINE claims == r.data.claims
<1>3. CASE claims.iss.hash # doc
  <2>1. Resolved(c, Ends(r, "unresolvable"))
    BY <1>1, <1>3 DEF ResolverAnswers
  <2>2. /\ Ends(r, "unresolvable") \in CallRecord /\ RecordOK(Ends(r, "unresolvable"))
        /\ Ends(r, "unresolvable").pc = "done" /\ Ends(r, "unresolvable").out = "unresolvable"
    BY <1>2, EndsOK
  <2>3. QED
    BY <1>1, <1>2, <2>1, <2>2, AnswerKeeps
<1>4. CASE claims.iss.hash = doc
  <2>1. PICK n : n = WithKey(r, resolveKidOrAuth(claims.iss.hash, claims.kid), claims.iss.hash)
    OBVIOUS
  <2>2. Resolved(c, n)
    BY <1>1, <1>4, <2>1 DEF ResolverAnswers
  <2>3. n \in CallRecord /\ RecordOK(n) /\ n.pc \in {"done", "resolved"} /\ (n.pc = "done" => n.out = "bad")
    BY <1>2, <2>1, PeerKeyOK
  <2>4. QED
    BY <1>1, <1>2, <2>2, <2>3, AnswerKeeps
<1>5. QED
  BY <1>3, <1>4

LEMMA ResolverFailsKeeps ==
    ASSUME IInv, NEW c \in Call, ResolverFails(c)
    PROVE  IInv'
<1>1. PICK r \in CallRecord : r = call[c]
  BY DEF IInv, Typed
<1>2. /\ r.pc = "resolver" /\ r.opts \in world.opts
      /\ isPeer4(r.data.claims.iss) /\ ~isLong(r.data.claims.iss)
      /\ Resolved(c, Ends(r, "unresolvable"))
  BY <1>1 DEF ResolverFails, At, IInv, RecordOK
<1>3. /\ Ends(r, "unresolvable") \in CallRecord /\ RecordOK(Ends(r, "unresolvable"))
      /\ Ends(r, "unresolvable").pc = "done" /\ Ends(r, "unresolvable").out = "unresolvable"
  BY <1>2, EndsOK
<1>4. QED
  BY <1>1, <1>2, <1>3, AnswerKeeps

(* The method resolver tells a key of the issuer's, the current one unless *)
(* history is asked for.                                                   *)
LEMMA MethodAnswersKeeps ==
    ASSUME IInv, NEW c \in Call, MethodAnswers(c)
    PROVE  IInv'
<1>1. PICK r \in CallRecord : r = call[c]
  BY DEF IInv, Typed
<1>2. /\ r.pc = "method" /\ r.opts \in world.opts /\ Last(held) \in r.live
      /\ r.data # NoData /\ Carried(r.sig) /\ r.data.claims.iss.method = "kokuin"
  BY <1>1 DEF MethodAnswers, At, IInv, RecordOK
<1> DEFINE kid == r.data.claims.kid
           iss == r.data.claims.iss
           key == IF kid = NoKid THEN Last(held)
                  ELSE IF kid \in DOMAIN held /\ (r.opts.historic \/ kid = Len(held))
                  THEN held[kid] ELSE NoKey
<1>3. PICK h \in Seq(Key) : h = held /\ h # <<>> /\ \A i \in 1..Len(h) : h[i] = [alg |-> "EdDSA", n |-> i]
  BY DEF IInv, Typed
<1>4. Len(h) \in 1..Len(h) /\ Last(h) = h[Len(h)] /\ DOMAIN h = 1..Len(h)
  BY <1>3 DEF Last
<1>5. \A i \in 1..Len(h) : h[i] \in Key /\ h[i] # NoKey /\ h[i].n = i
  <2>1. \A i \in 1..Len(h) : h[i] \in Key
    OBVIOUS
  <2>2. \A i \in 1..Len(h) : h[i].n = i /\ h[i].n # 0
    <3>1. SUFFICES ASSUME NEW i \in 1..Len(h) PROVE h[i].n = i /\ h[i].n # 0
      OBVIOUS
    <3>2. h[i] = [alg |-> "EdDSA", n |-> i]
      BY <1>3
    <3>3. h[i].n = i
      BY <3>2
    <3>4. i # 0
      OBVIOUS
    <3>5. QED
      BY <3>3, <3>4
  <2>3. NoKey.n = 0
    BY DEF NoKey
  <2>4. QED
    BY <2>1, <2>2, <2>3
<1>6. key \in Key
  BY <1>3, <1>4, <1>5, Blanks
<1>7. key # NoKey => key \in Authorised(iss)
  BY <1>2, <1>3, <1>4, <1>5 DEF Authorised
<1>8. key # NoKey /\ ~r.opts.historic => key = Last(held)
  BY <1>3, <1>4
<1>9. GoodCall(r) => key # NoKey /\ key = r.sig.key
  <2>1. SUFFICES ASSUME GoodCall(r) PROVE key # NoKey /\ key = r.sig.key
    OBVIOUS
  <2>2. r.live = {r.sig.key} /\ (kid = NoKid \/ kid = r.sig.key.n)
    BY <1>2, <2>1 DEF GoodCall, isPeer4
  <2>3. r.sig.key = h[Len(h)]
    BY <1>2, <1>3, <1>4, <2>2
  <2>4. CASE kid = NoKid
    BY <1>3, <1>4, <1>5, <2>3, <2>4
  <2>5. CASE kid # NoKid
    <3>1. kid = Len(h)
      BY <1>4, <1>5, <2>2, <2>3, <2>5
    <3>2. QED
      BY <1>3, <1>4, <1>5, <2>3, <2>5, <3>1
  <2>6. QED
    BY <2>4, <2>5
<1>10. Resolved(c, WithKey(r, key, NoDoc))
  BY <1>1 DEF MethodAnswers
<1> HIDE DEF key
<1>11. /\ WithKey(r, key, NoDoc) \in CallRecord /\ RecordOK(WithKey(r, key, NoDoc))
       /\ WithKey(r, key, NoDoc).pc \in {"done", "resolved"}
       /\ WithKey(r, key, NoDoc).pc = "done" => WithKey(r, key, NoDoc).out = "bad"
  BY <1>2, <1>6, <1>7, <1>8, <1>9, Blanks, WithKeyOK
<1>12. QED
  BY <1>1, <1>2, <1>10, <1>11, AnswerKeeps

LEMMA MethodFailsKeeps ==
    ASSUME IInv, NEW c \in Call, MethodFails(c)
    PROVE  IInv'
<1>1. PICK r \in CallRecord : r = call[c]
  BY DEF IInv, Typed
<1>2. /\ r.pc = "method" /\ r.opts \in world.opts /\ r.data.claims.iss.method = "kokuin"
      /\ Resolved(c, Ends(r, "unresolvable"))
  BY <1>1 DEF MethodFails, At, IInv, RecordOK
<1>3. /\ Ends(r, "unresolvable") \in CallRecord /\ RecordOK(Ends(r, "unresolvable"))
      /\ Ends(r, "unresolvable").pc = "done" /\ Ends(r, "unresolvable").out = "unresolvable"
  BY <1>2, EndsOK
<1>4. QED
  BY <1>1, <1>2, <1>3, AnswerKeeps

-----------------------------------------------------------------------------
(* The answers of verifiers.                                               *)

LEMMA AskCustomKeeps ==
    ASSUME IInv, NEW c \in Call, AskCustom(c)
    PROVE  IInv'
<1>1. PICK r \in CallRecord : r = call[c]
  BY DEF IInv, Typed
<1>2. r.pc = "resolved" /\ r.opts.verifier # "default" /\ RecordOK(r)
  BY <1>1 DEF AskCustom, At, IInv
<1>3. PICK n : n = [r EXCEPT !.pc = "custom"]
  OBVIOUS
<1>4. Resolved(c, n)
  BY <1>1, <1>3 DEF AskCustom
<1>5. /\ n \in CallRecord /\ n.pc = "custom" /\ n.data = r.data /\ n.sig = r.sig /\ n.opts = r.opts
      /\ n.live = r.live /\ n.key = r.key /\ n.doc = r.doc
  BY <1>3 DEF CallRecord, PCs, KeyPcs
<1>6. KeyOK(n) <=> KeyOK(r)
  BY <1>5, GoodOf DEF KeyOK
<1>7. RecordOK(n)
  BY <1>2, <1>5, <1>6 DEF RecordOK, KeyPcs
<1>8. QED
  BY <1>1, <1>2, <1>4, <1>5, <1>7, AnswerKeeps

(* A verdict of the provider's kind, on what the call asked about.         *)
LEMMA VerdictOK ==
    ASSUME NEW r \in CallRecord, RecordOK(r), r.pc \in KeyPcs, NEW ok \in BOOLEAN,
           Sound(r.opts) => (ok <=> Checks(r))
    PROVE  LET n == [r EXCEPT !.pc = "checked", !.ok = ok]
           IN  n \in CallRecord /\ RecordOK(n) /\ n.pc = "checked"
<1>1. PICK n : n = [r EXCEPT !.pc = "checked", !.ok = ok]
  OBVIOUS
<1>2. /\ n \in CallRecord /\ n.pc = "checked" /\ n.data = r.data /\ n.sig = r.sig /\ n.opts = r.opts
      /\ n.live = r.live /\ n.key = r.key /\ n.doc = r.doc /\ n.ok = ok
  BY <1>1 DEF CallRecord, PCs, KeyPcs
<1>3. KeyOK(n) <=> KeyOK(r)
  BY <1>2, GoodOf DEF KeyOK
<1>4. RecordOK(n)
  BY <1>2, <1>3 DEF RecordOK, KeyPcs, Checks
<1>5. QED
  BY <1>1, <1>2, <1>4

LEMMA CustomAnswersKeeps ==
    ASSUME IInv, NEW c \in Call, NEW ok \in BOOLEAN, CustomAnswers(c, ok)
    PROVE  IInv'
<1>1. PICK r \in CallRecord : r = call[c]
  BY DEF IInv, Typed
<1>2. r.pc = "custom" /\ RecordOK(r) /\ ~Sound(r.opts)
  BY <1>1 DEF CustomAnswers, At, IInv, RecordOK, Sound
<1>3. PICK n : n = [r EXCEPT !.pc = "checked", !.ok = ok]
  OBVIOUS
<1>4. n \in CallRecord /\ RecordOK(n) /\ n.pc = "checked"
  BY <1>2, <1>3, VerdictOK DEF KeyPcs
<1>5. Resolved(c, n)
  BY <1>1, <1>3 DEF CustomAnswers, Verdict, Resolved
<1>6. QED
  BY <1>1, <1>2, <1>4, <1>5, AnswerKeeps

-----------------------------------------------------------------------------
(* The memo answers, or learns.                                            *)

(* A step that only gives a call its verdict and touches the memo.         *)
LEMMA MemoStepKeeps ==
    ASSUME IInv, NEW c \in Call, NEW r \in CallRecord, r = call[c], r.pc \in KeyPcs,
           NEW ok \in BOOLEAN, Verdict(c, ok), Sound(r.opts) => (ok <=> Checks(r)),
           UNCHANGED <<world, signer, now, object, pending, group, decoded, docs>>,
           MemoOK(memo', totalBytes'), MemoSound'
    PROVE  IInv'
<1>1. RecordOK(r) /\ r.pc \notin {"idle", "done"}
  BY DEF IInv, KeyPcs
<1>2. PICK n : n = [r EXCEPT !.pc = "checked", !.ok = ok]
  OBVIOUS
<1>3. n \in CallRecord /\ RecordOK(n) /\ n.pc = "checked"
  BY <1>1, <1>2, VerdictOK
<1>4. /\ call' = [call EXCEPT ![c] = n]
      /\ UNCHANGED <<world, held, wire, object, pending, group, decoded, docs>>
  BY <1>2 DEF Verdict, signer
<1>5. /\ call' \in [Call -> CallRecord] /\ call'[c] = n
      /\ \A d \in Call : d # c => call'[d] = call[d]
      /\ (\A d \in Call : RecordOK(call[d]))'
      /\ (\A d \in Call : ObjectOK(object[d]) /\ ObjectWitnessed(object[d]))'
      /\ (\A d \in Call : CallWitnessed(call[d]))'
  BY <1>1, <1>3, <1>4, CallMoves
<1>6. Typed'
  BY <1>5, StillTyped DEF IInv, Typed
<1>7. GroupsOK'
  BY <1>3, <1>4, <1>5, GroupsKept
<1>8. MemoOK(memo, totalBytes)' /\ memo' \in Seq(MemoEntries)
  BY DEF MemoOK, KeysApart, memoKey, MemoEntries, Bytes
<1>9. CachesTyped'
  BY <1>4, <1>8 DEF IInv, CachesTyped, IsInjective
<1>10. DocsEarned'
  BY <1>4, DocsKept DEF IInv
<1>11. DecodedSound'
  BY <1>4 DEF IInv, DecodedSound, verifyMultihash
<1>12. QED
  BY <1>5, <1>6, <1>7, <1>9, <1>10, <1>11 DEF IInv

LEMMA EntryTyped ==
    ASSUME Typed, NEW c \in Call, call[c] \in CallRecord, call[c].opts \in world.opts
    PROVE  /\ MemoEntry(c) \in MemoEntries
           /\ MemoEntry(c).scope = call[c].opts.crypto /\ MemoEntry(c).key = call[c].key
           /\ MemoEntry(c).sig = call[c].sig /\ MemoEntry(c).message = call[c].data
<1>1. call[c].opts \in Options
  BY TokensAssumption DEF Typed
<1>2. call[c].opts.crypto \in Provider
  BY <1>1 DEF Options
<1>3. call[c].key \in Key /\ call[c].sig \in Signature /\ call[c].data \in Data
  BY DEF CallRecord
<1>4. call[c].key.alg \in Text
  BY <1>3 DEF Key
<1>5. QED
  BY <1>2, <1>3, <1>4 DEF MemoEntry, MemoEntries

LEMMA AskMemoKeeps ==
    ASSUME IInv, NEW c \in Call, AskMemo(c)
    PROVE  IInv'
<1>1. PICK r \in CallRecord : r = call[c]
  BY DEF IInv, Typed
<1>2. /\ r.pc = "resolved" /\ r.opts \in world.opts /\ Contains(memo, MemoEntry(c))
      /\ memo' = Refreshed(memo, MemoEntry(c)) /\ Verdict(c, TRUE)
      /\ UNCHANGED <<world, signer, now, object, pending, group, totalBytes, decoded, docs>>
  BY <1>1 DEF AskMemo, At, Known, IInv, RecordOK
<1>3. PICK e \in MemoEntries :
         /\ e = MemoEntry(c) /\ e.scope = r.opts.crypto /\ e.key = r.key
         /\ e.sig = r.sig /\ e.message = r.data
  BY <1>1, <1>2, EntryTyped DEF IInv
<1>4. memo \in Seq(MemoEntries) /\ MemoOK(memo, totalBytes) /\ MemoSound
  BY DEF IInv, CachesTyped
<1>5. Contains(memo, e) /\ memo' = Refreshed(memo, e) /\ totalBytes' = totalBytes
  BY <1>2, <1>3
<1>6. MemoOK(memo', totalBytes')
  <2>1. MemoOK(Refreshed(memo, e), totalBytes)
    BY <1>4, <1>5, MemoRefreshed
  <2>2. QED
    BY <1>5, <2>1
<1>7. PICK m \in Seq(MemoEntries) :
         /\ m = Refreshed(memo, e)
         /\ \A j \in 1..Len(m) : m[j] = e \/ \E i \in 1..Len(memo) : m[j] = memo[i]
  BY <1>4, RefreshedHolds
<1>8. PICK k \in 1..Len(memo) : memo[k] = e
  BY <1>4, <1>5 DEF Contains
<1>9. \A i \in 1..Len(memo) : memo[i].scope = "noble" =>
         memo[i].sig.key = memo[i].key /\ memo[i].sig.over = memo[i].message
  BY <1>4 DEF MemoSound
<1>10. \A j \in 1..Len(m) : m[j].scope = "noble" => m[j].sig.key = m[j].key /\ m[j].sig.over = m[j].message
  BY <1>7, <1>8, <1>9
<1>11. MemoSound'
  BY <1>5, <1>7, <1>10 DEF MemoSound
<1>12. Sound(r.opts) => Checks(r)
  BY <1>3, <1>8, <1>9 DEF Sound, Checks
<1>13. QED
  BY <1>1, <1>2, <1>6, <1>11, <1>12, MemoStepKeeps DEF KeyPcs

LEMMA LearnKeeps ==
    ASSUME IInv, NEW c \in Call, Learn(c)
    PROVE  IInv'
<1>1. PICK r \in CallRecord : r = call[c]
  BY DEF IInv, Typed
<1> DEFINE g == group[r.slot[1]]
           i == r.slot[2]
           ok == i \in DOMAIN g.results /\ g.results[i]
<1>2. /\ r.pc = "waiting" /\ r.opts \in world.opts /\ g.state = "answered" /\ Verdict(c, ok)
      /\ IF ok /\ cacheable(c) THEN remember(MemoEntry(c)) ELSE UNCHANGED <<memo, totalBytes>>
      /\ UNCHANGED <<world, signer, now, object, pending, group, decoded, docs>>
  BY <1>1 DEF Learn, At, IInv, RecordOK
<1>3. PlaceOK(c, r)
  BY <1>1, <1>2 DEF IInv, GroupsOK
<1>4. g.crypto = r.opts.crypto /\ (r.opts.crypto = "noble" => (ok <=> Checks(r)))
  BY <1>2, <1>3 DEF PlaceOK
<1> HIDE DEF ok, g, i
<1>5. ok \in BOOLEAN
  BY DEF ok
<1>6. PICK e \in MemoEntries :
         /\ e = MemoEntry(c) /\ e.scope = r.opts.crypto /\ e.key = r.key
         /\ e.sig = r.sig /\ e.message = r.data
  BY <1>1, <1>2, EntryTyped DEF IInv
<1>7. memo \in Seq(MemoEntries) /\ MemoOK(memo, totalBytes) /\ MemoSound
  BY DEF IInv, CachesTyped
<1>8. MemoOK(memo', totalBytes') /\ MemoSound'
  <2>1. CASE ok /\ cacheable(c)
    <3>1. remember(e)
      BY <1>2, <1>6, <2>1
    <3>2. /\ MemoOK(memo', totalBytes')
          /\ \A j \in 1..Len(memo') : memo'[j] = e \/ \E k \in 1..Len(memo) : memo'[j] = memo[k]
      BY <1>7, <3>1, MemoRemembers
    <3>3. \A k \in 1..Len(memo) : memo[k].scope = "noble" =>
             memo[k].sig.key = memo[k].key /\ memo[k].sig.over = memo[k].message
      BY <1>7 DEF MemoSound
    <3>4. e.scope = "noble" => e.sig.key = e.key /\ e.sig.over = e.message
      BY <1>4, <1>6, <2>1 DEF Checks
    <3>5. memo' \in Seq(MemoEntries)
      BY <3>2 DEF MemoOK
    <3>6. PICK m \in Seq(MemoEntries) : m = memo'
      BY <3>5
    <3>7. \A j \in 1..Len(m) : m[j].scope = "noble" => m[j].sig.key = m[j].key /\ m[j].sig.over = m[j].message
      BY <3>2, <3>3, <3>4, <3>6
    <3>8. QED
      BY <3>2, <3>6, <3>7 DEF MemoSound
  <2>2. CASE ~(ok /\ cacheable(c))
    <3>1. memo' = memo /\ totalBytes' = totalBytes
      BY <1>2, <2>2
    <3>2. QED
      BY <1>7, <3>1 DEF MemoSound
  <2>3. QED
    BY <2>1, <2>2
<1>9. Sound(r.opts) => (ok <=> Checks(r))
  BY <1>4 DEF Sound
<1>10. QED
  BY <1>1, <1>2, <1>5, <1>8, <1>9, MemoStepKeeps DEF KeyPcs

-----------------------------------------------------------------------------
(* The groups of the provider.                                             *)

(* A call that takes a place at the end of its provider's open group.      *)
LEMMA EnqueueKeeps ==
    ASSUME IInv, NEW c \in Call, Enqueue(c)
    PROVE  IInv'
<1>1. PICK r \in CallRecord : r = call[c]
  BY DEF IInv, Typed
<1> DEFINE p == r.opts.crypto
           fresh == pending[p] = 0
           g == IF fresh THEN Len(group) + 1 ELSE pending[p]
           items == IF fresh THEN <<c>> ELSE Append(group[g].items, c)
           grown == [crypto |-> p, state |-> "open", items |-> items, results |-> <<>>]
<1>2. /\ r.pc = "resolved" /\ r.opts \in world.opts /\ RecordOK(r) /\ GroupsOK /\ Typed
      /\ group \in Seq(GroupRecord) /\ pending \in [Provider -> Nat]
  BY <1>1 DEF Enqueue, At, IInv, RecordOK, Typed
<1>3. /\ group' = IF fresh THEN Append(group, grown) ELSE [group EXCEPT ![g].items = items]
      /\ pending' = [pending EXCEPT ![p] = g]
      /\ call' = [call EXCEPT ![c].pc = "waiting", ![c].slot = <<g, Len(items)>>]
      /\ UNCHANGED <<world, signer, now, object, caches>>
  BY <1>1 DEF Enqueue
<1>4. p \in Provider
  <2>1. r.opts \in Options
    BY <1>2, TokensAssumption DEF Typed
  <2>2. QED
    BY <2>1 DEF Options
<1>5. ~fresh => g \in DOMAIN group /\ group[g].state = "open" /\ group[g].crypto = p
  BY <1>2, <1>4 DEF GroupsOK
<1>6. /\ items \in Seq(Call) /\ Len(items) \in DOMAIN items /\ items[Len(items)] = c
      /\ ~fresh => \A j \in DOMAIN group[g].items : j \in DOMAIN items /\ items[j] = group[g].items[j]
  <2>1. CASE fresh
    BY <2>1
  <2>2. CASE ~fresh
    <3>1. group[g] \in GroupRecord
      BY <1>2, <1>5, <2>2
    <3>2. PICK old \in Seq(Call) : old = group[g].items
      BY <3>1 DEF GroupRecord
    <3>3. items = Append(old, c)
      BY <2>2, <3>2
    <3> HIDE DEF items, g, fresh
    <3>4. items \in Seq(Call) /\ Len(items) = Len(old) + 1 /\ items[Len(old) + 1] = c
          /\ \A j \in 1..Len(old) : items[j] = old[j]
      BY <3>3
    <3>5. DOMAIN items = 1..Len(items) /\ DOMAIN old = 1..Len(old) /\ Len(old) \in Nat
      BY <3>4
    <3>6. Len(items) \in DOMAIN items /\ items[Len(items)] = c
      BY <3>4, <3>5
    <3>7. \A j \in DOMAIN old : j \in DOMAIN items /\ items[j] = old[j]
      BY <3>4, <3>5
    <3>8. QED
      BY <3>2, <3>4, <3>6, <3>7
  <2>3. QED
    BY <2>1, <2>2
<1>7. g \in Nat /\ Len(items) \in Nat
  <2>1. Len(group) \in Nat /\ pending[p] \in Nat
    BY <1>2, <1>4
  <2>2. g \in Nat
    BY <2>1
  <2>3. Len(items) \in Nat
    <3> HIDE DEF items
    <3>1. QED
      BY <1>6
  <2>4. QED
    BY <2>2, <2>3
<1> HIDE DEF items
<1>8. grown \in GroupRecord
  BY <1>4, <1>6 DEF GroupRecord, GroupStates
<1>9. /\ group' \in Seq(GroupRecord) /\ g \in DOMAIN group' /\ DOMAIN group \subseteq DOMAIN group'
      /\ \A h \in DOMAIN group : h # g => group'[h] = group[h]
      /\ group'[g].items = items /\ group'[g].state = "open" /\ group'[g].crypto = p
      /\ g \in DOMAIN group => ~fresh
  <2>1. CASE fresh
    <3>1. group' = Append(group, grown)
      BY <1>3, <2>1
    <3>2. g = Len(group) + 1
      BY <2>1
    <3> HIDE DEF grown, g, fresh
    <3>3. /\ group' \in Seq(GroupRecord) /\ Len(group') = Len(group) + 1 /\ group'[g] = grown
          /\ \A h \in 1..Len(group) : group'[h] = group[h]
      BY <1>2, <1>8, <3>1, <3>2
    <3>4. DOMAIN group = 1..Len(group) /\ DOMAIN group' = 1..(Len(group) + 1) /\ Len(group) \in Nat
      BY <1>2, <3>3
    <3>5. g \in DOMAIN group' /\ g \notin DOMAIN group /\ DOMAIN group \subseteq DOMAIN group'
      BY <3>2, <3>4
    <3>6. QED
      BY <3>3, <3>4, <3>5 DEF grown
  <2>2. CASE ~fresh
    <3>1. PICK new : new = [group[g] EXCEPT !.items = items]
      OBVIOUS
    <3>2. group[g] \in GroupRecord
      BY <1>2, <1>5, <2>2
    <3>3. new \in GroupRecord /\ new.items = items /\ new.state = "open" /\ new.crypto = p
      BY <1>5, <1>6, <2>2, <3>1, <3>2 DEF GroupRecord
    <3>4. group' = [group EXCEPT ![g] = new]
      BY <1>3, <2>2, <3>1
    <3> HIDE DEF g, fresh, grown
    <3>5. group' \in Seq(GroupRecord) /\ DOMAIN group' = DOMAIN group /\ group'[g] = new
          /\ \A h \in DOMAIN group : h # g => group'[h] = group[h]
      BY <1>2, <1>5, <2>2, <3>3, <3>4
    <3>6. QED
      BY <1>5, <2>2, <3>3, <3>5
  <2>3. QED
    BY <2>1, <2>2
<1> HIDE DEF g, fresh, grown
<1>10. PICK slot \in Nat \X Nat : slot = <<g, Len(items)>>
  BY <1>7
<1>11. slot[1] = g /\ slot[2] = Len(items)
  BY <1>10
<1>12. PICK n : n = [r EXCEPT !.pc = "waiting", !.slot = slot]
  OBVIOUS
<1>13. /\ n \in CallRecord /\ n.pc = "waiting" /\ n.data = r.data /\ n.sig = r.sig /\ n.opts = r.opts
       /\ n.live = r.live /\ n.key = r.key /\ n.doc = r.doc /\ n.slot = slot
  BY <1>12 DEF CallRecord, PCs, KeyPcs
<1>14. KeyOK(n) <=> KeyOK(r)
  BY <1>13, GoodOf DEF KeyOK
<1>15. RecordOK(n)
  BY <1>2, <1>13, <1>14 DEF RecordOK, KeyPcs
<1>16. call' = [call EXCEPT ![c] = n]
  BY <1>1, <1>3, <1>10, <1>12
<1>17. /\ call' \in [Call -> CallRecord] /\ call'[c] = n
       /\ \A d \in Call : d # c => call'[d] = call[d]
       /\ (\A d \in Call : RecordOK(call[d]))'
       /\ (\A d \in Call : ObjectOK(object[d]) /\ ObjectWitnessed(object[d]))'
       /\ (\A d \in Call : CallWitnessed(call[d]))'
  BY <1>1, <1>2, <1>3, <1>13, <1>15, <1>16, CallMoves
<1>18. Typed'
  BY <1>2, <1>3, <1>4, <1>7, <1>9, <1>17, StillTyped
<1>19. ASSUME NEW d \in Call, call'[d].pc = "waiting" PROVE PlaceOK(d, call[d])'
  <2>1. CASE d = c
    <3>1. PlaceOK(c, n)'
      BY <1>6, <1>9, <1>11, <1>13 DEF PlaceOK
    <3>2. QED
      BY <1>17, <2>1, <3>1
  <2>2. CASE d # c
    <3>1. PICK q \in CallRecord : q = call[d] /\ q = call'[d]
      BY <1>17, <2>2
    <3>2. PlaceOK(d, q)
      BY <1>2, <1>19, <3>1 DEF GroupsOK
    <3>3. CASE q.slot[1] # g
      <4>1. q.slot[1] \in DOMAIN group' /\ group'[q.slot[1]] = group[q.slot[1]]
        BY <1>9, <3>2, <3>3 DEF PlaceOK
      <4>2. PlaceOK(d, q)'
        BY <3>2, <4>1 DEF PlaceOK, Checks
      <4>3. QED
        BY <3>1, <4>2
    <3>4. CASE q.slot[1] = g
      <4>1. ~fresh /\ group[g].crypto = p
        BY <1>5, <1>9, <3>2, <3>4 DEF PlaceOK
      <4>2. q.slot[2] \in DOMAIN items /\ items[q.slot[2]] = d
        BY <1>6, <3>2, <3>4, <4>1 DEF PlaceOK
      <4>3. PlaceOK(d, q)'
        BY <1>9, <3>2, <3>4, <4>1, <4>2 DEF PlaceOK
      <4>4. QED
        BY <3>1, <4>3
    <3>5. QED
      BY <3>3, <3>4
  <2>3. QED
    BY <2>1, <2>2
<1>20. ASSUME NEW q \in Provider, pending'[q] # 0
       PROVE  /\ pending'[q] \in DOMAIN group'
              /\ group'[pending'[q]].state = "open" /\ group'[pending'[q]].crypto = q
  <2>1. CASE q = p
    BY <1>2, <1>3, <1>9, <2>1
  <2>2. CASE q # p
    <3>1. /\ pending'[q] = pending[q] /\ pending[q] \in DOMAIN group
          /\ group[pending[q]].state = "open" /\ group[pending[q]].crypto = q
      BY <1>2, <1>3, <1>20, <2>2 DEF GroupsOK
    <3>2. pending[q] # g
      BY <1>5, <1>9, <2>2, <3>1
    <3>3. QED
      BY <1>9, <3>1, <3>2
  <2>3. QED
    BY <2>1, <2>2
<1>21. GroupsOK'
  BY <1>19, <1>20 DEF GroupsOK, Call, Provider
<1>22. CachesTyped' /\ MemoSound' /\ DecodedSound' /\ DocsEarned'
  BY <1>3, CachesKept DEF signer
<1>23. QED
  BY <1>17, <1>18, <1>21, <1>22 DEF IInv

(* What only changes groups, and the calls that wait for them.             *)
LEMMA WorkKeeps ==
    ASSUME IInv, UNCHANGED <<world, signer, now, object, caches>>,
           call' \in [Call -> CallRecord],
           \A c \in Call : call'[c] = call[c] \/ /\ call[c].pc # "done" /\ RecordOK(call'[c])
                                                 /\ CallWitnessed(call'[c]),
           pending' \in [Provider -> Nat], group' \in Seq(GroupRecord), GroupsOK'
    PROVE  IInv'
<1>1. UNCHANGED <<world, held, wire, object>>
  BY DEF signer
<1>2. (\A c \in Call : RecordOK(call[c]))'
  BY <1>1, RecordsKept
<1>3. \A c \in Call : call[c].pc = "done" => call'[c] = call[c]
  OBVIOUS
<1>4. (\A c \in Call : ObjectOK(object[c]) /\ ObjectWitnessed(object[c]))'
  BY <1>1, <1>3, ObjectsKept
<1>5. (\A c \in Call : CallWitnessed(call[c]))'
  BY <1>3, WitnessedKept
<1>6. CachesTyped' /\ MemoSound' /\ DecodedSound' /\ DocsEarned'
  BY <1>1, CachesKept
<1>7. Typed'
  BY StillTyped DEF IInv
<1>8. QED
  BY <1>2, <1>4, <1>5, <1>6, <1>7 DEF IInv

LEMMA SealKeeps ==
    ASSUME IInv, NEW g \in DOMAIN group, Seal(g)
    PROVE  IInv'
<1>1. /\ group \in Seq(GroupRecord) /\ pending \in [Provider -> Nat] /\ call \in [Call -> CallRecord]
      /\ GroupsOK /\ group[g] \in GroupRecord /\ group[g].crypto \in Provider
  <2>1. /\ group \in Seq(GroupRecord) /\ pending \in [Provider -> Nat] /\ call \in [Call -> CallRecord]
        /\ GroupsOK
    BY DEF IInv, Typed
  <2>2. PICK old \in GroupRecord : old = group[g]
    BY <2>1
  <2>3. QED
    BY <2>1, <2>2 DEF GroupRecord
<1>2. /\ group[g].state = "open" /\ group' = [group EXCEPT ![g].state = "sealed"]
      /\ pending' = [pending EXCEPT ![group[g].crypto] = 0]
      /\ UNCHANGED <<world, signer, now, call, object, caches>>
  BY DEF Seal
<1>3. PICK new : new = [group[g] EXCEPT !.state = "sealed"]
  OBVIOUS
<1>4. /\ new \in GroupRecord /\ new.state = "sealed" /\ new.crypto = group[g].crypto
      /\ new.items = group[g].items
  BY <1>1, <1>3 DEF GroupRecord, GroupStates
<1>5. /\ group' \in Seq(GroupRecord) /\ DOMAIN group' = DOMAIN group /\ group'[g] = new
      /\ \A h \in DOMAIN group : h # g => group'[h] = group[h]
  BY <1>1, <1>2, <1>3, <1>4
<1>6. pending' \in [Provider -> Nat]
  BY <1>1, <1>2
<1>7. ASSUME NEW c \in Call, call'[c].pc = "waiting" PROVE PlaceOK(c, call[c])'
  <2>1. PICK r : r = call[c] /\ r = call'[c]
    BY <1>2
  <2>2. PlaceOK(c, r)
    <3>1. call[c].pc = "waiting"
      BY <1>7, <2>1
    <3>2. QED
      BY <1>1, <2>1, <3>1 DEF GroupsOK
  <2>3. CASE r.slot[1] = g
    <3>1. PlaceOK(c, r)'
      BY <1>4, <1>5, <2>2, <2>3 DEF PlaceOK
    <3>2. QED
      BY <2>1, <3>1
  <2>4. CASE r.slot[1] # g
    <3>1. group'[r.slot[1]] = group[r.slot[1]] /\ r.slot[1] \in DOMAIN group
      BY <1>5, <2>2, <2>4 DEF PlaceOK
    <3>2. PlaceOK(c, r)'
      BY <1>5, <2>2, <3>1 DEF PlaceOK, Checks
    <3>3. QED
      BY <2>1, <3>2
  <2>5. QED
    BY <2>3, <2>4
<1>8. ASSUME NEW q \in Provider, pending'[q] # 0
      PROVE  /\ pending'[q] \in DOMAIN group'
             /\ group'[pending'[q]].state = "open" /\ group'[pending'[q]].crypto = q
  <2>1. q # group[g].crypto /\ pending'[q] = pending[q]
    BY <1>1, <1>2, <1>8
  <2>2. /\ pending[q] \in DOMAIN group
        /\ group[pending[q]].state = "open" /\ group[pending[q]].crypto = q
    BY <1>1, <1>8, <2>1 DEF GroupsOK
  <2>3. QED
    BY <1>5, <2>1, <2>2
<1>9. GroupsOK'
  BY <1>7, <1>8 DEF GroupsOK, Call, Provider
<1>10. QED
  BY <1>1, <1>2, <1>5, <1>6, <1>9, WorkKeeps

(* The sound provider tells of each call of the group whether its          *)
(* signature checks.                                                       *)
LEMMA ProviderAnswersKeeps ==
    ASSUME IInv, NEW g \in DOMAIN group, NEW results \in [DOMAIN group[g].items -> BOOLEAN],
           ProviderAnswers(g, results)
    PROVE  IInv'
<1>1. /\ group \in Seq(GroupRecord) /\ pending \in [Provider -> Nat] /\ call \in [Call -> CallRecord]
      /\ GroupsOK /\ group[g] \in GroupRecord /\ group[g].items \in Seq(Call)
  <2>1. /\ group \in Seq(GroupRecord) /\ pending \in [Provider -> Nat] /\ call \in [Call -> CallRecord]
        /\ GroupsOK
    BY DEF IInv, Typed
  <2>2. PICK old \in GroupRecord : old = group[g]
    BY <2>1
  <2>3. QED
    BY <2>1, <2>2 DEF GroupRecord
<1>2. /\ group[g].state = "sealed"
      /\ group[g].crypto = "noble" =>
            results = [i \in DOMAIN group[g].items |-> Verifies(group[g].items[i])]
      /\ group' = [group EXCEPT ![g].state = "answered", ![g].results = results]
      /\ UNCHANGED <<world, signer, now, call, object, pending, caches>>
  BY DEF ProviderAnswers
<1>3. results \in Seq(BOOLEAN)
  <2>1. PICK items \in Seq(Call) : items = group[g].items
    BY <1>1
  <2>2. results \in [1..Len(items) -> BOOLEAN] /\ Len(items) \in Nat
    BY <2>1
  <2>3. QED
    BY <2>2
<1>4. PICK new : new = [group[g] EXCEPT !.state = "answered", !.results = results]
  OBVIOUS
<1>5. /\ new \in GroupRecord /\ new.state = "answered" /\ new.crypto = group[g].crypto
      /\ new.items = group[g].items /\ new.results = results
  BY <1>1, <1>3, <1>4 DEF GroupRecord, GroupStates
<1>6. /\ group' \in Seq(GroupRecord) /\ DOMAIN group' = DOMAIN group /\ group'[g] = new
      /\ \A h \in DOMAIN group : h # g => group'[h] = group[h]
  <2>1. group' = [group EXCEPT ![g] = new]
    BY <1>2, <1>4
  <2>2. QED
    BY <1>1, <1>5, <2>1
<1>7. ASSUME NEW c \in Call, call'[c].pc = "waiting" PROVE PlaceOK(c, call[c])'
  <2>1. PICK r : r = call[c] /\ r = call'[c]
    BY <1>2
  <2>2. PlaceOK(c, r)
    <3>1. call[c].pc = "waiting"
      BY <1>7, <2>1
    <3>2. QED
      BY <1>1, <2>1, <3>1 DEF GroupsOK
  <2>3. CASE r.slot[1] = g
    <3>1. /\ r.slot[2] \in DOMAIN group[g].items /\ group[g].items[r.slot[2]] = c
          /\ group[g].crypto = r.opts.crypto
      BY <2>2, <2>3 DEF PlaceOK
    <3>2. group[g].crypto = "noble" =>
             r.slot[2] \in DOMAIN results /\ (results[r.slot[2]] <=> Checks(r))
      BY <1>2, <2>1, <3>1 DEF Verifies, Checks
    <3>3. PlaceOK(c, r)'
      BY <1>5, <1>6, <2>3, <3>1, <3>2 DEF PlaceOK, Checks
    <3>4. QED
      BY <2>1, <3>3
  <2>4. CASE r.slot[1] # g
    <3>1. group'[r.slot[1]] = group[r.slot[1]] /\ r.slot[1] \in DOMAIN group
      BY <1>6, <2>2, <2>4 DEF PlaceOK
    <3>2. PlaceOK(c, r)'
      BY <1>6, <2>2, <3>1 DEF PlaceOK, Checks
    <3>3. QED
      BY <2>1, <3>2
  <2>5. QED
    BY <2>3, <2>4
<1>8. ASSUME NEW q \in Provider, pending'[q] # 0
      PROVE  /\ pending'[q] \in DOMAIN group'
             /\ group'[pending'[q]].state = "open" /\ group'[pending'[q]].crypto = q
  <2>1. /\ pending'[q] = pending[q] /\ pending[q] \in DOMAIN group
        /\ group[pending[q]].state = "open" /\ group[pending[q]].crypto = q
    BY <1>1, <1>2, <1>8 DEF GroupsOK
  <2>2. pending[q] # g
    BY <1>2, <2>1
  <2>3. QED
    BY <1>6, <2>1, <2>2
<1>9. GroupsOK'
  BY <1>7, <1>8 DEF GroupsOK, Call, Provider
<1>10. QED
  BY <1>1, <1>2, <1>6, <1>9, WorkKeeps

LEMMA ProviderFailsKeeps ==
    ASSUME IInv, NEW g \in DOMAIN group, ProviderFails(g)
    PROVE  IInv'
<1>1. /\ group \in Seq(GroupRecord) /\ pending \in [Provider -> Nat] /\ call \in [Call -> CallRecord]
      /\ GroupsOK /\ group[g] \in GroupRecord
  BY DEF IInv, Typed
<1>2. /\ group[g].state = "sealed" /\ group' = [group EXCEPT ![g].state = "failed"]
      /\ call' = [c \in Call |-> IF call[c].pc = "waiting" /\ call[c].slot[1] = g
                                 THEN Ends(call[c], "fault") ELSE call[c]]
      /\ UNCHANGED <<world, signer, now, object, pending, caches>>
  BY DEF ProviderFails, At
<1>3. PICK new : new = [group[g] EXCEPT !.state = "failed"]
  OBVIOUS
<1>4. /\ new \in GroupRecord /\ new.state = "failed" /\ new.crypto = group[g].crypto
      /\ new.items = group[g].items
  BY <1>1, <1>3 DEF GroupRecord, GroupStates
<1>5. /\ group' \in Seq(GroupRecord) /\ DOMAIN group' = DOMAIN group /\ group'[g] = new
      /\ \A h \in DOMAIN group : h # g => group'[h] = group[h]
  BY <1>1, <1>2, <1>3, <1>4
<1>6. ASSUME NEW c \in Call
      PROVE  /\ call'[c] \in CallRecord
             /\ \/ call'[c] = call[c] /\ ~(call[c].pc = "waiting" /\ call[c].slot[1] = g)
                \/ /\ call[c].pc # "done" /\ RecordOK(call'[c]) /\ CallWitnessed(call'[c])
                   /\ call'[c].pc = "done"
  <2>1. CASE call[c].pc = "waiting" /\ call[c].slot[1] = g
    <3>1. PICK r \in CallRecord : r = call[c]
      BY <1>1
    <3>2. r.opts \in world.opts /\ call'[c] = Ends(r, "fault")
      BY <1>2, <2>1, <3>1 DEF IInv, RecordOK
    <3>3. /\ Ends(r, "fault") \in CallRecord /\ RecordOK(Ends(r, "fault"))
          /\ Ends(r, "fault").pc = "done" /\ Ends(r, "fault").out = "fault"
      BY <3>2, EndsOK
    <3>4. QED
      BY <2>1, <3>2, <3>3 DEF CallWitnessed
  <2>2. CASE ~(call[c].pc = "waiting" /\ call[c].slot[1] = g)
    BY <1>1, <1>2, <2>2
  <2>3. QED
    BY <2>1, <2>2
<1>7. call' \in [Call -> CallRecord]
  BY <1>2, <1>6
<1>8. ASSUME NEW c \in Call, call'[c].pc = "waiting" PROVE PlaceOK(c, call[c])'
  <2>1. call'[c] = call[c] /\ call[c].pc = "waiting" /\ call[c].slot[1] # g
    BY <1>6, <1>8
  <2>2. PICK r : r = call[c] /\ r = call'[c]
    BY <2>1
  <2>3. PlaceOK(c, r)
    BY <1>1, <2>1, <2>2 DEF GroupsOK
  <2>4. group'[r.slot[1]] = group[r.slot[1]] /\ r.slot[1] \in DOMAIN group
    BY <1>5, <2>1, <2>2, <2>3 DEF PlaceOK
  <2>5. PlaceOK(c, r)'
    BY <1>5, <2>3, <2>4 DEF PlaceOK, Checks
  <2>6. QED
    BY <2>2, <2>5
<1>9. ASSUME NEW q \in Provider, pending'[q] # 0
      PROVE  /\ pending'[q] \in DOMAIN group'
             /\ group'[pending'[q]].state = "open" /\ group'[pending'[q]].crypto = q
  <2>1. /\ pending'[q] = pending[q] /\ pending[q] \in DOMAIN group
        /\ group[pending[q]].state = "open" /\ group[pending[q]].crypto = q
    BY <1>1, <1>2, <1>9 DEF GroupsOK
  <2>2. pending[q] # g
    BY <1>2, <2>1
  <2>3. QED
    BY <1>5, <2>1, <2>2
<1>10. GroupsOK'
  BY <1>8, <1>9 DEF GroupsOK, Call, Provider
<1>11. QED
  BY <1>1, <1>2, <1>5, <1>6, <1>7, <1>10, WorkKeeps

-----------------------------------------------------------------------------
(* The verdict is in.                                                      *)

LEMMA DocsCached ==
    ASSUME CachesTyped, DocsEarned, world' = world, held' = held, wire \subseteq wire',
           NEW doc \in Doc, (\A opts \in world.opts : Sound(opts)) => Earned(doc),
           docs' = cached(doc)
    PROVE  docs' \in Seq(Doc) /\ IsInjective(docs') /\ Len(docs') <= MaxDocs /\ DocsEarned'
<1>1. docs \in Seq(Doc) /\ IsInjective(docs) /\ MaxDocs \in Nat
  BY TokensAssumption DEF CachesTyped
<1>2. PICK s \in Seq(Doc) :
         /\ s = Refreshed(docs, doc)
         /\ \A j \in 1..Len(s) : s[j] = doc \/ \E i \in 1..Len(docs) : s[j] = docs[i]
         /\ IsInjective(docs) => IsInjective(s)
  BY <1>1, RefreshedHolds
<1>3. PICK t \in Seq(Doc) :
         /\ t = Newest(s, MaxDocs)
         /\ Len(t) <= MaxDocs
         /\ \A j \in 1..Len(t) : \E i \in 1..Len(s) : t[j] = s[i]
         /\ IsInjective(s) => IsInjective(t)
  BY <1>1, NewestHolds
<1>4. /\ IsInjective(t) /\ Len(t) <= MaxDocs
      /\ \A j \in 1..Len(t) : \E i \in 1..Len(s) : t[j] = s[i]
  BY <1>1, <1>2, <1>3
<1>5. docs' = t
  BY <1>2, <1>3 DEF cached
<1>6. \A iss : Authorised(iss)' = Authorised(iss)
  BY DEF Authorised
<1>7. \A d : Earned(d) => Earned(d)'
  BY <1>6 DEF Earned
<1>8. (\A opts \in world.opts : Sound(opts)) => \A i \in 1..Len(docs) : Earned(docs[i])
  BY <1>1 DEF DocsEarned
<1>9. (\A opts \in world.opts : Sound(opts)) => \A j \in 1..Len(t) : Earned(t[j])
  BY <1>2, <1>4, <1>8
<1>10. DocsEarned'
  BY <1>5, <1>7, <1>9 DEF DocsEarned, Sound
<1>11. QED
  BY <1>4, <1>5, <1>10

LEMMA ConcludeKeeps ==
    ASSUME IInv, NEW c \in Call, Conclude(c)
    PROVE  IInv'
<1>1. PICK r \in CallRecord : r = call[c]
  BY DEF IInv, Typed
<1>2. r.pc = "checked" /\ RecordOK(r) /\ r.opts \in world.opts
  BY <1>1 DEF Conclude, At, IInv, RecordOK
<1>3. KeyOK(r) /\ (Sound(r.opts) => (r.ok <=> Checks(r))) /\ r.data # NoData /\ Carried(r.sig)
  BY <1>2 DEF RecordOK, KeyPcs
<1>4. PICK n : n = IF r.ok THEN [r EXCEPT !.pc = "finish"] ELSE Ends(r, "bad")
  OBVIOUS
<1>5. /\ call' = [call EXCEPT ![c] = n]
      /\ docs' = IF r.ok /\ Caching(c) THEN cached(r.doc) ELSE docs
      /\ UNCHANGED <<world, signer, now, object, pending, group, memo, totalBytes, decoded>>
  BY <1>1, <1>4 DEF Conclude
<1>6. n \in CallRecord /\ RecordOK(n) /\ n.pc \in {"finish", "done"} /\ (n.pc = "done" => n.out = "bad")
  <2>1. CASE r.ok
    <3>1. n = [r EXCEPT !.pc = "finish"]
      BY <1>4, <2>1
    <3>2. /\ n \in CallRecord /\ n.pc = "finish" /\ n.data = r.data /\ n.sig = r.sig /\ n.opts = r.opts
          /\ n.live = r.live /\ n.key = r.key /\ n.doc = r.doc
      BY <3>1 DEF CallRecord, PCs, KeyPcs
    <3>3. KeyOK(n) <=> KeyOK(r)
      BY <3>2, GoodOf DEF KeyOK
    <3>4. RecordOK(n)
      BY <1>2, <1>3, <2>1, <3>2, <3>3 DEF RecordOK, KeyPcs, Checks
    <3>5. QED
      BY <3>2, <3>4
  <2>2. CASE ~r.ok
    <3>1. Sound(r.opts) => ~GoodCall(r)
      BY <1>3, <2>2 DEF KeyOK, GoodCall, Checks
    <3>2. n = Ends(r, "bad")
      BY <1>4, <2>2
    <3>3. QED
      BY <1>2, <3>1, <3>2, EndsOK
  <2>3. QED
    BY <2>1, <2>2
<1>7. UNCHANGED <<world, held, wire, object, pending, group, memo, totalBytes, decoded>>
  BY <1>5 DEF signer
<1>8. /\ call' \in [Call -> CallRecord] /\ call'[c] = n
      /\ \A d \in Call : d # c => call'[d] = call[d]
      /\ (\A d \in Call : RecordOK(call[d]))'
      /\ (\A d \in Call : ObjectOK(object[d]) /\ ObjectWitnessed(object[d]))'
      /\ (\A d \in Call : CallWitnessed(call[d]))'
  BY <1>1, <1>2, <1>5, <1>6, CallMoves
<1>9. Typed'
  BY <1>5, <1>8, StillTyped DEF IInv, Typed
<1>10. GroupsOK'
  BY <1>6, <1>7, <1>8, GroupsKept
<1>11. docs' \in Seq(Doc) /\ IsInjective(docs') /\ Len(docs') <= MaxDocs /\ DocsEarned'
  <2>1. CASE r.ok /\ Caching(c)
    <3>1. docs' = cached(r.doc) /\ r.doc # NoDoc /\ r.doc \in Doc
      BY <1>1, <1>5, <2>1 DEF Caching, CallRecord
    <3>2. ASSUME \A opts \in world.opts : Sound(opts) PROVE Earned(r.doc)
      <4>1. Checks(r)
        BY <1>2, <1>3, <2>1, <3>2
      <4>2. r.sig.over = r.data /\ r.sig.key = r.key
        BY <4>1 DEF Checks
      <4>3. r.sig # NoSig
        BY <1>3, <4>2 DEF NoSig
      <4>4. PICK t \in wire : t.sig = r.sig
        BY <1>3, <4>3 DEF Carried
      <4>5. /\ isPeer4(r.data.claims.iss) /\ r.data.claims.iss.hash = r.doc
            /\ r.key \in Authorised(r.data.claims.iss)
        BY <1>3, <3>1 DEF KeyOK
      <4>6. QED
        BY <4>2, <4>4, <4>5 DEF Earned
    <3>3. QED
      BY <1>7, <3>1, <3>2, DocsCached DEF IInv
  <2>2. CASE ~(r.ok /\ Caching(c))
    <3>1. docs' = docs
      BY <1>5, <2>2
    <3>2. DocsEarned'
      BY <1>7, <3>1, DocsKept DEF IInv
    <3>3. QED
      BY <3>1, <3>2 DEF IInv, CachesTyped
  <2>3. QED
    BY <2>1, <2>2
<1>12. memo' \in Seq(MemoEntries) /\ MemoOK(memo, totalBytes)' /\ MemoSound'
  BY <1>7 DEF IInv, CachesTyped, MemoOK, KeysApart, memoKey, MemoEntries, Bytes, MemoSound
<1>13. CachesTyped' /\ DecodedSound'
  BY <1>7, <1>11, <1>12 DEF IInv, CachesTyped, IsInjective, DecodedSound, verifyMultihash
<1>14. QED
  BY <1>8, <1>9, <1>10, <1>11, <1>12, <1>13 DEF IInv

(* What is accepted was checked, for the caller's audience and time; the   *)
(* object returned carries the proof of it.                                *)
LEMMA FinishKeeps ==
    ASSUME IInv, NEW c \in Call, Finish(c)
    PROVE  IInv'
<1>1. PICK r \in CallRecord : r = call[c]
  BY DEF IInv, Typed
<1> DEFINE claims == r.data.claims
           valid == assertTimeClaimsValid(claims, r.opts) /\ assertAudienceValid(claims, r.opts)
           proof == [data |-> r.data, policy |-> capturePolicy(r.opts), sig |-> r.sig, key |-> r.key,
                     historic |-> r.opts.historic]
           returned == [claims |-> claims, data |-> r.data, sig |-> r.sig, pub |-> r.key,
                        proof |-> proof]
<1>2. r.pc = "finish" /\ RecordOK(r) /\ r.opts \in world.opts
  BY <1>1 DEF Finish, At, IInv, RecordOK
<1>3. KeyOK(r) /\ (Sound(r.opts) => Checks(r)) /\ r.data # NoData /\ Carried(r.sig)
  BY <1>2 DEF RecordOK, KeyPcs
<1>4. /\ call' = [call EXCEPT ![c] =
                     IF valid THEN [r EXCEPT !.pc = "done", !.out = "accepted", !.claims = claims,
                                             !.at = now]
                     ELSE Ends(r, "bad")]
      /\ object' = IF ~valid THEN object ELSE [object EXCEPT ![c] = returned]
      /\ UNCHANGED <<world, signer, now, pending, group, caches>>
  BY <1>1 DEF Finish
<1>5. UNCHANGED <<world, held, wire, pending, group, caches>>
  BY <1>4 DEF signer
<1>6. call \in [Call -> CallRecord] /\ object \in [Call -> Object] /\ now \in Nat /\ r.opts \in Options
  BY <1>2, TokensAssumption DEF IInv, Typed
<1>7. CASE ~valid
  <2>1. Sound(r.opts) => ~GoodCall(r)
    BY <1>7 DEF GoodCall, assertTimeClaimsValid
  <2>2. PICK n : n = Ends(r, "bad")
    OBVIOUS
  <2>3. n \in CallRecord /\ RecordOK(n) /\ n.pc = "done" /\ n.out = "bad"
    BY <1>2, <2>1, <2>2, EndsOK
  <2>4. call' = [call EXCEPT ![c] = n] /\ object' = object
    BY <1>4, <1>7, <2>2
  <2>5. /\ call' \in [Call -> CallRecord] /\ call'[c] = n
        /\ \A d \in Call : d # c => call'[d] = call[d]
        /\ (\A d \in Call : RecordOK(call[d]))'
        /\ (\A d \in Call : ObjectOK(object[d]) /\ ObjectWitnessed(object[d]))'
        /\ (\A d \in Call : CallWitnessed(call[d]))'
    BY <1>1, <1>2, <1>4, <2>3, <2>4, CallMoves
  <2>6. Typed'
    BY <1>4, <2>4, <2>5, StillTyped DEF IInv, Typed
  <2>7. GroupsOK'
    BY <1>5, <2>3, <2>5, GroupsKept
  <2>8. CachesTyped' /\ MemoSound' /\ DecodedSound' /\ DocsEarned'
    BY <1>5, CachesKept
  <2>9. QED
    BY <2>5, <2>6, <2>7, <2>8 DEF IInv
<1>8. CASE valid
  <2>1. PICK n : n = [r EXCEPT !.pc = "done", !.out = "accepted", !.claims = claims, !.at = now]
    OBVIOUS
  <2>2. call' = [call EXCEPT ![c] = n] /\ object' = [object EXCEPT ![c] = returned]
    BY <1>4, <1>8, <2>1
  <2>3. claims \in Claims /\ r.data \in Data /\ r.sig \in Signature /\ r.key \in Key
    BY DEF CallRecord, Data
  <2>4. /\ n \in CallRecord /\ n.pc = "done" /\ n.out = "accepted" /\ n.claims = claims /\ n.at = now
        /\ n.data = r.data /\ n.sig = r.sig /\ n.opts = r.opts /\ n.key = r.key /\ n.live = r.live
    BY <1>6, <2>1, <2>3 DEF CallRecord, PCs, Outs
  <2>5. claims.exp \in Nat /\ r.opts.tolerance \in Nat
    BY <1>6, <2>3 DEF Claims, Options
  <2>6. /\ r.opts.audience \in {"any", claims.aud}
        /\ claims.exp = 0 \/ claims.exp + r.opts.tolerance >= now
    BY <1>6, <1>8, <2>5 DEF assertTimeClaimsValid, assertAudienceValid
  <2>7. Sound(r.opts) => /\ r.sig.over = r.data /\ r.sig.key = r.key
                         /\ r.key \in Authorised(claims.iss)
    BY <1>3 DEF Checks, KeyOK
  <2>8. RecordOK(n)
    <3>1. Sound(n.opts) => AcceptedOK(n)
      BY <2>4, <2>6, <2>7 DEF AcceptedOK
    <3>2. RefusedOK(n)
      BY <2>4 DEF RefusedOK
    <3>3. QED
      BY <1>2, <2>4, <3>1, <3>2 DEF RecordOK, KeyPcs
  <2>9. /\ call' \in [Call -> CallRecord] /\ call'[c] = n
        /\ \A d \in Call : d # c => call'[d] = call[d]
    BY <1>6, <2>2, <2>4
  <2>10. capturePolicy(r.opts) \in Policy
    BY <1>6 DEF capturePolicy, Policy, Options
  <2>11. proof \in Proof /\ returned \in Object
    BY <1>6, <2>3, <2>10 DEF Proof, Object, Options
  <2>12. (\A d \in Call : RecordOK(call[d]))'
    BY <1>5, <2>8, <2>9, RecordsKept
  <2>13. \A d \in Call : call[d].pc = "done" => call'[d] = call[d]
    BY <1>1, <1>2, <2>9
  <2>14. ASSUME Sound(r.opts), ~r.opts.historic, claims.iss = KokuinDID
         PROVE  Witness(capturePolicy(r.opts), claims)'
    <3>1. KokuinDID.method = "kokuin"
      BY DEF KokuinDID, Blank
    <3>2. n.sig.key \in n.live
      BY <1>3, <2>4, <2>7, <2>14, <3>1 DEF KeyOK
    <3>3. capturePolicy(n.opts) = capturePolicy(r.opts)
      BY <2>4
    <3>4. QED
      BY <2>4, <2>9, <2>14, <3>2, <3>3 DEF Witness, Done, Call, capturePolicy
  <2>15. CallWitnessed(n)'
    BY <2>4, <2>14 DEF CallWitnessed, Sound, capturePolicy
  <2>16. ASSUME NEW d \in Call PROVE CallWitnessed(call[d])'
    <3>1. PICK q : q = call'[d]
      OBVIOUS
    <3>2. CASE d = c
      BY <2>9, <2>15, <3>2
    <3>3. CASE d # c
      <4>1. CallWitnessed(q)
        BY <2>9, <3>1, <3>3 DEF IInv
      <4>2. CallWitnessed(q)'
        BY <2>13, <4>1, WitnessKept DEF CallWitnessed, Sound, capturePolicy
      <4>3. QED
        BY <3>1, <4>2
    <3>4. QED
      BY <3>2, <3>3
  <2>17. object' \in [Call -> Object] /\ object'[c] = returned
         /\ \A d \in Call : d # c => object'[d] = object[d]
    <3> HIDE DEF returned
    <3> QED
      BY <1>6, <2>2, <2>11
  <2>18. PICK o : o = returned
    OBVIOUS
  <2>19. /\ o.sig = r.sig /\ o.proof.data = r.data /\ o.proof.sig = r.sig /\ o.proof.key = r.key
         /\ o.proof.policy = capturePolicy(r.opts) /\ o.proof.historic = r.opts.historic
    BY <2>18
  <2>20. Sound(o.proof.policy) <=> Sound(r.opts)
    BY <2>19 DEF Sound, capturePolicy
  <2>21. ObjectOK(o)
    BY <1>3, <2>7, <2>19, <2>20 DEF ObjectOK
  <2>22. ObjectWitnessed(o)'
    BY <2>14, <2>19, <2>20 DEF ObjectWitnessed, Sound, capturePolicy
  <2>23. \A iss : Authorised(iss)' = Authorised(iss)
    BY <1>5 DEF Authorised
  <2>24. ASSUME NEW d \in Call PROVE ObjectOK(object[d])' /\ ObjectWitnessed(object[d])'
    <3>1. CASE d = c
      <4>1. ObjectOK(o)'
        BY <1>5, <2>21, <2>23 DEF ObjectOK, Carried, Sound
      <4>2. QED
        BY <2>17, <2>18, <2>22, <3>1, <4>1
    <3>2. CASE d # c
      <4>1. PICK q : q = object'[d] /\ q = object[d]
        BY <2>17, <3>2
      <4>2. ObjectOK(q) /\ ObjectWitnessed(q)
        BY <4>1 DEF IInv
      <4>3. ObjectOK(q)'
        BY <1>5, <2>23, <4>2 DEF ObjectOK, Carried, Sound
      <4>4. ObjectWitnessed(q)'
        BY <2>13, <4>2, WitnessKept DEF ObjectWitnessed, Sound
      <4>5. QED
        BY <4>1, <4>3, <4>4
    <3>3. QED
      BY <3>1, <3>2
  <2>25. GroupsOK'
    BY <1>5, <2>4, <2>9, GroupsKept
  <2>26. CachesTyped' /\ MemoSound' /\ DecodedSound' /\ DocsEarned'
    BY <1>5, CachesKept
  <2>27. Typed'
    BY <1>4, <2>9, <2>17 DEF IInv, Typed, IdentityTyped, signer
  <2>28. QED
    BY <2>12, <2>16, <2>24, <2>25, <2>26, <2>27 DEF IInv, Call
<1>9. QED
  BY <1>7, <1>8

-----------------------------------------------------------------------------
(* Every step keeps the invariant.                                         *)

LEMMA CallStepKeeps ==
    ASSUME IInv, NEW c \in Call, Step(c)
    PROVE  IInv'
<1>1. CASE \E doc \in world.docs : ResolverAnswers(c, doc)
  BY <1>1, ResolverAnswersKeeps
<1>2. CASE ResolverFails(c)
  BY <1>2, ResolverFailsKeeps
<1>3. CASE MethodAnswers(c)
  BY <1>3, MethodAnswersKeeps
<1>4. CASE MethodFails(c)
  BY <1>4, MethodFailsKeeps
<1>5. CASE AskCustom(c)
  BY <1>5, AskCustomKeeps
<1>6. CASE \E ok \in BOOLEAN : CustomAnswers(c, ok)
  <2>1. PICK ok \in BOOLEAN : CustomAnswers(c, ok)
    BY <1>6
  <2>2. QED
    BY <2>1, CustomAnswersKeeps
<1>7. CASE AskMemo(c)
  BY <1>7, AskMemoKeeps
<1>8. CASE Enqueue(c)
  BY <1>8, EnqueueKeeps
<1>9. CASE Learn(c)
  BY <1>9, LearnKeeps
<1>10. CASE Conclude(c)
  BY <1>10, ConcludeKeeps
<1>11. CASE Finish(c)
  BY <1>11, FinishKeeps
<1>12. QED
  BY <1>1, <1>2, <1>3, <1>4, <1>5, <1>6, <1>7, <1>8, <1>9, <1>10, <1>11 DEF Step

LEMMA GroupStepKeeps ==
    ASSUME IInv, NEW g \in DOMAIN group, Work(g)
    PROVE  IInv'
<1>1. CASE Seal(g)
  BY <1>1, SealKeeps
<1>2. CASE \E results \in [DOMAIN group[g].items -> BOOLEAN] : ProviderAnswers(g, results)
  BY <1>2, ProviderAnswersKeeps
<1>3. CASE ProviderFails(g)
  BY <1>3, ProviderFailsKeeps
<1>4. QED
  BY <1>1, <1>2, <1>3 DEF Work

LEMMA StutterKeeps ==
    ASSUME IInv, UNCHANGED vars
    PROVE  IInv'
<1>1. UNCHANGED <<world, signer, now, call, object, pending, group, caches>>
  BY DEF vars
<1>2. Typed'
  BY <1>1 DEF IInv, Typed, IdentityTyped, signer
<1>3. UNCHANGED <<world, held, call, object, pending, group, caches>> /\ wire \subseteq wire'
  BY <1>1 DEF signer
<1>4. QED
  BY <1>2, <1>3, QuietKept

LEMMA StepKeeps ==
    ASSUME IInv, Next
    PROVE  IInv'
<1>1. CASE \E spec \in world.specs : CreateIdentity(spec)
  BY <1>1, CreateKeeps
<1>2. CASE \E aud \in world.auds, kid \in world.kids, embed \in world.embeds, body \in world.bodies :
              SignToken(aud, kid, embed, body)
  <2>1. PICK aud \in world.auds, kid \in world.kids, embed \in world.embeds, body \in world.bodies :
               SignToken(aud, kid, embed, body)
    BY <1>2
  <2>2. QED
    BY <2>1, SignKeeps
<1>3. CASE \E i \in DOMAIN held, kid \in world.kokuin, exp \in world.exps, body \in world.bodies :
              SignForDID(i, kid, exp, body)
  <2>1. PICK i \in DOMAIN held, kid \in world.kokuin, exp \in world.exps, body \in world.bodies :
               SignForDID(i, kid, exp, body)
    BY <1>3
  <2>2. QED
    BY <2>1, SignForKeeps
<1>4. CASE \E s \in signing : Signed(s) \/ SignFails(s)
  BY <1>4, SignedKeeps
<1>5. CASE Rotate
  BY <1>5, RotateKeeps
<1>6. CASE Tick
  BY <1>6, TickKeeps
<1>7. CASE \E c \in Call :
              /\ MayCall(c)
              /\ \E opts \in world.opts, t \in Presentations : VerifyToken(c, t[1], t[2], opts)
  <2>1. PICK c \in Call, opts \in world.opts, t \in Presentations :
               MayCall(c) /\ VerifyToken(c, t[1], t[2], opts)
    BY <1>7
  <2>2. QED
    BY <2>1, VerifyKeeps
<1>8. CASE \E c \in Call :
              /\ object[c] # NoObject /\ moves < world.moves
              /\ \E o \in Rewrites(object[c]) : Mutate(c, o)
  BY <1>8, MutateKeeps
<1>9. CASE \E c \in Call : Step(c)
  BY <1>9, CallStepKeeps
<1>10. CASE \E g \in DOMAIN group : Work(g)
  BY <1>10, GroupStepKeeps
<1>11. QED
  BY <1>1, <1>2, <1>3, <1>4, <1>5, <1>6, <1>7, <1>8, <1>9, <1>10 DEF Next

LEMMA InitOK ==
    ASSUME Init
    PROVE  IInv
<1>1. world \in World /\ world.wire \subseteq Token
  BY TokensAssumption DEF Init, Token
<1>2. /\ identity = NoIdentity /\ signing = {} /\ wire = world.wire /\ now = 1
      /\ call = [c \in Call |-> Idle] /\ object = [c \in Call |-> NoObject]
      /\ pending = [p \in Provider |-> 0] /\ group = <<>>
      /\ memo = <<>> /\ totalBytes = 0 /\ decoded = <<>> /\ docs = <<>>
  BY DEF Init
<1>3. held \in Seq(Key) /\ held # <<>> /\ \A i \in 1..Len(held) : held[i] = [alg |-> "EdDSA", n |-> i]
  <2>1. PICK k \in Key : k = [alg |-> "EdDSA", n |-> 1]
    BY DEF Key, Text
  <2>2. held = <<k>>
    BY <2>1 DEF Init
  <2>3. held \in Seq(Key) /\ Len(held) = 1 /\ held[1] = k
    BY <2>2
  <2>4. \A i \in 1..Len(held) : i = 1
    BY <2>3
  <2>5. QED
    BY <2>1, <2>3, <2>4
<1>4. Typed
  <2>1. call \in [Call -> CallRecord] /\ object \in [Call -> Object]
    BY <1>2, Blanks
  <2>2. pending \in [Provider -> Nat] /\ group \in Seq(GroupRecord)
    BY <1>2
  <2>3. QED
    BY <1>1, <1>2, <1>3, <2>1, <2>2 DEF Typed, IdentityTyped
<1>5. CachesTyped
  <2>1. <<>> \in Seq(MemoEntries) /\ <<>> \in Seq(DID) /\ <<>> \in Seq(Doc) /\ Len(<<>>) = 0
    OBVIOUS
  <2>2. \A i : i \notin 1..Len(<<>>)
    OBVIOUS
  <2>3. /\ VERIFIED_MEMO_SIZE \in Nat /\ VERIFIED_MEMO_MAX_TOTAL_BYTES \in Nat
        /\ PEER4_DECODE_MEMO_SIZE \in Nat /\ MaxDocs \in Nat
    BY TokensAssumption
  <2>4. MemoOK(<<>>, 0)
    BY <2>1, <2>2, <2>3, BytesEmpty DEF MemoOK, KeysApart
  <2>5. IsInjective(<<>>)
    BY DEF IsInjective
  <2>6. QED
    BY <1>2, <2>1, <2>3, <2>4, <2>5 DEF CachesTyped
<1>6. Idle.pc = "idle" /\ NoObject.sig = NoSig /\ NoObject.proof = NoProof
  BY DEF Idle, NoObject
<1>7. RecordOK(Idle) /\ CallWitnessed(Idle)
  BY <1>6 DEF RecordOK, CallWitnessed, KeyPcs
<1>8. ObjectOK(NoObject) /\ ObjectWitnessed(NoObject)
  BY <1>6 DEF ObjectOK, ObjectWitnessed, Carried
<1>9. GroupsOK
  BY <1>2, <1>6 DEF GroupsOK
<1>10. MemoSound /\ DecodedSound /\ DocsEarned
  BY <1>2 DEF MemoSound, DecodedSound, DocsEarned
<1>11. QED
  BY <1>2, <1>4, <1>5, <1>7, <1>8, <1>9, <1>10 DEF IInv

(* The invariant: what waits at each await is what the issuer, the group,  *)
(* the memo and the caches say of it (token.ts:240-545).                   *)
THEOREM VerifyingInvariant == Spec => []IInv
<1>1. Init => IInv
  BY InitOK
<1>2. IInv /\ [Next]_vars => IInv'
  BY StepKeeps, StutterKeeps
<1>3. QED
  BY <1>1, <1>2, PTL DEF Spec

(* What verifyToken returns was signed as it stands, by a key of the       *)
(* issuer it names, for the caller's audience and time (token.ts:395-545), *)
(* for whatever tokens, options and documents there are.                   *)
THEOREM AcceptedIsGenuine == Spec => []AcceptedGenuine
<1>1. IInv => AcceptedGenuine
  <2>1. SUFFICES ASSUME IInv, NEW c \in Call, Done(c, "accepted"), Sound(call[c].opts)
                 PROVE  LET r == call[c] IN
                        /\ AcceptedOK(r)
                        /\ ~r.opts.historic /\ r.claims.iss = KokuinDID =>
                              Witness(capturePolicy(r.opts), r.claims)
    BY DEF AcceptedGenuine, AcceptedOK, Witness
  <2>2. RecordOK(call[c]) /\ CallWitnessed(call[c])
    BY <2>1 DEF IInv
  <2>3. QED
    BY <2>1, <2>2 DEF RecordOK, CallWitnessed, Done
<1>2. QED
  BY <1>1, VerifyingInvariant, PTL

(* A good token is never called bad, nor one that carries its own key      *)
(* unresolvable (did.ts:235-347, verifier.ts:33).                          *)
THEOREM RefusalsAreEarned == Spec => []RefusalsEarned
<1>1. IInv => RefusalsEarned
  <2>1. SUFFICES ASSUME IInv, NEW c \in Call, call[c].data # NoData, Sound(call[c].opts), Good(c)
                 PROVE  /\ ~Done(c, "bad")
                        /\ Done(c, "unresolvable") =>
                              LET iss == call[c].data.claims.iss
                              IN  iss.method = "kokuin" \/ (isPeer4(iss) /\ ~isLong(iss))
    BY DEF RefusalsEarned
  <2>2. RecordOK(call[c])
    BY <2>1 DEF IInv
  <2>3. GoodCall(call[c])
    BY <2>1 DEF Good, GoodCall
  <2>4. call[c].pc = "done" => RefusedOK(call[c])
    BY <2>1, <2>2, <2>3 DEF RecordOK
  <2>5. QED
    BY <2>4 DEF Done, RefusedOK
<1>2. QED
  BY <1>1, VerifyingInvariant, PTL

(* What the process keeps it has verified, within its bounds and counted   *)
(* exactly (verified-memo.ts:21-76, cache.ts:64, token.ts:259).            *)
THEOREM WhatIsKeptIsEarned == Spec => []KeptEarned
<1>1. IInv => KeptEarned
  <2>1. SUFFICES ASSUME IInv PROVE KeptEarned
    OBVIOUS
  <2>2. MemoSound /\ MemoOK(memo, totalBytes) /\ Len(docs) <= MaxDocs /\ DocsEarned
    BY <2>1 DEF IInv, CachesTyped
  <2>3. QED
    BY <2>2 DEF KeptEarned, MemoSound, MemoOK, DocsEarned, Earned
<1>2. QED
  BY <1>1, VerifyingInvariant, PTL
=============================================================================
