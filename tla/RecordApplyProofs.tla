-------------------------- MODULE RecordApplyProofs -------------------------
(***************************************************************************)
(* policy.ts: "Every policy is a total order over valid ops, so any        *)
(* arrival order" converges.  Wins is that order: irreflexive, transitive, *)
(* and total over the decisions of a record that the policy can order.     *)
(* Then what applyRecordChunk keeps to for every set of peers, sessions,   *)
(* keys and ops, every chunk and every table of policies.                  *)
(***************************************************************************)
EXTENDS RecordApply, WellFoundedInduction, FiniteSetTheorems, TLAPS

(* A nonempty set of naturals has a least element.                         *)
LEMMA LeastNatural ==
    ASSUME NEW T \in SUBSET Nat, T # {}
    PROVE  \E x \in T : \A y \in T : x <= y
<1> DEFINE R == {r \in Nat \X Nat : r[1] < r[2]}
<1>1. IsWellFoundedOn(R, Nat)
  BY NatLessThanWellFounded DEF OpToRel
<1>2. \E x \in T : \A y \in T : ~(<<y, x>> \in R)
  <2> HIDE DEF R
  <2> QED BY <1>1, WFMin
<1>3. \A x, y \in Nat : <<y, x>> \notin R => x <= y
  OBVIOUS
<1> HIDE DEF R
<1> QED BY <1>2, <1>3

-----------------------------------------------------------------------------
(* compareTuples.                                                          *)

(* Either one tuple extends the other, or they differ first at one index.  *)
LEMMA FirstDifference ==
    ASSUME NEW a \in Seq(Int), NEW b \in Seq(Int)
    PROVE  \/ /\ \A i \in 1..Len(a) : i <= Len(b) => a[i] = b[i]
              /\ compareTuples(a, b) = Len(a) - Len(b)
           \/ \E i \in 1..Len(a) :
                /\ i <= Len(b) /\ a[i] # b[i]
                /\ \A j \in 1..(i - 1) : a[j] = b[j]
                /\ compareTuples(a, b) = a[i] - b[i]
<1> DEFINE D == Differing(a, b)
<1>1. D \in SUBSET Nat /\ \A i \in D : i \in 1..Len(a) /\ i <= Len(b) /\ a[i] # b[i]
  BY DEF Differing
<1>2. CASE D = {}
  BY <1>2 DEF Differing, compareTuples
<1>3. CASE D # {}
  <2> DEFINE i == CHOOSE x \in D : \A y \in D : x <= y
  <2>1. i \in D /\ \A y \in D : i <= y
    <3>1. \E x \in D : \A y \in D : x <= y
      BY <1>1, <1>3, LeastNatural
    <3> QED BY <3>1
  <2>2. compareTuples(a, b) = a[i] - b[i]
    BY <1>3 DEF compareTuples
  <2> HIDE DEF i
  <2>3. \A j \in 1..(i - 1) : j \notin D
    BY <1>1, <2>1
  <2>4. \A j \in 1..(i - 1) : a[j] = b[j]
    <3>1. \A j \in 1..(i - 1) : j \in 1..Len(a) /\ j <= Len(b)
      BY <1>1, <2>1
    <3> QED BY <2>3, <3>1 DEF Differing
  <2> QED BY <1>1, <2>1, <2>2, <2>4
<1> QED BY <1>2, <1>3

(* The comparison is an integer, and swapping the tuples turns its sign.   *)
LEMMA CompareTuplesAntisymmetric ==
    ASSUME NEW a \in Seq(Int), NEW b \in Seq(Int)
    PROVE  /\ compareTuples(a, b) \in Int
           /\ compareTuples(a, b) > 0 <=> compareTuples(b, a) < 0
           /\ compareTuples(a, b) = 0 <=> a = b
<1>1. \A i \in 1..Len(a) : a[i] \in Int
  OBVIOUS
<1>2. \A i \in 1..Len(b) : b[i] \in Int
  OBVIOUS
<1>3. CASE /\ \A i \in 1..Len(a) : i <= Len(b) => a[i] = b[i]
           /\ compareTuples(a, b) = Len(a) - Len(b)
  <2>1. ASSUME NEW i \in 1..Len(b), i <= Len(a)
        PROVE  b[i] = a[i]
    <3>1. i \in 1..Len(a) /\ i <= Len(b)
      BY <2>1
    <3> QED BY <1>3, <3>1
  <2>2. compareTuples(b, a) = Len(b) - Len(a)
    BY <2>1, FirstDifference
  <2>3. ASSUME Len(a) = Len(b)
        PROVE  a = b
    <3>1. ASSUME NEW i \in 1..Len(a)
          PROVE  a[i] = b[i]
      <4>1. i <= Len(b)
        BY <2>3
      <4> QED BY <1>3, <4>1
    <3> QED BY <2>3, <3>1
  <2> QED BY <1>3, <2>2, <2>3
<1>4. CASE \E i \in 1..Len(a) :
             /\ i <= Len(b) /\ a[i] # b[i]
             /\ \A j \in 1..(i - 1) : a[j] = b[j]
             /\ compareTuples(a, b) = a[i] - b[i]
  <2>1. PICK i \in 1..Len(a) :
             /\ i <= Len(b) /\ a[i] # b[i]
             /\ \A j \in 1..(i - 1) : a[j] = b[j]
             /\ compareTuples(a, b) = a[i] - b[i]
    BY <1>4
  <2>2. compareTuples(b, a) = b[i] - a[i]
    BY <2>1, FirstDifference
  <2>3. a[i] \in Int /\ b[i] \in Int
    BY <1>1, <1>2, <2>1
  <2> QED BY <2>1, <2>2, <2>3
<1> QED BY <1>3, <1>4, FirstDifference

(* a is the greater of two tuples.                                         *)
Longer(a, b) ==
    /\ Len(a) > Len(b)
    /\ \A i \in 1..Len(b) : a[i] = b[i]

GreaterAt(a, b, i) ==
    /\ i \in 1..Len(a) /\ i \in 1..Len(b) /\ a[i] > b[i]
    /\ \A j \in 1..(i - 1) : a[j] = b[j]

(* The two ways in which one tuple is greater than another.                *)
LEMMA GreaterTuple ==
    ASSUME NEW a \in Seq(Int), NEW b \in Seq(Int)
    PROVE  compareTuples(a, b) > 0 <=> Longer(a, b) \/ \E i \in Nat : GreaterAt(a, b, i)
<1>0. /\ \A i \in 1..Len(a) : a[i] \in Int
      /\ \A i \in 1..Len(b) : b[i] \in Int
      /\ Len(a) \in Nat /\ Len(b) \in Nat
  OBVIOUS
<1>1. CASE /\ \A i \in 1..Len(a) : i <= Len(b) => a[i] = b[i]
           /\ compareTuples(a, b) = Len(a) - Len(b)
  <2>1. ASSUME NEW i \in Nat PROVE ~GreaterAt(a, b, i)
    BY <1>0, <1>1 DEF GreaterAt
  <2>2. ASSUME compareTuples(a, b) > 0 PROVE Longer(a, b)
    <3>1. Len(a) > Len(b)
      BY <1>0, <1>1, <2>2
    <3> QED BY <1>0, <1>1, <3>1 DEF Longer
  <2>3. Longer(a, b) => compareTuples(a, b) > 0
    BY <1>0, <1>1 DEF Longer
  <2> QED BY <2>1, <2>2, <2>3
<1>2. ASSUME NEW i \in 1..Len(a), i <= Len(b), a[i] # b[i],
             \A j \in 1..(i - 1) : a[j] = b[j],
             compareTuples(a, b) = a[i] - b[i]
      PROVE  compareTuples(a, b) > 0 <=> Longer(a, b) \/ \E x \in Nat : GreaterAt(a, b, x)
  <2>0. i \in 1..Len(b) /\ a[i] \in Int /\ b[i] \in Int /\ i \in Nat
    BY <1>0, <1>2
  <2>1. ~Longer(a, b)
    BY <1>2, <2>0 DEF Longer
  <2>2. ASSUME NEW x \in Nat, GreaterAt(a, b, x) PROVE a[i] > b[i]
    <3>1. x = i
      BY <1>0, <1>2, <2>0, <2>2 DEF GreaterAt
    <3> QED BY <2>2, <3>1 DEF GreaterAt
  <2>3. a[i] > b[i] => GreaterAt(a, b, i)
    BY <1>2, <2>0 DEF GreaterAt
  <2> QED BY <1>2, <2>0, <2>1, <2>2, <2>3
<1> QED BY <1>1, <1>2, FirstDifference

(* The order is transitive.                                                *)
LEMMA CompareTuplesTransitive ==
    ASSUME NEW a \in Seq(Int), NEW b \in Seq(Int), NEW c \in Seq(Int),
           compareTuples(a, b) > 0, compareTuples(b, c) > 0
    PROVE  compareTuples(a, c) > 0
<1>0. /\ \A i \in 1..Len(a) : a[i] \in Int
      /\ \A i \in 1..Len(b) : b[i] \in Int
      /\ \A i \in 1..Len(c) : c[i] \in Int
      /\ Len(a) \in Nat /\ Len(b) \in Nat /\ Len(c) \in Nat
  OBVIOUS
<1> SUFFICES Longer(a, c) \/ \E i \in Nat : GreaterAt(a, c, i)
  BY GreaterTuple
<1>1. Longer(a, b) \/ \E i \in Nat : GreaterAt(a, b, i)
  BY GreaterTuple
<1>2. Longer(b, c) \/ \E i \in Nat : GreaterAt(b, c, i)
  BY GreaterTuple
<1>3. CASE Longer(a, b) /\ Longer(b, c)
  <2>1. Longer(a, c)
    BY <1>0, <1>3 DEF Longer
  <2> QED BY <2>1
<1>4. ASSUME NEW i \in Nat, GreaterAt(a, b, i), Longer(b, c)
      PROVE  Longer(a, c) \/ GreaterAt(a, c, i)
  <2>1. CASE i <= Len(c)
    <3>1. i \in 1..Len(c) /\ b[i] = c[i]
      BY <1>0, <1>4, <2>1 DEF GreaterAt, Longer
    <3>2. ASSUME NEW j \in 1..(i - 1) PROVE a[j] = c[j]
      <4>1. j \in 1..Len(c)
        BY <1>0, <2>1
      <4> QED BY <1>4, <4>1 DEF GreaterAt, Longer
    <3> QED BY <1>4, <3>1, <3>2 DEF GreaterAt
  <2>2. CASE i > Len(c)
    <3>1. Len(a) > Len(c)
      BY <1>0, <1>4, <2>2 DEF GreaterAt
    <3>2. ASSUME NEW j \in 1..Len(c) PROVE a[j] = c[j]
      <4>1. j \in 1..(i - 1)
        BY <1>0, <2>2
      <4> QED BY <1>4, <4>1 DEF GreaterAt, Longer
    <3> QED BY <3>1, <3>2 DEF Longer
  <2> QED BY <1>0, <2>1, <2>2
<1>5. ASSUME NEW i \in Nat, Longer(a, b), GreaterAt(b, c, i)
      PROVE  GreaterAt(a, c, i)
  <2>1. i \in 1..Len(a) /\ i \in 1..Len(b) /\ i \in 1..Len(c) /\ a[i] = b[i]
    BY <1>0, <1>5 DEF GreaterAt, Longer
  <2>2. ASSUME NEW j \in 1..(i - 1) PROVE a[j] = c[j]
    <3>1. j \in 1..Len(b)
      BY <1>0, <2>1
    <3> QED BY <1>5, <3>1 DEF GreaterAt, Longer
  <2> QED BY <1>5, <2>1, <2>2 DEF GreaterAt
<1>6. ASSUME NEW i \in Nat, NEW j \in Nat, GreaterAt(a, b, i), GreaterAt(b, c, j)
      PROVE  GreaterAt(a, c, i) \/ GreaterAt(a, c, j)
  <2>0. /\ i \in 1..Len(a) /\ i \in 1..Len(b) /\ j \in 1..Len(b) /\ j \in 1..Len(c)
        /\ a[i] > b[i] /\ b[j] > c[j]
        /\ a[i] \in Int /\ b[i] \in Int /\ b[j] \in Int /\ c[j] \in Int
    BY <1>0, <1>6 DEF GreaterAt
  <2>1. CASE i < j
    <3>1. i \in 1..(j - 1) /\ i \in 1..Len(c)
      BY <1>0, <2>0, <2>1
    <3>2. b[i] = c[i]
      BY <1>6, <3>1 DEF GreaterAt
    <3>3. ASSUME NEW x \in 1..(i - 1) PROVE a[x] = c[x]
      <4>1. x \in 1..(j - 1)
        BY <2>0, <2>1
      <4> QED BY <1>6, <4>1 DEF GreaterAt
    <3> QED BY <2>0, <3>1, <3>2, <3>3 DEF GreaterAt
  <2>2. CASE i = j
    <3>1. ASSUME NEW x \in 1..(i - 1) PROVE a[x] = c[x]
      BY <1>6, <2>2 DEF GreaterAt
    <3>2. a[i] > c[i]
      <4>1. c[i] \in Int /\ b[i] > c[i]
        BY <2>0, <2>2
      <4>2. a[i] \in Int /\ b[i] \in Int /\ a[i] > b[i]
        BY <2>0
      <4>3. \A x, y, z \in Int : x > y /\ y > z => x > z
        OBVIOUS
      <4> QED BY <4>1, <4>2, <4>3
    <3> QED BY <2>0, <2>2, <3>1, <3>2 DEF GreaterAt
  <2>3. CASE j < i
    <3>1. j \in 1..(i - 1) /\ j \in 1..Len(a)
      BY <1>0, <2>0, <2>3
    <3>2. a[j] = b[j]
      BY <1>6, <3>1 DEF GreaterAt
    <3>3. ASSUME NEW x \in 1..(j - 1) PROVE a[x] = c[x]
      <4>1. x \in 1..(i - 1)
        BY <2>0, <2>3
      <4> QED BY <1>6, <4>1 DEF GreaterAt
    <3> QED BY <2>0, <3>1, <3>2, <3>3 DEF GreaterAt
  <2> QED BY <2>1, <2>2, <2>3
<1> QED BY <1>1, <1>2, <1>3, <1>4, <1>5, <1>6

-----------------------------------------------------------------------------
(* The policies.                                                           *)

(* Ops of one record.                                                      *)
SameRecord(a, b) == a \in Op /\ b \in Op /\ KeyOf[a] = KeyOf[b]

(* What Wins says under each policy.                                       *)
LEMMA WinsCharacterized ==
    ASSUME NEW a, NEW b, SameRecord(a, b)
    PROVE  /\ Policy[KeyOf[a]] \in PolicyKind
           /\ Policy[KeyOf[a]] = "lww" =>
                (Wins(a, b) <=> /\ Hlc[a] # NoStamp
                                /\ \/ Hlc[a] > Hlc[b]
                                   \/ Hlc[a] = Hlc[b] /\ Digest[a] > Digest[b])
           /\ Policy[KeyOf[a]] = "monotonic" =>
                (Wins(a, b) <=> /\ a \notin Unreadable
                                /\ \/ b \in Unreadable
                                   \/ compareTuples(Version[a], Version[b]) > 0
                                   \/ /\ compareTuples(Version[a], Version[b]) = 0
                                      /\ Digest[a] > Digest[b])
           /\ Policy[KeyOf[a]] = "immutable" => (Wins(a, b) <=> Digest[a] > Digest[b])
<1>1. /\ Hlc[a] \in Nat \cup {-1} /\ Hlc[b] \in Nat \cup {-1}
      /\ Digest[a] \in Nat /\ Digest[b] \in Nat
      /\ Version[a] \in Seq(Int) /\ Version[b] \in Seq(Int)
      /\ KeyOf[a] \in Key
  BY OpAssumption DEF SameRecord, NoStamp
<1>2. Policy[KeyOf[a]] \in PolicyKind
  BY <1>1, OpAssumption
<1>3. /\ compareTuples(Version[a], Version[b]) \in Int
      /\ compareTuples(Version[a], Version[a]) = 0
  BY <1>1, CompareTuplesAntisymmetric
<1>4. CASE a = b
  <2>1. ~Wins(a, b)
    BY <1>4 DEF Wins, compareRecordOps
  <2>2. compareTuples(Version[a], Version[b]) = 0
    BY <1>3, <1>4
  <2> QED BY <1>1, <1>2, <1>4, <2>1, <2>2
<1>5. CASE a # b /\ Policy[KeyOf[a]] = "lww"
  <2>1. compareRecordOps(a, b) = compareLWW(a, b)
    BY <1>5 DEF compareRecordOps
  <2>2. compareLWW(a, b) # "fork"
    BY DEF compareLWW, byContentDigest
  <2>3. compareLWW(a, b) = "apply" <=>
          /\ Hlc[a] # NoStamp
          /\ \/ Hlc[a] > Hlc[b]
             \/ Hlc[a] = Hlc[b] /\ Digest[a] > Digest[b]
    BY <1>1 DEF compareLWW, byContentDigest, NoStamp
  <2> QED BY <1>2, <1>5, <2>1, <2>2, <2>3 DEF Wins
<1>6. CASE a # b /\ Policy[KeyOf[a]] = "monotonic"
  <2>1. compareRecordOps(a, b) = compareMonotonic(a, b)
    BY <1>6 DEF compareRecordOps
  <2> DEFINE order == compareTuples(Version[a], Version[b])
  <2>2. order \in Int
    BY <1>3
  <2>3. compareMonotonic(a, b) =
          CASE a \in Unreadable -> "reject"
            [] a \notin Unreadable /\ b \in Unreadable -> "apply"
            [] OTHER -> IF order # 0
                        THEN IF order > 0 THEN "apply" ELSE "noop"
                        ELSE IF KeyOf[a] \in Forks THEN "fork" ELSE byContentDigest(a, b)
    BY DEF compareMonotonic
  <2> HIDE DEF order
  <2>4. CASE a \in Unreadable \/ b \in Unreadable
    BY <1>2, <1>6, <2>1, <2>3, <2>4 DEF Wins, order
  <2>5. CASE a \notin Unreadable /\ b \notin Unreadable /\ order # 0
    <3>1. compareRecordOps(a, b) = IF order > 0 THEN "apply" ELSE "noop"
      BY <2>1, <2>3, <2>5
    <3> QED BY <1>2, <1>6, <2>2, <2>5, <3>1 DEF Wins, order
  <2>6. CASE a \notin Unreadable /\ b \notin Unreadable /\ order = 0
    <3>1. compareRecordOps(a, b) = IF KeyOf[a] \in Forks THEN "fork" ELSE byContentDigest(a, b)
      BY <2>1, <2>3, <2>6
    <3>2. Wins(a, b) <=> Digest[a] > Digest[b]
      BY <3>1 DEF Wins, byContentDigest
    <3> QED BY <1>2, <1>6, <2>2, <2>6, <3>2 DEF order
  <2> QED BY <2>4, <2>5, <2>6
<1>7. CASE a # b /\ Policy[KeyOf[a]] = "immutable"
  <2>1. compareRecordOps(a, b) = byContentDigest(a, b)
    BY <1>7 DEF compareRecordOps
  <2> QED BY <1>2, <1>7, <2>1 DEF Wins, byContentDigest
<1> QED BY <1>2, <1>4, <1>5, <1>6, <1>7 DEF PolicyKind

(* No op replaces itself, nor another copy of its own decision.            *)
THEOREM WinsIrreflexive ==
    ASSUME NEW a \in Op, NEW b \in Op, Digest[a] = Digest[b]
    PROVE  ~Wins(a, b)
<1>1. SameRecord(a, b)
  BY DigestAssumption DEF SameRecord
<1>2. /\ Hlc[a] = Hlc[b] /\ Version[a] = Version[b] /\ (a \in Unreadable <=> b \in Unreadable)
      /\ Hlc[a] \in Nat \cup {-1} /\ Digest[a] \in Nat /\ Version[a] \in Seq(Int)
  BY DigestAssumption, OpAssumption DEF NoStamp
<1>3. compareTuples(Version[a], Version[b]) = 0
  <2>1. Version[b] \in Seq(Int)
    BY <1>2
  <2> QED BY <1>2, <2>1, CompareTuplesAntisymmetric
<1>4. CASE Policy[KeyOf[a]] = "lww"
  BY <1>1, <1>2, <1>4, WinsCharacterized
<1>5. CASE Policy[KeyOf[a]] = "monotonic"
  BY <1>1, <1>2, <1>3, <1>5, WinsCharacterized
<1>6. CASE Policy[KeyOf[a]] = "immutable"
  BY <1>1, <1>2, <1>6, WinsCharacterized
<1> QED BY <1>1, <1>4, <1>5, <1>6, WinsCharacterized DEF PolicyKind

(* Replacing is transitive under every policy: a chain of replacements can *)
(* never come back to an op it left.                                       *)
THEOREM WinsTransitive ==
    ASSUME NEW a, NEW b, NEW c, SameRecord(a, b), SameRecord(b, c),
           Wins(a, b), Wins(b, c)
    PROVE  Wins(a, c)
<1>1. /\ Hlc[a] \in Nat \cup {-1} /\ Hlc[b] \in Nat \cup {-1} /\ Hlc[c] \in Nat \cup {-1}
      /\ Digest[a] \in Nat /\ Digest[b] \in Nat /\ Digest[c] \in Nat
      /\ Version[a] \in Seq(Int) /\ Version[b] \in Seq(Int) /\ Version[c] \in Seq(Int)
  BY OpAssumption DEF SameRecord, NoStamp
<1>2. SameRecord(a, c) /\ KeyOf[b] = KeyOf[a]
  BY DEF SameRecord
<1>3. CASE Policy[KeyOf[a]] = "lww"
  <2>1. /\ Hlc[a] # NoStamp
        /\ Hlc[a] > Hlc[b] \/ (Hlc[a] = Hlc[b] /\ Digest[a] > Digest[b])
    BY <1>3, WinsCharacterized
  <2>2. Hlc[b] > Hlc[c] \/ (Hlc[b] = Hlc[c] /\ Digest[b] > Digest[c])
    BY <1>2, <1>3, WinsCharacterized
  <2>3. Hlc[a] > Hlc[c] \/ (Hlc[a] = Hlc[c] /\ Digest[a] > Digest[c])
    BY <1>1, <2>1, <2>2
  <2> QED BY <1>2, <1>3, <2>1, <2>3, WinsCharacterized
<1>4. CASE Policy[KeyOf[a]] = "monotonic"
  <2> DEFINE ab == compareTuples(Version[a], Version[b])
             bc == compareTuples(Version[b], Version[c])
             ac == compareTuples(Version[a], Version[c])
  <2>1. /\ ab \in Int /\ bc \in Int /\ ac \in Int
        /\ ab = 0 => Version[a] = Version[b]
        /\ bc = 0 => Version[b] = Version[c]
        /\ Version[a] = Version[c] => ac = 0
    BY <1>1, CompareTuplesAntisymmetric
  <2>2. ab > 0 /\ bc > 0 => ac > 0
    BY <1>1, CompareTuplesTransitive
  <2>3. /\ a \notin Unreadable /\ b \notin Unreadable
        /\ ab > 0 \/ (ab = 0 /\ Digest[a] > Digest[b])
        /\ c \in Unreadable \/ bc > 0 \/ (bc = 0 /\ Digest[b] > Digest[c])
    BY <1>2, <1>4, WinsCharacterized
  <2>4. c \in Unreadable \/ ac > 0 \/ (ac = 0 /\ Digest[a] > Digest[c])
    <3>1. CASE c \in Unreadable
      BY <3>1
    <3>2. CASE ab > 0 /\ bc > 0
      BY <2>2, <3>2
    <3>3. CASE ab = 0 /\ bc > 0
      BY <2>1, <3>3
    <3>4. CASE ab > 0 /\ bc = 0
      BY <2>1, <3>4
    <3>5. CASE ab = 0 /\ bc = 0 /\ Digest[a] > Digest[b] /\ Digest[b] > Digest[c]
      <4> Version[a] = Version[c] /\ ac = 0
        BY <2>1, <3>5
      <4> HIDE DEF ac
      <4> QED BY <1>1, <3>5
    <3> HIDE DEF ab, bc, ac
    <3> QED BY <2>3, <3>1, <3>2, <3>3, <3>4, <3>5
  <2> HIDE DEF ab, bc
  <2> QED BY <1>2, <1>4, <2>3, <2>4, WinsCharacterized
<1>5. CASE Policy[KeyOf[a]] = "immutable"
  BY <1>1, <1>2, <1>5, WinsCharacterized
<1> QED BY <1>2, <1>3, <1>4, <1>5, WinsCharacterized DEF PolicyKind

(* Of two ops of a record that the policy can order, with different        *)
(* contents, one replaces the other: no tie is left to arrival order.      *)
THEOREM WinsTotal ==
    ASSUME NEW a, NEW b, SameRecord(a, b), Digest[a] # Digest[b],
           admitFirstWrite(a), admitFirstWrite(b)
    PROVE  Wins(a, b) \/ Wins(b, a)
<1>1. /\ Hlc[a] \in Nat \cup {-1} /\ Hlc[b] \in Nat \cup {-1}
      /\ Digest[a] \in Nat /\ Digest[b] \in Nat
      /\ Version[a] \in Seq(Int) /\ Version[b] \in Seq(Int)
  BY OpAssumption DEF SameRecord, NoStamp
<1>2. SameRecord(b, a) /\ KeyOf[b] = KeyOf[a]
  BY DEF SameRecord
<1>3. CASE Policy[KeyOf[a]] = "lww"
  <2>1. Hlc[a] # NoStamp /\ Hlc[b] # NoStamp
    BY <1>2, <1>3 DEF admitFirstWrite
  <2> QED BY <1>1, <1>2, <1>3, <2>1, WinsCharacterized
<1>4. CASE Policy[KeyOf[a]] = "monotonic"
  <2> DEFINE ab == compareTuples(Version[a], Version[b])
             ba == compareTuples(Version[b], Version[a])
  <2>1. a \notin Unreadable /\ b \notin Unreadable
    BY <1>2, <1>4 DEF admitFirstWrite
  <2>2. /\ ab \in Int /\ ba \in Int /\ (ba > 0 <=> ab < 0)
        /\ (ab = 0 => ba = 0)
    BY <1>1, CompareTuplesAntisymmetric
  <2>3. Wins(a, b) <=> ab > 0 \/ (ab = 0 /\ Digest[a] > Digest[b])
    BY <1>4, <2>1, WinsCharacterized DEF SameRecord
  <2>4. Wins(b, a) <=> ba > 0 \/ (ba = 0 /\ Digest[b] > Digest[a])
    BY <1>2, <1>4, <2>1, WinsCharacterized DEF SameRecord
  <2> HIDE DEF ab, ba
  <2> QED BY <1>1, <2>2, <2>3, <2>4
<1>5. CASE Policy[KeyOf[a]] = "immutable"
  BY <1>1, <1>2, <1>5, WinsCharacterized
<1> QED BY <1>3, <1>4, <1>5, WinsCharacterized DEF PolicyKind

-----------------------------------------------------------------------------
(* The bookkeeping of a call: what it holds between steps.                 *)

(* Outside a transaction its private state is empty; outside a call so is  *)
(* the list of applied ops.                                                *)
Quiet(s) ==
    /\ pc[s] # "tx" => /\ pending[s] = <<>> /\ parked[s] = <<>>
                       /\ \A k \in Key : del[s][k] = {} /\ ins[s][k] = {}
    /\ pc[s] \notin {"tx", "receive"} => applied[s] = {}

(* Whatever a call still handles or has applied is one of its candidates.  *)
FromActive(s) ==
    /\ Elems(pending[s]) \subseteq Elems(active[s])
    /\ Elems(parked[s]) \subseteq Elems(active[s])
    /\ applied[s] \subseteq Elems(active[s])

(* Candidates passed the screening, at an earlier wall clock.              *)
Stamped(s) ==
    \A o \in Elems(active[s]) : /\ Hlc[o] \in Nat /\ Hlc[o] <= now + MaxDrift
                                /\ o \in Signed /\ o \in Admissible

(* The attempts left always exceed the refusals and retries that can come. *)
Budgeted(s) ==
    /\ pc[s] \in {"prefetch", "begin", "tx"} =>
        /\ retries[s] < SourceAttempts
        /\ attempts[s] + Len(active[s]) + (SourceAttempts - retries[s]) <= limit[s]
    /\ pc[s] = "idle" => attempts[s] = 0 /\ retries[s] = 0

SessionInv(s) == Quiet(s) /\ FromActive(s) /\ Stamped(s) /\ Budgeted(s)

CallInv ==
    /\ TypeOK
    /\ \A s \in Session : SessionInv(s)
    /\ LoopNeverExhausted
    /\ ClockBounded

(* The elements of a sequence, and of its tail and extensions.             *)
LEMMA RangeFacts ==
    ASSUME NEW S, NEW q \in Seq(S)
    PROVE  /\ Elems(q) \subseteq S
           /\ q # <<>> => /\ Head(q) \in Elems(q) /\ Tail(q) \in Seq(S)
                          /\ Elems(Tail(q)) \subseteq Elems(q)
           /\ \A e \in S : Append(q, e) \in Seq(S) /\ Elems(Append(q, e)) \subseteq Elems(q) \cup {e}
           /\ Elems(<<>>) = {}
<1>1. Elems(q) \subseteq S /\ Elems(<<>>) = {}
  BY DEF Elems
<1>2. ASSUME q # <<>>
      PROVE  Head(q) \in Elems(q) /\ Tail(q) \in Seq(S) /\ Elems(Tail(q)) \subseteq Elems(q)
  BY <1>2 DEF Elems
<1>3. ASSUME NEW e \in S
      PROVE  Append(q, e) \in Seq(S) /\ Elems(Append(q, e)) \subseteq Elems(q) \cup {e}
  BY DEF Elems
<1> QED BY <1>1, <1>2, <1>3

(* Screening and sorting yield a sequence of the chunk's screened ops.     *)
LEMMA SubmitActive ==
    ASSUME TypeOK, NEW s \in Session, NEW chunk \in Chunk, Submit(s, chunk)
    PROVE  /\ active'[s] \in Seq(Op)
           /\ limit'[s] = Len(active'[s]) + SourceAttempts
           /\ \A o \in Elems(active'[s]) : Screened(o)
           /\ active' = [active EXCEPT ![s] = active'[s]]
<1> DEFINE passed == {i \in DOMAIN chunk : Screened(chunk[i])}
           count == Cardinality(passed)
<1>1. chunk \in Seq(Op)
  BY ApplyAssumption
<1>2. count \in Nat
  <2>1. IsFiniteSet(1..Len(chunk))
    BY <1>1, FS_Interval, 1 \in Int, Len(chunk) \in Int
  <2>2. passed \in SUBSET (1..Len(chunk))
    BY <1>1
  <2> QED BY <2>1, <2>2, FS_Subset, FS_CardinalityType
<1>3. PICK sorted \in [1..count -> passed] :
          active' = [active EXCEPT ![s] = [i \in 1..count |-> chunk[sorted[i]]]]
  BY DEF Submit
<1>4. limit' = [limit EXCEPT ![s] = count + SourceAttempts]
  BY DEF Submit
<1>5. \A i \in 1..count : chunk[sorted[i]] \in Op /\ Screened(chunk[sorted[i]])
  BY <1>1
<1> HIDE DEF count, passed
<1>6. active'[s] = [i \in 1..count |-> chunk[sorted[i]]] /\ limit'[s] = count + SourceAttempts
  BY <1>3, <1>4 DEF TypeOK
<1>7. active'[s] \in Seq(Op) /\ Len(active'[s]) = count
  BY <1>2, <1>5, <1>6
<1>8. \A o \in Elems(active'[s]) : Screened(o)
  BY <1>5, <1>6 DEF Elems
<1>9. active' = [active EXCEPT ![s] = active'[s]]
  BY <1>3, <1>6
<1> QED BY <1>6, <1>7, <1>8, <1>9

(* A clock that receives stamps ends at the greatest of them.              *)
LEMMA GreatestStamp ==
    ASSUME NEW T \in SUBSET Nat, NEW b \in Nat, T # {}, \A t \in T : t <= b
    PROVE  \E t \in T : \A u \in T : u <= t
<1> DEFINE D == {b - t : t \in T}
<1>0. \A t \in T : b - t \in Nat
  OBVIOUS
<1>1. D \in SUBSET Nat /\ D # {}
  <2>1. \A x \in D : x \in Nat
    BY <1>0
  <2>2. PICK t \in T : TRUE
    OBVIOUS
  <2>3. b - t \in D
    BY <2>2
  <2> QED BY <2>1, <2>3
<1>2. PICK d \in D : \A e \in D : d <= e
  BY <1>1, LeastNatural
<1>3. PICK t \in T : d = b - t
  OBVIOUS
<1>4. \A u \in T : b - u \in D
  OBVIOUS
<1>5. \A u \in T : u <= t
  <2> HIDE DEF D
  <2> QED BY <1>2, <1>3, <1>4
<1> QED BY <1>5

-----------------------------------------------------------------------------
(* The initial state.                                                      *)
LEMMA InitCallInv == Init => CallInv
<1> SUFFICES ASSUME Init PROVE CallInv
  OBVIOUS
<1>1. rows \in [Peer -> [Key -> SUBSET Op]] /\ judged \in [Peer -> SUBSET Op]
  BY ApplyAssumption DEF Init
<1>2. proj \in [Peer -> [Key -> Op \cup {NoRow}]]
  <2>1. ASSUME NEW k \in Key
        PROVE  (IF \E o \in Seed : KeyOf[o] = k
                THEN CHOOSE o \in Seed : KeyOf[o] = k ELSE NoRow) \in Op \cup {NoRow}
    BY ApplyAssumption
  <2> QED BY <2>1 DEF Init
<1>3. TypeOK
  BY <1>1, <1>2, ApplyAssumption DEF Init, TypeOK
<1>4. \A s \in Session : SessionInv(s)
  BY DEF Init, SessionInv, Quiet, FromActive, Stamped, Budgeted, Elems
<1>5. LoopNeverExhausted /\ ClockBounded
  BY ApplyAssumption DEF Init, LoopNeverExhausted, ClockBounded
<1> QED BY <1>3, <1>4, <1>5 DEF CallInv

-----------------------------------------------------------------------------
(* Type correctness, action by action.                                     *)

(* The helpers that drop private state leave it well formed.               *)
LEMMA ClearTxType ==
    ASSUME TypeOK, NEW s \in Session, ClearTx(s)
    PROVE  /\ del' \in [Session -> [Key -> SUBSET Op]]
           /\ ins' \in [Session -> [Key -> SUBSET Op]]
           /\ projBuf' \in [Session -> [Key -> Op \cup {NoRow, Keep}]]
           /\ revsBuf' \in [Session -> SUBSET (Lock \X Did)]
           /\ judgedBuf' \in [Session -> SUBSET Op]
           /\ verified' \in [Session -> [Key -> SUBSET Op]]
           /\ listed' \in [Session -> [Key -> SUBSET Op]]
           /\ checkedPrior' \in [Session -> SUBSET Key]
           /\ pending' \in [Session -> Seq(Op)]
           /\ parked' \in [Session -> Seq(Op)]
           /\ stored' \in [Session -> BOOLEAN]
BY DEF TypeOK, ClearTx

(* The locals a call leaves behind are well formed.                        *)
LEMMA EndCallType ==
    ASSUME TypeOK, NEW s \in Session, EndCall(s)
    PROVE  /\ pc' \in [Session -> {"idle", "prefetch", "begin", "tx", "receive", "exhausted"}]
           /\ active' \in [Session -> Seq(Op)]
           /\ limit' \in [Session -> Nat]
           /\ attempts' \in [Session -> Nat]
           /\ retries' \in [Session -> Nat]
           /\ expected' \in [Session -> [Op -> SUBSET Lock]]
BY DEF TypeOK, EndCall

(* So are the counters of the next attempt.                                *)
LEMMA NextAttemptType ==
    ASSUME TypeOK, NEW s \in Session, NextAttempt(s)
    PROVE  /\ attempts' \in [Session -> Nat]
           /\ pc' \in [Session -> {"idle", "prefetch", "begin", "tx", "receive", "exhausted"}]
<1>1. attempts' \in [Session -> Nat]
  BY DEF TypeOK, NextAttempt
<1>2. pc' \in [Session -> {"idle", "prefetch", "begin", "tx", "receive", "exhausted"}]
  BY DEF TypeOK, NextAttempt
<1> QED BY <1>1, <1>2

(* What a session sees is made of ops, rows and denied DIDs.               *)
LEMMA ViewType ==
    ASSUME TypeOK, NEW s \in Session
    PROVE  /\ PeerOf[s] \in Peer
           /\ \A k \in Key : /\ View(s, k) \in SUBSET Op
                             /\ ProjView(s, k) \in Op \cup {NoRow}
           /\ RevsView(s) \in SUBSET (Lock \X Did)
<1>1. PeerOf[s] \in Peer
  BY ApplyAssumption
<1>2. \A k \in Key : View(s, k) \in SUBSET Op
  BY <1>1 DEF TypeOK, View
<1>3. \A k \in Key : ProjView(s, k) \in Op \cup {NoRow}
  BY <1>1 DEF TypeOK, ProjView
<1>4. RevsView(s) \in SUBSET (Lock \X Did)
  BY <1>1 DEF TypeOK, RevsView
<1> QED BY <1>1, <1>2, <1>3, <1>4

(* The candidate of a pass is an op, and moving past it keeps a sequence.  *)
LEMMA CandidateType ==
    ASSUME TypeOK, NEW s \in Session, InPass(s)
    PROVE  /\ Candidate(s) \in Op /\ KeyOf[Candidate(s)] \in Key
           /\ Candidate(s) \in Elems(pending[s])
           /\ Tail(pending[s]) \in Seq(Op)
           /\ Elems(Tail(pending[s])) \subseteq Elems(pending[s])
<1>1. pending[s] \in Seq(Op) /\ pending[s] # <<>>
  BY DEF TypeOK, InPass
<1>2. /\ Candidate(s) \in Elems(pending[s]) /\ Elems(pending[s]) \subseteq Op
      /\ Tail(pending[s]) \in Seq(Op) /\ Elems(Tail(pending[s])) \subseteq Elems(pending[s])
  BY <1>1, RangeFacts DEF Candidate
<1>3. Candidate(s) \in Op
  BY <1>2
<1> QED BY <1>2, <1>3, OpAssumption

(* Submit keeps the types.                                                 *)
LEMMA SubmitTypeOK ==
    ASSUME TypeOK, NEW s \in Session, NEW chunk \in Chunk, Submit(s, chunk)
    PROVE  TypeOK'
<1>1. active'[s] \in Seq(Op) /\ active' = [active EXCEPT ![s] = active'[s]]
  BY SubmitActive
<1>2. active' \in [Session -> Seq(Op)]
  BY <1>1 DEF TypeOK
<1>3. Len(active'[s]) \in Nat /\ limit'[s] \in Nat
  BY <1>1, SubmitActive, ApplyAssumption
<1>4. limit' \in [Session -> Nat]
  BY <1>3 DEF Submit, TypeOK
<1>5. sent' \in [Session -> Nat]
  BY DEF Submit, TypeOK
<1> QED BY <1>2, <1>4, <1>5 DEF Submit, TypeOK, committed, cache, buffers, progress

(* Prefetch keeps the types.                                               *)
LEMMA PrefetchTypeOK ==
    ASSUME TypeOK, NEW s \in Session, Prefetch(s)
    PROVE  TypeOK'
<1>1. PeerOf[s] \in Peer
  BY ApplyAssumption
<1>2. ASSUME NEW o \in Op
      PROVE  lockKeys(o, rows[PeerOf[s]][KeyOf[o]]) \in SUBSET Lock
  <2>1. KeyOf[o] \in Key /\ \A c \in Op : LockOf[c] \in Lock
    BY ApplyAssumption, OpAssumption
  <2>2. rows[PeerOf[s]][KeyOf[o]] \in SUBSET Op
    BY <1>1, <2>1 DEF TypeOK
  <2> QED BY <2>1, <2>2 DEF lockKeys
<1>3. expected' \in [Session -> [Op -> SUBSET Lock]]
  BY <1>2 DEF Prefetch, TypeOK
<1> QED BY <1>3 DEF Prefetch, TypeOK, committed, cache, buffers, progress

(* Begin keeps the types.                                                  *)
LEMMA BeginTypeOK ==
    ASSUME TypeOK, NEW s \in Session, Begin(s)
    PROVE  TypeOK'
<1>1. PeerOf[s] \in Peer
  BY ApplyAssumption
<1> QED BY <1>1 DEF Begin, TypeOK, committed, call, buffers

(* SourceChanged keeps the types.                                          *)
LEMMA SourceChangedTypeOK ==
    ASSUME TypeOK, NEW s \in Session, SourceChanged(s)
    PROVE  TypeOK'
<1>1. CASE retries[s] + 1 >= SourceAttempts
  <2>1. EndCall(s)
    BY <1>1 DEF SourceChanged
  <2> QED BY <2>1, EndCallType DEF SourceChanged, TypeOK, committed, cache, buffers, progress
<1>2. CASE ~(retries[s] + 1 >= SourceAttempts)
  <2>1. NextAttempt(s) /\ retries' = [retries EXCEPT ![s] = @ + 1]
    BY <1>2 DEF SourceChanged
  <2>2. retries' \in [Session -> Nat]
    BY <2>1 DEF TypeOK
  <2> QED BY <1>2, <2>1, <2>2, NextAttemptType
             DEF SourceChanged, TypeOK, committed, cache, buffers, progress
<1> QED BY <1>1, <1>2

(* The outcomes that store nothing keep the types.                         *)
LEMMA SkipTypeOK ==
    ASSUME TypeOK, NEW s \in Session, Replay(s) \/ Park(s) \/ Reject(s) \/ Lose(s)
    PROVE  TypeOK'
<1>1. InPass(s) /\ Skip(s)
  BY DEF Replay, Park, Reject, Lose
<1>2. Candidate(s) \in Op /\ Tail(pending[s]) \in Seq(Op)
  BY <1>1, CandidateType
<1>3. parked' \in [Session -> Seq(Op)]
  <2>1. parked' = parked \/ parked' = [parked EXCEPT ![s] = Append(@, Candidate(s))]
    BY DEF Replay, Park, Reject, Lose
  <2>2. Append(parked[s], Candidate(s)) \in Seq(Op)
    BY <1>2 DEF TypeOK
  <2> QED BY <2>1, <2>2 DEF TypeOK
<1>4. judgedBuf' \in [Session -> SUBSET Op]
  <2>1. judgedBuf' = judgedBuf \/ judgedBuf' = [judgedBuf EXCEPT ![s] = @ \cup {Candidate(s)}]
    BY DEF Replay, Park, Reject, Lose
  <2>2. judgedBuf[s] \cup {Candidate(s)} \in SUBSET Op
    BY <1>2 DEF TypeOK
  <2> QED BY <2>1, <2>2 DEF TypeOK
<1> QED BY <1>1, <1>2, <1>3, <1>4 DEF Skip, TypeOK, committed, call, cache

(* Dropping a candidate shortens the sequence and adds nothing to it.      *)
LEMMA WithoutType ==
    ASSUME NEW q \in Seq(Op), NEW o \in Elems(q)
    PROVE  /\ Without(q, o) \in Seq(Op)
           /\ Len(Without(q, o)) = Len(q) - 1
           /\ Elems(Without(q, o)) \subseteq Elems(q)
<1>1. Len(q) - 1 \in Nat
  BY DEF Elems
<1> DEFINE first == CHOOSE i \in DOMAIN q : q[i] = o /\ \A j \in 1..(i - 1) : q[j] # o
           At(i) == IF i < first THEN q[i] ELSE q[i + 1]
<1>2. Without(q, o) = [i \in 1..(Len(q) - 1) |-> At(i)]
  BY DEF Without
<1>3. \A i \in 1..(Len(q) - 1) : i \in DOMAIN q /\ i + 1 \in DOMAIN q
  BY <1>1
<1>4. \A i \in 1..(Len(q) - 1) : At(i) \in Op /\ At(i) \in Elems(q)
  BY <1>3 DEF Elems
<1> HIDE DEF At
<1> QED BY <1>1, <1>2, <1>4 DEF Elems

(* RefuseContent keeps the types.                                          *)
LEMMA RefuseContentTypeOK ==
    ASSUME TypeOK, NEW s \in Session, FromActive(s), RefuseContent(s)
    PROVE  TypeOK'
<1>1. Candidate(s) \in Elems(active[s]) /\ active[s] \in Seq(Op)
  BY CandidateType DEF RefuseContent, FromActive, TypeOK
<1>2. Without(active[s], Candidate(s)) \in Seq(Op)
  BY <1>1, WithoutType
<1>3. active' \in [Session -> Seq(Op)]
  BY <1>2 DEF RefuseContent, TypeOK
<1>4. ClearTx(s) /\ NextAttempt(s)
  BY DEF RefuseContent
<1>5. applied' \in [Session -> SUBSET Op]
  BY DEF RefuseContent, TypeOK
<1> QED BY <1>3, <1>4, <1>5, ClearTxType, NextAttemptType DEF RefuseContent, TypeOK, committed

(* Writing a record's rows keeps the transaction's buffers well formed.    *)
LEMMA WriteCopiesType ==
    ASSUME TypeOK, NEW s \in Session, NEW k \in Key, NEW copies \in SUBSET Op,
           WriteCopies(s, k, copies)
    PROVE  /\ del' \in [Session -> [Key -> SUBSET Op]]
           /\ ins' \in [Session -> [Key -> SUBSET Op]]
<1> DEFINE gone == View(s, k) \ copies
<1>1. View(s, k) \in SUBSET Op /\ gone \in SUBSET Op
  BY ViewType
<1>2. /\ del' = [del EXCEPT ![s][k] = @ \cup gone]
      /\ ins' = [ins EXCEPT ![s][k] = (@ \ gone) \cup (copies \ View(s, k))]
  BY DEF WriteCopies
<1> HIDE DEF gone
<1>3. del[s][k] \cup gone \in SUBSET Op
  BY <1>1 DEF TypeOK
<1>4. (ins[s][k] \ gone) \cup (copies \ View(s, k)) \in SUBSET Op
  BY <1>1 DEF TypeOK
<1>5. del' \in [Session -> [Key -> SUBSET Op]]
  BY <1>2, <1>3 DEF TypeOK
<1>6. ins' \in [Session -> [Key -> SUBSET Op]]
  BY <1>2, <1>4 DEF TypeOK
<1> QED BY <1>5, <1>6

(* The bookkeeping that follows every stored candidate.                    *)
LEMMA StoreType ==
    ASSUME TypeOK, NEW s \in Session, InPass(s), Store(s)
    PROVE  /\ pending' \in [Session -> Seq(Op)]
           /\ applied' \in [Session -> SUBSET Op]
           /\ stored' \in [Session -> BOOLEAN]
           /\ judgedBuf' \in [Session -> SUBSET Op]
           /\ checkedPrior' \in [Session -> SUBSET Key]
<1>1. /\ Candidate(s) \in Op /\ KeyOf[Candidate(s)] \in Key
      /\ Tail(pending[s]) \in Seq(Op)
  BY CandidateType
<1> DEFINE o == Candidate(s)
<1> HIDE DEF o
<1>2. pending' \in [Session -> Seq(Op)]
  BY <1>1 DEF Store, TypeOK
<1>3. applied' \in [Session -> SUBSET Op]
  <2>1. applied[s] \cup {Candidate(s)} \in SUBSET Op
    BY <1>1 DEF TypeOK
  <2> QED BY <2>1 DEF Store, TypeOK
<1>4. stored' \in [Session -> BOOLEAN]
  BY DEF Store, TypeOK
<1>5. judgedBuf' \in [Session -> SUBSET Op]
  <2>1. judgedBuf[s] \cup {Candidate(s)} \in SUBSET Op
    BY <1>1 DEF TypeOK
  <2> QED BY <2>1 DEF Store, TypeOK
<1>6. checkedPrior' \in [Session -> SUBSET Key]
  <2>1. checkedPrior[s] \cup {KeyOf[Candidate(s)]} \in SUBSET Key
    BY <1>1 DEF TypeOK
  <2> QED BY <2>1 DEF Store, TypeOK
<1> QED BY <1>2, <1>3, <1>4, <1>5, <1>6

(* What putCopy, pruneCopy and rememberCopy leave are ops.                 *)
LEMMA CopiesType ==
    ASSUME NEW o \in Op, NEW prior \in SUBSET Op, NEW issuers
    PROVE  /\ putCopy(o, prior) \in SUBSET Op
           /\ rememberCopy(o, prior) \in SUBSET Op
           /\ pruneCopies(prior, issuers) \in SUBSET Op
BY DEF putCopy, rememberCopy, pruneCopies

(* AddCopy keeps the types.                                                *)
LEMMA AddCopyTypeOK ==
    ASSUME TypeOK, NEW s \in Session, AddCopy(s)
    PROVE  TypeOK'
<1> DEFINE o == Candidate(s)
           k == KeyOf[o]
           pruned == Pruned(s, o)
           held == rememberCopy(o, pruneCopies(verified[s][k], pruned))
           copies == pruneCopies(putCopy(o, View(s, k)), pruned)
<1>1. /\ InPass(s) /\ Store(s) /\ WriteCopies(s, k, copies)
      /\ verified' = [verified EXCEPT ![s][k] = held]
      /\ listed' = [listed EXCEPT ![s][k] = IF o \in held THEN held ELSE @]
      /\ UNCHANGED <<projBuf, revsBuf>>
  BY DEF AddCopy
<1>2. o \in Op /\ k \in Key
  BY <1>1, CandidateType
<1>3. View(s, k) \in SUBSET Op /\ verified[s][k] \in SUBSET Op
  <2> HIDE DEF o, k, pruned
  <2>1. View(s, k) \in SUBSET Op
    BY <1>2, ViewType
  <2>2. verified[s][k] \in SUBSET Op
    BY <1>2 DEF TypeOK
  <2> QED BY <2>1, <2>2
<1>4. copies \in SUBSET Op /\ held \in SUBSET Op
  <2> HIDE DEF o, k, pruned
  <2> QED BY <1>2, <1>3, CopiesType
<1> HIDE DEF o, k, held, copies
<1>5. /\ del' \in [Session -> [Key -> SUBSET Op]]
      /\ ins' \in [Session -> [Key -> SUBSET Op]]
  BY <1>1, <1>2, <1>4, WriteCopiesType
<1>6. verified' \in [Session -> [Key -> SUBSET Op]]
  BY <1>1, <1>2, <1>4 DEF TypeOK
<1>7. listed' \in [Session -> [Key -> SUBSET Op]]
  BY <1>1, <1>2, <1>4 DEF TypeOK
<1>8. UNCHANGED <<committed, clock, auth, now, pc, sent, call, parked>>
  BY <1>1 DEF Store
<1> QED BY <1>1, <1>5, <1>6, <1>7, <1>8, StoreType DEF TypeOK, committed, call

(* Win keeps the types.                                                    *)
LEMMA WinTypeOK ==
    ASSUME TypeOK, NEW s \in Session, Win(s)
    PROVE  TypeOK'
<1> DEFINE o == Candidate(s)
           k == KeyOf[o]
           row(j) == IF Suppressed(s, o, j) THEN NoRow
                     ELSE IF j = k /\ TypeOf[k] # "revocation" THEN projection(o)
                     ELSE projBuf[s][j]
<1>1. /\ InPass(s) /\ Store(s) /\ WriteCopies(s, k, putCopy(o, View(s, k)))
      /\ projBuf' = [projBuf EXCEPT ![s] = [j \in Key |-> row(j)]]
      /\ revsBuf' = [revsBuf EXCEPT ![s] = @ \cup ({LockOf[o]} \X Revokes[o])]
      /\ verified' = [verified EXCEPT ![s][k] = {o}]
      /\ listed' = [listed EXCEPT ![s][k] = {o}]
  BY DEF Win, TypeOK
<1>2. o \in Op /\ k \in Key
  BY <1>1, CandidateType
<1>3. View(s, k) \in SUBSET Op
  BY <1>2, ViewType
<1>4. putCopy(o, View(s, k)) \in SUBSET Op
  <2> HIDE DEF o, k
  <2> QED BY <1>2, <1>3, CopiesType
<1>5. \A j \in Key : row(j) \in Op \cup {NoRow, Keep}
  BY <1>2 DEF projection, TypeOK
<1> HIDE DEF o, k, row
<1>6. /\ del' \in [Session -> [Key -> SUBSET Op]]
      /\ ins' \in [Session -> [Key -> SUBSET Op]]
  BY <1>1, <1>2, <1>4, WriteCopiesType
<1>7. verified' \in [Session -> [Key -> SUBSET Op]]
  BY <1>1, <1>2 DEF TypeOK
<1>8. listed' \in [Session -> [Key -> SUBSET Op]]
  BY <1>1, <1>2 DEF TypeOK
<1>9. projBuf' \in [Session -> [Key -> Op \cup {NoRow, Keep}]]
  BY <1>1, <1>5 DEF TypeOK
<1>10. revsBuf' \in [Session -> SUBSET (Lock \X Did)]
  <2>1. LockOf[o] \in Lock /\ Revokes[o] \in SUBSET Did
    BY <1>2, ApplyAssumption
  <2>2. revsBuf[s] \cup ({LockOf[o]} \X Revokes[o]) \in SUBSET (Lock \X Did)
    BY <2>1 DEF TypeOK
  <2> QED BY <1>1, <2>2 DEF TypeOK
<1>11. UNCHANGED <<committed, clock, auth, now, pc, sent, call, parked>>
  BY <1>1 DEF Store
<1> QED BY <1>1, <1>6, <1>7, <1>8, <1>9, <1>10, <1>11, StoreType DEF TypeOK, committed, call

(* RetryParked keeps the types.                                            *)
LEMMA RetryParkedTypeOK ==
    ASSUME TypeOK, NEW s \in Session, RetryParked(s)
    PROVE  TypeOK'
<1>1. /\ pending' = [pending EXCEPT ![s] = parked[s]]
      /\ parked' = [parked EXCEPT ![s] = <<>>]
      /\ stored' = [stored EXCEPT ![s] = FALSE]
      /\ UNCHANGED <<committed, clock, auth, now, pc, sent, call, cache, buffers, applied>>
  BY DEF RetryParked
<1>2. /\ pending' \in [Session -> Seq(Op)]
      /\ parked' \in [Session -> Seq(Op)]
      /\ stored' \in [Session -> BOOLEAN]
  BY <1>1 DEF TypeOK
<1> HIDE DEF RetryParked
<1> QED BY <1>1, <1>2 DEF TypeOK, committed, call, cache, buffers

(* Commit keeps the types.                                                 *)
LEMMA CommitTypeOK ==
    ASSUME TypeOK, NEW s \in Session, Commit(s)
    PROVE  TypeOK'
<1> DEFINE p == PeerOf[s]
<1>1. p \in Peer /\ ClearTx(s)
  BY ApplyAssumption DEF Commit
<1>2. /\ \A k \in Key : View(s, k) \in SUBSET Op /\ ProjView(s, k) \in Op \cup {NoRow}
      /\ RevsView(s) \in SUBSET (Lock \X Did)
  BY ViewType
<1> HIDE DEF p
<1>3. rows' \in [Peer -> [Key -> SUBSET Op]]
  BY <1>1, <1>2 DEF Commit, TypeOK, p
<1>4. proj' \in [Peer -> [Key -> Op \cup {NoRow}]]
  BY <1>1, <1>2 DEF Commit, TypeOK, p
<1>5. revs' \in [Peer -> SUBSET (Lock \X Did)]
  BY <1>1, <1>2 DEF Commit, TypeOK, p
<1>6. judged' \in [Peer -> SUBSET Op]
  BY <1>1 DEF Commit, TypeOK, p
<1>7. pc' \in [Session -> {"idle", "prefetch", "begin", "tx", "receive", "exhausted"}]
  BY DEF Commit, TypeOK
<1> QED BY <1>1, <1>3, <1>4, <1>5, <1>6, <1>7, ClearTxType DEF Commit, TypeOK, call

(* The clock of a peer after receiving stamps within drift.                *)
LEMMA ReceivedClock ==
    ASSUME CallInv, NEW s \in Session, ReceiveClock(s)
    PROVE  /\ PeerOf[s] \in Peer
           /\ clock' \in [Peer -> Nat]
           /\ \A p \in Peer : clock'[p] <= now + MaxDrift
<1> DEFINE p == PeerOf[s]
           T == {clock[p]} \cup {Hlc[o] : o \in applied[s]}
           top == CHOOSE t \in T : \A u \in T : u <= t
<1>1. p \in Peer /\ now + MaxDrift \in Nat
  BY ApplyAssumption DEF CallInv, TypeOK
<1>2. \A o \in applied[s] : Hlc[o] \in Nat /\ Hlc[o] <= now + MaxDrift
  BY DEF CallInv, SessionInv, FromActive, Stamped
<1>3. clock[p] \in Nat /\ clock[p] <= now + MaxDrift
  BY <1>1 DEF CallInv, TypeOK, ClockBounded
<1>4. T \in SUBSET Nat /\ T # {} /\ \A t \in T : t <= now + MaxDrift
  BY <1>2, <1>3
<1>5. top \in T
  <2>1. \E t \in T : \A u \in T : u <= t
    <3> HIDE DEF T
    <3> QED BY <1>1, <1>4, GreatestStamp
  <2> HIDE DEF T
  <2> QED BY <2>1
<1>6. clock' = [clock EXCEPT ![p] = top]
  BY DEF ReceiveClock
<1> HIDE DEF top, T
<1>7. top \in Nat /\ top <= now + MaxDrift
  BY <1>4, <1>5
<1> HIDE DEF p
<1>8. clock \in [Peer -> Nat] /\ \A q \in Peer : clock[q] <= now + MaxDrift
  BY DEF CallInv, TypeOK, ClockBounded
<1>9. clock' \in [Peer -> Nat] /\ \A q \in Peer : clock'[q] <= now + MaxDrift
  BY <1>1, <1>6, <1>7, <1>8
<1> QED BY <1>1, <1>9 DEF p

(* ReceiveClock keeps the types.                                           *)
LEMMA ReceiveClockTypeOK ==
    ASSUME CallInv, NEW s \in Session, ReceiveClock(s)
    PROVE  TypeOK'
<1>1. TypeOK /\ EndCall(s) /\ clock' \in [Peer -> Nat]
  BY ReceivedClock DEF CallInv, ReceiveClock
<1>2. applied' \in [Session -> SUBSET Op]
  BY <1>1 DEF ReceiveClock, TypeOK
<1> QED BY <1>1, <1>2, EndCallType DEF ReceiveClock, TypeOK, committed, cache, buffers

(* Fault keeps the types.                                                  *)
LEMMA FaultTypeOK ==
    ASSUME TypeOK, NEW s \in Session, Fault(s)
    PROVE  TypeOK'
<1>1. EndCall(s) /\ ClearTx(s) /\ applied' \in [Session -> SUBSET Op]
  BY DEF Fault, TypeOK
<1> QED BY <1>1, EndCallType, ClearTxType DEF Fault, TypeOK, committed

(* The clock and the consumer's authority keep the types.                  *)
LEMMA EnvironmentTypeOK ==
    ASSUME TypeOK, Tick \/ \E p \in Peer : ChangeAuthority(p)
    PROVE  TypeOK'
<1>1. CASE Tick
  BY <1>1 DEF Tick, TypeOK, committed, call, cache, buffers, progress
<1>2. CASE \E p \in Peer : ChangeAuthority(p)
  BY <1>2 DEF ChangeAuthority, TypeOK, committed, call, cache, buffers, progress
<1> QED BY <1>1, <1>2

-----------------------------------------------------------------------------
(* The call invariant, action by action.                                   *)

(* What one session's invariant depends on, and that a step leaves alone.  *)
Untouched(t) ==
    /\ pc'[t] = pc[t] /\ pending'[t] = pending[t] /\ parked'[t] = parked[t]
    /\ del'[t] = del[t] /\ ins'[t] = ins[t] /\ applied'[t] = applied[t]
    /\ active'[t] = active[t] /\ limit'[t] = limit[t]
    /\ attempts'[t] = attempts[t] /\ retries'[t] = retries[t]

(* A session's invariant survives the steps of others and of the clock.    *)
LEMMA UntouchedInv ==
    ASSUME TypeOK, NEW t \in Session, SessionInv(t), Untouched(t),
           now' \in Nat, now <= now'
    PROVE  SessionInv(t)'
<1>1. Quiet(t)'
  BY DEF SessionInv, Quiet, Untouched
<1>2. FromActive(t)' /\ Budgeted(t)'
  BY DEF SessionInv, FromActive, Budgeted, Untouched
<1>3. Stamped(t)'
  <2>1. now \in Nat /\ MaxDrift \in Nat
    BY ApplyAssumption DEF TypeOK
  <2> QED BY <2>1 DEF SessionInv, Stamped, Untouched
<1> QED BY <1>1, <1>2, <1>3 DEF SessionInv

(* Steps of one session leave the others alone.                            *)
LEMMA StepsAreLocal ==
    ASSUME TypeOK, NEW s \in Session, NEW t \in Session, t # s,
           \/ Advance(s) \/ Fault(s) \/ \E chunk \in Chunk : Submit(s, chunk)
    PROVE  Untouched(t) /\ now' = now
<1>1. CASE \E chunk \in Chunk : Submit(s, chunk)
  BY <1>1 DEF Submit, Untouched, TypeOK, buffers, progress
<1>2. CASE Prefetch(s)
  BY <1>2 DEF Prefetch, Untouched, TypeOK, buffers, progress
<1>3. CASE Begin(s)
  BY <1>3 DEF Begin, Untouched, TypeOK, buffers, call
<1>4. CASE SourceChanged(s)
  BY <1>4 DEF SourceChanged, EndCall, NextAttempt, Untouched, TypeOK, buffers, progress
<1>5. CASE Replay(s) \/ Park(s) \/ Reject(s) \/ Lose(s)
  <2>1. Skip(s)
    BY <1>5 DEF Replay, Park, Reject, Lose
  <2>2. parked' = parked \/ parked' = [parked EXCEPT ![s] = Append(@, Candidate(s))]
    BY <1>5 DEF Replay, Park, Reject, Lose
  <2> QED BY <2>1, <2>2 DEF Skip, Untouched, TypeOK, call
<1>6. CASE RefuseContent(s)
  BY <1>6 DEF RefuseContent, ClearTx, NextAttempt, Untouched, TypeOK
<1>7. CASE AddCopy(s)
  BY <1>7 DEF AddCopy, Store, WriteCopies, Untouched, TypeOK, call
<1>8. CASE Win(s)
  BY <1>8 DEF Win, Store, WriteCopies, Untouched, TypeOK, call
<1>9. CASE RetryParked(s)
  BY <1>9 DEF RetryParked, Untouched, TypeOK, call, buffers
<1>10. CASE Commit(s)
  BY <1>10 DEF Commit, ClearTx, Untouched, TypeOK, call
<1>11. CASE ReceiveClock(s)
  BY <1>11 DEF ReceiveClock, EndCall, Untouched, TypeOK, buffers
<1>12. CASE Fault(s)
  BY <1>12 DEF Fault, ClearTx, EndCall, Untouched, TypeOK
<1> QED BY <1>1, <1>2, <1>3, <1>4, <1>5, <1>6, <1>7, <1>8, <1>9, <1>10, <1>11, <1>12
           DEF Advance

(* A call that begins has its candidates screened and all attempts left.   *)
LEMMA SubmitSession ==
    ASSUME CallInv, NEW s \in Session, NEW chunk \in Chunk, Submit(s, chunk)
    PROVE  SessionInv(s)' /\ pc'[s] # "exhausted"
<1>0. TypeOK /\ SessionInv(s)
  BY DEF CallInv, SessionInv
<1>1. /\ active'[s] \in Seq(Op) /\ limit'[s] = Len(active'[s]) + SourceAttempts
      /\ \A o \in Elems(active'[s]) : Screened(o)
  BY <1>0, SubmitActive
<1>2. pc[s] = "idle" /\ pc'[s] = "prefetch"
  BY <1>0 DEF Submit, TypeOK
<1>3. UNCHANGED <<attempts, retries, pending, parked, applied, del, ins, now>>
  BY DEF Submit, progress, buffers
<1>4. Quiet(s)'
  BY <1>0, <1>2, <1>3 DEF SessionInv, Quiet
<1>5. FromActive(s)'
  BY <1>0, <1>2, <1>3 DEF SessionInv, Quiet, FromActive, Elems
<1>6. Stamped(s)'
  <2>1. ASSUME NEW o \in Elems(active'[s])
        PROVE  Hlc[o] \in Nat /\ Hlc[o] <= now + MaxDrift /\ o \in Signed /\ o \in Admissible
    <3>1. o \in Op
      BY <1>1, RangeFacts
    <3> QED BY <3>1, <1>1, OpAssumption DEF Screened
  <2> QED BY <1>3, <2>1 DEF Stamped
<1>7. Budgeted(s)'
  <2>1. attempts[s] = 0 /\ retries[s] = 0
    BY <1>0, <1>2 DEF SessionInv, Budgeted
  <2> QED BY <1>1, <1>3, <2>1, ApplyAssumption DEF Budgeted
<1> QED BY <1>2, <1>4, <1>5, <1>6, <1>7 DEF SessionInv

(* Entering the transaction, and the steps of a pass.                      *)
LEMMA PassSession ==
    ASSUME CallInv, NEW s \in Session,
           \/ Prefetch(s) \/ Begin(s) \/ Replay(s) \/ Park(s) \/ Reject(s) \/ Lose(s)
           \/ AddCopy(s) \/ Win(s) \/ RetryParked(s)
    PROVE  SessionInv(s)' /\ pc'[s] # "exhausted"
<1>0. TypeOK /\ SessionInv(s) /\ pc[s] # "exhausted"
  BY DEF CallInv, LoopNeverExhausted
<1>1. UNCHANGED <<active, limit, attempts, retries, now>>
  BY DEF Prefetch, Begin, Replay, Park, Reject, Lose, Skip, AddCopy, Win, Store, RetryParked, call
<1>2. Stamped(s)'
  BY <1>0, <1>1 DEF SessionInv, Stamped
<1>3. CASE Prefetch(s)
  <2>1. pc[s] = "prefetch" /\ pc'[s] = "begin"
    BY <1>0, <1>3 DEF Prefetch, TypeOK
  <2>2. UNCHANGED <<pending, parked, applied, del, ins>>
    BY <1>3 DEF Prefetch, buffers, progress
  <2> QED BY <1>0, <1>1, <1>2, <2>1, <2>2 DEF SessionInv, Quiet, FromActive, Budgeted
<1>4. CASE Begin(s)
  <2>1. pc[s] = "begin" /\ pc'[s] = "tx"
    BY <1>0, <1>4 DEF Begin, TypeOK
  <2>2. pending'[s] = active[s] /\ UNCHANGED <<parked, applied>>
    BY <1>0, <1>4 DEF Begin, TypeOK
  <2>3. FromActive(s)'
    BY <1>0, <1>1, <2>2 DEF SessionInv, FromActive
  <2>4. Quiet(s)' /\ Budgeted(s)'
    BY <1>0, <1>1, <2>1 DEF SessionInv, Quiet, Budgeted
  <2> QED BY <1>2, <2>1, <2>3, <2>4 DEF SessionInv
<1>5. CASE Replay(s) \/ Park(s) \/ Reject(s) \/ Lose(s)
  <2>1. pc[s] = "tx" /\ pc' = pc /\ InPass(s) /\ applied' = applied
    BY <1>5 DEF Replay, Park, Reject, Lose, Skip, InPass
  <2>2. pending'[s] = Tail(pending[s])
    BY <1>0, <1>5 DEF Replay, Park, Reject, Lose, Skip, TypeOK
  <2>3. parked'[s] = parked[s] \/ parked'[s] = Append(parked[s], Candidate(s))
    <3>1. parked' = parked \/ parked' = [parked EXCEPT ![s] = Append(@, Candidate(s))]
      BY <1>5 DEF Replay, Park, Reject, Lose
    <3> QED BY <1>0, <3>1 DEF TypeOK
  <2>4. /\ Candidate(s) \in Op /\ Candidate(s) \in Elems(pending[s])
        /\ Elems(Tail(pending[s])) \subseteq Elems(pending[s])
    BY <1>0, <2>1, CandidateType
  <2>5. Elems(parked'[s]) \subseteq Elems(parked[s]) \cup {Candidate(s)}
    <3>1. parked[s] \in Seq(Op)
      BY <1>0 DEF TypeOK
    <3>2. Elems(Append(parked[s], Candidate(s))) \subseteq Elems(parked[s]) \cup {Candidate(s)}
      BY <2>4, <3>1, RangeFacts
    <3> QED BY <2>3, <3>2
  <2>6. FromActive(s)'
    BY <1>0, <1>1, <2>1, <2>2, <2>4, <2>5 DEF SessionInv, FromActive
  <2> QED BY <1>0, <1>1, <1>2, <2>1, <2>6 DEF SessionInv, Quiet, Budgeted
<1>6. CASE AddCopy(s) \/ Win(s)
  <2>1. Store(s) /\ InPass(s)
    BY <1>6 DEF AddCopy, Win
  <2>2. /\ pc[s] = "tx" /\ pc' = pc /\ parked' = parked
        /\ pending'[s] = Tail(pending[s]) /\ applied'[s] = applied[s] \cup {Candidate(s)}
    BY <1>0, <2>1 DEF Store, InPass, TypeOK
  <2>3. /\ Candidate(s) \in Elems(pending[s])
        /\ Elems(Tail(pending[s])) \subseteq Elems(pending[s])
    BY <1>0, <2>1, CandidateType
  <2>4. FromActive(s)'
    BY <1>0, <1>1, <2>2, <2>3 DEF SessionInv, FromActive
  <2> QED BY <1>0, <1>1, <1>2, <2>2, <2>4 DEF SessionInv, Quiet, Budgeted
<1>7. CASE RetryParked(s)
  <2>1. pc[s] = "tx" /\ pc' = pc /\ applied' = applied
    BY <1>7 DEF RetryParked, PassDone
  <2>2. pending'[s] = parked[s] /\ parked'[s] = <<>>
    BY <1>0, <1>7 DEF RetryParked, TypeOK
  <2>3. Elems(parked'[s]) = {}
    BY <2>2 DEF Elems
  <2>4. FromActive(s)'
    BY <1>0, <1>1, <2>1, <2>2, <2>3 DEF SessionInv, FromActive
  <2> QED BY <1>0, <1>1, <1>2, <2>1, <2>4 DEF SessionInv, Quiet, Budgeted
<1> QED BY <1>3, <1>4, <1>5, <1>6, <1>7

(* A rollback that retries: one candidate fewer, or one retry fewer left.  *)
LEMMA RetrySession ==
    ASSUME CallInv, NEW s \in Session, RefuseContent(s) \/ SourceChanged(s)
    PROVE  SessionInv(s)' /\ pc'[s] # "exhausted"
<1>0. TypeOK /\ SessionInv(s)
  BY DEF CallInv
<1>1. /\ active[s] \in Seq(Op) /\ Len(active[s]) \in Nat
      /\ attempts[s] \in Nat /\ retries[s] \in Nat /\ limit[s] \in Nat
      /\ SourceAttempts \in Nat
  BY <1>0, ApplyAssumption DEF TypeOK
<1>2. CASE RefuseContent(s)
  <2>1. pc[s] = "tx" /\ NextAttempt(s) /\ ClearTx(s) /\ UNCHANGED <<limit, retries, now>>
    BY <1>2 DEF RefuseContent, InPass
  <2>2. active'[s] = Without(active[s], Candidate(s)) /\ applied'[s] = {}
    BY <1>0, <1>2 DEF RefuseContent, TypeOK
  <2>3. Candidate(s) \in Elems(active[s])
    BY <1>0, <1>2, CandidateType DEF RefuseContent, SessionInv, FromActive
  <2>4. Len(active'[s]) = Len(active[s]) - 1 /\ Elems(active'[s]) \subseteq Elems(active[s])
    BY <1>1, <2>2, <2>3, WithoutType
  <2>5. retries[s] < SourceAttempts
        /\ attempts[s] + Len(active[s]) + (SourceAttempts - retries[s]) <= limit[s]
    BY <1>0, <2>1 DEF SessionInv, Budgeted
  <2>6. Len(active[s]) >= 1
    BY <1>1, <2>3 DEF Elems
  <2>7. attempts'[s] = attempts[s] + 1
    BY <1>0, <2>1 DEF NextAttempt, TypeOK
  <2>8. attempts[s] + 1 < limit[s]
    BY <1>1, <2>5, <2>6
  <2>9. pc'[s] = "prefetch"
    BY <1>0, <2>1, <2>8 DEF NextAttempt, TypeOK
  <2>10. Budgeted(s)'
    <3>1. retries'[s] = retries[s] /\ limit'[s] = limit[s]
      BY <2>1
    <3>2. attempts'[s] + Len(active'[s]) + (SourceAttempts - retries'[s]) <= limit'[s]
      <4>1. PICK n \in Nat, l \in Nat, r \in Nat, m \in Nat, t \in Nat :
              /\ n = attempts[s] /\ l = Len(active[s]) /\ r = retries[s]
              /\ m = limit[s] /\ t = SourceAttempts
        BY <1>1
      <4>2. n + l + (t - r) <= m
        BY <2>5, <4>1
      <4>3. (n + 1) + (l - 1) + (t - r) <= m
        BY <4>2
      <4>4. attempts'[s] = n + 1 /\ Len(active'[s]) = l - 1
        BY <2>4, <2>7, <4>1
      <4> QED BY <3>1, <4>1, <4>3, <4>4
    <3> QED BY <2>5, <2>9, <3>1, <3>2 DEF Budgeted
  <2>11. Quiet(s)' /\ pending'[s] = <<>> /\ parked'[s] = <<>>
    BY <1>0, <2>1, <2>2 DEF ClearTx, TypeOK, Quiet
  <2>12. FromActive(s)'
    BY <2>2, <2>11 DEF FromActive, Elems
  <2>13. Stamped(s)'
    BY <1>0, <2>1, <2>4 DEF SessionInv, Stamped
  <2> QED BY <2>9, <2>10, <2>11, <2>12, <2>13 DEF SessionInv
<1>3. CASE SourceChanged(s)
  <2>1. /\ pc[s] = "begin"
        /\ UNCHANGED <<now, pending, parked, applied, del, ins>>
    BY <1>3 DEF SourceChanged, buffers, progress
  <2>2. /\ pending[s] = <<>> /\ parked[s] = <<>> /\ applied[s] = {}
        /\ \A k \in Key : del[s][k] = {} /\ ins[s][k] = {}
    BY <1>0, <2>1 DEF SessionInv, Quiet
  <2>3. Quiet(s)' /\ FromActive(s)'
    BY <2>1, <2>2 DEF Quiet, FromActive, Elems
  <2>4. CASE retries[s] + 1 >= SourceAttempts
    <3>1. /\ pc'[s] = "idle" /\ active'[s] = <<>>
          /\ attempts'[s] = 0 /\ retries'[s] = 0
      BY <1>0, <1>3, <2>4 DEF SourceChanged, EndCall, TypeOK
    <3>2. Stamped(s)' /\ Budgeted(s)'
      BY <3>1 DEF Stamped, Budgeted, Elems
    <3> QED BY <2>3, <3>1, <3>2 DEF SessionInv
  <2>5. CASE ~(retries[s] + 1 >= SourceAttempts)
    <3>1. /\ NextAttempt(s) /\ UNCHANGED <<active, limit>>
          /\ retries'[s] = retries[s] + 1
      BY <1>0, <1>3, <2>5 DEF SourceChanged, TypeOK
    <3>2. attempts[s] + Len(active[s]) + (SourceAttempts - retries[s]) <= limit[s]
      BY <1>0, <2>1 DEF SessionInv, Budgeted
    <3>3. attempts'[s] = attempts[s] + 1
      BY <1>0, <3>1 DEF NextAttempt, TypeOK
    <3>4. attempts[s] + 1 < limit[s]
      BY <1>1, <2>5, <3>2
    <3>5. pc'[s] = "prefetch"
      BY <1>0, <3>1, <3>4 DEF NextAttempt, TypeOK
    <3>6. Budgeted(s)'
      <4>1. retries'[s] < SourceAttempts
        BY <1>1, <2>5, <3>1
      <4>2. attempts'[s] + Len(active'[s]) + (SourceAttempts - retries'[s]) <= limit'[s]
        <5>1. active'[s] = active[s] /\ limit'[s] = limit[s]
          BY <3>1
        <5>2. \A a, l, m, r, n \in Nat : a + l + (m - r) <= n => (a + 1) + l + (m - (r + 1)) <= n
          OBVIOUS
        <5>3. (attempts[s] + 1) + Len(active[s]) + (SourceAttempts - (retries[s] + 1)) <= limit[s]
          BY <1>1, <3>2, <5>2
        <5>4. retries'[s] = retries[s] + 1
          BY <3>1
        <5> QED BY <3>3, <5>1, <5>3, <5>4
      <4> QED BY <3>5, <4>1, <4>2 DEF Budgeted
    <3>7. Stamped(s)'
      BY <1>0, <2>1, <3>1 DEF SessionInv, Stamped
    <3> QED BY <2>3, <3>5, <3>6, <3>7 DEF SessionInv
  <2> QED BY <2>4, <2>5
<1> QED BY <1>2, <1>3

(* The end of a transaction and of a call.                                 *)
LEMMA EndSession ==
    ASSUME CallInv, NEW s \in Session, Commit(s) \/ ReceiveClock(s) \/ Fault(s)
    PROVE  SessionInv(s)' /\ pc'[s] # "exhausted"
<1>0. TypeOK /\ SessionInv(s)
  BY DEF CallInv
<1>1. CASE Commit(s)
  <2>1. pc'[s] = "receive" /\ UNCHANGED <<active, applied, now>>
    BY <1>0, <1>1 DEF Commit, call, TypeOK
  <2>2. /\ pending'[s] = <<>> /\ parked'[s] = <<>>
        /\ \A k \in Key : del'[s][k] = {} /\ ins'[s][k] = {}
    BY <1>0, <1>1 DEF Commit, ClearTx, TypeOK
  <2>3. Quiet(s)' /\ FromActive(s)'
    BY <1>0, <2>1, <2>2 DEF SessionInv, Quiet, FromActive, Elems
  <2>4. Stamped(s)' /\ Budgeted(s)'
    BY <1>0, <2>1 DEF SessionInv, Stamped, Budgeted
  <2> QED BY <2>1, <2>3, <2>4 DEF SessionInv
<1>2. CASE ReceiveClock(s) \/ Fault(s)
  <2>1. /\ pc'[s] = "idle" /\ active'[s] = <<>> /\ attempts'[s] = 0 /\ retries'[s] = 0
        /\ applied'[s] = {}
    BY <1>0, <1>2 DEF ReceiveClock, Fault, EndCall, TypeOK
  <2>2. /\ pending'[s] = <<>> /\ parked'[s] = <<>>
        /\ \A k \in Key : del'[s][k] = {} /\ ins'[s][k] = {}
    <3>1. CASE ReceiveClock(s)
      BY <1>0, <3>1 DEF ReceiveClock, buffers, SessionInv, Quiet
    <3>2. CASE Fault(s)
      BY <1>0, <3>2 DEF Fault, ClearTx, TypeOK
    <3> QED BY <1>2, <3>1, <3>2
  <2> QED BY <2>1, <2>2 DEF SessionInv, Quiet, FromActive, Stamped, Budgeted, Elems
<1> QED BY <1>1, <1>2

(* The call invariant is inductive.                                        *)
LEMMA NextCallInv == CallInv /\ [Next]_vars => CallInv'
<1> SUFFICES ASSUME CallInv, [Next]_vars PROVE CallInv'
  OBVIOUS
<1>0. /\ TypeOK /\ now \in Nat /\ MaxDrift \in Nat
      /\ clock \in [Peer -> Nat] /\ \A p \in Peer : clock[p] <= now + MaxDrift
      /\ \A s \in Session : SessionInv(s) /\ pc[s] # "exhausted"
  BY ApplyAssumption DEF CallInv, TypeOK, ClockBounded, LoopNeverExhausted
<1>1. ASSUME NEW s \in Session,
             Advance(s) \/ Fault(s) \/ \E chunk \in Chunk : Submit(s, chunk)
      PROVE  CallInv'
  <2>1. TypeOK'
    BY <1>0, <1>1, SubmitTypeOK, PrefetchTypeOK, BeginTypeOK, SourceChangedTypeOK,
       SkipTypeOK, RefuseContentTypeOK, AddCopyTypeOK, WinTypeOK, RetryParkedTypeOK,
       CommitTypeOK, ReceiveClockTypeOK, FaultTypeOK DEF Advance, SessionInv
  <2>2. SessionInv(s)' /\ pc'[s] # "exhausted"
    BY <1>1, SubmitSession, PassSession, RetrySession, EndSession DEF Advance
  <2>3. ASSUME NEW t \in Session, t # s PROVE SessionInv(t)' /\ pc'[t] # "exhausted"
    <3>1. Untouched(t) /\ now' = now
      BY <1>0, <1>1, <2>3, StepsAreLocal
    <3>2. SessionInv(t)'
      BY <1>0, <3>1, UntouchedInv
    <3> QED BY <1>0, <3>1, <3>2 DEF Untouched
  <2>4. now' = now
    BY <1>1 DEF Advance, Fault, Submit, Prefetch, Begin, SourceChanged, Replay, Park, Reject,
       Lose, Skip, RefuseContent, AddCopy, Win, Store, RetryParked, Commit, ReceiveClock
  <2>5. ClockBounded'
    <3>1. CASE ReceiveClock(s)
      BY <2>4, <3>1, ReceivedClock DEF ClockBounded
    <3>2. CASE ~ReceiveClock(s)
      <4>1. clock' = clock
        BY <1>1, <3>2 DEF Advance, Fault, Submit, Prefetch, Begin, SourceChanged, Replay, Park,
           Reject, Lose, Skip, RefuseContent, AddCopy, Win, Store, RetryParked, Commit
      <4> QED BY <1>0, <2>4, <4>1 DEF ClockBounded
    <3> QED BY <3>1, <3>2
  <2> QED BY <2>1, <2>2, <2>3, <2>5 DEF CallInv, LoopNeverExhausted
<1>2. CASE Tick \/ \E p \in Peer : ChangeAuthority(p)
  <2>1. TypeOK' /\ clock' = clock /\ pc' = pc /\ \A t \in Session : Untouched(t)
    BY <1>0, <1>2, EnvironmentTypeOK
       DEF Tick, ChangeAuthority, Untouched, call, buffers, progress
  <2>2. now' \in Nat /\ now <= now'
    BY <1>0, <1>2 DEF Tick, ChangeAuthority
  <2>3. \A t \in Session : SessionInv(t)'
    BY <1>0, <2>1, <2>2, UntouchedInv
  <2>4. ClockBounded'
    BY <1>0, <2>1, <2>2 DEF ClockBounded
  <2> QED BY <1>0, <2>1, <2>3, <2>4 DEF CallInv, LoopNeverExhausted
<1>3. CASE UNCHANGED vars
  <2>1. TypeOK' /\ now' = now /\ clock' = clock /\ pc' = pc /\ \A t \in Session : Untouched(t)
    BY <1>0, <1>3 DEF vars, TypeOK, Untouched, committed, call, cache, buffers, progress
  <2>2. \A t \in Session : SessionInv(t)'
    BY <1>0, <2>1, UntouchedInv
  <2> QED BY <1>0, <2>1, <2>2 DEF CallInv, LoopNeverExhausted, ClockBounded
<1> QED BY <1>1, <1>2, <1>3 DEF Next

(* Every variable keeps its shape, whatever chunks arrive.                 *)
THEOREM ApplyTypeCorrect == Spec => []TypeOK
<1>1. CallInv => TypeOK
  BY DEF CallInv
<1> QED BY <1>1, InitCallInv, NextCallInv, PTL DEF Spec

(* applyRecordChunk's loop of candidates + 5 attempts never ends without   *)
(* an outcome, for every chunk length and every number of source attempts. *)
THEOREM AttemptsSuffice == Spec => []LoopNeverExhausted
<1>1. CallInv => LoopNeverExhausted
  BY DEF CallInv
<1> QED BY <1>1, InitCallInv, NextCallInv, PTL DEF Spec

(* receiveClock never takes a clock further ahead than the drift bound.    *)
THEOREM ClockStaysBounded == Spec => []ClockBounded
<1>1. CallInv => ClockBounded
  BY DEF CallInv
<1> QED BY <1>1, InitCallInv, NextCallInv, PTL DEF Spec

-----------------------------------------------------------------------------
(* The stored records on a single-writer database (SQLite): one decision   *)
(* per record, one copy per signer, a coherent cache, always the greatest  *)
(* op merged so far, and the projections of what is stored.                *)

(* Copies that may stand together as the stored decision of record k.      *)
Sound(k, copies) ==
    /\ copies \subseteq Op
    /\ \A c \in copies : KeyOf[c] = k
    /\ Readable(copies)
    /\ \A a, b \in copies : SignerOf[a] = SignerOf[b] => a = b

(* A record's copies are never behind the op.                              *)
Greatest(o, copies) == copies # {} /\ \A c \in copies : ~Wins(o, c)

(* The cached decision is the stored one, though it may list other copies. *)
Matches(cached, copies) ==
    /\ cached \subseteq Op
    /\ cached = {} <=> copies = {}
    /\ \A a \in cached, b \in copies : Digest[a] = Digest[b]

Alone ==
    \A s, t \in Session :
        pc[s] = "tx" /\ pc[t] = "tx" /\ PeerOf[s] = PeerOf[t] => s = t

PeerSound(p) ==
    /\ \A k \in Key : Sound(k, rows[p][k]) /\ rows[p][k] \subseteq judged[p]
    /\ \A o \in judged[p] : Greatest(o, rows[p][KeyOf[o]])

Merged(s) == judged[PeerOf[s]] \cup judgedBuf[s]

TxSound(s) ==
    /\ pc[s] # "tx" => judgedBuf[s] = {}
    /\ pc[s] = "tx" =>
          /\ \A k \in Key : /\ Sound(k, View(s, k)) /\ View(s, k) \subseteq Merged(s)
                            /\ verified[s][k] = View(s, k)
                            /\ Matches(listed[s][k], View(s, k))
          /\ \A o \in Merged(s) : Greatest(o, View(s, KeyOf[o]))

StoreInv ==
    /\ CallInv
    /\ Alone
    /\ \A p \in Peer : PeerSound(p)
    /\ \A s \in Session : TxSound(s)

-----------------------------------------------------------------------------
(* Operators.                                                              *)

(* Copies of one decision lose to the same ops.                            *)
LEMMA WinsSameDigest ==
    ASSUME NEW a \in Op, NEW c \in Op, NEW d \in Op,
           KeyOf[a] = KeyOf[c], Digest[c] = Digest[d], Wins(a, c)
    PROVE  Wins(a, d)
<1>1. /\ KeyOf[c] = KeyOf[d] /\ Hlc[c] = Hlc[d] /\ Version[c] = Version[d]
      /\ (c \in Unreadable <=> d \in Unreadable)
  BY DigestAssumption
<1>2. SameRecord(a, c) /\ SameRecord(a, d)
  BY <1>1 DEF SameRecord
<1>3. CASE Policy[KeyOf[a]] = "lww"
  BY <1>1, <1>2, <1>3, WinsCharacterized
<1>4. CASE Policy[KeyOf[a]] = "monotonic"
  BY <1>1, <1>2, <1>4, WinsCharacterized
<1>5. CASE Policy[KeyOf[a]] = "immutable"
  BY <1>1, <1>2, <1>5, WinsCharacterized
<1> QED BY <1>2, <1>3, <1>4, <1>5, WinsCharacterized DEF PolicyKind

(* putCopy of a different decision leaves the new op alone.                *)
LEMMA PutCopyReplaces ==
    ASSUME NEW o \in Op, NEW prior, \A c \in prior : Digest[c] # Digest[o]
    PROVE  putCopy(o, prior) = {o}
BY DEF putCopy

(* A single copy is sound.                                                 *)
LEMMA OneCopySound ==
    ASSUME NEW o \in Op
    PROVE  Sound(KeyOf[o], {o})
BY DEF Sound, Readable

(* putCopy of another copy: the copies of other signers, and the least of  *)
(* this signer's.                                                          *)
LEMMA PutCopyKeeps ==
    ASSUME NEW k, NEW o \in Op, KeyOf[o] = k, NEW prior, Sound(k, prior),
           NEW w \in prior, Digest[w] = Digest[o]
    PROVE  \E m \in Op :
             /\ putCopy(o, prior) = {c \in prior : SignerOf[c] # SignerOf[o]} \cup {m}
             /\ SignerOf[m] = SignerOf[o] /\ Digest[m] = Digest[o] /\ KeyOf[m] = k
             /\ m = o \/ (m \in prior /\ m < o)
             /\ m # o \/ \A c \in prior : SignerOf[c] = SignerOf[o] => o <= c
<1> DEFINE same == {c \in prior : SignerOf[c] = SignerOf[o]}
           kept == {c \in same \cup {o} : \A d \in same \cup {o} : c <= d}
<1>1. same \cup {o} \in SUBSET Nat /\ same \cup {o} # {}
  BY OpAssumption DEF Sound
<1>2. PICK m \in same \cup {o} : \A d \in same \cup {o} : m <= d
  BY <1>1, LeastNatural
<1>3. kept = {m}
  BY <1>1, <1>2
<1>4. putCopy(o, prior) = (prior \ same) \cup kept
  BY DEF putCopy
<1>5. \A c \in prior : Digest[c] = Digest[o]
  BY DEF Sound, Readable
<1>6. /\ m \in Op /\ SignerOf[m] = SignerOf[o] /\ Digest[m] = Digest[o] /\ KeyOf[m] = k
      /\ m = o \/ (m \in prior /\ m < o)
      /\ m # o \/ \A c \in prior : SignerOf[c] = SignerOf[o] => o <= c
  BY <1>1, <1>2, <1>5 DEF Sound
<1>7. (prior \ same) \cup kept = {c \in prior : SignerOf[c] # SignerOf[o]} \cup {m}
  BY <1>3
<1> QED BY <1>4, <1>6, <1>7

(* AddCopy on a sound record: the rows written are sound copies of the     *)
(* same decision, and the cache computes exactly those rows.               *)
LEMMA AddedCopies ==
    ASSUME NEW k, NEW o \in Op, KeyOf[o] = k, NEW prior, Sound(k, prior),
           NEW w \in prior, Digest[w] = Digest[o],
           NEW issuers, IssuerOf[o] \notin issuers
    PROVE  LET copies == pruneCopies(putCopy(o, prior), issuers)
               held == rememberCopy(o, pruneCopies(prior, issuers))
           IN  /\ Sound(k, copies) /\ copies # {} /\ held = copies
               /\ copies \subseteq prior \cup {o}
               /\ \A c \in copies : Digest[c] = Digest[o]
<1> DEFINE copies == pruneCopies(putCopy(o, prior), issuers)
           rest == {c \in prior : SignerOf[c] # SignerOf[o] /\ IssuerOf[c] \notin issuers}
           held == rememberCopy(o, pruneCopies(prior, issuers))
<1>1. PICK m \in Op :
          /\ putCopy(o, prior) = {c \in prior : SignerOf[c] # SignerOf[o]} \cup {m}
          /\ SignerOf[m] = SignerOf[o] /\ Digest[m] = Digest[o] /\ KeyOf[m] = k
          /\ m = o \/ (m \in prior /\ m < o)
          /\ m # o \/ \A c \in prior : SignerOf[c] = SignerOf[o] => o <= c
  BY PutCopyKeeps
<1>2. IssuerOf[m] = IssuerOf[o]
  BY <1>1, ApplyAssumption
<1>3. copies = rest \cup {m}
  BY <1>1, <1>2 DEF pruneCopies
<1>4. \A c \in prior : Digest[c] = Digest[o]
  BY DEF Sound, Readable
<1>5. Sound(k, rest \cup {m})
  BY <1>1, <1>4 DEF Sound, Readable
<1>6. held = rest \cup {m}
  <2> DEFINE P == pruneCopies(prior, issuers)
             retained == {c \in P : SignerOf[c] # SignerOf[o] \/ c < o}
  <2>0. \A c \in prior : SignerOf[c] = SignerOf[o] => IssuerOf[c] = IssuerOf[o] /\ c \in P
    BY ApplyAssumption DEF Sound, pruneCopies
  <2>1. held = IF \E c \in retained : SignerOf[c] = SignerOf[o] THEN P ELSE retained \cup {o}
    BY DEF rememberCopy
  <2>2. CASE m = o
    <3>1. \A c \in retained : SignerOf[c] # SignerOf[o]
      BY <1>1, <2>2, OpAssumption DEF Sound, pruneCopies
    <3>2. retained = rest
      BY <3>1 DEF pruneCopies
    <3> QED BY <2>1, <2>2, <3>1, <3>2
  <2>3. CASE m # o
    <3>1. m \in prior /\ m < o /\ m \in P
      BY <1>1, <2>0, <2>3
    <3>2. m \in retained
      BY <3>1
    <3>3. P = rest \cup {m}
      BY <1>1, <2>0, <3>1 DEF Sound, pruneCopies
    <3> QED BY <1>1, <2>1, <3>2, <3>3
  <2> QED BY <2>2, <2>3
<1>7. /\ rest \cup {m} \subseteq prior \cup {o}
      /\ \A c \in rest \cup {m} : Digest[c] = Digest[o]
  BY <1>1, <1>4
<1> HIDE DEF rest, copies, held
<1> QED BY <1>3, <1>5, <1>6, <1>7 DEF copies, held

-----------------------------------------------------------------------------
(* Steps that leave a transaction alone.                                   *)

(* What TxSound reads of a session.                                        *)
Detached(t) ==
    /\ pc'[t] = pc[t] /\ del'[t] = del[t] /\ ins'[t] = ins[t]
    /\ judgedBuf'[t] = judgedBuf[t] /\ verified'[t] = verified[t] /\ listed'[t] = listed[t]

(* What a step leaves of a peer's committed records.                       *)
SameStore(p) == rows'[p] = rows[p] /\ judged'[p] = judged[p]

(* A transaction nothing disturbs stays sound.                             *)
LEMMA DetachedSound ==
    ASSUME NEW t \in Session, TxSound(t), Detached(t),
           pc[t] = "tx" => SameStore(PeerOf[t])
    PROVE  TxSound(t)'
<1>1. pc'[t] # "tx" => judgedBuf'[t] = {}
  BY DEF TxSound, Detached
<1>2. ASSUME pc'[t] = "tx"
      PROVE  /\ Merged(t)' = Merged(t)
             /\ \A k : View(t, k)' = View(t, k)
             /\ verified'[t] = verified[t] /\ listed'[t] = listed[t] /\ pc[t] = "tx"
  BY <1>2 DEF Detached, SameStore, Merged, View
<1> QED BY <1>1, <1>2 DEF TxSound

(* A committed store nothing writes to stays sound.                        *)
LEMMA SameStoreSound ==
    ASSUME NEW p \in Peer, PeerSound(p), SameStore(p)
    PROVE  PeerSound(p)'
BY DEF PeerSound, SameStore

(* Steps of one session leave the others' transactions alone, and only its *)
(* commit writes, to its own peer.                                         *)
LEMMA OthersDetached ==
    ASSUME TypeOK, NEW s \in Session, NEW t \in Session, t # s,
           \/ Advance(s) \/ Fault(s) \/ \E chunk \in Chunk : Submit(s, chunk)
    PROVE  Detached(t)
<1>1. CASE \E chunk \in Chunk : Submit(s, chunk)
  BY <1>1 DEF Submit, Detached, TypeOK, buffers, cache
<1>2. CASE Prefetch(s)
  BY <1>2 DEF Prefetch, Detached, TypeOK, buffers, cache
<1>3. CASE Begin(s)
  BY <1>3 DEF Begin, Detached, TypeOK, buffers
<1>4. CASE SourceChanged(s)
  BY <1>4 DEF SourceChanged, EndCall, NextAttempt, Detached, TypeOK, buffers, cache
<1>5. CASE Replay(s) \/ Park(s) \/ Reject(s) \/ Lose(s)
  <2>1. Skip(s)
    BY <1>5 DEF Replay, Park, Reject, Lose
  <2>2. judgedBuf' = judgedBuf \/ judgedBuf' = [judgedBuf EXCEPT ![s] = @ \cup {Candidate(s)}]
    BY <1>5 DEF Replay, Park, Reject, Lose
  <2> QED BY <2>1, <2>2 DEF Skip, Detached, TypeOK, cache
<1>6. CASE RefuseContent(s)
  BY <1>6 DEF RefuseContent, ClearTx, NextAttempt, Detached, TypeOK
<1>7. CASE AddCopy(s)
  BY <1>7 DEF AddCopy, Store, WriteCopies, Detached, TypeOK
<1>8. CASE Win(s)
  BY <1>8 DEF Win, Store, WriteCopies, Detached, TypeOK
<1>9. CASE RetryParked(s)
  BY <1>9 DEF RetryParked, Detached, TypeOK, cache, buffers
<1>10. CASE Commit(s)
  BY <1>10 DEF Commit, ClearTx, Detached, TypeOK
<1>11. CASE ReceiveClock(s)
  BY <1>11 DEF ReceiveClock, EndCall, Detached, TypeOK, buffers, cache
<1>12. CASE Fault(s)
  BY <1>12 DEF Fault, ClearTx, EndCall, Detached, TypeOK
<1> QED BY <1>1, <1>2, <1>3, <1>4, <1>5, <1>6, <1>7, <1>8, <1>9, <1>10, <1>11, <1>12
           DEF Advance

(* Only a commit writes committed rows, and only its own peer's.           *)
LEMMA OnlyCommitWrites ==
    ASSUME TypeOK, NEW s \in Session, NEW p \in Peer,
           \/ Advance(s) \/ Fault(s) \/ \E chunk \in Chunk : Submit(s, chunk),
           ~Commit(s) \/ p # PeerOf[s]
    PROVE  SameStore(p)
<1>1. CASE Commit(s)
  BY <1>1 DEF Commit, SameStore, TypeOK
<1>2. CASE ~Commit(s)
  <2>1. UNCHANGED committed
    BY <1>2 DEF Advance, Fault, Submit, Prefetch, Begin, SourceChanged, Replay, Park, Reject,
       Lose, Skip, RefuseContent, AddCopy, Win, Store, RetryParked, ReceiveClock
  <2> QED BY <2>1 DEF committed, SameStore
<1> QED BY <1>1, <1>2

-----------------------------------------------------------------------------
(* Steps of the transaction itself.                                        *)

(* Writing the copies of one record changes the session's view of it, and  *)
(* of nothing else.                                                        *)
LEMMA WrittenView ==
    ASSUME TypeOK, NEW s \in Session, NEW k \in Key, NEW copies \in SUBSET Op,
           WriteCopies(s, k, copies), rows' = rows
    PROVE  /\ View(s, k)' = copies
           /\ \A j \in Key : j # k => View(s, j)' = View(s, j)
<1> DEFINE gone == View(s, k) \ copies
<1>1. /\ del' = [del EXCEPT ![s][k] = @ \cup gone]
      /\ ins' = [ins EXCEPT ![s][k] = (@ \ gone) \cup (copies \ View(s, k))]
  BY DEF WriteCopies
<1> HIDE DEF gone
<1>2. /\ del'[s][k] = del[s][k] \cup gone
      /\ ins'[s][k] = (ins[s][k] \ gone) \cup (copies \ View(s, k))
      /\ \A j \in Key : j # k => del'[s][j] = del[s][j] /\ ins'[s][j] = ins[s][j]
  BY <1>1 DEF TypeOK
<1>3. \A j \in Key : j # k => View(s, j)' = View(s, j)
  BY <1>2 DEF View
<1>4. View(s, k)' = (rows[PeerOf[s]][k] \ (del[s][k] \cup gone))
                       \cup ((ins[s][k] \ gone) \cup (copies \ View(s, k)))
  BY <1>2 DEF View
<1>5. View(s, k) = (rows[PeerOf[s]][k] \ del[s][k]) \cup ins[s][k]
  BY DEF View
<1>6. View(s, k)' = copies
  BY <1>4, <1>5 DEF gone
<1> QED BY <1>3, <1>6

(* An op merged into a sound view: if the record's new copies are sound,   *)
(* known and not behind any op merged, the transaction stays sound.        *)
LEMMA MergedSound ==
    ASSUME NEW s \in Session, TxSound(s), pc[s] = "tx", pc'[s] = "tx",
           rows' = rows, judged' = judged,
           NEW o \in Op, NEW k \in Key, k = KeyOf[o], NEW copies,
           Merged(s) \in SUBSET Op, Merged(s)' = Merged(s) \cup {o},
           View(s, k)' = copies, \A j \in Key : j # k => View(s, j)' = View(s, j),
           verified'[s][k] = copies, \A j \in Key : j # k => verified'[s][j] = verified[s][j],
           \A j \in Key : j # k => listed'[s][j] = listed[s][j],
           Sound(k, copies), copies \subseteq Merged(s) \cup {o},
           Matches(listed'[s][k], copies),
           \A m \in Merged(s) \cup {o} : KeyOf[m] = k => Greatest(m, copies)
    PROVE  TxSound(s)'
<1>1. \A j \in Key : /\ Sound(j, View(s, j)) /\ View(s, j) \subseteq Merged(s)
                     /\ verified[s][j] = View(s, j)
                     /\ Matches(listed[s][j], View(s, j))
  BY DEF TxSound
<1>2. ASSUME NEW j \in Key
      PROVE  /\ Sound(j, View(s, j)') /\ View(s, j)' \subseteq Merged(s)'
             /\ verified'[s][j] = View(s, j)'
             /\ Matches(listed'[s][j], View(s, j)')
  BY <1>1
<1>3. ASSUME NEW m \in Merged(s)' PROVE Greatest(m, View(s, KeyOf[m])')
  <2>0. m \in Merged(s) \cup {o}
    BY <1>3
  <2>1. m \in Op /\ KeyOf[m] \in Key
    <3>1. m \in Op
      BY <2>0
    <3> QED BY <3>1, OpAssumption
  <2>2. CASE KeyOf[m] = k
    BY <2>0, <2>2
  <2>3. CASE KeyOf[m] # k
    BY <2>0, <2>1, <2>3 DEF TxSound
  <2> QED BY <2>2, <2>3
<1>4. /\ \A j \in Key : /\ Sound(j, View(s, j))' /\ (View(s, j) \subseteq Merged(s))'
                        /\ (verified[s][j] = View(s, j))'
                        /\ Matches(listed[s][j], View(s, j))'
      /\ \A m \in Merged(s)' : Greatest(m, View(s, KeyOf[m]))'
  BY <1>2, <1>3 DEF Sound, Readable, Matches, Greatest
<1> QED BY <1>4 DEF TxSound

(* A call's transaction starts from a sound store.                         *)
LEMMA BeginSound ==
    ASSUME SingleWriter, StoreInv, NEW s \in Session, Begin(s)
    PROVE  TxSound(s)' /\ Alone'
<1>0. TypeOK /\ PeerOf[s] \in Peer /\ Quiet(s) /\ TxSound(s) /\ PeerSound(PeerOf[s]) /\ Alone
  BY ApplyAssumption DEF StoreInv, CallInv, SessionInv
<1>1. /\ pc[s] = "begin" /\ InTx(PeerOf[s]) = {} /\ pc' = [pc EXCEPT ![s] = "tx"]
      /\ verified' = [verified EXCEPT ![s] = rows[PeerOf[s]]]
      /\ listed' = [listed EXCEPT ![s] = rows[PeerOf[s]]]
      /\ rows' = rows /\ judged' = judged /\ UNCHANGED <<del, ins, judgedBuf>>
  BY DEF Begin, CanEnter, committed, buffers
<1>2. /\ judgedBuf[s] = {} /\ Merged(s)' = judged[PeerOf[s]]
      /\ \A k \in Key : View(s, k)' = rows[PeerOf[s]][k]
  <2>1. judgedBuf[s] = {}
    BY <1>0, <1>1 DEF TxSound
  <2>2. \A k \in Key : del[s][k] = {} /\ ins[s][k] = {}
    BY <1>0, <1>1 DEF Quiet
  <2>3. Merged(s)' = judged[PeerOf[s]]
    BY <1>1, <2>1 DEF Merged
  <2>4. \A k \in Key : View(s, k)' = rows[PeerOf[s]][k]
    BY <1>1, <2>2 DEF View
  <2> QED BY <2>1, <2>3, <2>4
<1>3. verified'[s] = rows[PeerOf[s]] /\ listed'[s] = rows[PeerOf[s]] /\ pc'[s] = "tx"
  BY <1>0, <1>1 DEF TypeOK
<1>4. /\ \A k \in Key : Sound(k, rows[PeerOf[s]][k]) /\ rows[PeerOf[s]][k] \subseteq judged[PeerOf[s]]
      /\ \A o \in judged[PeerOf[s]] : Greatest(o, rows[PeerOf[s]][KeyOf[o]])
  BY <1>0 DEF PeerSound
<1>5. ASSUME NEW k \in Key PROVE Matches(rows[PeerOf[s]][k], rows[PeerOf[s]][k])
  <2>1. Sound(k, rows[PeerOf[s]][k])
    BY <1>4
  <2> QED BY <2>1 DEF Matches, Sound, Readable
<1>6. \A o \in judged[PeerOf[s]] : o \in Op /\ KeyOf[o] \in Key
  BY <1>0, OpAssumption DEF TypeOK
<1>7. /\ \A k \in Key : /\ Sound(k, View(s, k)') /\ View(s, k)' \subseteq Merged(s)'
                        /\ verified'[s][k] = View(s, k)'
                        /\ Matches(listed'[s][k], View(s, k)')
      /\ \A o \in Merged(s)' : Greatest(o, View(s, KeyOf[o])')
  BY <1>2, <1>3, <1>4, <1>5, <1>6
<1>8. TxSound(s)'
  BY <1>3, <1>7 DEF TxSound, Sound, Readable, Matches, Greatest
<1>9. Alone'
  <2>1. \A t \in Session : PeerOf[t] = PeerOf[s] => pc[t] # "tx"
    BY <1>1 DEF InTx
  <2>2. \A t \in Session : t # s => pc'[t] = pc[t]
    BY <1>0, <1>1 DEF TypeOK
  <2> QED BY <1>0, <2>1, <2>2 DEF Alone
<1> QED BY <1>8, <1>9

(* What a transaction knows of its candidate's record.                     *)
LEMMA CandidateRecord ==
    ASSUME StoreInv, NEW s \in Session, InPass(s)
    PROVE  /\ TypeOK /\ TxSound(s) /\ pc[s] = "tx" /\ Merged(s) \in SUBSET Op
           /\ Candidate(s) \in Op /\ KeyOf[Candidate(s)] \in Key
           /\ LET k == KeyOf[Candidate(s)]
              IN  /\ View(s, k) \in SUBSET Op /\ Sound(k, View(s, k))
                  /\ View(s, k) \subseteq Merged(s)
                  /\ verified[s][k] = View(s, k) /\ Matches(listed[s][k], View(s, k))
           /\ \A m \in Merged(s) : KeyOf[m] = KeyOf[Candidate(s)] =>
                 Greatest(m, View(s, KeyOf[Candidate(s)]))
<1>1. TypeOK /\ TxSound(s) /\ pc[s] = "tx" /\ PeerOf[s] \in Peer
  BY ApplyAssumption DEF StoreInv, CallInv, InPass
<1>2. Candidate(s) \in Op /\ KeyOf[Candidate(s)] \in Key
  BY <1>1, CandidateType
<1>3. Merged(s) \in SUBSET Op
  BY <1>1 DEF Merged, TypeOK
<1>4. View(s, KeyOf[Candidate(s)]) \in SUBSET Op
  BY <1>1, <1>2, ViewType
<1> QED BY <1>1, <1>2, <1>3, <1>4 DEF TxSound

(* A candidate that is replayed, parked, rejected or beaten.               *)
LEMMA SkipSound ==
    ASSUME StoreInv, NEW s \in Session, Replay(s) \/ Park(s) \/ Reject(s) \/ Lose(s)
    PROVE  TxSound(s)' /\ pc' = pc
<1> DEFINE o == Candidate(s)
           k == KeyOf[o]
<1>1. InPass(s) /\ Skip(s)
  BY DEF Replay, Park, Reject, Lose
<1>2. CASE judgedBuf' = judgedBuf
  <2>1. Detached(s) /\ SameStore(PeerOf[s]) /\ pc' = pc
    BY <1>1, <1>2 DEF Skip, Detached, SameStore, committed, cache
  <2> QED BY <2>1, DetachedSound DEF StoreInv
<1>3. CASE Lose(s)
  <2>1. /\ TypeOK /\ TxSound(s) /\ pc[s] = "tx" /\ Merged(s) \in SUBSET Op
        /\ o \in Op /\ k \in Key /\ Sound(k, View(s, k))
        /\ View(s, k) \subseteq Merged(s) /\ verified[s][k] = View(s, k)
        /\ Matches(listed[s][k], View(s, k))
        /\ \A m \in Merged(s) : KeyOf[m] = k => Greatest(m, View(s, k))
    BY <1>1, CandidateRecord
  <2>2. judgedBuf'[s] = judgedBuf[s] \cup {o}
    BY <1>3, <2>1 DEF Lose, TypeOK
  <2>3. UNCHANGED <<rows, judged, pc, del, ins, verified, listed>>
    BY <1>1 DEF Skip, committed, cache
  <2>4. Merged(s)' = Merged(s) \cup {o} /\ \A j \in Key : View(s, j)' = View(s, j)
    BY <2>2, <2>3 DEF Merged, View
  <2>5. Greatest(o, View(s, k))
    <3>1. ~PolicyRejects(s, o) /\ ~Prevails(s, o)
      BY <1>3 DEF Lose
    <3>2. PICK c \in View(s, k) : ~Wins(o, c)
      BY <2>1, <3>1 DEF PolicyRejects, Prevails
    <3>3. ASSUME NEW d \in View(s, k) PROVE ~Wins(o, d)
      <4>1. c \in Op /\ d \in Op /\ KeyOf[d] = KeyOf[o] /\ Digest[d] = Digest[c]
        BY <2>1, <3>2, <3>3 DEF Sound, Readable
      <4> QED BY <2>1, <3>2, <4>1, WinsSameDigest
    <3> QED BY <3>2, <3>3 DEF Greatest
  <2> HIDE DEF o, k
  <2>6. k = KeyOf[o]
    BY DEF k
  <2>7. \A m \in Merged(s) \cup {o} : KeyOf[m] = k => Greatest(m, View(s, k))
    BY <2>1, <2>5
  <2>8. TxSound(s)'
    BY <2>1, <2>3, <2>4, <2>6, <2>7, MergedSound
  <2> QED BY <2>3, <2>8
<1> QED BY <1>2, <1>3 DEF Replay, Park, Reject

(* A candidate that wins: by transitivity nothing merged before beats it.  *)
LEMMA WinSound ==
    ASSUME StoreInv, NEW s \in Session, Win(s)
    PROVE  TxSound(s)' /\ pc' = pc
<1>0. PICK o \in Op, k \in Key : o = Candidate(s) /\ k = KeyOf[o]
  BY CandidateRecord DEF Win
<1>1. InPass(s) /\ ~SameDecision(s, o) /\ Prevails(s, o) /\ Store(s)
      /\ WriteCopies(s, k, putCopy(o, View(s, k)))
      /\ verified' = [verified EXCEPT ![s][k] = {o}]
      /\ listed' = [listed EXCEPT ![s][k] = {o}]
  BY <1>0 DEF Win
<1>2. /\ TypeOK /\ TxSound(s) /\ pc[s] = "tx" /\ Merged(s) \in SUBSET Op
      /\ o \in Op /\ k \in Key /\ Sound(k, View(s, k))
      /\ View(s, k) \subseteq Merged(s) /\ verified[s][k] = View(s, k)
      /\ Matches(listed[s][k], View(s, k))
      /\ \A m \in Merged(s) : KeyOf[m] = k => Greatest(m, View(s, k))
  BY <1>0, <1>1, CandidateRecord
<1>3. \A c \in View(s, k) : Digest[c] # Digest[o]
  BY <1>0, <1>1, <1>2 DEF SameDecision, Matches
<1>4. putCopy(o, View(s, k)) = {o}
  BY <1>2, <1>3, PutCopyReplaces
<1>5. /\ judgedBuf' = [judgedBuf EXCEPT ![s] = @ \cup {o}]
      /\ UNCHANGED <<rows, judged, pc>>
  BY <1>0, <1>1 DEF Store, committed
<1>6. Prevails(s, o)
  BY <1>1
<1>7. k = KeyOf[o]
  BY <1>0
<1>8. Merged(s)' = Merged(s) \cup {o}
  BY <1>2, <1>5 DEF Merged, TypeOK
<1>9. View(s, k)' = {o} /\ \A j \in Key : j # k => View(s, j)' = View(s, j)
  <2>1. {o} \in SUBSET Op /\ WriteCopies(s, k, {o})
    BY <1>1, <1>2, <1>4
  <2> QED BY <1>2, <1>5, <2>1, WrittenView
<1>10. /\ verified'[s][k] = {o} /\ listed'[s][k] = {o}
       /\ \A j \in Key : j # k => verified'[s][j] = verified[s][j] /\ listed'[s][j] = listed[s][j]
  BY <1>1, <1>2 DEF TypeOK
<1>11. ASSUME NEW m \in Merged(s) \cup {o}, KeyOf[m] = k PROVE Greatest(m, {o})
  <2>0. m \in Op
    BY <1>2, <1>11
  <2>1. CASE m = o
    <3>1. ~Wins(o, o)
      BY <1>2, WinsIrreflexive
    <3> QED BY <2>1, <3>1 DEF Greatest
  <2>2. CASE m # o
    <3>1. Greatest(m, View(s, k))
      BY <1>2, <1>11, <2>2
    <3>2. PICK c \in View(s, k) : ~Wins(m, c)
      BY <3>1 DEF Greatest
    <3>3. Wins(o, c)
      BY <1>2, <1>6, <1>7, <3>2 DEF Prevails
    <3>4. SameRecord(m, o) /\ SameRecord(o, c)
      BY <1>2, <1>7, <1>11, <2>0, <3>2 DEF SameRecord, Sound
    <3>5. ~Wins(m, o)
      BY <3>2, <3>3, <3>4, WinsTransitive
    <3> QED BY <3>5 DEF Greatest
  <2> QED BY <2>1, <2>2
<1>12. Sound(k, {o}) /\ Matches({o}, {o})
  BY <1>2, <1>7, OneCopySound DEF Matches
<1>13. TxSound(s)'
  <2>1. PICK copies : copies = {o}
    OBVIOUS
  <2>2. /\ View(s, k)' = copies /\ verified'[s][k] = copies /\ Sound(k, copies)
        /\ Matches(listed'[s][k], copies) /\ copies \subseteq Merged(s) \cup {o}
        /\ \A m \in Merged(s) \cup {o} : KeyOf[m] = k => Greatest(m, copies)
    BY <1>9, <1>10, <1>11, <1>12, <2>1
  <2>3. /\ TxSound(s) /\ pc[s] = "tx" /\ pc'[s] = "tx" /\ rows' = rows /\ judged' = judged
        /\ Merged(s) \in SUBSET Op
        /\ \A j \in Key : j # k => View(s, j)' = View(s, j)
        /\ \A j \in Key : j # k => verified'[s][j] = verified[s][j]
        /\ \A j \in Key : j # k => listed'[s][j] = listed[s][j]
    BY <1>2, <1>5, <1>9, <1>10
  <2> QED BY <1>7, <1>8, <2>2, <2>3, MergedSound
<1> QED BY <1>5, <1>13

(* Another copy of the stored decision.                                    *)
LEMMA AddCopySound ==
    ASSUME StoreInv, NEW s \in Session, AddCopy(s)
    PROVE  TxSound(s)' /\ pc' = pc
<1>0. PICK o \in Op, k \in Key : o = Candidate(s) /\ k = KeyOf[o]
  BY CandidateRecord DEF AddCopy
<1>p. PICK pruned : pruned = Pruned(s, o)
  OBVIOUS
<1>c. PICK copies : copies = pruneCopies(putCopy(o, View(s, k)), pruned)
  OBVIOUS
<1>h. PICK held : held = rememberCopy(o, pruneCopies(verified[s][k], pruned))
  OBVIOUS
<1>1. /\ InPass(s) /\ SameDecision(s, o) /\ Store(s)
      /\ WriteCopies(s, k, copies)
      /\ verified' = [verified EXCEPT ![s][k] = held]
      /\ listed' = [listed EXCEPT ![s][k] = IF o \in held THEN held ELSE @]
  BY <1>0, <1>p, <1>c, <1>h DEF AddCopy
<1>2. /\ TypeOK /\ TxSound(s) /\ pc[s] = "tx" /\ Merged(s) \in SUBSET Op
      /\ o \in Op /\ k \in Key /\ Sound(k, View(s, k))
      /\ View(s, k) \subseteq Merged(s) /\ verified[s][k] = View(s, k)
      /\ Matches(listed[s][k], View(s, k))
      /\ \A m \in Merged(s) : KeyOf[m] = k => Greatest(m, View(s, k))
  BY <1>0, <1>1, CandidateRecord
<1>3. PICK w \in View(s, k) : Digest[w] = Digest[o]
  BY <1>0, <1>1, <1>2 DEF SameDecision, Matches
<1>4. IssuerOf[o] \notin pruned
  BY <1>0, <1>p DEF Pruned
<1>5. /\ judgedBuf' = [judgedBuf EXCEPT ![s] = @ \cup {o}]
      /\ UNCHANGED <<rows, judged, pc>>
  BY <1>0, <1>1 DEF Store, committed
<1>6. /\ Sound(k, copies) /\ copies # {} /\ held = copies
      /\ copies \subseteq View(s, k) \cup {o}
      /\ \A c \in copies : Digest[c] = Digest[o]
  <2>2. LET cs == pruneCopies(putCopy(o, View(s, k)), pruned)
            hs == rememberCopy(o, pruneCopies(View(s, k), pruned))
        IN  /\ Sound(k, cs) /\ cs # {} /\ hs = cs
            /\ cs \subseteq View(s, k) \cup {o}
            /\ \A c \in cs : Digest[c] = Digest[o]
    BY <1>0, <1>2, <1>3, <1>4, AddedCopies
  <2> QED BY <1>2, <1>c, <1>h, <2>2
<1>7. k = KeyOf[o]
  BY <1>0
<1>8. Merged(s)' = Merged(s) \cup {o}
  BY <1>2, <1>5 DEF Merged, TypeOK
<1>9. View(s, k)' = copies /\ \A j \in Key : j # k => View(s, j)' = View(s, j)
  <2>1. copies \in SUBSET Op
    BY <1>6 DEF Sound
  <2> QED BY <1>1, <1>2, <1>5, <2>1, WrittenView
<1>10. /\ verified'[s][k] = copies
       /\ listed'[s][k] = copies \/ listed'[s][k] = listed[s][k]
       /\ \A j \in Key : j # k => verified'[s][j] = verified[s][j] /\ listed'[s][j] = listed[s][j]
  BY <1>1, <1>2, <1>6 DEF TypeOK
<1>11. ASSUME NEW m \in Merged(s) \cup {o}, KeyOf[m] = k PROVE Greatest(m, copies)
  <2>0. m \in Op /\ w \in Op /\ KeyOf[w] = k
    BY <1>2, <1>3, <1>11 DEF Sound
  <2>1. ASSUME NEW c \in copies PROVE ~Wins(m, c)
    <3>0. c \in Op /\ Digest[c] = Digest[o] /\ KeyOf[c] = k
      BY <1>6, <2>1 DEF Sound
    <3>1. CASE m = o
      BY <1>2, <3>0, <3>1, WinsIrreflexive
    <3>2. CASE m # o
      <4>1. ~Wins(m, w)
        BY <1>2, <1>3, <1>11, <3>2 DEF Greatest
      <4> QED BY <1>3, <1>11, <2>0, <3>0, <4>1, WinsSameDigest
    <3> QED BY <3>1, <3>2
  <2> QED BY <1>6, <2>1 DEF Greatest
<1>12. Matches(listed'[s][k], copies)
  <2>1. CASE listed'[s][k] = copies
    BY <1>6, <2>1 DEF Matches, Sound, Readable
  <2>2. CASE listed'[s][k] = listed[s][k]
    <3>1. listed[s][k] \subseteq Op /\ listed[s][k] # {}
      BY <1>2, <1>3 DEF Matches
    <3>2. \A a \in listed[s][k] : Digest[a] = Digest[o]
      BY <1>2, <1>3 DEF Matches
    <3> QED BY <1>6, <2>2, <3>1, <3>2 DEF Matches
  <2> QED BY <1>10, <2>1, <2>2
<1>13. copies \subseteq Merged(s) \cup {o}
  BY <1>2, <1>6
<1>14. TxSound(s)'
  BY <1>2, <1>5, <1>6, <1>7, <1>8, <1>9, <1>10, <1>11, <1>12, <1>13, MergedSound
<1> QED BY <1>5, <1>14

(* Steps outside the judging of candidates: entering aside, the session's  *)
(* transaction is unchanged, gone, or was never begun.                     *)
LEMMA OutsideSound ==
    ASSUME StoreInv, NEW s \in Session,
           \/ \E chunk \in Chunk : Submit(s, chunk)
           \/ Prefetch(s) \/ SourceChanged(s) \/ RefuseContent(s)
           \/ RetryParked(s) \/ Commit(s) \/ ReceiveClock(s) \/ Fault(s)
    PROVE  TxSound(s)' /\ (pc'[s] = "tx" => pc[s] = "tx")
<1>0. TypeOK /\ TxSound(s)
  BY DEF StoreInv, CallInv
<1>1. CASE RetryParked(s)
  <2>1. Detached(s) /\ SameStore(PeerOf[s]) /\ pc' = pc
    BY <1>1 DEF RetryParked, Detached, SameStore, committed, cache, buffers
  <2> QED BY <1>0, <2>1, DetachedSound
<1>2. CASE RefuseContent(s) \/ Commit(s) \/ Fault(s)
  <2>1. ClearTx(s) /\ pc'[s] # "tx"
    BY <1>0, <1>2 DEF RefuseContent, Commit, Fault, EndCall, NextAttempt, TypeOK
  <2>2. judgedBuf'[s] = {}
    BY <1>0, <2>1 DEF ClearTx, TypeOK
  <2> QED BY <2>1, <2>2 DEF TxSound
<1>3. CASE \/ \E chunk \in Chunk : Submit(s, chunk)
           \/ Prefetch(s) \/ SourceChanged(s) \/ ReceiveClock(s)
  <2>1. pc[s] # "tx" /\ pc'[s] # "tx"
    BY <1>0, <1>3 DEF Submit, Prefetch, SourceChanged, ReceiveClock, EndCall, NextAttempt, TypeOK
  <2>2. judgedBuf' = judgedBuf
    BY <1>3 DEF Submit, Prefetch, SourceChanged, ReceiveClock, buffers
  <2> QED BY <1>0, <2>1, <2>2 DEF TxSound
<1> QED BY <1>1, <1>2, <1>3

(* A commit publishes the session's view.                                  *)
LEMMA CommitSound ==
    ASSUME StoreInv, NEW s \in Session, Commit(s)
    PROVE  PeerSound(PeerOf[s])'
<1> DEFINE p == PeerOf[s]
<1>0. TypeOK /\ TxSound(s) /\ pc[s] = "tx" /\ p \in Peer
  BY ApplyAssumption DEF StoreInv, CallInv, Commit, PassDone
<1>1. rows'[p] = [k \in Key |-> View(s, k)] /\ judged'[p] = Merged(s)
  BY <1>0 DEF Commit, Merged, TypeOK
<1>2. \A o \in Merged(s) : KeyOf[o] \in Key
  BY <1>0, OpAssumption DEF Merged, TypeOK
<1>3. /\ \A k \in Key : Sound(k, rows'[p][k]) /\ rows'[p][k] \subseteq judged'[p]
      /\ \A o \in judged'[p] : Greatest(o, rows'[p][KeyOf[o]])
  BY <1>0, <1>1, <1>2 DEF TxSound
<1> QED BY <1>3 DEF PeerSound, Sound, Readable, Greatest

(* The initial store is sound: one intact op per seeded record.            *)
LEMMA InitStoreInv == Init => StoreInv
<1> SUFFICES ASSUME Init PROVE StoreInv
  OBVIOUS
<1>1. CallInv
  BY InitCallInv
<1>2. Alone /\ \A s \in Session : TxSound(s)
  BY DEF Init, Alone, TxSound
<1>3. ASSUME NEW p \in Peer PROVE PeerSound(p)
  <2>1. /\ judged[p] = Seed /\ Seed \subseteq Op
        /\ \A k \in Key : rows[p][k] = {o \in Seed : KeyOf[o] = k}
    BY ApplyAssumption DEF Init
  <2>2. \A a, b \in Seed : KeyOf[a] = KeyOf[b] => a = b
    BY ApplyAssumption
  <2>3. ASSUME NEW k \in Key
        PROVE  Sound(k, rows[p][k]) /\ rows[p][k] \subseteq judged[p]
    <3>1. rows[p][k] = {o \in Seed : KeyOf[o] = k}
      BY <2>1
    <3>2. \A a, b \in rows[p][k] : a = b
      BY <2>2, <3>1
    <3>3. rows[p][k] \subseteq Op /\ \A c \in rows[p][k] : KeyOf[c] = k
      BY <2>1, <3>1
    <3>4. Sound(k, rows[p][k])
      BY <3>2, <3>3 DEF Sound, Readable
    <3> QED BY <2>1, <3>1, <3>4
  <2>4. ASSUME NEW o \in judged[p] PROVE Greatest(o, rows[p][KeyOf[o]])
    <3>0. o \in Seed /\ o \in Op
      BY <2>1
    <3>1. o \in Op /\ KeyOf[o] \in Key /\ rows[p][KeyOf[o]] = {o}
      <4>1. KeyOf[o] \in Key
        BY <3>0, OpAssumption
      <4>2. {c \in Seed : KeyOf[c] = KeyOf[o]} = {o}
        BY <2>2, <3>0
      <4> QED BY <2>1, <3>0, <4>1, <4>2
    <3>2. ~Wins(o, o)
      BY <3>1, WinsIrreflexive
    <3> QED BY <3>1, <3>2 DEF Greatest
  <2> QED BY <2>3, <2>4 DEF PeerSound
<1> QED BY <1>1, <1>2, <1>3 DEF StoreInv

(* The store invariant is inductive on a single-writer database.           *)
LEMMA NextStoreInv ==
    ASSUME SingleWriter
    PROVE  StoreInv /\ [Next]_vars => StoreInv'
<1> SUFFICES ASSUME StoreInv, [Next]_vars PROVE StoreInv'
  OBVIOUS
<1>0. /\ CallInv /\ TypeOK /\ Alone
      /\ \A p \in Peer : PeerSound(p)
      /\ \A t \in Session : TxSound(t) /\ PeerOf[t] \in Peer
  BY ApplyAssumption DEF StoreInv, CallInv
<1>1. CallInv'
  BY <1>0, NextCallInv
<1>2. ASSUME NEW s \in Session,
             Advance(s) \/ Fault(s) \/ \E chunk \in Chunk : Submit(s, chunk)
      PROVE  StoreInv'
  <2>1. \A t \in Session : t # s => Detached(t)
    BY <1>0, <1>2, OthersDetached
  <2>2. TxSound(s)' /\ (pc'[s] = "tx" => pc[s] = "tx" \/ Begin(s))
    BY <1>2, BeginSound, SkipSound, WinSound, AddCopySound, OutsideSound DEF Advance
  <2>3. ASSUME NEW t \in Session, t # s PROVE TxSound(t)'
    <3>1. pc[t] = "tx" => ~Commit(s) \/ PeerOf[t] # PeerOf[s]
      BY <1>0, <2>3 DEF Alone, Commit, PassDone
    <3>2. pc[t] = "tx" => SameStore(PeerOf[t])
      BY <1>0, <1>2, <3>1, OnlyCommitWrites
    <3> QED BY <1>0, <2>1, <2>3, <3>2, DetachedSound
  <2>4. ASSUME NEW p \in Peer PROVE PeerSound(p)'
    <3>1. CASE Commit(s) /\ p = PeerOf[s]
      BY <3>1, CommitSound
    <3>2. CASE ~Commit(s) \/ p # PeerOf[s]
      BY <1>0, <1>2, <3>2, OnlyCommitWrites, SameStoreSound
    <3> QED BY <3>1, <3>2
  <2>5. Alone'
    <3>1. CASE Begin(s)
      BY <3>1, BeginSound
    <3>2. CASE ~Begin(s)
      <4>1. \A t \in Session : pc'[t] = "tx" => pc[t] = "tx"
        BY <2>1, <2>2, <3>2 DEF Detached
      <4> QED BY <1>0, <4>1 DEF Alone
    <3> QED BY <3>1, <3>2
  <2> QED BY <1>1, <2>2, <2>3, <2>4, <2>5 DEF StoreInv
<1>3. CASE Tick \/ (\E p \in Peer : ChangeAuthority(p)) \/ UNCHANGED vars
  <2>1. pc' = pc /\ (\A t \in Session : Detached(t)) /\ \A p \in Peer : SameStore(p)
    BY <1>3 DEF Tick, ChangeAuthority, vars, Detached, SameStore, committed, buffers, cache
  <2>2. \A t \in Session : TxSound(t)'
    BY <1>0, <2>1, DetachedSound
  <2>3. \A p \in Peer : PeerSound(p)'
    BY <1>0, <2>1, SameStoreSound
  <2>4. Alone'
    BY <1>0, <2>1 DEF Alone
  <2> QED BY <1>1, <2>2, <2>3, <2>4 DEF StoreInv
<1> QED BY <1>2, <1>3 DEF Next

-----------------------------------------------------------------------------
(* The theorems.                                                           *)

(* The rows of a record never disagree on its decision, so decision() can  *)
(* always read it: on a single-writer database, whatever chunks arrive.    *)
THEOREM SingleWriterOneDecision ==
    ASSUME SingleWriter
    PROVE  Spec => []OneDecision
<1>1. StoreInv => OneDecision
  BY DEF StoreInv, PeerSound, Sound, OneDecision
<1> QED BY <1>1, InitStoreInv, NextStoreInv, PTL DEF Spec

(* putCopy and pruneCopy never leave two copies of one signing key.        *)
THEOREM SingleWriterOneCopyPerSigner ==
    ASSUME SingleWriter
    PROVE  Spec => []OneCopyPerSigner
<1>1. StoreInv => OneCopyPerSigner
  BY DEF StoreInv, PeerSound, Sound, OneCopyPerSigner
<1> QED BY <1>1, InitStoreInv, NextStoreInv, PTL DEF Spec

(* The chunk cache equals what the store would answer, at every step of    *)
(* every transaction.                                                      *)
THEOREM SingleWriterCacheCoherent ==
    ASSUME SingleWriter
    PROVE  Spec => []CacheCoherent
<1>1. StoreInv => CacheCoherent
  <2> SUFFICES ASSUME StoreInv, NEW s \in Session, pc[s] = "tx", NEW k \in Consulted(s)
               PROVE  verified[s][k] = View(s, k)
    BY DEF CacheCoherent
  <2>1. TypeOK /\ TxSound(s)
    BY DEF StoreInv, CallInv
  <2>2. PICK o \in Elems(active[s]) : k \in {KeyOf[o]} \cup {d.key : d \in Deps[o]}
    BY DEF Consulted
  <2>3. o \in Op
    BY <2>1, RangeFacts DEF TypeOK
  <2>4. k \in Key
    BY <2>2, <2>3, OpAssumption, ApplyAssumption
  <2> QED BY <2>1, <2>4 DEF TxSound
<1> QED BY <1>1, InitStoreInv, NextStoreInv, PTL DEF Spec

(* No op ever merged beats the copies held: whatever the order of arrival, *)
(* duplicates, retries, refusals and rollbacks.                            *)
THEOREM SingleWriterWinnerIsGreatest ==
    ASSUME SingleWriter
    PROVE  Spec => []WinnerIsGreatest
<1>1. StoreInv => WinnerIsGreatest
  BY DEF StoreInv, PeerSound, Greatest, WinnerIsGreatest
<1> QED BY <1>1, InitStoreInv, NextStoreInv, PTL DEF Spec

(* A commit never drops a record or takes it back to an op that loses.     *)
THEOREM SingleWriterNeverRegresses ==
    ASSUME SingleWriter
    PROVE  Spec => NeverRegresses
<1> DEFINE Keeps == \A p \in Peer, k \in Key : \A c \in rows[p][k] :
                       /\ rows'[p][k] # {}
                       /\ \A d \in rows'[p][k] : ~Wins(c, d)
<1>1. StoreInv /\ StoreInv' /\ [Next]_vars => [Keeps]_vars
  <2> SUFFICES ASSUME StoreInv, StoreInv', [Next]_vars,
                      NEW p \in Peer, NEW k \in Key, NEW c \in rows[p][k]
               PROVE  rows'[p][k] # {} /\ \A d \in rows'[p][k] : ~Wins(c, d)
    OBVIOUS
  <2>1. TypeOK /\ PeerSound(p) /\ PeerSound(p)'
    BY DEF StoreInv, CallInv
  <2>2. c \in judged[p] /\ KeyOf[c] = k
    BY <2>1 DEF PeerSound, Sound
  <2>3. judged[p] \subseteq judged'[p]
    <3>1. CASE \E s \in Session : Commit(s)
      BY <2>1, <3>1 DEF Commit, TypeOK
    <3>2. CASE ~\E s \in Session : Commit(s)
      <4>1. CASE \E s \in Session :
                     Advance(s) \/ Fault(s) \/ \E chunk \in Chunk : Submit(s, chunk)
        BY <2>1, <3>2, <4>1, OnlyCommitWrites DEF SameStore
      <4>2. CASE Tick \/ (\E q \in Peer : ChangeAuthority(q)) \/ UNCHANGED vars
        BY <4>2 DEF Tick, ChangeAuthority, vars, committed
      <4> QED BY <4>1, <4>2 DEF Next
    <3> QED BY <3>1, <3>2
  <2> QED BY <2>1, <2>2, <2>3 DEF PeerSound, Greatest
<1> QED BY <1>1, InitStoreInv, NextStoreInv, PTL DEF Spec, NeverRegresses

-----------------------------------------------------------------------------
(* What is stored beside the copies: dependencies and projections.         *)

(* The policy can order the op, or it decides as a copy stored from the    *)
(* beginning does, of which there is one per record.                       *)
Ranked(o) ==
    \/ admitFirstWrite(o)
    \/ \E c \in Seed : KeyOf[c] = KeyOf[o] /\ Digest[c] = Digest[o]

(* A record's row among the projections is that of its copies.             *)
Faithful(k, copies, row, denied) ==
    IF copies = {} \/ TypeOf[k] = "revocation" THEN row = NoRow
    ELSE \A c \in copies : IF c \notin Live \/ revoked(c, denied)
                           THEN row = NoRow
                           ELSE row \in Op /\ Digest[row] = Digest[c]

(* The tables agree: V the copies, P the projections, D who is denied, and *)
(* M what was merged to come there.                                        *)
Whole(V, P, D, M) ==
    /\ \A o \in M : o \in Op /\ o \in Intact /\ Ranked(o)
    /\ \A k \in Key : V[k] \subseteq M /\ \A c \in V[k] : KeyOf[c] = k
    /\ \A k \in Key : P[k] \in M \cup {NoRow}
    /\ \A k \in Key : Faithful(k, V[k], P[k], D)

(* Every copy has what it depends on.                                      *)
Closed(V) ==
    \A k \in Key : \A c \in V[k] : \A d \in Deps[c] : V[d.key] \cap d.by # {}

-----------------------------------------------------------------------------
(* Operators.                                                              *)

(* An op that does not lose for being unordered can be ordered.            *)
LEMMA NotRejectedAdmits ==
    ASSUME NEW o \in Op, NEW c \in Op, o # c, compareRecordOps(o, c) # "reject"
    PROVE  admitFirstWrite(o)
<1>1. KeyOf[o] \in Key /\ Policy[KeyOf[o]] \in PolicyKind
  BY OpAssumption
<1>2. CASE Policy[KeyOf[o]] = "lww"
  <2>1. compareRecordOps(o, c) = compareLWW(o, c)
    BY <1>2 DEF compareRecordOps
  <2>2. Hlc[o] # NoStamp
    BY <2>1 DEF compareLWW
  <2> QED BY <1>2, <2>2 DEF admitFirstWrite
<1>3. CASE Policy[KeyOf[o]] = "monotonic"
  <2>1. compareRecordOps(o, c) = compareMonotonic(o, c)
    BY <1>3 DEF compareRecordOps
  <2>2. o \notin Unreadable
    BY <2>1 DEF compareMonotonic
  <2> QED BY <1>3, <2>2 DEF admitFirstWrite
<1>4. CASE Policy[KeyOf[o]] = "immutable"
  BY <1>4 DEF admitFirstWrite
<1> QED BY <1>1, <1>2, <1>3, <1>4 DEF PolicyKind

LEMMA WinnerAdmits ==
    ASSUME NEW o \in Op, NEW c \in Op, Wins(o, c)
    PROVE  admitFirstWrite(o)
<1>1. compareRecordOps(o, c) # "reject" /\ compareRecordOps(o, c) # "noop"
  BY DEF Wins
<1>2. o # c
  BY <1>1 DEF compareRecordOps
<1> QED BY <1>1, <1>2, NotRejectedAdmits

(* An op that can be ordered beats one that cannot.                        *)
LEMMA AdmittedBeats ==
    ASSUME NEW a \in Op, NEW b \in Op, KeyOf[a] = KeyOf[b],
           admitFirstWrite(a), ~admitFirstWrite(b)
    PROVE  Wins(a, b)
<1>1. KeyOf[a] \in Key /\ Policy[KeyOf[a]] \in PolicyKind /\ a # b
  BY OpAssumption
<1>2. CASE Policy[KeyOf[a]] = "lww"
  <2>1. Hlc[a] # NoStamp /\ Hlc[b] = NoStamp
    BY <1>2 DEF admitFirstWrite
  <2>2. compareRecordOps(a, b) = compareLWW(a, b)
    BY <1>1, <1>2 DEF compareRecordOps
  <2>3. compareLWW(a, b) = "apply"
    BY <2>1 DEF compareLWW
  <2> QED BY <2>2, <2>3 DEF Wins
<1>3. CASE Policy[KeyOf[a]] = "monotonic"
  <2>1. a \notin Unreadable /\ b \in Unreadable
    BY <1>3 DEF admitFirstWrite
  <2>2. compareRecordOps(a, b) = compareMonotonic(a, b)
    BY <1>1, <1>3 DEF compareRecordOps
  <2>3. compareMonotonic(a, b) = "apply"
    BY <2>1 DEF compareMonotonic
  <2> QED BY <2>2, <2>3 DEF Wins
<1>4. CASE Policy[KeyOf[a]] = "immutable"
  BY <1>4 DEF admitFirstWrite
<1> QED BY <1>1, <1>2, <1>3, <1>4 DEF PolicyKind

(* Of two ranked ops of a record that decide differently one wins.         *)
LEMMA RankedTotal ==
    ASSUME NEW a \in Op, NEW b \in Op, KeyOf[a] = KeyOf[b], Digest[a] # Digest[b],
           Ranked(a), Ranked(b)
    PROVE  Wins(a, b) \/ Wins(b, a)
<1>1. CASE admitFirstWrite(a) /\ admitFirstWrite(b)
  <2>1. SameRecord(a, b)
    BY DEF SameRecord
  <2> QED BY <1>1, <2>1, WinsTotal
<1>2. CASE admitFirstWrite(a) /\ ~admitFirstWrite(b)
  BY <1>2, AdmittedBeats
<1>3. CASE ~admitFirstWrite(a) /\ admitFirstWrite(b)
  BY <1>3, AdmittedBeats
<1>4. CASE ~admitFirstWrite(a) /\ ~admitFirstWrite(b)
  <2>1. PICK c \in Seed : KeyOf[c] = KeyOf[a] /\ Digest[c] = Digest[a]
    BY <1>4 DEF Ranked
  <2>2. PICK d \in Seed : KeyOf[d] = KeyOf[b] /\ Digest[d] = Digest[b]
    BY <1>4 DEF Ranked
  <2>3. c = d
    BY <2>1, <2>2, ApplyAssumption
  <2> QED BY <2>1, <2>2, <2>3
<1> QED BY <1>1, <1>2, <1>3, <1>4

(* A copy of a ranked decision is ranked.                                  *)
LEMMA RankedCopy ==
    ASSUME NEW a \in Op, NEW b \in Op, Digest[a] = Digest[b], Ranked(a)
    PROVE  Ranked(b)
<1>1. KeyOf[a] = KeyOf[b] /\ Hlc[a] = Hlc[b] /\ (a \in Unreadable <=> b \in Unreadable)
  BY DigestAssumption
<1>2. CASE admitFirstWrite(a)
  <2>1. Policy[KeyOf[b]] \in PolicyKind
    BY OpAssumption
  <2>2. admitFirstWrite(b)
    BY <1>1, <1>2, <2>1 DEF admitFirstWrite, PolicyKind
  <2> QED BY <2>2 DEF Ranked
<1>3. CASE ~admitFirstWrite(a)
  BY <1>1, <1>3 DEF Ranked
<1> QED BY <1>2, <1>3

(* The projections Q that the winner o of record k makes of P, with E      *)
(* denied: its own, less those the denied DIDs lose.                       *)
Reprojected(o, k, P, E, Q) ==
    \A j \in Key :
        LET row == IF j = k THEN projection(o) ELSE P[j]
        IN  Q[j] = IF /\ TypeOf[k] \in {"wrapping", "revocation"}
                      /\ row \in Op /\ LockOf[row] = LockOf[o] /\ revoked(row, E)
                   THEN NoRow
                   ELSE IF j = k /\ TypeOf[k] # "revocation"
                        THEN projection(o) ELSE P[j]

(* A winner replaces a record's copies and its projection, and drops the   *)
(* projections of those it denies.                                         *)
LEMMA WholeWin ==
    ASSUME NEW V, NEW P, NEW D, NEW M, Whole(V, P, D, M),
           NEW o \in Op, NEW k \in Key, k = KeyOf[o], o \in Intact, Ranked(o),
           o \in Live => ~revoked(o, D),
           NEW E, E = D \cup ({LockOf[o]} \X Revokes[o]),
           NEW W, W[k] = {o}, \A j \in Key : j # k => W[j] = V[j],
           NEW Q, Reprojected(o, k, P, E, Q)
    PROVE  Whole(W, Q, E, M \cup {o})
<1> USE DEF Reprojected
<1>0. NoRow \notin Op
  BY OpAssumption DEF NoRow
<1>1. \A c \in M \cup {o} : c \in Op /\ c \in Intact /\ Ranked(c)
  BY DEF Whole
<1>2. \A j \in Key : W[j] \subseteq M \cup {o} /\ \A c \in W[j] : KeyOf[c] = j
  BY DEF Whole
<1>3. projection(o) \in {o, NoRow} /\ (o \in Live => projection(o) = o)
      /\ (o \notin Live => projection(o) = NoRow)
  BY DEF projection
<1>4. \A j \in Key : Q[j] \in M \cup {o} \cup {NoRow}
  BY <1>3 DEF Whole
<1>5. ASSUME NEW j \in Key, j # k PROVE Faithful(j, W[j], Q[j], E)
  <2>1. Faithful(j, V[j], P[j], D) /\ W[j] = V[j] /\ V[j] \subseteq M /\ P[j] \in M \cup {NoRow}
    BY <1>5 DEF Whole
  <2>2. CASE V[j] = {} \/ TypeOf[j] = "revocation"
    <3>1. P[j] = NoRow
      BY <2>1, <2>2 DEF Faithful
    <3>2. Q[j] = NoRow
      BY <1>0, <1>5, <3>1
    <3> QED BY <2>1, <2>2, <3>2 DEF Faithful
  <2>3. CASE ~(V[j] = {} \/ TypeOf[j] = "revocation")
    <3>1. ASSUME NEW c \in W[j]
          PROVE  IF c \notin Live \/ revoked(c, E) THEN Q[j] = NoRow
                 ELSE Q[j] \in Op /\ Digest[Q[j]] = Digest[c]
      <4>1. c \in V[j] /\ c \in M /\ c \in Op /\ c \in Intact
        BY <2>1, <3>1, <1>1
      <4>2. IF c \notin Live \/ revoked(c, D) THEN P[j] = NoRow
            ELSE P[j] \in Op /\ Digest[P[j]] = Digest[c]
        BY <2>1, <2>3, <4>1 DEF Faithful
      <4>3. CASE c \notin Live \/ revoked(c, D)
        <5>1. Q[j] = NoRow
          BY <1>0, <1>5, <4>2, <4>3
        <5>2. revoked(c, D) => revoked(c, E)
          BY DEF revoked
        <5> QED BY <4>3, <5>1, <5>2
      <4>4. CASE c \in Live /\ ~revoked(c, D)
        <5>1. PICK r : r = P[j]
          OBVIOUS
        <5>2. r \in Op /\ Digest[r] = Digest[c] /\ r \in Intact
          BY <1>0, <1>1, <2>1, <4>2, <4>4, <5>1
        <5>3. LockOf[r] = LockOf[c] /\ Recipients[r] = Recipients[c]
          BY <4>1, <5>2, ClaimAssumption
        <5>4. revoked(r, E) <=> revoked(c, E)
          BY <5>3 DEF revoked
        <5>5. CASE revoked(c, E)
          <6>1. PICK d \in Recipients[c] : <<LockOf[c], d>> \in E
            BY <5>5 DEF revoked
          <6>2. <<LockOf[c], d>> \notin D
            BY <4>4, <6>1 DEF revoked
          <6>3. LockOf[c] = LockOf[o] /\ d \in Revokes[o]
            BY <6>1, <6>2
          <6>4. TypeOf[k] = "revocation"
            BY <6>3, ClaimAssumption
          <6>5. Q[j] = NoRow
            BY <1>5, <5>1, <5>2, <5>3, <5>4, <5>5, <6>3, <6>4
          <6> QED BY <5>5, <6>5
        <5>6. CASE ~revoked(c, E)
          <6>1. Q[j] = r
            BY <1>5, <5>1, <5>4, <5>6
          <6> QED BY <4>4, <5>2, <5>6, <6>1
        <5> QED BY <5>5, <5>6
      <4> QED BY <4>3, <4>4
    <3> QED BY <2>1, <2>3, <3>1 DEF Faithful
  <2> QED BY <2>2, <2>3
<1>6. Faithful(k, W[k], Q[k], E)
  <2>1. CASE TypeOf[k] = "revocation"
    <3>1. P[k] = NoRow
      BY <2>1 DEF Whole, Faithful
    <3>2. Recipients[o] = {}
      BY <2>1, ClaimAssumption
    <3>3. ~revoked(o, E)
      BY <3>2 DEF revoked
    <3>4. Q[k] = NoRow
      BY <1>0, <1>3, <2>1, <3>1, <3>3
    <3> QED BY <2>1, <3>4 DEF Faithful
  <2>2. CASE TypeOf[k] # "revocation"
    <3>1. Revokes[o] = {}
      BY <2>2, ClaimAssumption
    <3>2. E = D
      BY <3>1
    <3>3. CASE o \in Live
      <4>1. ~revoked(o, E)
        BY <3>2, <3>3
      <4>2. Q[k] = o
        BY <1>3, <2>2, <3>3, <4>1
      <4> QED BY <2>2, <3>3, <4>1, <4>2 DEF Faithful
    <3>4. CASE o \notin Live
      <4>1. Q[k] = NoRow
        BY <1>0, <1>3, <2>2, <3>4
      <4> QED BY <2>2, <3>4, <4>1 DEF Faithful
    <3> QED BY <3>3, <3>4
  <2> QED BY <2>1, <2>2
<1>7. \A j \in Key : Faithful(j, W[j], Q[j], E)
  BY <1>5, <1>6
<1>8. QED
  BY <1>1, <1>2, <1>4, <1>7 DEF Whole

(* Further copies of a decision leave its projection right.                *)
LEMMA WholeAdd ==
    ASSUME NEW V, NEW P, NEW D, NEW M, Whole(V, P, D, M),
           NEW o \in Op, NEW k \in Key, k = KeyOf[o], o \in Intact,
           NEW w \in V[k], Digest[w] = Digest[o],
           NEW copies, copies # {}, copies \subseteq V[k] \cup {o},
           \A c \in copies : Digest[c] = Digest[o],
           NEW W, W[k] = copies, \A j \in Key : j # k => W[j] = V[j]
    PROVE  Whole(W, P, D, M \cup {o})
<1>1. w \in M /\ w \in Op /\ w \in Intact /\ Ranked(w)
  BY DEF Whole
<1>2. Ranked(o)
  BY <1>1, RankedCopy
<1>3. \A c \in M \cup {o} : c \in Op /\ c \in Intact /\ Ranked(c)
  BY <1>2 DEF Whole
<1>4. ASSUME NEW j \in Key
      PROVE  W[j] \subseteq M \cup {o} /\ \A c \in W[j] : KeyOf[c] = j
  <2>1. V[j] \subseteq M /\ \A c \in V[j] : KeyOf[c] = j
    BY DEF Whole
  <2> QED BY <2>1
<1>5. ASSUME NEW j \in Key PROVE Faithful(j, W[j], P[j], D)
  <2>1. Faithful(j, V[j], P[j], D)
    BY DEF Whole
  <2>2. CASE j # k
    BY <2>1, <2>2
  <2>3. CASE j = k
    <3>1. CASE TypeOf[k] = "revocation"
      BY <2>1, <2>3, <3>1 DEF Faithful
    <3>2. CASE TypeOf[k] # "revocation"
      <4>1. IF w \notin Live \/ revoked(w, D) THEN P[k] = NoRow
            ELSE P[k] \in Op /\ Digest[P[k]] = Digest[w]
        BY <2>1, <2>3, <3>2 DEF Faithful
      <4>2. ASSUME NEW c \in copies
            PROVE  IF c \notin Live \/ revoked(c, D) THEN P[k] = NoRow
                   ELSE P[k] \in Op /\ Digest[P[k]] = Digest[c]
        <5>1. c \in Intact /\ c \in Op /\ Digest[c] = Digest[w]
          BY <1>3, <4>2 DEF Whole
        <5>2. /\ c \in Live <=> w \in Live
              /\ LockOf[c] = LockOf[w] /\ Recipients[c] = Recipients[w]
          BY <1>1, <5>1, ClaimAssumption
        <5>3. revoked(c, D) <=> revoked(w, D)
          BY <5>2 DEF revoked
        <5> QED BY <4>1, <5>1, <5>2, <5>3
      <4> QED BY <2>3, <3>2, <4>2 DEF Faithful
    <3> QED BY <3>1, <3>2
  <2> QED BY <2>2, <2>3
<1>6. \A j \in Key : P[j] \in M \cup {o} \cup {NoRow}
  BY DEF Whole
<1> QED BY <1>3, <1>4, <1>5, <1>6 DEF Whole

(* What is written satisfies what the copies before it satisfied.          *)
LEMMA ClosedWrite ==
    ASSUME DependenciesLast, NEW V, Closed(V),
           \A j \in Key : V[j] \in SUBSET Op /\ \A c \in V[j] : KeyOf[c] = j,
           NEW o \in Op, NEW k \in Key, k = KeyOf[o], o \in Signed, o \in Admissible,
           \A d \in Deps[o] : V[d.key] \cap d.by # {},
           NEW copies, copies # {}, copies \subseteq V[k] \cup {o},
           \A c \in copies, a \in V[k] : Digest[c] = Digest[a] \/ (c = o /\ Wins(c, a)),
           NEW W, W[k] = copies, \A j \in Key : j # k => W[j] = V[j]
    PROVE  Closed(W)
<1>1. ASSUME NEW j \in Key, NEW c \in W[j], NEW d \in Deps[c]
      PROVE  W[d.key] \cap d.by # {}
  <2>1. c \in Op /\ V[d.key] \cap d.by # {}
    <3>1. c \in V[j] \/ c = o
      BY <1>1
    <3> QED BY <1>1, <3>1 DEF Closed
  <2>2. d.key \in Key
    BY <1>1, <2>1, ApplyAssumption
  <2>3. CASE d.key # k
    BY <2>1, <2>2, <2>3
  <2>4. CASE d.key = k
    <3>1. PICK a \in V[k] : a \in d.by
      BY <2>1, <2>4
    <3>2. PICK b \in copies : TRUE
      OBVIOUS
    <3>3. a \in Op /\ KeyOf[a] = k /\ b \in Op /\ KeyOf[b] = k
      BY <3>1, <3>2
    <3>4. Digest[a] = Digest[b] \/ (b \in Signed \cap Admissible /\ Wins(b, a))
      BY <3>1, <3>2
    <3>5. \A x \in d.by, y \in Op :
             /\ KeyOf[x] = d.key /\ KeyOf[y] = d.key
             /\ Digest[x] = Digest[y] \/ (y \in Signed \cap Admissible /\ Wins(y, x))
             => y \in d.by
      BY <1>1, <2>1 DEF DependenciesLast
    <3>6. b \in d.by
      BY <2>4, <3>1, <3>3, <3>4, <3>5
    <3> QED BY <2>4, <3>2, <3>6
  <2> QED BY <2>3, <2>4
<1> QED BY <1>1 DEF Closed

-----------------------------------------------------------------------------
(* The tables of a peer, and those a transaction would commit.             *)

Tables(V, P, D, M) == Whole(V, P, D, M) /\ (DependenciesLast => Closed(V))

Views(s) == [k \in Key |-> View(s, k)]

ProjViews(s) == [k \in Key |-> ProjView(s, k)]

PeerTables(p) == Tables(rows[p], proj[p], revs[p], judged[p])

TxTables(s) ==
    /\ pc[s] # "tx" => revsBuf[s] = {} /\ \A k \in Key : projBuf[s][k] = Keep
    /\ pc[s] = "tx" => Tables(Views(s), ProjViews(s), RevsView(s), Merged(s))

TablesInv ==
    /\ StoreInv
    /\ \A p \in Peer : PeerTables(p)
    /\ \A s \in Session : TxTables(s)

(* What TxTables reads of a session and of its peer besides.               *)
SameBuffers(t) == projBuf'[t] = projBuf[t] /\ revsBuf'[t] = revsBuf[t]

SameTables(p) == proj'[p] = proj[p] /\ revs'[p] = revs[p]

(* A transaction nothing disturbs keeps its tables.                        *)
LEMMA DetachedTables ==
    ASSUME NEW t \in Session, TxTables(t), Detached(t), SameBuffers(t),
           pc[t] = "tx" => SameStore(PeerOf[t]) /\ SameTables(PeerOf[t])
    PROVE  TxTables(t)'
<1>1. pc'[t] # "tx" => revsBuf'[t] = {} /\ \A k \in Key : projBuf'[t][k] = Keep
  BY DEF TxTables, Detached, SameBuffers
<1>2. ASSUME pc'[t] = "tx"
      PROVE  Tables(Views(t), ProjViews(t), RevsView(t), Merged(t))'
  <2>1. Tables(Views(t), ProjViews(t), RevsView(t), Merged(t))
    BY <1>2 DEF TxTables, Detached
  <2>2. /\ Views(t)' = Views(t) /\ ProjViews(t)' = ProjViews(t)
        /\ RevsView(t)' = RevsView(t) /\ Merged(t)' = Merged(t)
    BY <1>2 DEF Detached, SameBuffers, SameStore, SameTables, Views, ProjViews, RevsView,
                Merged, View, ProjView
  <2> QED BY <2>1, <2>2
<1> QED BY <1>1, <1>2 DEF TxTables

(* Steps of one session leave the others' buffers alone, and only a commit *)
(* writes tables, its own peer's.                                          *)
LEMMA OthersBuffers ==
    ASSUME TypeOK, NEW s \in Session, NEW t \in Session, t # s,
           \/ Advance(s) \/ Fault(s) \/ \E chunk \in Chunk : Submit(s, chunk)
    PROVE  SameBuffers(t)
<1>1. CASE UNCHANGED <<projBuf, revsBuf>>
  BY <1>1 DEF SameBuffers
<1>2. CASE Win(s)
  BY <1>2 DEF Win, SameBuffers, TypeOK
<1>3. CASE ClearTx(s)
  BY <1>3 DEF ClearTx, SameBuffers, TypeOK
<1>4. UNCHANGED <<projBuf, revsBuf>> \/ Win(s) \/ ClearTx(s)
  BY DEF Advance, Submit, Prefetch, Begin, SourceChanged, Replay, Park, Reject, Lose, Skip,
         RefuseContent, AddCopy, RetryParked, Commit, ReceiveClock, Fault, buffers
<1> QED BY <1>1, <1>2, <1>3, <1>4

LEMMA OnlyCommitTables ==
    ASSUME TypeOK, NEW s \in Session, NEW p \in Peer,
           \/ Advance(s) \/ Fault(s) \/ \E chunk \in Chunk : Submit(s, chunk),
           ~Commit(s) \/ p # PeerOf[s]
    PROVE  SameTables(p)
<1>1. CASE Commit(s)
  BY <1>1 DEF Commit, SameTables, TypeOK
<1>2. CASE ~Commit(s)
  <2>1. UNCHANGED committed
    BY <1>2 DEF Advance, Fault, Submit, Prefetch, Begin, SourceChanged, Replay, Park, Reject,
       Lose, Skip, RefuseContent, AddCopy, Win, Store, RetryParked, ReceiveClock
  <2> QED BY <2>1 DEF committed, SameTables
<1> QED BY <1>1, <1>2

(* A transaction starts from its peer's tables.                            *)
LEMMA BeginTables ==
    ASSUME TablesInv, NEW s \in Session, Begin(s)
    PROVE  TxTables(s)'
<1>0. /\ TypeOK /\ PeerOf[s] \in Peer /\ Quiet(s) /\ TxSound(s) /\ TxTables(s)
      /\ PeerTables(PeerOf[s])
  BY ApplyAssumption DEF TablesInv, StoreInv, CallInv, SessionInv
<1>1. /\ pc[s] = "begin" /\ pc' = [pc EXCEPT ![s] = "tx"]
      /\ UNCHANGED <<rows, judged, proj, revs, del, ins, judgedBuf, projBuf, revsBuf>>
  BY DEF Begin, committed, buffers
<1>2. /\ judgedBuf[s] = {} /\ revsBuf[s] = {}
      /\ \A k \in Key : del[s][k] = {} /\ ins[s][k] = {} /\ projBuf[s][k] = Keep
  BY <1>0, <1>1 DEF TxSound, TxTables, Quiet
<1>3. PICK p \in Peer : p = PeerOf[s]
  BY <1>0
<1>4. /\ Merged(s)' = judged[p] /\ RevsView(s)' = revs[p]
      /\ Views(s)' = rows[p] /\ ProjViews(s)' = proj[p]
  <2>1. rows[p] \in [Key -> SUBSET Op] /\ proj[p] \in [Key -> Op \cup {NoRow}]
    BY <1>0 DEF TypeOK
  <2>2. Merged(s)' = judged[p] /\ RevsView(s)' = revs[p]
    BY <1>1, <1>2, <1>3 DEF Merged, RevsView
  <2>3. \A k \in Key : View(s, k)' = rows[p][k] /\ ProjView(s, k)' = proj[p][k]
    BY <1>1, <1>2, <1>3 DEF View, ProjView
  <2>4. Views(s)' = [k \in Key |-> rows[p][k]] /\ ProjViews(s)' = [k \in Key |-> proj[p][k]]
    BY <2>3 DEF Views, ProjViews
  <2> QED BY <2>1, <2>2, <2>4
<1>5. Tables(rows[p], proj[p], revs[p], judged[p])
  BY <1>0, <1>3 DEF PeerTables
<1>6. Tables(Views(s), ProjViews(s), RevsView(s), Merged(s))'
  BY <1>4, <1>5
<1>7. pc'[s] = "tx"
  BY <1>0, <1>1 DEF TypeOK
<1> QED BY <1>6, <1>7 DEF TxTables

(* A commit publishes the tables of the transaction.                       *)
LEMMA CommitTables ==
    ASSUME TablesInv, NEW s \in Session, Commit(s)
    PROVE  PeerTables(PeerOf[s])'
<1>0. TypeOK /\ TxTables(s) /\ pc[s] = "tx" /\ PeerOf[s] \in Peer
  BY ApplyAssumption DEF TablesInv, StoreInv, CallInv, Commit, PassDone
<1>1. PICK p \in Peer : p = PeerOf[s]
  BY <1>0
<1>2. /\ rows'[p] = Views(s) /\ proj'[p] = ProjViews(s)
      /\ revs'[p] = RevsView(s) /\ judged'[p] = Merged(s)
  BY <1>0, <1>1 DEF Commit, Merged, Views, ProjViews, TypeOK
<1>3. Tables(Views(s), ProjViews(s), RevsView(s), Merged(s))
  BY <1>0 DEF TxTables
<1>4. Tables(rows[p], proj[p], revs[p], judged[p])'
  BY <1>2, <1>3
<1> QED BY <1>1, <1>4 DEF PeerTables

(* The candidate passed the screening; the policy of its record is known.  *)
LEMMA CandidateTables ==
    ASSUME TablesInv, NEW s \in Session, InPass(s)
    PROVE  /\ Candidate(s) \in Signed /\ Candidate(s) \in Admissible
           /\ Tables(Views(s), ProjViews(s), RevsView(s), Merged(s))
           /\ \A k \in Key : verified[s][k] = View(s, k) /\ Sound(k, View(s, k))
<1>1. /\ TypeOK /\ FromActive(s) /\ Stamped(s) /\ TxSound(s) /\ TxTables(s)
      /\ pc[s] = "tx" /\ pending[s] # <<>>
  BY DEF TablesInv, StoreInv, CallInv, SessionInv, InPass
<1>2. Candidate(s) \in Elems(pending[s])
  BY <1>1, RangeFacts DEF Candidate, TypeOK
<1>3. Candidate(s) \in Signed /\ Candidate(s) \in Admissible
  BY <1>1, <1>2 DEF FromActive, Stamped
<1> QED BY <1>1, <1>3 DEF TxSound, TxTables

(* An op that is merged without being written changes no table.            *)
LEMMA LosesTables ==
    ASSUME NEW V, NEW P, NEW D, NEW M, Tables(V, P, D, M),
           NEW o \in Op, o \in Intact, Ranked(o)
    PROVE  Tables(V, P, D, M \cup {o})
<1>1. Whole(V, P, D, M \cup {o})
  <2>1. \A c \in M \cup {o} : c \in Op /\ c \in Intact /\ Ranked(c)
    BY DEF Tables, Whole
  <2>2. \A k \in Key : V[k] \subseteq M \cup {o} /\ \A c \in V[k] : KeyOf[c] = k
    BY DEF Tables, Whole
  <2>3. \A k \in Key : P[k] \in M \cup {o} \cup {NoRow}
    BY DEF Tables, Whole
  <2>4. \A k \in Key : Faithful(k, V[k], P[k], D)
    BY DEF Tables, Whole
  <2> QED BY <2>1, <2>2, <2>3, <2>4 DEF Whole
<1> QED BY <1>1 DEF Tables

(* A candidate that is replayed, parked, rejected or beaten.               *)
LEMMA SkipTables ==
    ASSUME TablesInv, NEW s \in Session, Replay(s) \/ Park(s) \/ Reject(s) \/ Lose(s)
    PROVE  TxTables(s)'
<1>0. StoreInv /\ TxTables(s)
  BY DEF TablesInv
<1>1. InPass(s) /\ Skip(s)
  BY DEF Replay, Park, Reject, Lose
<1>2. CASE judgedBuf' = judgedBuf
  <2>1. Detached(s) /\ SameBuffers(s) /\ SameStore(PeerOf[s]) /\ SameTables(PeerOf[s])
    BY <1>1, <1>2 DEF Skip, Detached, SameBuffers, SameStore, SameTables, committed, cache
  <2> QED BY <1>0, <2>1, DetachedTables
<1>3. CASE Lose(s)
  <2>0. PICK o \in Op, k \in Key : o = Candidate(s) /\ k = KeyOf[o]
    BY <1>0, <1>1, CandidateRecord
  <2>1. /\ TypeOK /\ pc[s] = "tx" /\ Sound(k, View(s, k))
        /\ verified[s][k] = View(s, k) /\ Matches(listed[s][k], View(s, k))
    BY <1>0, <1>1, <2>0, CandidateRecord
  <2>2. /\ Authorized(s, o) /\ ~SameDecision(s, o) /\ ~PolicyRejects(s, o) /\ ~Prevails(s, o)
        /\ judgedBuf' = [judgedBuf EXCEPT ![s] = @ \cup {o}]
    BY <1>3, <2>0 DEF Lose
  <2>3. o \in Intact
    BY <2>2 DEF Authorized
  <2>4. Ranked(o)
    <3>1. PICK c \in View(s, k) : compareRecordOps(o, c) # "reject"
      BY <2>0, <2>1, <2>2 DEF PolicyRejects, Prevails
    <3>2. c \in Op /\ c # o
      <4>1. c \in Op
        BY <2>1, <3>1 DEF Sound
      <4>2. PICK l \in listed[s][k] : Digest[l] = Digest[c]
        BY <2>1, <3>1 DEF Matches
      <4>3. Digest[l] # Digest[o]
        BY <2>0, <2>2, <4>2 DEF SameDecision
      <4> QED BY <4>1, <4>2, <4>3
    <3>3. admitFirstWrite(o)
      BY <3>1, <3>2, NotRejectedAdmits
    <3> QED BY <3>3 DEF Ranked
  <2>5. UNCHANGED <<rows, judged, proj, revs, pc, del, ins, projBuf, revsBuf>>
    BY <1>1 DEF Skip, committed
  <2>6. /\ Views(s)' = Views(s) /\ ProjViews(s)' = ProjViews(s)
        /\ RevsView(s)' = RevsView(s) /\ Merged(s)' = Merged(s) \cup {o}
    BY <2>1, <2>2, <2>5 DEF Views, ProjViews, RevsView, Merged, View, ProjView, TypeOK
  <2>7. Tables(Views(s), ProjViews(s), RevsView(s), Merged(s) \cup {o})
    BY <1>1, <2>3, <2>4, CandidateTables, LosesTables
  <2>8. Tables(Views(s), ProjViews(s), RevsView(s), Merged(s))'
    BY <2>6, <2>7
  <2> QED BY <2>1, <2>5, <2>8 DEF TxTables
<1> QED BY <1>2, <1>3 DEF Replay, Park, Reject

(* A winner replaces the copies and the projection of its record.          *)
LEMMA WinTables ==
    ASSUME TablesInv, NEW s \in Session, Win(s)
    PROVE  TxTables(s)'
<1>0. PICK o \in Op, k \in Key : o = Candidate(s) /\ k = KeyOf[o]
  BY CandidateRecord DEF Win, TablesInv
<1>1. /\ InPass(s) /\ Judgeable(s, o) /\ Authorized(s, o) /\ ~SameDecision(s, o)
      /\ Prevails(s, o) /\ Store(s)
      /\ WriteCopies(s, k, putCopy(o, View(s, k)))
      /\ projBuf' = [projBuf EXCEPT ![s] =
            [j \in Key |-> IF Suppressed(s, o, j) THEN NoRow
                           ELSE IF j = k /\ TypeOf[k] # "revocation"
                                THEN projection(o) ELSE @[j]]]
      /\ revsBuf' = [revsBuf EXCEPT ![s] = @ \cup ({LockOf[o]} \X Revokes[o])]
  BY <1>0 DEF Win
<1>2. /\ TypeOK /\ pc[s] = "tx" /\ Sound(k, View(s, k))
      /\ verified[s][k] = View(s, k) /\ Matches(listed[s][k], View(s, k))
  BY <1>0, <1>1, CandidateRecord DEF TablesInv
<1>3. /\ o \in Signed /\ o \in Admissible
      /\ Tables(Views(s), ProjViews(s), RevsView(s), Merged(s))
      /\ \A j \in Key : verified[s][j] = View(s, j) /\ Sound(j, View(s, j))
  BY <1>0, <1>1, CandidateTables
<1>4. /\ judgedBuf' = [judgedBuf EXCEPT ![s] = @ \cup {o}]
      /\ UNCHANGED <<rows, judged, proj, revs, pc>>
  BY <1>0, <1>1 DEF Store, committed
<1>5. putCopy(o, View(s, k)) = {o}
  <2>1. \A c \in View(s, k) : Digest[c] # Digest[o]
    BY <1>0, <1>1, <1>2 DEF SameDecision, Matches
  <2> QED BY <2>1, PutCopyReplaces
<1>6. View(s, k)' = {o} /\ \A j \in Key : j # k => View(s, j)' = View(s, j)
  <2>1. {o} \in SUBSET Op /\ WriteCopies(s, k, {o})
    BY <1>1, <1>5
  <2> QED BY <1>2, <1>4, <2>1, WrittenView
<1>7. /\ Merged(s)' = Merged(s) \cup {o}
      /\ RevsView(s)' = RevsView(s) \cup ({LockOf[o]} \X Revokes[o])
  BY <1>1, <1>2, <1>4 DEF Merged, RevsView, TypeOK
<1>8. Ranked(o)
  <2>1. CASE View(s, k) = {}
    BY <1>0, <1>1, <1>2, <2>1 DEF Prevails, Ranked
  <2>2. CASE View(s, k) # {}
    <3>1. PICK c \in View(s, k) : Wins(o, c)
      BY <1>0, <1>1, <1>2, <2>2 DEF Prevails
    <3>2. c \in Op
      BY <1>2 DEF Sound
    <3> QED BY <3>1, <3>2, WinnerAdmits DEF Ranked
  <2> QED BY <2>1, <2>2
<1>9. o \in Intact /\ (o \in Live => ~revoked(o, RevsView(s)))
  BY <1>1 DEF Authorized
<1>10. ASSUME NEW j \in Key
       PROVE  LET row == IF j = k THEN projection(o) ELSE ProjView(s, j)
              IN  ProjView(s, j)' =
                     IF /\ TypeOf[k] \in {"wrapping", "revocation"}
                        /\ row \in Op /\ LockOf[row] = LockOf[o] /\ revoked(row, RevsView(s)')
                     THEN NoRow
                     ELSE IF j = k /\ TypeOf[k] # "revocation"
                          THEN projection(o) ELSE ProjView(s, j)
  <2>1. projBuf'[s][j] = IF Suppressed(s, o, j) THEN NoRow
                         ELSE IF j = k /\ TypeOf[k] # "revocation"
                              THEN projection(o) ELSE projBuf[s][j]
    BY <1>1, <1>2 DEF TypeOK
  <2>2. projection(o) # Keep /\ NoRow # Keep
    BY OpAssumption DEF projection, Keep, NoRow
  <2>3. ProjView(s, j)' = IF Suppressed(s, o, j) THEN NoRow
                          ELSE IF j = k /\ TypeOf[k] # "revocation"
                               THEN projection(o) ELSE ProjView(s, j)
    BY <1>4, <2>1, <2>2 DEF ProjView
  <2>4. Suppressed(s, o, j) <=>
           LET row == IF j = k THEN projection(o) ELSE ProjView(s, j)
           IN  /\ TypeOf[k] \in {"wrapping", "revocation"}
               /\ row \in Op /\ LockOf[row] = LockOf[o] /\ revoked(row, RevsView(s)')
    BY <1>0, <1>7 DEF Suppressed
  <2> QED BY <2>3, <2>4
<1> DEFINE V == Views(s)
           P == ProjViews(s)
           D == RevsView(s)
           M == Merged(s)
           W == Views(s)'
           Q == ProjViews(s)'
           E == RevsView(s)'
<1>11. /\ \A j \in Key : V[j] = View(s, j) /\ P[j] = ProjView(s, j)
       /\ \A j \in Key : W[j] = View(s, j)' /\ Q[j] = ProjView(s, j)'
  BY DEF Views, ProjViews
<1>12. /\ W[k] = {o} /\ \A j \in Key : j # k => W[j] = V[j]
       /\ E = D \cup ({LockOf[o]} \X Revokes[o])
       /\ Reprojected(o, k, P, E, Q)
  BY <1>6, <1>7, <1>10, <1>11 DEF Reprojected
<1>13. /\ \A d \in Deps[o] : V[d.key] \cap d.by # {}
       /\ \A a \in V[k] : Wins(o, a)
  <2>1. \A d \in Deps[o] : d.key \in Key
    BY ApplyAssumption
  <2>2. \A d \in Deps[o] : verified[s][d.key] \cap d.by # {}
    BY <1>1 DEF Judgeable, isParked
  <2>3. \A a \in V[k] : Wins(o, a)
    BY <1>0, <1>1, <1>2, <1>11 DEF Prevails
  <2> QED BY <1>3, <1>11, <2>1, <2>2, <2>3
<1>14. /\ \A j \in Key : V[j] \in SUBSET Op /\ \A c \in V[j] : KeyOf[c] = j
       /\ Tables(V, P, D, M)
  BY <1>3, <1>11 DEF Sound
<1>15. k = KeyOf[o]
  BY <1>0
<1> HIDE DEF V, P, D, M, W, Q, E
<1>16. Whole(W, Q, E, M \cup {o})
  <2>1. Whole(V, P, D, M)
    BY <1>14 DEF Tables
  <2>2. o \in Intact /\ (o \in Live => ~revoked(o, D))
    BY <1>9 DEF D
  <2>3. W[k] = {o} /\ \A j \in Key : j # k => W[j] = V[j]
    BY <1>12
  <2>4. E = D \cup ({LockOf[o]} \X Revokes[o])
    BY <1>12
  <2>5. Reprojected(o, k, P, E, Q)
    BY <1>12
  <2> QED BY <1>8, <1>15, <2>1, <2>2, <2>3, <2>4, <2>5, WholeWin
<1>17. DependenciesLast => Closed(W)
  <2> SUFFICES ASSUME DependenciesLast PROVE Closed(W)
    OBVIOUS
  <2>1. Closed(V)
    BY <1>14 DEF Tables
  <2>2. \A c \in {o}, a \in V[k] : Digest[c] = Digest[a] \/ (c = o /\ Wins(c, a))
    BY <1>13
  <2> QED BY <1>3, <1>12, <1>13, <1>14, <1>15, <2>1, <2>2, ClosedWrite
<1>18. Tables(W, Q, E, M \cup {o})
  BY <1>16, <1>17 DEF Tables
<1>19. Tables(Views(s), ProjViews(s), RevsView(s), Merged(s))'
  BY <1>7, <1>18 DEF W, Q, E, M
<1> QED BY <1>2, <1>4, <1>19 DEF TxTables

(* Another copy of the stored decision changes no projection.              *)
LEMMA AddCopyTables ==
    ASSUME TablesInv, NEW s \in Session, AddCopy(s)
    PROVE  TxTables(s)'
<1>0. PICK o \in Op, k \in Key : o = Candidate(s) /\ k = KeyOf[o]
  BY CandidateRecord DEF AddCopy, TablesInv
<1>p. PICK pruned : pruned = Pruned(s, o)
  OBVIOUS
<1>c. PICK copies : copies = pruneCopies(putCopy(o, View(s, k)), pruned)
  OBVIOUS
<1>1. /\ InPass(s) /\ Judgeable(s, o) /\ Authorized(s, o) /\ SameDecision(s, o) /\ Store(s)
      /\ WriteCopies(s, k, copies)
      /\ UNCHANGED <<projBuf, revsBuf>>
  BY <1>0, <1>p, <1>c DEF AddCopy
<1>2. /\ TypeOK /\ pc[s] = "tx" /\ Sound(k, View(s, k))
      /\ verified[s][k] = View(s, k) /\ Matches(listed[s][k], View(s, k))
  BY <1>0, <1>1, CandidateRecord DEF TablesInv
<1>3. /\ o \in Signed /\ o \in Admissible
      /\ Tables(Views(s), ProjViews(s), RevsView(s), Merged(s))
      /\ \A j \in Key : verified[s][j] = View(s, j) /\ Sound(j, View(s, j))
  BY <1>0, <1>1, CandidateTables
<1>4. /\ judgedBuf' = [judgedBuf EXCEPT ![s] = @ \cup {o}]
      /\ UNCHANGED <<rows, judged, proj, revs, pc>>
  BY <1>0, <1>1 DEF Store, committed
<1>5. PICK w \in View(s, k) : Digest[w] = Digest[o]
  BY <1>0, <1>1, <1>2 DEF SameDecision, Matches
<1>6. /\ Sound(k, copies) /\ copies # {} /\ copies \subseteq View(s, k) \cup {o}
      /\ \A c \in copies : Digest[c] = Digest[o]
  <2>1. IssuerOf[o] \notin pruned
    BY <1>0, <1>p DEF Pruned
  <2>2. LET cs == pruneCopies(putCopy(o, View(s, k)), pruned)
            hs == rememberCopy(o, pruneCopies(View(s, k), pruned))
        IN  /\ Sound(k, cs) /\ cs # {} /\ hs = cs
            /\ cs \subseteq View(s, k) \cup {o}
            /\ \A c \in cs : Digest[c] = Digest[o]
    BY <1>0, <1>2, <1>5, <2>1, AddedCopies
  <2> QED BY <1>c, <2>2
<1>7. View(s, k)' = copies /\ \A j \in Key : j # k => View(s, j)' = View(s, j)
  <2>1. copies \in SUBSET Op
    BY <1>6 DEF Sound
  <2> QED BY <1>1, <1>2, <1>4, <2>1, WrittenView
<1>8. /\ Merged(s)' = Merged(s) \cup {o} /\ RevsView(s)' = RevsView(s)
      /\ ProjViews(s)' = ProjViews(s)
  BY <1>1, <1>2, <1>4 DEF Merged, RevsView, ProjViews, ProjView, TypeOK
<1> DEFINE V == Views(s)
           P == ProjViews(s)
           D == RevsView(s)
           M == Merged(s)
           W == Views(s)'
<1>9. \A j \in Key : V[j] = View(s, j) /\ W[j] = View(s, j)'
  BY DEF Views
<1>10. /\ W[k] = copies /\ (\A j \in Key : j # k => W[j] = V[j])
       /\ w \in V[k] /\ copies \subseteq V[k] \cup {o}
  BY <1>5, <1>6, <1>7, <1>9
<1>11. \A d \in Deps[o] : V[d.key] \cap d.by # {}
  <2>1. \A d \in Deps[o] : d.key \in Key
    BY ApplyAssumption
  <2>2. \A d \in Deps[o] : verified[s][d.key] \cap d.by # {}
    BY <1>1 DEF Judgeable, isParked
  <2> QED BY <1>3, <1>9, <2>1, <2>2
<1>12. /\ \A j \in Key : V[j] \in SUBSET Op /\ \A c \in V[j] : KeyOf[c] = j
       /\ Tables(V, P, D, M) /\ \A a \in V[k] : Digest[a] = Digest[o]
  BY <1>2, <1>3, <1>5, <1>9 DEF Sound, Readable
<1>13. k = KeyOf[o] /\ o \in Intact
  BY <1>0, <1>1 DEF Authorized
<1> HIDE DEF V, P, D, M, W
<1>14. Whole(W, P, D, M \cup {o})
  <2>1. Whole(V, P, D, M)
    BY <1>12 DEF Tables
  <2> QED BY <1>5, <1>6, <1>10, <1>13, <2>1, WholeAdd
<1>15. DependenciesLast => Closed(W)
  <2> SUFFICES ASSUME DependenciesLast PROVE Closed(W)
    OBVIOUS
  <2>1. Closed(V)
    BY <1>12 DEF Tables
  <2>2. \A c \in copies, a \in V[k] : Digest[c] = Digest[a] \/ (c = o /\ Wins(c, a))
    BY <1>6, <1>12
  <2> QED BY <1>3, <1>6, <1>10, <1>11, <1>12, <1>13, <2>1, <2>2, ClosedWrite
<1>16. Tables(W, P, D, M \cup {o})
  BY <1>14, <1>15 DEF Tables
<1>17. Tables(Views(s), ProjViews(s), RevsView(s), Merged(s))'
  BY <1>8, <1>16 DEF W, P, D, M
<1> QED BY <1>2, <1>4, <1>17 DEF TxTables

(* Steps outside the judging of candidates.                                *)
LEMMA OutsideTables ==
    ASSUME TablesInv, NEW s \in Session,
           \/ \E chunk \in Chunk : Submit(s, chunk)
           \/ Prefetch(s) \/ SourceChanged(s) \/ RefuseContent(s)
           \/ RetryParked(s) \/ Commit(s) \/ ReceiveClock(s) \/ Fault(s)
    PROVE  TxTables(s)'
<1>0. TypeOK /\ TxTables(s)
  BY DEF TablesInv, StoreInv, CallInv
<1>1. CASE RetryParked(s)
  <2>1. Detached(s) /\ SameBuffers(s) /\ SameStore(PeerOf[s]) /\ SameTables(PeerOf[s])
    BY <1>1 DEF RetryParked, Detached, SameBuffers, SameStore, SameTables, committed, cache,
                buffers
  <2> QED BY <1>0, <2>1, DetachedTables
<1>2. CASE RefuseContent(s) \/ Commit(s) \/ Fault(s)
  <2>1. ClearTx(s) /\ pc'[s] # "tx"
    BY <1>0, <1>2 DEF RefuseContent, Commit, Fault, EndCall, NextAttempt, TypeOK
  <2>2. revsBuf'[s] = {} /\ \A k \in Key : projBuf'[s][k] = Keep
    BY <1>0, <2>1 DEF ClearTx, TypeOK
  <2> QED BY <2>1, <2>2 DEF TxTables
<1>3. CASE \/ \E chunk \in Chunk : Submit(s, chunk)
           \/ Prefetch(s) \/ SourceChanged(s) \/ ReceiveClock(s)
  <2>1. pc[s] # "tx" /\ pc'[s] # "tx"
    BY <1>0, <1>3 DEF Submit, Prefetch, SourceChanged, ReceiveClock, EndCall, NextAttempt, TypeOK
  <2>2. UNCHANGED <<projBuf, revsBuf>>
    BY <1>3 DEF Submit, Prefetch, SourceChanged, ReceiveClock, buffers
  <2> QED BY <1>0, <2>1, <2>2 DEF TxTables
<1> QED BY <1>1, <1>2, <1>3

(* The seeded records are live, alone, and depend on nothing.              *)
LEMMA InitTablesInv == Init => TablesInv
<1> SUFFICES ASSUME Init PROVE TablesInv
  OBVIOUS
<1>1. StoreInv
  BY InitStoreInv
<1>2. \A s \in Session : TxTables(s)
  BY DEF Init, TxTables
<1>3. ASSUME NEW p \in Peer PROVE PeerTables(p)
  <2>1. /\ judged[p] = Seed /\ revs[p] = {}
        /\ \A k \in Key : rows[p][k] = {o \in Seed : KeyOf[o] = k}
        /\ \A k \in Key : proj[p][k] = IF \E o \in Seed : KeyOf[o] = k
                                       THEN CHOOSE o \in Seed : KeyOf[o] = k ELSE NoRow
    BY DEF Init
  <2>2. /\ Seed \subseteq Live /\ Seed \subseteq Intact /\ Seed \subseteq Op
        /\ \A a, b \in Seed : KeyOf[a] = KeyOf[b] => a = b
        /\ \A a \in Seed : TypeOf[KeyOf[a]] # "revocation" /\ Deps[a] = {}
    BY ApplyAssumption
  <2>3. \A o \in judged[p] : o \in Op /\ o \in Intact /\ Ranked(o)
    BY <2>1, <2>2 DEF Ranked
  <2>4. ASSUME NEW k \in Key
        PROVE  rows[p][k] \subseteq judged[p] /\ \A c \in rows[p][k] : KeyOf[c] = k
    <3>1. rows[p][k] = {o \in Seed : KeyOf[o] = k} /\ judged[p] = Seed
      BY <2>1
    <3> QED BY <3>1
  <2>5. ASSUME NEW k \in Key
        PROVE  proj[p][k] \in judged[p] \cup {NoRow} /\ Faithful(k, rows[p][k], proj[p][k], revs[p])
    <3>1. CASE \E o \in Seed : KeyOf[o] = k
      <4>1. PICK c \in Seed : KeyOf[c] = k
        BY <3>1
      <4>2. (CHOOSE o \in Seed : KeyOf[o] = k) = c
        BY <2>2, <4>1
      <4>3. rows[p][k] = {c} /\ proj[p][k] = c
        BY <2>1, <2>2, <3>1, <4>1, <4>2
      <4>4. ~revoked(c, revs[p]) /\ c \in Live /\ c \in Op /\ TypeOf[k] # "revocation"
        BY <2>1, <2>2, <4>1 DEF revoked
      <4> QED BY <2>1, <4>3, <4>4 DEF Faithful
    <3>2. CASE ~\E o \in Seed : KeyOf[o] = k
      BY <2>1, <3>2 DEF Faithful
    <3> QED BY <3>1, <3>2
  <2>6. Closed(rows[p])
    BY <2>1, <2>2 DEF Closed
  <2>7. Whole(rows[p], proj[p], revs[p], judged[p])
    BY <2>3, <2>4, <2>5 DEF Whole
  <2> QED BY <2>6, <2>7 DEF PeerTables, Tables
<1> QED BY <1>1, <1>2, <1>3 DEF TablesInv

(* The tables' invariant is inductive on a single-writer database.         *)
LEMMA NextTablesInv ==
    ASSUME SingleWriter
    PROVE  TablesInv /\ [Next]_vars => TablesInv'
<1> SUFFICES ASSUME TablesInv, [Next]_vars PROVE TablesInv'
  OBVIOUS
<1>0. /\ StoreInv /\ TypeOK /\ Alone
      /\ \A p \in Peer : PeerTables(p)
      /\ \A t \in Session : TxTables(t) /\ PeerOf[t] \in Peer
  BY ApplyAssumption DEF TablesInv, StoreInv, CallInv
<1>1. StoreInv'
  BY <1>0, NextStoreInv
<1>2. ASSUME NEW s \in Session,
             Advance(s) \/ Fault(s) \/ \E chunk \in Chunk : Submit(s, chunk)
      PROVE  TablesInv'
  <2>1. TxTables(s)'
    BY <1>2, BeginTables, SkipTables, WinTables, AddCopyTables, OutsideTables DEF Advance
  <2>2. ASSUME NEW t \in Session, t # s PROVE TxTables(t)'
    <3>1. pc[t] = "tx" => ~Commit(s) \/ PeerOf[t] # PeerOf[s]
      BY <1>0, <2>2 DEF Alone, Commit, PassDone
    <3>2. pc[t] = "tx" => SameStore(PeerOf[t]) /\ SameTables(PeerOf[t])
      BY <1>0, <1>2, <3>1, OnlyCommitWrites, OnlyCommitTables
    <3>3. Detached(t) /\ SameBuffers(t)
      BY <1>0, <1>2, <2>2, OthersDetached, OthersBuffers
    <3> QED BY <1>0, <3>2, <3>3, DetachedTables
  <2>3. ASSUME NEW p \in Peer PROVE PeerTables(p)'
    <3>1. CASE Commit(s) /\ p = PeerOf[s]
      BY <3>1, CommitTables
    <3>2. CASE ~Commit(s) \/ p # PeerOf[s]
      <4>1. SameStore(p) /\ SameTables(p)
        BY <1>0, <1>2, <3>2, OnlyCommitWrites, OnlyCommitTables
      <4> QED BY <1>0, <4>1 DEF PeerTables, SameStore, SameTables
    <3> QED BY <3>1, <3>2
  <2> QED BY <1>1, <2>1, <2>2, <2>3 DEF TablesInv
<1>3. CASE Tick \/ (\E p \in Peer : ChangeAuthority(p)) \/ UNCHANGED vars
  <2>1. /\ \A t \in Session : Detached(t) /\ SameBuffers(t)
        /\ \A p \in Peer : SameStore(p) /\ SameTables(p)
    BY <1>3 DEF Tick, ChangeAuthority, vars, Detached, SameBuffers, SameStore, SameTables,
                committed, buffers, cache
  <2>2. \A t \in Session : TxTables(t)'
    BY <1>0, <2>1, DetachedTables
  <2>3. \A p \in Peer : PeerTables(p)'
    BY <1>0, <2>1 DEF PeerTables, SameStore, SameTables
  <2> QED BY <1>1, <2>2, <2>3 DEF TablesInv
<1> QED BY <1>2, <1>3 DEF Next

(* The projections of the keys, entries, wrappings and branches are always *)
(* those of the stored decisions: dropped by tombstones and, for wrappings *)
(* stored before or after it, by a revocation.                             *)
THEOREM SingleWriterProjectionFaithful ==
    ASSUME SingleWriter
    PROVE  Spec => []ProjectionFaithful
<1>1. TablesInv => ProjectionFaithful
  BY DEF TablesInv, PeerTables, Tables, Whole, Faithful, ProjectionFaithful
<1> QED BY <1>1, InitTablesInv, NextTablesInv, PTL DEF Spec

(* Peers that merged the same ops of a record hold the same decision,      *)
(* whatever the order, the chunks and the calls the ops arrived in.        *)
THEOREM SingleWriterAgreement ==
    ASSUME SingleWriter
    PROVE  Spec => []Agreement
<1>1. TablesInv => Agreement
  <2> SUFFICES ASSUME TablesInv, NEW p \in Peer, NEW q \in Peer, NEW k \in Key,
                      {o \in judged[p] : KeyOf[o] = k} = {o \in judged[q] : KeyOf[o] = k}
               PROVE  {Digest[c] : c \in rows[p][k]} = {Digest[c] : c \in rows[q][k]}
    BY DEF Agreement
  <2>1. ASSUME NEW r \in Peer, NEW c \in rows[r][k]
        PROVE  c \in Op /\ KeyOf[c] = k /\ Ranked(c) /\ c \in judged[r]
    BY <2>1 DEF TablesInv, PeerTables, Tables, Whole
  <2>2. \A r \in Peer : \A o \in judged[r] : Greatest(o, rows[r][KeyOf[o]])
    BY DEF TablesInv, StoreInv, PeerSound
  <2>3. \A o : KeyOf[o] = k => (o \in judged[p] <=> o \in judged[q])
    OBVIOUS
  <2>4. rows[p][k] = {} <=> rows[q][k] = {}
    BY <2>1, <2>2, <2>3 DEF Greatest
  <2>5. ASSUME NEW c \in rows[p][k], NEW d \in rows[q][k] PROVE Digest[c] = Digest[d]
    <3>1. ~Wins(c, d) /\ ~Wins(d, c)
      BY <2>1, <2>2, <2>3, <2>5 DEF Greatest
    <3>2. c \in Op /\ d \in Op /\ KeyOf[c] = KeyOf[d] /\ Ranked(c) /\ Ranked(d)
      BY <2>1, <2>5
    <3> QED BY <3>1, <3>2, RankedTotal
  <2> QED BY <2>4, <2>5
<1> QED BY <1>1, InitTablesInv, NextTablesInv, PTL DEF Spec

(* What a peer stores, it stores with all it depends on: no order of       *)
(* arrival, parking or rollback leaves a record without its dependencies,  *)
(* if what satisfies one gives way only to what satisfies it too.          *)
THEOREM SingleWriterDependenciesClosed ==
    ASSUME SingleWriter, DependenciesLast
    PROVE  Spec => []DependenciesClosed
<1>1. TablesInv => DependenciesClosed
  BY DEF TablesInv, PeerTables, Tables, Closed, DependenciesClosed
<1> QED BY <1>1, InitTablesInv, NextTablesInv, PTL DEF Spec

=============================================================================
