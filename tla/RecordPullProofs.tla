-------------------------- MODULE RecordPullProofs --------------------------
(***************************************************************************)
(* What one pass of range reconciliation keeps to for every set of types   *)
(* and positions, every pair of stores, whatever the responder sends and   *)
(* in whatever order it arrives.                                           *)
(***************************************************************************)
EXTENDS RecordPull, FiniteSetTheorems, TLAPS

Message == Summary \cup LeafList \cup Records

-----------------------------------------------------------------------------
(* Operators.                                                              *)

(* The leaves of a range are well formed and finitely many.                *)
LEMMA LeavesInType ==
    ASSUME NEW store \in [Key -> Stored], NEW b
    PROVE  /\ leavesIn(store, b) \in SUBSET Listed
           /\ IsFiniteSet(leavesIn(store, b))
           /\ Cardinality(leavesIn(store, b)) \in Nat
<1> DEFINE leaves == leavesIn(store, b)
           keyOf == [l \in leaves |-> l.key]
<1>1. IsFiniteSet(Key)
  <2>1. IsFiniteSet(Type) /\ IsFiniteSet(Position)
    BY PullAssumption, FS_Interval, 1 \in Int, Last \in Int DEF Position
  <2> QED BY <2>1, FS_Product DEF Key
<1>2. leaves \in SUBSET Listed
  BY DEF leavesIn, Listed, Stored
<1>3. keyOf \in Injection(leaves, Key)
  <2>1. \A l \in leaves : l.key \in Key /\ l = [key |-> l.key, leaf |-> store[l.key]]
    BY DEF leavesIn
  <2> QED BY <2>1 DEF Injection, IsInjective
<1>4. IsFiniteSet(leaves)
  <2> HIDE DEF keyOf, leaves
  <2> QED BY <1>1, <1>3, FS_Injection
<1> QED BY <1>2, <1>4, FS_CardinalityType

(* Deleting one message from the inbox leaves a sequence of messages.      *)
LEMMA WithoutType ==
    ASSUME inbox \in Seq(Message), NEW i \in DOMAIN inbox
    PROVE  Without(i) \in Seq(Message)
BY DEF Without

(* An accepted response states a proper range inside the pending one.      *)
LEMMA AnswersInside ==
    ASSUME NEW r \in Bounds, NEW b \in Stated, answers(r, b)
    PROVE  /\ b \in Bounds
           /\ \A k \in Key : rangeContains(b, k) => rangeContains(r, k)
BY PullAssumption DEF Bounds, Stated, answers, rangeContains, Key, Position, End

(* What narrowing leaves pending: each range lies in one that was pending, *)
(* at the same or the next index, and none meets the answered part.        *)
LEMMA NarrowType ==
    ASSUME pending \in Seq(Bounds), NEW n \in DOMAIN pending,
           NEW b \in Bounds, answers(pending[n], b)
    PROVE  narrow(n, b) \in Seq(Bounds)
<1>1. CASE b.upper = pending[n].upper
  BY <1>1 DEF narrow
<1>2. CASE b.upper # pending[n].upper
  <2> DEFINE r == pending[n]
  <2>1. r \in Bounds /\ b.upper \in 1..Last /\ b.upper < r.upper
    BY <1>2, PullAssumption DEF Bounds, answers, End
  <2>2. [type |-> r.type, lower |-> b.upper, upper |-> r.upper] \in Bounds
    BY <2>1, PullAssumption DEF Bounds
  <2> QED BY <1>2, <2>2 DEF narrow
<1> QED BY <1>1, <1>2

(* Every range left pending lies in the range that was pending at the same *)
(* index, or the next when the answered one is gone; none meets the answer.*)
LEMMA NarrowInside ==
    ASSUME pending \in Seq(Bounds), NEW n \in DOMAIN pending,
           NEW b \in Bounds, answers(pending[n], b)
    PROVE  \E f \in [DOMAIN narrow(n, b) -> DOMAIN pending] :
             /\ \A i, j \in DOMAIN narrow(n, b) : f[i] = f[j] => i = j
             /\ \A i \in DOMAIN narrow(n, b), k \in Key :
                   rangeContains(narrow(n, b)[i], k) =>
                     /\ rangeContains(pending[f[i]], k)
                     /\ f[i] = n => ~rangeContains(b, k)
<1>1. CASE b.upper = pending[n].upper
  <2> DEFINE f == [i \in 1..(Len(pending) - 1) |-> IF i < n THEN i ELSE i + 1]
  <2>1. /\ narrow(n, b) = [j \in 1..(Len(pending) - 1) |->
                              IF j < n THEN pending[j] ELSE pending[j + 1]]
        /\ DOMAIN narrow(n, b) = 1..(Len(pending) - 1)
    BY <1>1 DEF narrow
  <2>2. n \in 1..Len(pending) /\ Len(pending) \in Nat
    OBVIOUS
  <2>3. f \in [DOMAIN narrow(n, b) -> DOMAIN pending]
    BY <2>1, <2>2
  <2>4. \A i, j \in DOMAIN narrow(n, b) : f[i] = f[j] => i = j
    BY <2>1, <2>2
  <2>5. \A i \in DOMAIN narrow(n, b) : narrow(n, b)[i] = pending[f[i]] /\ f[i] # n
    BY <2>1, <2>2
  <2> HIDE DEF f
  <2> QED BY <2>3, <2>4, <2>5
<1>2. CASE b.upper # pending[n].upper
  <2> DEFINE rest == [type |-> pending[n].type, lower |-> b.upper, upper |-> pending[n].upper]
             f == [i \in DOMAIN pending |-> i]
  <2>1. narrow(n, b) = [pending EXCEPT ![n] = rest]
    BY <1>2 DEF narrow
  <2>2. \A k \in Key : rangeContains(rest, k) =>
            rangeContains(pending[n], k) /\ ~rangeContains(b, k)
    BY <1>2, PullAssumption
       DEF rangeContains, Bounds, answers, Key, Position, End
  <2>3. \A i \in DOMAIN pending :
            narrow(n, b)[i] = IF i = n THEN rest ELSE pending[i]
    BY <2>1
  <2>4. DOMAIN narrow(n, b) = DOMAIN pending
    BY <2>1
  <2> HIDE DEF rest
  <2>5. f \in [DOMAIN narrow(n, b) -> DOMAIN pending]
    BY <2>4
  <2>6. \A i, j \in DOMAIN narrow(n, b) : f[i] = f[j] => i = j
    BY <2>4
  <2>7. \A i \in DOMAIN narrow(n, b), k \in Key :
            rangeContains(narrow(n, b)[i], k) =>
                rangeContains(pending[f[i]], k) /\ (f[i] = n => ~rangeContains(b, k))
    BY <2>2, <2>3, <2>4
  <2> QED BY <2>5, <2>6, <2>7
<1> QED BY <1>1, <1>2

-----------------------------------------------------------------------------
(* Type correctness.                                                       *)

(* What the responder's splitRange sends is well formed.                   *)
LEMMA ChildType ==
    ASSUME NEW b \in Stated, NEW n \in Nat, NEW inside \in [1..n -> Listed],
           NEW c \in 1..RANGE_SPLIT, ChildCount(n, c), NEW i \in 1..c
    PROVE  Child(b, inside, i) \in Summary
<1> DEFINE size == ChildSize(n)
           start == (i - 1) * size
           end == IF start + size < n THEN start + size ELSE n
           chunk == {inside[j] : j \in (start + 1)..end}
<1>1. size \in Nat
  BY PullAssumption DEF ChildSize
<1>2. Len(inside) = n
  OBVIOUS
<1>3. start \in 0..n /\ end \in Nat /\ end <= n
  <2>1. (i - 1) * size <= (c - 1) * size
    BY <1>1
  <2>2. start \in Nat
    BY <1>1
  <2> QED BY <1>1, <2>1, <2>2 DEF ChildCount
<1>a. size > 0
  <2>1. (c - 1) * size >= 0
    BY <1>1
  <2>2. size = 0 => c * size = 0
    OBVIOUS
  <2> QED BY <1>1, <2>1, <2>2 DEF ChildCount
<1>4. chunk \in SUBSET Listed
  BY <1>3
<1>5. IsFiniteSet(chunk)
  <2> DEFINE at == [j \in (start + 1)..end |-> inside[j]]
  <2>1. at \in Surjection((start + 1)..end, chunk)
    BY DEF Surjection
  <2>2. IsFiniteSet((start + 1)..end)
    BY <1>3, FS_Interval, start + 1 \in Int, end \in Int
  <2> HIDE DEF at, chunk
  <2> QED BY <2>1, <2>2, FS_Surjection
<1>6. Cardinality(chunk) \in Nat
  BY <1>5, FS_CardinalityType
<1>7. \A j \in 1..n : inside[j].key[2] \in 1..Last
  BY DEF Listed, Key, Position
<1> DEFINE bounds == [type |-> b.type,
                      lower |-> IF start = 0 THEN b.lower ELSE inside[start].key[2],
                      upper |-> IF end = n THEN b.upper ELSE inside[end].key[2]]
<1>8. bounds \in Stated
  <2>1. start # 0 => start \in 1..n
    BY <1>3
  <2>2. end # n => end \in 1..n
    BY <1>1, <1>a, <1>3
  <2>3. (IF start = 0 THEN b.lower ELSE inside[start].key[2]) \in 0..Last
    <3>1. b.lower \in 0..Last
      BY DEF Stated
    <3> HIDE DEF start
    <3> QED BY <2>1, <3>1, <1>7, PullAssumption
  <2>4. (IF end = n THEN b.upper ELSE inside[end].key[2]) \in 1..End
    <3>1. b.upper \in 1..End /\ 1..Last \subseteq 1..End
      BY PullAssumption DEF Stated, End
    <3> HIDE DEF end
    <3> QED BY <2>2, <3>1, <1>7
  <2>5. b.type \in Type
    BY DEF Stated
  <2> HIDE DEF start, end
  <2> QED BY <2>3, <2>4, <2>5 DEF Stated
<1>9. Child(b, inside, i) = [kind |-> "summary", bounds |-> bounds,
                             fingerprint |-> chunk, count |-> Cardinality(chunk)]
  BY <1>2 DEF Child, summarize
<1> HIDE DEF bounds, chunk
<1> QED BY <1>4, <1>6, <1>8, <1>9 DEF Summary

(* Init satisfies the type invariant.                                      *)
LEMMA InitTypeOK == Init => TypeOK
<1> SUFFICES ASSUME Init PROVE TypeOK
  OBVIOUS
<1> DEFINE n == Cardinality(Type)
<1>1. n \in Nat
  BY PullAssumption, FS_CardinalityType
<1>2. PICK order \in [1..n -> Type] :
          pending = [i \in DOMAIN order |-> [type |-> order[i], lower |-> 0, upper |-> End]]
  BY DEF Init
<1>3. \A i \in 1..n : pending[i] \in Bounds /\ pending[i] \in Stated
  BY <1>2, PullAssumption DEF Bounds, Stated, End
<1>4. pending \in Seq(Bounds) /\ DOMAIN pending = 1..n
  BY <1>1, <1>2, <1>3
<1>5. steps \in Seq(Step)
  <2>1. steps = [i \in 1..n |-> [kind |-> "begin", bounds |-> pending[i]]]
    BY <1>4 DEF Init
  <2>2. \A i \in 1..n : [kind |-> "begin", bounds |-> pending[i]] \in Step
    BY <1>3 DEF Step
  <2> QED BY <1>1, <2>1, <2>2
<1>6. mine \in [Key -> Stored] /\ theirs \in [Key -> Stored]
  BY PullAssumption DEF Init
<1> QED BY <1>4, <1>5, <1>6, PullAssumption DEF Init, TypeOK

(* Merging keeps a store's leaves well formed.                             *)
LEMMA MergeType ==
    ASSUME NEW held \in Stored, NEW got \in Leaf
    PROVE  merge(held, got) \in Stored
<1>1. CASE held = NoLeaf
  BY <1>1 DEF merge, NoLeaf, Leaf, Stored
<1>2. CASE held \in Leaf
  BY <1>2 DEF merge, Leaf, Stored
<1> QED BY <1>1, <1>2 DEF Stored

(* What the responder does with a step it was sent.                        *)
LEMMA AnswerTypeOK == TypeOK /\ Answer => TypeOK'
<1> SUFFICES ASSUME TypeOK, Answer PROVE TypeOK'
  OBVIOUS
<1> DEFINE step == Head(steps)
<1>1. /\ steps # <<>> /\ steps' = Tail(steps)
      /\ UNCHANGED <<stores, pass, faults>>
  BY DEF Answer, Handles, Summarize, ListRange, SplitRange, SendRange, SendRecords, Settle
<1>2. step \in Step /\ steps' \in Seq(Step)
  BY <1>1 DEF TypeOK
<1>3. ASSUME inbox' \in Seq(Message) PROVE TypeOK'
  BY <1>1, <1>2, <1>3 DEF TypeOK, Message, stores, pass
<1>4. inbox \in Seq(Message) /\ theirs \in [Key -> Stored]
  BY DEF TypeOK, Message
<1>5. step.kind # "get" => step.bounds \in Stated
  BY <1>2 DEF Step
<1>6. CASE Summarize
  <2>1. step.bounds \in Stated
    BY <1>5, <1>6 DEF Summarize, Handles
  <2>2. summarizeRange(theirs, step.bounds) \in Message
    BY <2>1, <1>4, LeavesInType DEF summarizeRange, summarize, Summary, Message
  <2> QED BY <1>3, <1>4, <1>6, <2>2 DEF Summarize
<1>7. CASE ListRange
  <2>1. step.bounds \in Stated
    BY <1>5, <1>7 DEF ListRange, Handles
  <2> DEFINE leaves == leavesIn(theirs, step.bounds)
             n == Cardinality(leaves)
  <2>2. PICK inside \in [1..n -> leaves] :
            inbox' = Append(inbox, [kind |-> "list", bounds |-> step.bounds, leaves |-> inside])
    BY <1>7 DEF ListRange
  <2>3. n \in Nat /\ leaves \in SUBSET Listed
    BY <1>4, LeavesInType
  <2>4. inside \in Seq(Listed)
    <3> HIDE DEF n, leaves
    <3> QED BY <2>3
  <2>5. [kind |-> "list", bounds |-> step.bounds, leaves |-> inside] \in Message
    BY <2>1, <2>4 DEF LeafList, Message
  <2> QED BY <1>3, <1>4, <2>2, <2>5
<1>8. CASE SplitRange
  <2>1. step.bounds \in Stated
    BY <1>5, <1>8 DEF SplitRange, Handles
  <2> DEFINE leaves == leavesIn(theirs, step.bounds)
             n == Cardinality(leaves)
  <2>2. PICK inside \in [1..n -> leaves], c \in 1..RANGE_SPLIT :
            /\ ChildCount(n, c)
            /\ inbox' = inbox \o [i \in 1..c |-> Child(step.bounds, inside, i)]
    BY <1>8 DEF SplitRange
  <2>3. n \in Nat /\ leaves \in SUBSET Listed
    BY <1>4, LeavesInType
  <2>4. inside \in [1..n -> Listed]
    <3> HIDE DEF n, leaves
    <3> QED BY <2>3
  <2>5. \A i \in 1..c : Child(step.bounds, inside, i) \in Message
    <3> HIDE DEF n, leaves, step
    <3> QED BY <2>1, <2>2, <2>3, <2>4, ChildType DEF Message
  <2>6. [i \in 1..c |-> Child(step.bounds, inside, i)] \in Seq(Message)
    BY <2>5, PullAssumption
  <2> QED BY <1>3, <1>4, <2>2, <2>6
<1>9. CASE SendRange
  <2>1. [kind |-> "records", leaves |-> leavesIn(theirs, step.bounds)] \in Message
    BY <1>4, LeavesInType DEF Records, Message
  <2> QED BY <1>3, <1>4, <1>9, <2>1 DEF SendRange
<1>10. CASE SendRecords
  <2> DEFINE leaves == {[key |-> k, leaf |-> theirs[k]] :
                            k \in {x \in step.keys : theirs[x] # NoLeaf}}
  <2>1. step.keys \in SUBSET Key
    BY <1>2, <1>10 DEF SendRecords, Handles, Step
  <2>2. leaves \in SUBSET Listed
    BY <1>4, <2>1 DEF Listed, Stored
  <2>3. [kind |-> "records", leaves |-> leaves] \in Message
    BY <2>2 DEF Records, Message
  <2> QED BY <1>3, <1>4, <1>10, <2>3 DEF SendRecords
<1>11. CASE Settle
  BY <1>3, <1>4, <1>11 DEF Settle
<1> QED BY <1>6, <1>7, <1>8, <1>9, <1>10, <1>11 DEF Answer

(* advanceRecordPull on an accepted summary.                               *)
LEMMA AdvanceSummaryTypeOK ==
    ASSUME TypeOK, NEW i \in DOMAIN inbox, NEW n \in DOMAIN pending, AdvanceSummary(i, n)
    PROVE  TypeOK'
<1> DEFINE b == inbox[i].bounds
<1>1. inbox \in Seq(Message) /\ inbox[i] \in Summary
  BY DEF TypeOK, Message, AdvanceSummary, Summary, LeafList, Records
<1>2. b \in Bounds /\ b \in Stated
  <2>1. b \in Stated
    BY <1>1 DEF Summary
  <2> QED BY <2>1, AnswersInside DEF TypeOK, AdvanceSummary
<1>3. narrow(n, b) \in Seq(Bounds)
  BY <1>2, NarrowType DEF TypeOK, AdvanceSummary
<1>4. answerFor(mine, inbox[i]) \in {"matches", "differs", "empty"}
  BY DEF answerFor
<1>5. [kind |-> answerFor(mine, inbox[i]), bounds |-> b] \in Step
  BY <1>2, <1>4 DEF Step
<1>6. Without(i) \in Seq(Message)
  BY <1>1, WithoutType
<1> QED BY <1>2, <1>3, <1>5, <1>6 DEF AdvanceSummary, TypeOK, Message, stores

(* advanceRecordPull on an accepted leaf list.                             *)
LEMMA AdvanceListTypeOK ==
    ASSUME TypeOK, NEW i \in DOMAIN inbox, NEW n \in DOMAIN pending, AdvanceList(i, n)
    PROVE  TypeOK'
<1> DEFINE b == inbox[i].bounds
           get == wanted(mine, inbox[i])
<1>1. inbox \in Seq(Message) /\ inbox[i] \in LeafList
  BY DEF TypeOK, Message, AdvanceList, Summary, LeafList, Records
<1>2. b \in Bounds
  <2>1. b \in Stated
    BY <1>1 DEF LeafList
  <2> QED BY <2>1, AnswersInside DEF TypeOK, AdvanceList
<1>3. narrow(n, b) \in Seq(Bounds)
  BY <1>2, NarrowType DEF TypeOK, AdvanceList
<1>4. get \in SUBSET Key
  <2> DEFINE leaves == inbox[i].leaves
  <2>1. leaves \in Seq(Listed)
    BY <1>1 DEF LeafList
  <2>2. \A j \in DOMAIN leaves : leaves[j].key \in Key
    <3>1. ASSUME NEW j \in DOMAIN leaves PROVE leaves[j] \in Listed
      <4> HIDE DEF leaves
      <4> QED BY <2>1
    <3> QED BY <3>1 DEF Listed
  <2> QED BY <2>2 DEF wanted
<1>5. [kind |-> "get", keys |-> get] \in Step
  BY <1>4 DEF Step
<1>6. Without(i) \in Seq(Message)
  BY <1>1, WithoutType
<1>7. steps' \in Seq(Step)
  BY <1>5 DEF AdvanceList, TypeOK
<1>8. requested' \in [Key -> Nat]
  BY DEF AdvanceList, TypeOK
<1> QED BY <1>3, <1>6, <1>7, <1>8 DEF AdvanceList, TypeOK, Message, stores

(* Applying fetched records.                                               *)
LEMMA ReceiveTypeOK ==
    ASSUME TypeOK, NEW i \in DOMAIN inbox, Receive(i)
    PROVE  TypeOK'
<1>1. inbox \in Seq(Message) /\ inbox[i] \in Records
  BY DEF TypeOK, Message, Receive, Summary, LeafList, Records
<1>2. Without(i) \in Seq(Message)
  BY <1>1, WithoutType
<1>3. \A l \in inbox[i].leaves : l \in Listed
  BY <1>1 DEF Records
<1>4. mine' \in [Key -> Stored]
  <2>1. ASSUME NEW k \in Key, \E l \in inbox[i].leaves : l.key = k
        PROVE  merge(mine[k], (CHOOSE l \in inbox[i].leaves : l.key = k).leaf) \in Stored
    <3> DEFINE l == CHOOSE x \in inbox[i].leaves : x.key = k
    <3>1. l \in inbox[i].leaves
      BY <2>1
    <3>2. l.leaf \in Leaf
      BY <3>1, <1>3 DEF Listed
    <3>3. mine[k] \in Stored
      BY DEF TypeOK
    <3> QED BY <3>2, <3>3, MergeType
  <2> QED BY <2>1 DEF Receive, TypeOK
<1> QED BY <1>2, <1>4 DEF Receive, TypeOK, Message, pass

(* Every step of a pass keeps its state and the messages well formed.      *)
LEMMA NextTypeOK == TypeOK /\ [Next]_vars => TypeOK'
<1> SUFFICES ASSUME TypeOK, [Next]_vars PROVE TypeOK'
  OBVIOUS
<1>1. CASE Answer
  BY <1>1, AnswerTypeOK
<1>2. CASE Deliver
  <2>1. PICK i \in DOMAIN inbox :
            \/ \E n \in DOMAIN pending : AdvanceSummary(i, n) \/ AdvanceList(i, n)
            \/ Refuse(i)
            \/ Receive(i)
    BY <1>2 DEF Deliver, Deliverable
  <2>2. CASE Refuse(i)
    <3>1. Without(i) \in Seq(Message)
      BY WithoutType DEF TypeOK, Message
    <3> QED BY <2>2, <3>1 DEF Refuse, TypeOK, Message, stores, pass
  <2> QED BY <2>1, <2>2, AdvanceSummaryTypeOK, AdvanceListTypeOK, ReceiveTypeOK
<1>3. CASE Change
  <2>1. PICK k \in Key, leaf \in Leaf : ChangeMine(k, leaf) \/ ChangeTheirs(k, leaf)
    BY <1>3 DEF Change
  <2>2. merge(mine[k], leaf) \in Stored /\ merge(theirs[k], leaf) \in Stored
    BY MergeType DEF TypeOK
  <2>3. changes' \in 0..world.changes
    BY <2>1, PullAssumption DEF ChangeMine, ChangeTheirs, TypeOK
  <2>4. CASE ChangeMine(k, leaf)
    BY <2>2, <2>3, <2>4 DEF ChangeMine, TypeOK, pass
  <2>5. CASE ChangeTheirs(k, leaf)
    BY <2>2, <2>3, <2>5 DEF ChangeTheirs, TypeOK, pass
  <2> QED BY <2>1, <2>4, <2>5
<1>4. CASE Duplicate
  BY <1>4, PullAssumption DEF Duplicate, TypeOK, stores, pass
<1>5. CASE Forge
  BY <1>5, PullAssumption DEF Forge, TypeOK, stores, pass
<1>6. CASE UNCHANGED vars
  BY <1>6 DEF TypeOK, vars, stores, pass
<1> QED BY <1>1, <1>2, <1>3, <1>4, <1>5, <1>6 DEF Next, Finished

(* The state of a pass and the messages in flight stay well formed, and no *)
(* pending range is ever empty (advanceRecordPull, splitRange).            *)
THEOREM PullTypeCorrect == Spec => []TypeOK
BY InitTypeOK, NextTypeOK, PTL DEF Spec

-----------------------------------------------------------------------------
(* Disjointness.                                                           *)

(* What makes the two properties inductive: a requested id lies in no      *)
(* pending range, so a later leaf list cannot name it again.               *)
Fresh ==
    \A k \in Key : requested[k] > 0 =>
        \A i \in DOMAIN pending : ~rangeContains(pending[i], k)

PassInv == TypeOK /\ PendingDisjoint /\ RequestedOnce /\ Fresh

(* A pass begins with one whole range per type and nothing requested.      *)
LEMMA InitPassInv == Init => PassInv
<1> SUFFICES ASSUME Init PROVE PassInv
  OBVIOUS
<1>1. TypeOK
  BY InitTypeOK
<1>2. PendingDisjoint
  BY DEF Init, PendingDisjoint, rangeContains
<1>3. RequestedOnce /\ Fresh
  BY DEF Init, RequestedOnce, Fresh
<1> QED BY <1>1, <1>2, <1>3 DEF PassInv

(* Narrowing keeps pending ranges disjoint, and clear of the answered part *)
(* and of every id requested before.                                       *)
LEMMA NarrowDisjoint ==
    ASSUME PassInv, NEW n \in DOMAIN pending, NEW b \in Stated, answers(pending[n], b)
    PROVE  /\ \A i, j \in DOMAIN narrow(n, b) : i # j => \A k \in Key :
                 ~(rangeContains(narrow(n, b)[i], k) /\ rangeContains(narrow(n, b)[j], k))
           /\ \A i \in DOMAIN narrow(n, b), k \in Key : rangeContains(b, k) =>
                 ~rangeContains(narrow(n, b)[i], k)
           /\ \A i \in DOMAIN narrow(n, b), k \in Key : requested[k] > 0 =>
                 ~rangeContains(narrow(n, b)[i], k)
           /\ \A k \in Key : rangeContains(b, k) => requested[k] = 0
<1>1. /\ pending \in Seq(Bounds) /\ pending[n] \in Bounds
      /\ requested \in [Key -> Nat]
  BY DEF PassInv, TypeOK
<1>2. b \in Bounds /\ \A k \in Key : rangeContains(b, k) => rangeContains(pending[n], k)
  BY <1>1, AnswersInside
<1> DEFINE left == narrow(n, b)
<1>3. PICK f \in [DOMAIN left -> DOMAIN pending] :
          /\ \A i, j \in DOMAIN left : f[i] = f[j] => i = j
          /\ \A i \in DOMAIN left, k \in Key : rangeContains(left[i], k) =>
                rangeContains(pending[f[i]], k) /\ (f[i] = n => ~rangeContains(b, k))
  BY <1>1, <1>2, NarrowInside
<1> HIDE DEF left
<1>4. \A i, j \in DOMAIN left : i # j => \A k \in Key :
          ~(rangeContains(left[i], k) /\ rangeContains(left[j], k))
  BY <1>3 DEF PassInv, PendingDisjoint
<1>5. \A i \in DOMAIN left, k \in Key : rangeContains(b, k) => ~rangeContains(left[i], k)
  BY <1>2, <1>3 DEF PassInv, PendingDisjoint
<1>6. \A i \in DOMAIN left, k \in Key : requested[k] > 0 => ~rangeContains(left[i], k)
  BY <1>3 DEF PassInv, Fresh
<1>7. \A k \in Key : rangeContains(b, k) => requested[k] = 0
  BY <1>1, <1>2 DEF PassInv, Fresh
<1> QED BY <1>4, <1>5, <1>6, <1>7 DEF left

(* A summary: the answered part is dropped, or becomes pending again.      *)
LEMMA AdvanceSummaryPassInv ==
    ASSUME PassInv, TypeOK', NEW i \in DOMAIN inbox, NEW n \in DOMAIN pending,
           AdvanceSummary(i, n)
    PROVE  PassInv'
<1> DEFINE b == inbox[i].bounds
           left == narrow(n, b)
<1>1. b \in Stated
  BY DEF PassInv, TypeOK, Message, AdvanceSummary, Summary, LeafList, Records
<1>2. answers(pending[n], b) /\ requested' = requested
  BY DEF AdvanceSummary
<1>3. left \in Seq(Bounds)
  BY <1>1, <1>2, AnswersInside, NarrowType DEF PassInv, TypeOK
<1>4. /\ \A x, y \in DOMAIN left : x # y => \A k \in Key :
             ~(rangeContains(left[x], k) /\ rangeContains(left[y], k))
      /\ \A x \in DOMAIN left, k \in Key : rangeContains(b, k) => ~rangeContains(left[x], k)
      /\ \A x \in DOMAIN left, k \in Key : requested[k] > 0 => ~rangeContains(left[x], k)
      /\ \A k \in Key : rangeContains(b, k) => requested[k] = 0
  BY <1>1, <1>2, NarrowDisjoint
<1>5. pending' = left \/ pending' = Append(left, b)
  BY DEF AdvanceSummary
<1> HIDE DEF left, b
<1>6. \A x \in DOMAIN pending' :
          (x \in DOMAIN left /\ pending'[x] = left[x]) \/ (x = Len(left) + 1 /\ pending'[x] = b)
  BY <1>3, <1>5
<1>7. PendingDisjoint'
  BY <1>3, <1>4, <1>6 DEF PendingDisjoint
<1>8. Fresh' /\ RequestedOnce'
  BY <1>2, <1>4, <1>6 DEF PassInv, Fresh, RequestedOnce
<1> QED BY <1>7, <1>8 DEF PassInv

(* A leaf list: what it makes the requester fetch leaves pending with it.  *)
LEMMA AdvanceListPassInv ==
    ASSUME PassInv, TypeOK', NEW i \in DOMAIN inbox, NEW n \in DOMAIN pending,
           AdvanceList(i, n)
    PROVE  PassInv'
<1> DEFINE b == inbox[i].bounds
           left == narrow(n, b)
           get == wanted(mine, inbox[i])
<1>1. b \in Stated
  BY DEF PassInv, TypeOK, Message, AdvanceList, Summary, LeafList, Records
<1>2. /\ answers(pending[n], b) /\ pending' = left
      /\ requested' = [k \in Key |-> requested[k] + IF k \in get THEN 1 ELSE 0]
  BY DEF AdvanceList
<1>3. /\ \A x, y \in DOMAIN left : x # y => \A k \in Key :
             ~(rangeContains(left[x], k) /\ rangeContains(left[y], k))
      /\ \A x \in DOMAIN left, k \in Key : rangeContains(b, k) => ~rangeContains(left[x], k)
      /\ \A x \in DOMAIN left, k \in Key : requested[k] > 0 => ~rangeContains(left[x], k)
      /\ \A k \in Key : rangeContains(b, k) => requested[k] = 0
  BY <1>1, <1>2, NarrowDisjoint
<1>4. \A k \in get : rangeContains(b, k)
  BY DEF wanted
<1>5. requested \in [Key -> Nat]
  BY DEF PassInv, TypeOK
<1> HIDE DEF left, b, get
<1>6. PendingDisjoint'
  BY <1>2, <1>3 DEF PendingDisjoint
<1>7. Fresh'
  BY <1>2, <1>3, <1>4, <1>5 DEF Fresh
<1>8. RequestedOnce'
  BY <1>2, <1>3, <1>4, <1>5 DEF PassInv, RequestedOnce
<1> QED BY <1>6, <1>7, <1>8 DEF PassInv

(* The invariant is inductive.                                             *)
LEMMA NextPassInv == PassInv /\ [Next]_vars => PassInv'
<1> SUFFICES ASSUME PassInv, [Next]_vars PROVE PassInv'
  OBVIOUS
<1>1. TypeOK'
  BY NextTypeOK DEF PassInv
<1>2. ASSUME UNCHANGED <<pending, requested>> PROVE PassInv'
  BY <1>1, <1>2 DEF PassInv, PendingDisjoint, RequestedOnce, Fresh
<1>3. CASE Deliver
  <2>1. PICK i \in DOMAIN inbox :
            \/ \E n \in DOMAIN pending : AdvanceSummary(i, n) \/ AdvanceList(i, n)
            \/ Refuse(i)
            \/ Receive(i)
    BY <1>3 DEF Deliver, Deliverable
  <2>2. CASE Refuse(i) \/ Receive(i)
    BY <1>2, <2>2 DEF Refuse, Receive, pass
  <2> QED BY <1>1, <2>1, <2>2, AdvanceSummaryPassInv, AdvanceListPassInv
<1>4. CASE Answer
  BY <1>2, <1>4 DEF Answer, Handles, Summarize, ListRange, SplitRange, SendRange,
                    SendRecords, Settle, pass
<1>5. CASE Change \/ Duplicate \/ Forge
  BY <1>2, <1>5 DEF Change, ChangeMine, ChangeTheirs, Duplicate, Forge, pass
<1>6. CASE UNCHANGED vars
  BY <1>2, <1>6 DEF vars, pass
<1> QED BY <1>3, <1>4, <1>5, <1>6 DEF Next, Finished

(* advanceRecordPull's comment, "pending ranges never overlap": for every  *)
(* responder and every order of delivery.                                  *)
THEOREM PendingNeverOverlaps == Spec => []PendingDisjoint
<1>1. PassInv => PendingDisjoint
  BY DEF PassInv
<1> QED BY <1>1, InitPassInv, NextPassInv, PTL DEF Spec

(* advanceRecordPull's comment, "No id can already be in `requested`": no  *)
(* record is fetched twice in a pass.                                      *)
THEOREM NothingRequestedTwice == Spec => []RequestedOnce
<1>1. PassInv => RequestedOnce
  BY DEF PassInv
<1> QED BY <1>1, InitPassInv, NextPassInv, PTL DEF Spec

-----------------------------------------------------------------------------
(* Nothing the requester needs is lost.                                    *)

(* What a response has to say of a range that holds the leaf.              *)
Names(m, leaf) ==
    IF m.kind = "summary" THEN m.count > 0 /\ leaf \in m.fingerprint
    ELSE \E j \in DOMAIN m.leaves : m.leaves[j] = leaf

CopyOf(store, k) == [key |-> k, leaf |-> store[k]]

(* A response from a responder that follows the code speaks the truth      *)
(* about every record the responder has not changed since the pass began.  *)
Truthful(m, store, changed) ==
    \A k \in Key \ changed :
        IF m.kind = "records" THEN \A l \in m.leaves : l.key = k => l = CopyOf(store, k)
        ELSE rangeContains(m.bounds, k) /\ store[k] # NoLeaf => Names(m, CopyOf(store, k))

(* The requester has asked for the record, or its copy is on the way.      *)
Underway(k) ==
    \/ \E i \in DOMAIN steps :
          \/ steps[i].kind = "get" /\ k \in steps[i].keys
          \/ steps[i].kind = "empty" /\ rangeContains(steps[i].bounds, k)
    \/ \E i \in DOMAIN inbox : inbox[i].kind = "records" /\ CopyOf(theirs, k) \in inbox[i].leaves

Asked(k) == requested[k] > 0 \/ \E b \in emptied : rangeContains(b, k)

(* What makes Pulled inductive: a record once asked for is held or on the  *)
(* way, and what is said of the others is true.                            *)
NothingLost ==
    /\ \A i \in DOMAIN inbox : Truthful(inbox[i], theirs, touched)
    /\ \A k \in Key \ touched :
          /\ Covered(k)
          /\ Asked(k) => Holds(mine[k], theirs[k]) \/ Underway(k)

PullInv == TypeOK /\ (Honest => NothingLost)

(* Merging never gives up what a store holds.                              *)
LEMMA MergeKeeps ==
    ASSUME NEW held \in Stored, NEW got \in Leaf, NEW offered \in Stored, Holds(held, offered)
    PROVE  Holds(merge(held, got), offered)
<1>1. merge(held, got) \in Stored
  BY MergeType
<1> QED BY <1>1 DEF merge, Holds, Stored, Leaf, NoLeaf

(* What was merged is held.                                                *)
LEMMA MergeTakes ==
    ASSUME NEW held \in Stored, NEW got \in Leaf
    PROVE  Holds(merge(held, got), got)
BY DEF merge, Holds, Stored, Leaf, NoLeaf

(* Nothing is needed of a responder without a decision.                    *)
LEMMA NoLeafHeld ==
    ASSUME NEW held \in Stored
    PROVE  Holds(held, NoLeaf)
BY DEF Holds, Stored, Leaf, NoLeaf

(* An answer takes no more out of pending than it answers.                 *)
LEMMA NarrowKeeps ==
    ASSUME pending \in Seq(Bounds), NEW n \in DOMAIN pending,
           NEW b \in Bounds, answers(pending[n], b),
           NEW k \in Key, ~rangeContains(b, k),
           NEW i \in DOMAIN pending, rangeContains(pending[i], k)
    PROVE  \E j \in DOMAIN narrow(n, b) : rangeContains(narrow(n, b)[j], k)
<1>1. CASE b.upper = pending[n].upper
  <2>1. /\ narrow(n, b) = [j \in 1..(Len(pending) - 1) |->
                              IF j < n THEN pending[j] ELSE pending[j + 1]]
        /\ DOMAIN narrow(n, b) = 1..(Len(pending) - 1)
    BY <1>1 DEF narrow
  <2>2. i # n
    BY <1>1 DEF answers, rangeContains
  <2>3. /\ i < n => i \in DOMAIN narrow(n, b) /\ narrow(n, b)[i] = pending[i]
        /\ i > n => i - 1 \in DOMAIN narrow(n, b) /\ narrow(n, b)[i - 1] = pending[i]
    BY <2>1
  <2> QED BY <2>2, <2>3
<1>2. CASE b.upper # pending[n].upper
  <2> DEFINE rest == [type |-> pending[n].type, lower |-> b.upper, upper |-> pending[n].upper]
  <2>1. narrow(n, b) = [pending EXCEPT ![n] = rest]
    BY <1>2 DEF narrow
  <2>2. i = n => rangeContains(rest, k)
    BY PullAssumption DEF rangeContains, answers, Key, Position, Bounds, End
  <2>3. narrow(n, b)[i] = (IF i = n THEN rest ELSE pending[i]) /\ i \in DOMAIN narrow(n, b)
    BY <2>1
  <2> HIDE DEF rest
  <2> QED BY <2>2, <2>3
<1> QED BY <1>1, <1>2

(* Deleting message i keeps every other message and adds none.             *)
LEMMA WithoutElements ==
    ASSUME inbox \in Seq(Message), NEW i \in DOMAIN inbox
    PROVE  /\ \A j \in DOMAIN Without(i) : \E o \in DOMAIN inbox : Without(i)[j] = inbox[o]
           /\ \A o \in DOMAIN inbox : o # i =>
                 \E j \in DOMAIN Without(i) : Without(i)[j] = inbox[o]
<1>1. /\ Without(i) = [j \in 1..(Len(inbox) - 1) |-> IF j < i THEN inbox[j] ELSE inbox[j + 1]]
      /\ DOMAIN Without(i) = 1..(Len(inbox) - 1)
  BY DEF Without
<1>2. i \in 1..Len(inbox) /\ DOMAIN inbox = 1..Len(inbox) /\ Len(inbox) \in Nat
  OBVIOUS
<1>3. \A j \in DOMAIN Without(i) :
          /\ j < i => j \in DOMAIN inbox /\ Without(i)[j] = inbox[j]
          /\ j >= i => j + 1 \in DOMAIN inbox /\ Without(i)[j] = inbox[j + 1]
  BY <1>1, <1>2
<1>4. \A o \in DOMAIN inbox :
          /\ o < i => o \in DOMAIN Without(i) /\ Without(i)[o] = inbox[o]
          /\ o > i => o - 1 \in DOMAIN Without(i) /\ Without(i)[o - 1] = inbox[o]
  BY <1>1, <1>2
<1>5. \A j \in DOMAIN Without(i) : j < i \/ j >= i
  BY <1>1, <1>2
<1>6. \A o \in DOMAIN inbox : o # i => o < i \/ o > i
  BY <1>2
<1> QED BY <1>3, <1>4, <1>5, <1>6

(* The array splitRange cuts up holds every leaf of the range.             *)
LEMMA InOrderAll ==
    ASSUME NEW store \in [Key -> Stored], NEW b, NEW array, InOrder(array, leavesIn(store, b)),
           NEW l \in leavesIn(store, b)
    PROVE  \E j \in DOMAIN array : array[j] = l
<1> DEFINE leaves == leavesIn(store, b)
           n == Cardinality(leaves)
<1>1. leaves \in SUBSET Listed /\ IsFiniteSet(leaves) /\ n \in Nat
  BY LeavesInType
<1>2. array \in [1..n -> leaves] /\ DOMAIN array = 1..n
  BY DEF InOrder
<1>3. \A i, j \in 1..n : i < j => array[i].key[2] < array[j].key[2]
  BY DEF InOrder
<1>4. Cardinality(1..n) = n
  <2>1. Cardinality(1..n) = IF 1 > n THEN 0 ELSE n - 1 + 1
    <3> HIDE DEF n
    <3> QED BY <1>1, FS_Interval, 1 \in Int, n \in Int
  <2> HIDE DEF n
  <2> QED BY <1>1, <2>1
<1> HIDE DEF n, leaves
<1>5. \A i \in 1..n : array[i].key[2] \in Nat
  <2>1. \A l1 \in Listed : l1.key[2] \in Nat
    BY PullAssumption DEF Listed, Key, Position
  <2> QED BY <1>1, <1>2, <2>1
<1>6. array \in Injection(1..n, leaves)
  <2>1. ASSUME NEW i \in 1..n, NEW j \in 1..n, array[i] = array[j]
        PROVE  i = j
    <3>1. ~(i < j) /\ ~(j < i)
      BY <1>3, <1>5, <2>1
    <3> QED BY <1>1, <3>1
  <2> QED BY <1>2, <2>1 DEF Injection, IsInjective
<1>7. array \in Surjection(1..n, leaves)
  BY <1>1, <1>4, <1>6, FS_Injection DEF n
<1>8. l \in leaves
  BY DEF leaves
<1> QED BY <1>2, <1>7, <1>8 DEF Surjection

(* The leaf a store holds of a key is among the leaves of every range      *)
(* around it.                                                              *)
LEMMA LeavesInAll ==
    ASSUME NEW b, NEW k \in Key, rangeContains(b, k), theirs[k] # NoLeaf
    PROVE  CopyOf(theirs, k) \in leavesIn(theirs, b)
BY DEF leavesIn, CopyOf

(* What a summary or a list of the responder's own leaves says is true.    *)
LEMMA SummaryTruthful ==
    ASSUME TypeOK, NEW b
    PROVE  Truthful(summarizeRange(theirs, b), theirs, touched)
<1> DEFINE leaves == leavesIn(theirs, b)
           m == summarizeRange(theirs, b)
<1>1. theirs \in [Key -> Stored]
  BY DEF TypeOK
<1>2. IsFiniteSet(leaves) /\ Cardinality(leaves) \in Nat
  BY <1>1, LeavesInType
<1>3. m = [kind |-> "summary", bounds |-> b, fingerprint |-> leaves,
           count |-> Cardinality(leaves)]
  BY DEF summarizeRange, summarize
<1>4. leaves # {} => Cardinality(leaves) > 0
  <2> HIDE DEF leaves
  <2> QED BY <1>2, FS_EmptySet
<1>5. ASSUME NEW k \in Key, rangeContains(b, k), theirs[k] # NoLeaf
      PROVE  CopyOf(theirs, k) \in leaves
  BY <1>5, LeavesInAll
<1> HIDE DEF leaves, m
<1> QED BY <1>3, <1>4, <1>5 DEF Truthful, Names, m

LEMMA ListTruthful ==
    ASSUME TypeOK, NEW b, NEW inside, InOrder(inside, leavesIn(theirs, b))
    PROVE  Truthful([kind |-> "list", bounds |-> b, leaves |-> inside], theirs, touched)
<1> DEFINE m == [kind |-> "list", bounds |-> b, leaves |-> inside]
<1>1. theirs \in [Key -> Stored]
  BY DEF TypeOK
<1>2. ASSUME NEW k \in Key, rangeContains(b, k), theirs[k] # NoLeaf
      PROVE  \E j \in DOMAIN inside : inside[j] = CopyOf(theirs, k)
  <2>1. CopyOf(theirs, k) \in leavesIn(theirs, b)
    BY <1>2, LeavesInAll
  <2> QED BY <1>1, <2>1, InOrderAll
<1>3. m.kind = "list" /\ m.bounds = b /\ m.leaves = inside
  OBVIOUS
<1> HIDE DEF m
<1>4. Truthful(m, theirs, touched)
  BY <1>2, <1>3 DEF Truthful, Names
<1> QED BY <1>4 DEF m

(* Where splitRange cuts, no leaf falls between two sub-ranges.            *)
LEMMA ChildTruthful ==
    ASSUME TypeOK, NEW b \in Stated, NEW inside, InOrder(inside, leavesIn(theirs, b)),
           NEW c \in 1..RANGE_SPLIT, ChildCount(Cardinality(leavesIn(theirs, b)), c),
           NEW i \in 1..c
    PROVE  Truthful(Child(b, inside, i), theirs, touched)
<1> DEFINE leaves == leavesIn(theirs, b)
           n == Cardinality(leaves)
           size == ChildSize(n)
           start == (i - 1) * size
           end == IF start + size < n THEN start + size ELSE n
           chunk == {inside[j] : j \in (start + 1)..end}
           bounds == [type |-> b.type,
                      lower |-> IF start = 0 THEN b.lower ELSE inside[start].key[2],
                      upper |-> IF end = n THEN b.upper ELSE inside[end].key[2]]
           m == Child(b, inside, i)
<1>1. theirs \in [Key -> Stored] /\ leaves \in SUBSET Listed /\ IsFiniteSet(leaves) /\ n \in Nat
  BY LeavesInType DEF TypeOK
<1>2. /\ inside \in [1..n -> leaves] /\ Len(inside) = n /\ DOMAIN inside = 1..n
      /\ \A x, y \in 1..n : x < y => inside[x].key[2] < inside[y].key[2]
  <2>1. inside \in [1..n -> leaves]
        /\ \A x, y \in DOMAIN inside : x < y => inside[x].key[2] < inside[y].key[2]
    BY DEF InOrder
  <2> HIDE DEF n, leaves
  <2> QED BY <1>1, <2>1
<1>3. size \in Nat /\ ChildCount(n, c)
  <2> HIDE DEF n
  <2> QED BY <1>1, PullAssumption DEF ChildSize, n
<1>4. \A x \in 1..n : inside[x].key[2] \in Nat /\ rangeContains(b, inside[x].key)
  <2>1. \A l \in leaves : l.key[2] \in Nat /\ rangeContains(b, l.key)
    BY PullAssumption DEF leavesIn, Key, Position
  <2> HIDE DEF n, leaves
  <2> QED BY <1>2, <2>1
<1>5. m = [kind |-> "summary", bounds |-> bounds, fingerprint |-> chunk,
           count |-> Cardinality(chunk)]
  <2> HIDE DEF n, leaves
  <2> QED BY <1>2 DEF Child, summarize
<1> HIDE DEF leaves, n
<1>6. start \in 0..n /\ end \in Nat /\ end <= n /\ (start + size < n => end = start + size)
  <2>1. (i - 1) * size <= (c - 1) * size /\ start \in Nat
    BY <1>3
  <2> QED BY <1>1, <1>3, <2>1 DEF ChildCount
<1>7. size > 0
  <2>1. (c - 1) * size >= 0 /\ (size = 0 => c * size = 0)
    BY <1>3
  <2> QED BY <1>1, <1>3, <2>1 DEF ChildCount
<1>8. end # n => end \in 1..n
  BY <1>1, <1>3, <1>6, <1>7
<1>9. chunk \in SUBSET leaves
  BY <1>1, <1>2, <1>6
<1>10. IsFiniteSet(chunk) /\ Cardinality(chunk) \in Nat
  <2> HIDE DEF chunk
  <2> QED BY <1>1, <1>9, FS_Subset, FS_CardinalityType
<1> HIDE DEF start, size, end
<1>11. ASSUME NEW k \in Key, rangeContains(bounds, k), theirs[k] # NoLeaf
       PROVE  CopyOf(theirs, k) \in chunk
  <2> DEFINE at == k[2]
  <2>1. at \in Nat /\ k[1] = b.type
    BY <1>11, PullAssumption DEF Key, Position, rangeContains
  <2>2. /\ start # 0 => inside[start].key[2] < at
        /\ start = 0 => b.lower < at
        /\ end # n => at <= inside[end].key[2]
        /\ end = n => at <= b.upper
    BY <1>11 DEF rangeContains
  <2>3. b.lower < at /\ at <= b.upper
    <3>1. b.lower \in Nat /\ b.upper \in Nat
      BY PullAssumption DEF Stated, End
    <3>2. start # 0 => start \in 1..n
      BY <1>1, <1>6
    <3>3. start # 0 => b.lower < inside[start].key[2] /\ inside[start].key[2] \in Nat
      BY <1>4, <3>2 DEF rangeContains
    <3>4. end # n => inside[end].key[2] <= b.upper /\ inside[end].key[2] \in Nat
      BY <1>4, <1>8 DEF rangeContains
    <3> QED BY <2>1, <2>2, <3>1, <3>3, <3>4
  <2>4. rangeContains(b, k)
    BY <2>1, <2>3 DEF rangeContains
  <2>5. CopyOf(theirs, k) \in leaves
    BY <1>11, <2>4, LeavesInAll DEF leaves
  <2>6. PICK j \in 1..n : inside[j] = CopyOf(theirs, k)
    <3>1. CopyOf(theirs, k) \in leavesIn(theirs, b)
      BY <2>5 DEF leaves
    <3>2. \E j \in DOMAIN inside : inside[j] = CopyOf(theirs, k)
      BY <1>1, <3>1, InOrderAll
    <3> QED BY <1>2, <3>2
  <2>7. inside[j].key[2] = at
    BY <2>6 DEF CopyOf
  <2>8. ~(j <= start)
    <3>1. j <= start => start \in 1..n /\ (j = start \/ j < start)
      BY <1>1, <1>6, <2>6
    <3>2. j <= start => inside[j].key[2] <= inside[start].key[2] /\ inside[start].key[2] \in Nat
      BY <1>2, <1>4, <2>1, <2>7, <3>1
    <3> QED BY <1>6, <2>1, <2>2, <2>6, <2>7, <3>1, <3>2
  <2>9. ~(j > end)
    <3>1. j > end => end # n
      BY <1>1, <2>6
    <3>2. j > end => inside[end].key[2] < inside[j].key[2] /\ inside[end].key[2] \in Nat
      BY <1>2, <1>4, <1>8, <2>6, <3>1
    <3> QED BY <2>1, <2>2, <2>7, <3>1, <3>2
  <2>10. j \in (start + 1)..end
    BY <1>1, <1>6, <2>6, <2>8, <2>9
  <2> QED BY <2>6, <2>10
<1>12. chunk # {} => Cardinality(chunk) > 0
  <2> HIDE DEF chunk
  <2> QED BY <1>10, FS_EmptySet
<1> HIDE DEF chunk, bounds, m
<1>13. m.kind = "summary" /\ m.bounds = bounds /\ m.fingerprint = chunk
       /\ m.count = Cardinality(chunk)
  BY <1>5
<1>14. Truthful(m, theirs, touched)
  BY <1>11, <1>12, <1>13 DEF Truthful, Names
<1> QED BY <1>14 DEF m

(* Records sent as the store holds them are true.                          *)
LEMMA RecordsTruthful ==
    ASSUME NEW leaves, \A l \in leaves : l = CopyOf(theirs, l.key)
    PROVE  Truthful([kind |-> "records", leaves |-> leaves], theirs, touched)
<1> DEFINE m == [kind |-> "records", leaves |-> leaves]
<1>1. m.kind = "records" /\ m.leaves = leaves
  OBVIOUS
<1> HIDE DEF m
<1>2. Truthful(m, theirs, touched)
  BY <1>1 DEF Truthful
<1> QED BY <1>2 DEF m

(* The responder has handled a step it was sent: it says nothing untrue,   *)
(* and the records it was asked for are on the way.                        *)
Handled(m) ==
    /\ \A i \in DOMAIN inbox : i \in DOMAIN inbox' /\ inbox'[i] = inbox[i]
    /\ \A i \in DOMAIN inbox' :
          (i \in DOMAIN inbox /\ inbox'[i] = inbox[i]) \/ Truthful(inbox'[i], theirs, touched)
    /\ \A k \in Key : theirs[k] # NoLeaf
          /\ \/ m.kind = "get" /\ k \in m.keys
             \/ m.kind = "empty" /\ rangeContains(m.bounds, k)
          => \E i \in DOMAIN inbox' :
                inbox'[i].kind = "records" /\ CopyOf(theirs, k) \in inbox'[i].leaves

(* Each handler of the responder does so.                                  *)
LEMMA AnswerHandled ==
    ASSUME TypeOK, TypeOK', Answer
    PROVE  Handled(Head(steps))
<1> DEFINE step == Head(steps)
           b == step.bounds
<1>1. inbox \in Seq(Message) /\ inbox' \in Seq(Message) /\ theirs \in [Key -> Stored]
  BY DEF TypeOK, Message
<1>2. step \in Step
  BY DEF TypeOK, Answer, Handles, Summarize, ListRange, SplitRange, SendRange, SendRecords, Settle
<1>3. step.kind # "get" => b \in Stated
  BY <1>2 DEF Step
<1>4. ASSUME NEW m, inbox' = Append(inbox, m)
      PROVE  /\ \A i \in DOMAIN inbox : i \in DOMAIN inbox' /\ inbox'[i] = inbox[i]
             /\ \A i \in DOMAIN inbox' : (i \in DOMAIN inbox /\ inbox'[i] = inbox[i]) \/ inbox'[i] = m
             /\ \E i \in DOMAIN inbox' : inbox'[i] = m
  BY <1>1, <1>4
<1> HIDE DEF step, b
<1>5. CASE Summarize
  <2>1. step.kind = "begin" /\ inbox' = Append(inbox, summarizeRange(theirs, b))
    BY <1>5 DEF Summarize, Handles, step, b
  <2>2. Truthful(summarizeRange(theirs, b), theirs, touched)
    BY SummaryTruthful
  <2> QED BY <1>4, <2>1, <2>2 DEF Handled, step
<1>6. CASE ListRange
  <2>1. PICK inside : /\ InOrder(inside, leavesIn(theirs, b))
                      /\ inbox' = Append(inbox, [kind |-> "list", bounds |-> b, leaves |-> inside])
    BY <1>6 DEF ListRange, b, step
  <2>2. Truthful([kind |-> "list", bounds |-> b, leaves |-> inside], theirs, touched)
    BY <2>1, ListTruthful
  <2>3. step.kind = "differs"
    BY <1>6 DEF ListRange, Handles, step
  <2> QED BY <1>4, <2>1, <2>2, <2>3 DEF Handled, step
<1>7. CASE SplitRange
  <2>1. PICK inside \in [1..Cardinality(leavesIn(theirs, b)) -> leavesIn(theirs, b)],
             c \in 1..RANGE_SPLIT :
            /\ InOrder(inside, leavesIn(theirs, b))
            /\ ChildCount(Cardinality(leavesIn(theirs, b)), c)
            /\ inbox' = inbox \o [i \in 1..c |-> Child(b, inside, i)]
    BY <1>7 DEF SplitRange, b, step
  <2>2. step.kind = "differs"
    BY <1>7 DEF SplitRange, Handles, step
  <2>3. \A i \in 1..c : Truthful(Child(b, inside, i), theirs, touched)
    BY <1>3, <2>1, <2>2, ChildTruthful
  <2> DEFINE new == [i \in 1..c |-> Child(b, inside, i)]
  <2>4. \A i \in DOMAIN inbox : i \in DOMAIN inbox' /\ inbox'[i] = inbox[i]
    <3>1. Len(new) = c /\ c \in Nat
      BY PullAssumption
    <3> QED BY <1>1, <2>1, <3>1
  <2>5. \A i \in DOMAIN inbox' : i \notin DOMAIN inbox => \E j \in 1..c : inbox'[i] = new[j]
    <3>1. Len(new) = c /\ c \in Nat /\ DOMAIN new = 1..c
      BY PullAssumption
    <3>2. inbox' = inbox \o new
      BY <2>1
    <3> HIDE DEF new
    <3>3. \A i \in DOMAIN inbox' : i \notin DOMAIN inbox =>
              i - Len(inbox) \in 1..c /\ inbox'[i] = new[i - Len(inbox)]
      BY <1>1, <3>1, <3>2
    <3> QED BY <3>3
  <2> QED BY <2>2, <2>3, <2>4, <2>5 DEF Handled, step
<1>8. CASE SendRange
  <2> DEFINE leaves == leavesIn(theirs, b)
             m == [kind |-> "records", leaves |-> leaves]
  <2>1. step.kind = "empty" /\ inbox' = Append(inbox, m)
    BY <1>8 DEF SendRange, Handles, step, b
  <2>2. Truthful(m, theirs, touched)
    <3>1. \A l \in leaves : l = CopyOf(theirs, l.key)
      BY DEF leavesIn, CopyOf
    <3> QED BY <3>1, RecordsTruthful
  <2>3. ASSUME NEW k \in Key, theirs[k] # NoLeaf, rangeContains(b, k)
        PROVE  CopyOf(theirs, k) \in leaves
    BY <2>3, LeavesInAll
  <2>4. m.kind = "records" /\ m.leaves = leaves
    OBVIOUS
  <2> HIDE DEF m, leaves
  <2> QED BY <1>4, <2>1, <2>2, <2>3, <2>4 DEF Handled, step, b
<1>9. CASE SendRecords
  <2> DEFINE leaves == {[key |-> k, leaf |-> theirs[k]] :
                            k \in {x \in step.keys : theirs[x] # NoLeaf}}
             m == [kind |-> "records", leaves |-> leaves]
  <2>1. step.kind = "get" /\ inbox' = Append(inbox, m)
    BY <1>9 DEF SendRecords, Handles, step
  <2>2. Truthful(m, theirs, touched)
    <3>1. \A l \in leaves : l = CopyOf(theirs, l.key)
      BY DEF CopyOf
    <3> HIDE DEF leaves
    <3> QED BY <3>1, RecordsTruthful
  <2>3. ASSUME NEW k \in step.keys, theirs[k] # NoLeaf
        PROVE  CopyOf(theirs, k) \in leaves
    BY <2>3 DEF CopyOf
  <2>4. m.kind = "records" /\ m.leaves = leaves
    OBVIOUS
  <2> HIDE DEF m, leaves
  <2> QED BY <1>4, <2>1, <2>2, <2>3, <2>4 DEF Handled, step
<1>10. CASE Settle
  BY <1>10 DEF Settle, Handles, Handled, step
<1> QED BY <1>5, <1>6, <1>7, <1>8, <1>9, <1>10 DEF Answer

(* An answer of the responder loses nothing.                               *)
LEMMA AnswerNothingLost ==
    ASSUME TypeOK, TypeOK', NothingLost, Answer
    PROVE  NothingLost'
<1>1. /\ steps # <<>> /\ steps' = Tail(steps) /\ steps \in Seq(Step)
      /\ mine' = mine /\ theirs' = theirs /\ touched' = touched
      /\ pending' = pending /\ requested' = requested /\ emptied' = emptied
  BY DEF Answer, Handles, Summarize, ListRange, SplitRange, SendRange, SendRecords, Settle,
         stores, pass, TypeOK
<1>2. Handled(Head(steps))
  BY AnswerHandled
<1>3. \A i \in DOMAIN inbox' : Truthful(inbox'[i], theirs', touched')
  BY <1>1, <1>2 DEF Handled, NothingLost
<1>4. ASSUME NEW k \in Key \ touched'
      PROVE  Covered(k)'
  BY <1>1, <1>4 DEF NothingLost, Covered
<1>5. ASSUME NEW k \in Key \ touched', Asked(k)', ~Holds(mine'[k], theirs'[k])
      PROVE  Underway(k)'
  <2>1. Underway(k) /\ ~Holds(mine[k], theirs[k]) /\ k \in Key
    BY <1>1, <1>5 DEF NothingLost, Asked
  <2>2. theirs[k] # NoLeaf
    BY <2>1, NoLeafHeld DEF TypeOK
  <2>3. CASE \E i \in DOMAIN inbox :
                inbox[i].kind = "records" /\ CopyOf(theirs, k) \in inbox[i].leaves
    BY <1>1, <1>2, <2>3 DEF Handled, Underway
  <2>4. ASSUME NEW i \in DOMAIN steps,
               \/ steps[i].kind = "get" /\ k \in steps[i].keys
               \/ steps[i].kind = "empty" /\ rangeContains(steps[i].bounds, k)
        PROVE  Underway(k)'
    <3>1. CASE i = 1
      <4>1. steps[i] = Head(steps)
        BY <1>1, <3>1
      <4>2. \E j \in DOMAIN inbox' :
                inbox'[j].kind = "records" /\ CopyOf(theirs, k) \in inbox'[j].leaves
        BY <1>2, <2>1, <2>2, <2>4, <4>1 DEF Handled
      <4> QED BY <1>1, <4>2 DEF Underway
    <3>2. CASE i # 1
      <4>1. i - 1 \in DOMAIN steps' /\ steps'[i - 1] = steps[i]
        BY <1>1, <3>2
      <4> QED BY <2>4, <4>1 DEF Underway
    <3> QED BY <3>1, <3>2
  <2> QED BY <2>1, <2>3, <2>4 DEF Underway
<1> QED BY <1>3, <1>4, <1>5 DEF NothingLost

(* What is left in the inbox is as true as before.                         *)
LEMMA TruthRemains ==
    ASSUME TypeOK, NothingLost, NEW i \in DOMAIN inbox, inbox' = Without(i),
           theirs' = theirs, touched' = touched
    PROVE  \A j \in DOMAIN inbox' : Truthful(inbox'[j], theirs', touched')
<1>1. \A j \in DOMAIN inbox' : \E o \in DOMAIN inbox : inbox'[j] = inbox[o]
  BY WithoutElements DEF TypeOK, Message
<1> QED BY <1>1 DEF NothingLost

(* A message that carries no records takes none along when it is consumed. *)
LEMMA UnderwayRemains ==
    ASSUME TypeOK, NEW i \in DOMAIN inbox, inbox' = Without(i), theirs' = theirs,
           inbox[i].kind # "records",
           \A j \in DOMAIN steps : j \in DOMAIN steps' /\ steps'[j] = steps[j],
           NEW k, Underway(k)
    PROVE  Underway(k)'
<1>1. \A o \in DOMAIN inbox : o # i => \E j \in DOMAIN inbox' : inbox'[j] = inbox[o]
  BY WithoutElements DEF TypeOK, Message
<1>2. CASE \E j \in DOMAIN steps : \/ steps[j].kind = "get" /\ k \in steps[j].keys
                                   \/ steps[j].kind = "empty" /\ rangeContains(steps[j].bounds, k)
  BY <1>2 DEF Underway
<1>3. CASE \E o \in DOMAIN inbox :
              inbox[o].kind = "records" /\ CopyOf(theirs, k) \in inbox[o].leaves
  <2>1. PICK o \in DOMAIN inbox :
              inbox[o].kind = "records" /\ CopyOf(theirs, k) \in inbox[o].leaves
    BY <1>3
  <2>2. PICK j \in DOMAIN inbox' : inbox'[j] = inbox[o]
    BY <1>1, <2>1
  <2> QED BY <2>1, <2>2 DEF Underway
<1> QED BY <1>2, <1>3 DEF Underway

(* A summary: what matches is held, what is empty is sent for whole, what  *)
(* differs stays pending.                                                  *)
LEMMA AdvanceSummaryNothingLost ==
    ASSUME TypeOK, TypeOK', NothingLost, NEW i \in DOMAIN inbox, NEW n \in DOMAIN pending,
           AdvanceSummary(i, n)
    PROVE  NothingLost'
<1> DEFINE m == inbox[i]
           b == m.bounds
           left == narrow(n, b)
           answer == answerFor(mine, m)
<1>1. m \in Summary /\ pending \in Seq(Bounds) /\ mine \in [Key -> Stored] /\ steps \in Seq(Step)
  BY DEF TypeOK, Message, AdvanceSummary, Summary, LeafList, Records
<1>2. /\ m.kind = "summary" /\ answers(pending[n], b)
      /\ pending' = IF answer = "differs" THEN Append(left, b) ELSE left
      /\ emptied' = IF answer = "empty" THEN emptied \cup {b} ELSE emptied
      /\ steps' = Append(steps, [kind |-> answer, bounds |-> b])
      /\ inbox' = Without(i)
      /\ mine' = mine /\ theirs' = theirs /\ touched' = touched /\ requested' = requested
  BY DEF AdvanceSummary, stores
<1>3. b \in Bounds
  <2>1. b \in Stated
    BY <1>1 DEF Summary
  <2> QED BY <1>1, <1>2, <2>1, AnswersInside
<1>4. left \in Seq(Bounds)
  BY <1>1, <1>2, <1>3, NarrowType
<1>5. /\ \A j \in DOMAIN steps : j \in DOMAIN steps' /\ steps'[j] = steps[j]
      /\ \E j \in DOMAIN steps' : steps'[j].kind = answer /\ steps'[j].bounds = b
  <2> HIDE DEF answer, b
  <2>1. steps'[Len(steps) + 1] = [kind |-> answer, bounds |-> b]
        /\ Len(steps) + 1 \in DOMAIN steps'
    BY <1>1, <1>2
  <2> QED BY <1>1, <1>2, <2>1
<1>6. answer \in {"matches", "differs", "empty"}
  BY DEF answerFor
<1>7. ASSUME NEW k \in Key \ touched, rangeContains(b, k), answer = "matches"
      PROVE  Holds(mine[k], theirs[k])
  <2>1. CASE theirs[k] = NoLeaf
    BY <1>1, <2>1, NoLeafHeld
  <2>2. CASE theirs[k] # NoLeaf
    <3>1. Truthful(m, theirs, touched)
      BY DEF NothingLost
    <3>2. m.count > 0 /\ CopyOf(theirs, k) \in m.fingerprint
      <4> HIDE DEF m
      <4> QED BY <1>2, <1>7, <2>2, <3>1 DEF Truthful, Names, b
    <3>3. leavesIn(mine, b) = m.fingerprint
      BY <1>1, <1>7, <3>2 DEF answerFor, Summary
    <3>4. theirs[k] = mine[k]
      <4>1. CopyOf(theirs, k) \in leavesIn(mine, b)
        BY <3>2, <3>3
      <4> HIDE DEF b
      <4> QED BY <4>1 DEF leavesIn, CopyOf
    <3>5. mine[k] \in Stored
      BY <1>1
    <3> QED BY <3>4, <3>5 DEF Holds, Stored, Leaf, NoLeaf
  <2> QED BY <2>1, <2>2
<1>8. \A j \in DOMAIN left : \E o \in DOMAIN pending' : pending'[o] = left[j]
  <2> HIDE DEF left, answer, b
  <2> QED BY <1>2, <1>4
<1>9. answer = "differs" => \E o \in DOMAIN pending' : pending'[o] = b
  <2> HIDE DEF left, answer, b
  <2>1. answer = "differs" => Len(left) + 1 \in DOMAIN pending' /\ pending'[Len(left) + 1] = b
    BY <1>2, <1>4
  <2> QED BY <2>1
<1>10. ASSUME NEW k \in Key \ touched
       PROVE  Covered(k)'
  <2>1. CASE rangeContains(b, k)
    <3> HIDE DEF b, answer, left
    <3> QED BY <1>2, <1>6, <1>7, <1>9, <2>1 DEF Covered
  <2>2. ASSUME ~rangeContains(b, k), NEW x \in DOMAIN pending, rangeContains(pending[x], k)
        PROVE  \E j \in DOMAIN pending' : rangeContains(pending'[j], k)
    <3>1. PICK j \in DOMAIN left : rangeContains(left[j], k)
      BY <1>1, <1>2, <1>3, <2>2, NarrowKeeps
    <3> HIDE DEF left
    <3> QED BY <1>8, <3>1
  <2>3. Covered(k)
    BY DEF NothingLost
  <2> HIDE DEF b, answer, left
  <2>4. CASE ~rangeContains(b, k)
    <3>1. \A x \in emptied : x \in emptied'
      BY <1>2
    <3> QED BY <1>2, <2>2, <2>3, <2>4, <3>1 DEF Covered
  <2> QED BY <2>1, <2>4
<1>11. ASSUME NEW k \in Key \ touched, Asked(k)', ~Holds(mine[k], theirs[k])
       PROVE  Underway(k)'
  <2>1. CASE answer = "empty" /\ rangeContains(b, k)
    <3> HIDE DEF b, answer
    <3> QED BY <1>5, <2>1 DEF Underway
  <2>2. CASE ~(answer = "empty" /\ rangeContains(b, k))
    <3>1. Asked(k)
      <4> HIDE DEF b, answer
      <4> QED BY <1>2, <1>11, <2>2 DEF Asked
    <3>2. Underway(k)
      BY <1>11, <3>1 DEF NothingLost
    <3> QED BY <1>2, <1>5, <3>2, UnderwayRemains
  <2> QED BY <2>1, <2>2
<1>12. \A j \in DOMAIN inbox' : Truthful(inbox'[j], theirs', touched')
  BY <1>2, TruthRemains
<1> QED BY <1>2, <1>10, <1>11, <1>12 DEF NothingLost

(* A leaf list: what it names and the requester does not hold is fetched.  *)
LEMMA AdvanceListNothingLost ==
    ASSUME TypeOK, TypeOK', NothingLost, NEW i \in DOMAIN inbox, NEW n \in DOMAIN pending,
           AdvanceList(i, n)
    PROVE  NothingLost'
<1> DEFINE m == inbox[i]
           b == m.bounds
           left == narrow(n, b)
           get == wanted(mine, m)
<1>1. /\ m \in LeafList /\ pending \in Seq(Bounds) /\ mine \in [Key -> Stored]
      /\ theirs \in [Key -> Stored] /\ requested \in [Key -> Nat] /\ steps \in Seq(Step)
  BY DEF TypeOK, Message, AdvanceList, Summary, LeafList, Records
<1>2. /\ m.kind = "list" /\ answers(pending[n], b) /\ pending' = left
      /\ requested' = [k \in Key |-> requested[k] + IF k \in get THEN 1 ELSE 0]
      /\ steps' = IF get = {} THEN steps ELSE Append(steps, [kind |-> "get", keys |-> get])
      /\ inbox' = Without(i)
      /\ mine' = mine /\ theirs' = theirs /\ touched' = touched /\ emptied' = emptied
  BY DEF AdvanceList, stores
<1>3. b \in Bounds
  <2>1. b \in Stated
    BY <1>1 DEF LeafList
  <2> QED BY <1>1, <1>2, <2>1, AnswersInside
<1>4. /\ \A j \in DOMAIN steps : j \in DOMAIN steps' /\ steps'[j] = steps[j]
      /\ get # {} => \E j \in DOMAIN steps' : steps'[j].kind = "get" /\ steps'[j].keys = get
  <2> HIDE DEF get
  <2>1. get # {} => /\ steps'[Len(steps) + 1] = [kind |-> "get", keys |-> get]
                    /\ Len(steps) + 1 \in DOMAIN steps'
    BY <1>1, <1>2
  <2>2. get # {} => \E j \in DOMAIN steps' : steps'[j].kind = "get" /\ steps'[j].keys = get
    BY <2>1
  <2>3. \A j \in DOMAIN steps : j \in DOMAIN steps' /\ steps'[j] = steps[j]
    BY <1>1, <1>2
  <2> QED BY <2>2, <2>3
<1>5. ASSUME NEW k \in Key \ touched, rangeContains(b, k), k \notin get
      PROVE  Holds(mine[k], theirs[k])
  <2>1. CASE theirs[k] = NoLeaf
    BY <1>1, <2>1, NoLeafHeld
  <2>2. CASE theirs[k] # NoLeaf
    <3>1. Truthful(m, theirs, touched)
      BY DEF NothingLost
    <3>2. PICK j \in DOMAIN m.leaves : m.leaves[j] = CopyOf(theirs, k)
      <4> HIDE DEF m
      <4> QED BY <1>2, <1>5, <2>2, <3>1 DEF Truthful, Names, b
    <3>3. m.leaves[j].key = k /\ m.leaves[j].leaf = theirs[k]
      BY <3>2 DEF CopyOf
    <3>4. ~prefersResponder(theirs[k], mine[k])
      <4> HIDE DEF m
      <4> QED BY <1>5, <3>3 DEF wanted, b
    <3>5. mine[k] \in Stored /\ theirs[k] \in Stored
      BY <1>1
    <3>6. mine[k].grade \in Nat /\ theirs[k].grade \in Nat
      BY <3>5 DEF Stored, Leaf, NoLeaf
    <3> QED BY <3>4, <3>6 DEF prefersResponder, Holds
  <2> QED BY <2>1, <2>2
<1>6. \A k \in Key : requested'[k] > 0 <=> requested[k] > 0 \/ k \in get
  <2> HIDE DEF get
  <2> QED BY <1>1, <1>2
<1>7. ASSUME NEW k \in Key \ touched
      PROVE  Covered(k)'
  <2>1. CASE rangeContains(b, k)
    <3> HIDE DEF b, get
    <3> QED BY <1>2, <1>5, <1>6, <2>1 DEF Covered
  <2>2. ASSUME ~rangeContains(b, k), NEW x \in DOMAIN pending, rangeContains(pending[x], k)
        PROVE  \E j \in DOMAIN pending' : rangeContains(pending'[j], k)
    <3>1. PICK j \in DOMAIN left : rangeContains(left[j], k)
      BY <1>1, <1>2, <1>3, <2>2, NarrowKeeps
    <3> HIDE DEF left
    <3> QED BY <1>2, <3>1
  <2>3. Covered(k)
    BY DEF NothingLost
  <2> HIDE DEF b, get, left
  <2>4. CASE ~rangeContains(b, k)
    BY <1>2, <1>6, <2>2, <2>3, <2>4 DEF Covered
  <2> QED BY <2>1, <2>4
<1>8. ASSUME NEW k \in Key \ touched, Asked(k)', ~Holds(mine[k], theirs[k])
      PROVE  Underway(k)'
  <2>1. CASE k \in get
    <3> HIDE DEF get
    <3> QED BY <1>4, <2>1 DEF Underway
  <2>2. CASE k \notin get
    <3>1. Asked(k)
      <4> HIDE DEF get
      <4> QED BY <1>2, <1>6, <1>8, <2>2 DEF Asked
    <3>2. Underway(k)
      BY <1>8, <3>1 DEF NothingLost
    <3> QED BY <1>2, <1>4, <3>2, UnderwayRemains
  <2> QED BY <2>1, <2>2
<1>9. \A j \in DOMAIN inbox' : Truthful(inbox'[j], theirs', touched')
  BY <1>2, TruthRemains
<1> QED BY <1>2, <1>7, <1>8, <1>9 DEF NothingLost

(* A refused message leaves the pass as it was.                            *)
LEMMA RefuseNothingLost ==
    ASSUME TypeOK, NothingLost, NEW i \in DOMAIN inbox, Refuse(i)
    PROVE  NothingLost'
<1>1. /\ inbox[i].kind # "records" /\ inbox' = Without(i)
      /\ mine' = mine /\ theirs' = theirs /\ touched' = touched
      /\ pending' = pending /\ requested' = requested /\ emptied' = emptied /\ steps' = steps
  BY DEF Refuse, stores, pass
<1>2. \A j \in DOMAIN inbox' : Truthful(inbox'[j], theirs', touched')
  BY <1>1, TruthRemains
<1>3. ASSUME NEW k \in Key, Underway(k)
      PROVE  Underway(k)'
  BY <1>1, <1>3, UnderwayRemains
<1>4. \A k \in Key : (Covered(k) => Covered(k)') /\ (Asked(k)' => Asked(k))
  BY <1>1 DEF Covered, Asked
<1> QED BY <1>1, <1>2, <1>3, <1>4 DEF NothingLost

(* Records that arrive are held from then on.                              *)
LEMMA ReceiveNothingLost ==
    ASSUME TypeOK, NothingLost, NEW i \in DOMAIN inbox, Receive(i)
    PROVE  NothingLost'
<1> DEFINE m == inbox[i]
           taken(k) == CHOOSE l \in m.leaves : l.key = k
<1>1. /\ m.kind = "records" /\ inbox' = Without(i)
      /\ mine' = [k \in Key |-> IF \E l \in m.leaves : l.key = k
                                THEN merge(mine[k], taken(k).leaf) ELSE mine[k]]
      /\ theirs' = theirs /\ touched' = touched
      /\ pending' = pending /\ requested' = requested /\ emptied' = emptied /\ steps' = steps
  BY DEF Receive, pass
<1>2. m \in Records /\ mine \in [Key -> Stored] /\ theirs \in [Key -> Stored]
  BY <1>1 DEF TypeOK, Summary, LeafList, Records
<1>3. ASSUME NEW k \in Key, \E l \in m.leaves : l.key = k
      PROVE  taken(k) \in m.leaves /\ taken(k).key = k /\ taken(k).leaf \in Leaf
  <2>1. taken(k) \in m.leaves /\ taken(k).key = k
    <3> HIDE DEF m
    <3> QED BY <1>3
  <2> HIDE DEF taken
  <2> QED BY <1>2, <2>1 DEF Records, Listed
<1>4. ASSUME NEW k \in Key, Holds(mine[k], theirs[k])
      PROVE  Holds(mine'[k], theirs'[k])
  <2>1. CASE \E l \in m.leaves : l.key = k
    <3>1. taken(k).leaf \in Leaf /\ mine'[k] = merge(mine[k], taken(k).leaf)
      BY <1>1, <1>3, <2>1
    <3> HIDE DEF taken
    <3> QED BY <1>1, <1>2, <1>4, <3>1, MergeKeeps
  <2>2. CASE ~\E l \in m.leaves : l.key = k
    BY <1>1, <1>4, <2>2
  <2> QED BY <2>1, <2>2
<1>5. ASSUME NEW k \in Key \ touched, CopyOf(theirs, k) \in m.leaves
      PROVE  Holds(mine'[k], theirs'[k])
  <2>1. \E l \in m.leaves : l.key = k
    BY <1>5 DEF CopyOf
  <2>2. taken(k) \in m.leaves /\ taken(k).key = k /\ taken(k).leaf \in Leaf
    BY <1>3, <2>1
  <2>3. taken(k) = CopyOf(theirs, k)
    <3>1. Truthful(m, theirs, touched)
      BY DEF NothingLost
    <3> HIDE DEF m, taken
    <3> QED BY <1>1, <2>2, <3>1 DEF Truthful
  <2>4. taken(k).leaf = theirs[k]
    <3> HIDE DEF taken
    <3> QED BY <2>3 DEF CopyOf
  <2>5. mine'[k] = merge(mine[k], theirs[k]) /\ theirs[k] \in Leaf
    BY <1>1, <2>1, <2>2, <2>4
  <2> HIDE DEF taken, m
  <2> QED BY <1>1, <1>2, <2>5, MergeTakes
<1>6. \A j \in DOMAIN inbox' : Truthful(inbox'[j], theirs', touched')
  BY <1>1, TruthRemains
<1>7. \A o \in DOMAIN inbox : o # i => \E j \in DOMAIN inbox' : inbox'[j] = inbox[o]
  BY <1>1, WithoutElements DEF TypeOK, Message
<1> HIDE DEF m, taken
<1>8. \A k \in Key \ touched : Covered(k)'
  <2>1. \A k \in Key \ touched : Covered(k)
    BY DEF NothingLost
  <2> QED BY <1>1, <1>4, <2>1 DEF Covered
<1>9. ASSUME NEW k \in Key \ touched, Asked(k)', ~Holds(mine'[k], theirs'[k])
      PROVE  Underway(k)'
  <2>1. Underway(k)
    BY <1>1, <1>4, <1>9 DEF NothingLost, Asked
  <2>2. ASSUME NEW o \in DOMAIN inbox,
               inbox[o].kind = "records" /\ CopyOf(theirs, k) \in inbox[o].leaves
        PROVE  Underway(k)'
    <3>1. o # i
      BY <1>5, <1>9, <2>2 DEF m
    <3>2. PICK j \in DOMAIN inbox' : inbox'[j] = inbox[o]
      BY <1>7, <3>1
    <3> QED BY <1>1, <2>2, <3>2 DEF Underway
  <2>3. CASE \E j \in DOMAIN steps : \/ steps[j].kind = "get" /\ k \in steps[j].keys
                                     \/ steps[j].kind = "empty" /\ rangeContains(steps[j].bounds, k)
    BY <1>1, <2>3 DEF Underway
  <2> QED BY <2>1, <2>2, <2>3 DEF Underway
<1> QED BY <1>1, <1>6, <1>8, <1>9 DEF NothingLost

(* A change of either store loses nothing of what the responder has not    *)
(* changed.                                                                *)
LEMMA ChangeNothingLost ==
    ASSUME TypeOK, NothingLost, NEW k \in Key, NEW leaf \in Leaf,
           ChangeMine(k, leaf) \/ ChangeTheirs(k, leaf)
    PROVE  NothingLost'
<1>1. /\ pending' = pending /\ requested' = requested /\ emptied' = emptied /\ steps' = steps
      /\ inbox' = inbox
      /\ mine \in [Key -> Stored] /\ theirs \in [Key -> Stored]
  BY DEF ChangeMine, ChangeTheirs, pass, TypeOK
<1>2. /\ touched \subseteq touched'
      /\ \A x \in Key \ touched' : theirs'[x] = theirs[x]
  BY <1>1 DEF ChangeMine, ChangeTheirs
<1>3. \A x \in Key \ touched' :
          Holds(mine[x], theirs[x]) => Holds(mine'[x], theirs'[x])
  <2>1. CASE ChangeMine(k, leaf)
    <3>1. \A x \in Key : mine'[x] = IF x = k THEN merge(mine[k], leaf) ELSE mine[x]
      BY <1>1, <2>1 DEF ChangeMine
    <3> QED BY <1>1, <1>2, <3>1, MergeKeeps
  <2>2. CASE ChangeTheirs(k, leaf)
    BY <1>2, <2>2 DEF ChangeTheirs
  <2> QED BY <2>1, <2>2
<1>4. \A j \in DOMAIN inbox' : Truthful(inbox'[j], theirs', touched')
  <2>1. \A j \in DOMAIN inbox : Truthful(inbox[j], theirs, touched)
    BY DEF NothingLost
  <2>2. \A x \in Key \ touched' : x \in Key \ touched /\ CopyOf(theirs', x) = CopyOf(theirs, x)
    BY <1>2 DEF CopyOf
  <2> QED BY <1>1, <1>2, <2>1, <2>2 DEF Truthful
<1>5. \A x \in Key \ touched' : Covered(x) => Covered(x)'
  BY <1>1, <1>3 DEF Covered
<1>6. \A x \in Key \ touched' : (Asked(x)' => Asked(x)) /\ (Underway(x) => Underway(x)')
  BY <1>1, <1>2 DEF Asked, Underway, CopyOf
<1> QED BY <1>2, <1>3, <1>4, <1>5, <1>6 DEF NothingLost

(* A repeated message says and brings nothing new.                         *)
LEMMA DuplicateNothingLost ==
    ASSUME TypeOK, NothingLost, Duplicate
    PROVE  NothingLost'
<1>1. /\ pending' = pending /\ requested' = requested /\ emptied' = emptied /\ steps' = steps
      /\ mine' = mine /\ theirs' = theirs /\ touched' = touched
  BY DEF Duplicate, stores, pass
<1>2. /\ \A j \in DOMAIN inbox : j \in DOMAIN inbox' /\ inbox'[j] = inbox[j]
      /\ \A j \in DOMAIN inbox' : \E o \in DOMAIN inbox : inbox'[j] = inbox[o]
  <2>1. inbox \in Seq(Message)
    BY DEF TypeOK, Message
  <2>2. PICK i \in DOMAIN inbox : inbox' = Append(inbox, inbox[i])
    BY DEF Duplicate
  <2> QED BY <2>1, <2>2
<1>3. \A k \in Key : (Covered(k) => Covered(k)') /\ (Asked(k)' => Asked(k))
  BY <1>1 DEF Covered, Asked
<1>4. \A k \in Key : Underway(k) => Underway(k)'
  BY <1>1, <1>2 DEF Underway
<1> QED BY <1>1, <1>2, <1>3, <1>4 DEF NothingLost

(* The invariant is inductive.                                             *)
LEMMA InitPullInv == Init => PullInv
<1> SUFFICES ASSUME Init PROVE PullInv
  OBVIOUS
<1>1. TypeOK
  BY InitTypeOK
<1>2. inbox = <<>> /\ touched = {} /\ emptied = {} /\ requested = [k \in Key |-> 0]
  BY DEF Init
<1>3. ASSUME NEW k \in Key
      PROVE  \E i \in DOMAIN pending : rangeContains(pending[i], k)
  <2> DEFINE n == Cardinality(Type)
  <2>1. PICK order \in [1..n -> Type] :
            /\ \A i, j \in DOMAIN order : order[i] = order[j] => i = j
            /\ pending = [i \in DOMAIN order |-> [type |-> order[i], lower |-> 0, upper |-> End]]
    BY DEF Init
  <2>2. n \in Nat /\ IsFiniteSet(Type)
    BY PullAssumption, FS_CardinalityType
  <2>3. order \in Injection(1..n, Type)
    BY <2>1 DEF Injection, IsInjective
  <2>4. Cardinality(1..n) = n
    <3>1. Cardinality(1..n) = IF 1 > n THEN 0 ELSE n - 1 + 1
      <4> HIDE DEF n
      <4> QED BY <2>2, FS_Interval, 1 \in Int, n \in Int
    <3> HIDE DEF n
    <3> QED BY <2>2, <3>1
  <2>5. order \in Surjection(1..n, Type)
    BY <2>2, <2>3, <2>4, FS_Injection
  <2>6. k[1] \in Type /\ k[2] \in 1..Last
    BY DEF Key, Position
  <2>7. PICK i \in 1..n : order[i] = k[1]
    BY <2>5, <2>6 DEF Surjection
  <2>8. i \in DOMAIN pending /\ pending[i] = [type |-> k[1], lower |-> 0, upper |-> End]
    BY <2>1, <2>7
  <2>9. k[2] > 0 /\ k[2] <= End
    BY <2>6, PullAssumption DEF End
  <2> QED BY <2>8, <2>9 DEF rangeContains
<1>4. NothingLost
  BY <1>2, <1>3 DEF NothingLost, Covered, Asked
<1> QED BY <1>1, <1>4 DEF PullInv

LEMMA NextPullInv == PullInv /\ [Next]_vars => PullInv'
<1> SUFFICES ASSUME PullInv, [Next]_vars PROVE PullInv'
  OBVIOUS
<1>1. TypeOK /\ TypeOK'
  BY NextTypeOK DEF PullInv
<1>2. world' = world
  BY DEF Next, Answer, Handles, Summarize, ListRange, SplitRange, SendRange, SendRecords, Settle,
         Deliver, AdvanceSummary, AdvanceList, Refuse, Receive, Change, ChangeMine, ChangeTheirs,
         Duplicate, Forge, Finished, vars, stores
<1>3. SUFFICES ASSUME Honest, NothingLost PROVE NothingLost'
  BY <1>1, <1>2 DEF PullInv, Honest
<1>4. CASE Answer
  BY <1>1, <1>3, <1>4, AnswerNothingLost
<1>5. CASE Deliver
  <2>1. PICK i \in DOMAIN inbox :
            \/ \E n \in DOMAIN pending : AdvanceSummary(i, n) \/ AdvanceList(i, n)
            \/ Refuse(i)
            \/ Receive(i)
    BY <1>5 DEF Deliver, Deliverable
  <2> QED BY <1>1, <1>3, <2>1, AdvanceSummaryNothingLost, AdvanceListNothingLost,
             RefuseNothingLost, ReceiveNothingLost
<1>6. CASE Change
  BY <1>1, <1>3, <1>6, ChangeNothingLost DEF Change
<1>7. CASE Duplicate
  BY <1>1, <1>3, <1>7, DuplicateNothingLost
<1>8. CASE Forge
  BY <1>3, <1>8 DEF Forge, Honest
<1>9. CASE UNCHANGED vars
  BY <1>3, <1>9 DEF NothingLost, Covered, Asked, Underway, vars, stores, pass
<1> QED BY <1>4, <1>5, <1>6, <1>7, <1>8, <1>9 DEF Next, Finished

(* RecordPullState's complete means what it says: with a responder that    *)
(* follows the code, no record the requester needs is ever lost by the     *)
(* splitting and narrowing, and when nothing is pending or in flight it    *)
(* holds everything the responder held when the pass began.                *)
THEOREM NothingDropsOut == Spec => []Pulled
<1>1. PullInv => Pulled
  <2> SUFFICES ASSUME TypeOK, NothingLost, NEW k \in Key \ touched
               PROVE  /\ Covered(k)
                      /\ complete /\ steps = <<>> /\ inbox = <<>> => Holds(mine[k], theirs[k])
    BY DEF PullInv, Pulled
  <2>1. Covered(k)
    BY DEF NothingLost
  <2>2. ASSUME complete, steps = <<>>, inbox = <<>>
        PROVE  Holds(mine[k], theirs[k])
    <3>1. ~Underway(k)
      BY <2>2 DEF Underway
    <3>2. Asked(k) \/ Holds(mine[k], theirs[k])
      BY <2>1, <2>2 DEF Covered, Asked, complete
    <3> QED BY <3>1, <3>2 DEF NothingLost
  <2> QED BY <2>1, <2>2
<1> QED BY <1>1, InitPullInv, NextPullInv, PTL DEF Spec
=============================================================================
