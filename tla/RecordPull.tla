----------------------------- MODULE RecordPull -----------------------------
(***************************************************************************)
(* Range reconciliation of @kokuin/records (range.ts, reconcile.ts): one   *)
(* directional pass in which a requester finds out which of a responder's  *)
(* records it should fetch, by comparing fingerprints of key ranges.       *)
(*                                                                         *)
(* advanceRecordPull is a pure function of the pass's state and one        *)
(* message; the transport and the loop around it belong to the caller.  So *)
(* messages travel through two queues, stores change while a pass runs,    *)
(* and the world says whether the transport keeps the order and whether    *)
(* the responder follows the code.                                         *)
(*                                                                         *)
(* A leaf stands for one stored decision: its grade is the place of        *)
(* [order, contentDigest] in the policy's total order, its signers the     *)
(* held signer set.  A fingerprint is the set of leaves it hashes, so two  *)
(* different sets never collide.                                           *)
(***************************************************************************)
EXTENDS Naturals, Sequences, FiniteSets

CONSTANTS
    Type,
    Last,           \* rangePosition: positions are 1..Last in string order
    MaxGrade, Signer,
    RANGE_SPLIT, RANGE_LEAF_THRESHOLD,   \* 16 and 16 in the code
    LeafThreshold,  \* what the responder passes to splitRange
    World           \* the surroundings a pass may run in, see PullAssumption

Position == 1..Last

Key == Type \X Position

(* Position 0 is lower: null, position Last + 1 is upper: null.            *)
End == Last + 1

Bounds == {b \in [type : Type, lower : 0..Last, upper : 1..End] : b.lower < b.upper}

Leaf == [grade : 1..MaxGrade, signers : SUBSET Signer \ {{}}]

(* The store holds no decision for the key, or one the policy cannot order *)
(* (rangeLeaf returns null).                                               *)
NoLeaf == [grade |-> 0, signers |-> {}]

Stored == Leaf \cup {NoLeaf}

Listed == [key : Key, leaf : Leaf]

(* A range as a message may state it: its bounds need not be in order.     *)
Stated == [type : Type, lower : 0..Last, upper : 1..End]

Summary == [kind : {"summary"}, bounds : Stated, fingerprint : SUBSET Listed, count : Nat]

LeafList == [kind : {"list"}, bounds : Stated, leaves : Seq(Listed)]

Records == [kind : {"records"}, leaves : SUBSET Listed]

Step == [kind : {"begin", "matches", "differs", "empty"}, bounds : Stated]
            \cup [kind : {"get"}, keys : SUBSET Key]

ASSUME PullAssumption ==
    /\ IsFiniteSet(Type) /\ Last \in Nat /\ MaxGrade \in Nat
    /\ RANGE_SPLIT \in Nat /\ RANGE_SPLIT > 1
    /\ RANGE_LEAF_THRESHOLD \in Nat
    /\ LeafThreshold \in 1..RANGE_LEAF_THRESHOLD
    /\ \A w \in World :
         /\ w.mine \subseteq Stored /\ w.theirs \subseteq Stored  \* per position, at first
         /\ w.ordered \in BOOLEAN                    \* does the transport keep the order?
         /\ w.forged \subseteq Summary \cup LeafList  \* from a responder that ignores the code
         /\ w.changes \in Nat                        \* bound on store changes
         /\ w.faults \in Nat                         \* bound on repeated and forged messages

VARIABLES
    world,
    mine,       \* the requester's store
    theirs,     \* the responder's store, as the requester may see it
    pending,    \* RecordPullState.pending
    requested,  \* RecordPullState.requested, as multiplicities
    steps,      \* requester's messages in flight
    inbox,      \* responder's messages in flight
    emptied,    \* history: the ranges answered `empty`
    touched,    \* history: keys the responder changed during the pass
    changes, faults

stores == <<world, mine, theirs, touched, changes>>
pass   == <<pending, requested, emptied>>
vars   == <<stores, pass, steps, inbox, faults>>

-----------------------------------------------------------------------------
(* range.ts                                                                *)

rangeContains(b, k) == k[1] = b.type /\ k[2] > b.lower /\ k[2] <= b.upper

leavesIn(store, b) ==
    {[key |-> k, leaf |-> store[k]] : k \in {x \in Key : rangeContains(b, x) /\ store[x] # NoLeaf}}

summarize(b, leaves) ==
    [kind |-> "summary", bounds |-> b, fingerprint |-> leaves, count |-> Cardinality(leaves)]

summarizeRange(store, b) == summarize(b, leavesIn(store, b))

(* The leaves of a range as an array in position order.                    *)
InOrder(array, leaves) ==
    /\ array \in [1..Cardinality(leaves) -> leaves]
    /\ \A i, j \in DOMAIN array : i < j => array[i].key[2] < array[j].key[2]

(* ceil(n / RANGE_SPLIT), the leaves of one sub-range.                     *)
ChildSize(n) == (n + RANGE_SPLIT - 1) \div RANGE_SPLIT

(* The i-th sub-range: it ends at its last leaf, where the next one begins.*)
Child(b, inside, i) ==
    LET n == Len(inside)
        start == (i - 1) * ChildSize(n)
        end == IF start + ChildSize(n) < n THEN start + ChildSize(n) ELSE n
    IN  summarize([type  |-> b.type,
                   lower |-> IF start = 0 THEN b.lower ELSE inside[start].key[2],
                   upper |-> IF end = n THEN b.upper ELSE inside[end].key[2]],
                  {inside[j] : j \in (start + 1)..end})

(* Mutant: a range of exactly the threshold splits instead of being listed.*)
fewEnoughBelow(n) == n < LeafThreshold

fewEnough(n) == n <= LeafThreshold

(* How many sub-ranges the loop over n leaves makes.                       *)
ChildCount(n, c) == (c - 1) * ChildSize(n) < n /\ n <= c * ChildSize(n)

-----------------------------------------------------------------------------
(* reconcile.ts                                                            *)

(* Mutant: copies by other signers of the same content are not fetched.    *)
prefersLater(listed, held) == listed.grade > held.grade

(* The responder's decision orders later, or has other signers.            *)
prefersResponder(listed, held) ==
    \/ listed.grade > held.grade
    \/ listed.grade = held.grade /\ listed.signers # held.signers

(* Mutant: equal counts pass for equal fingerprints.                       *)
answerByCount(store, m) ==
    IF m.count = 0 THEN "matches"
    ELSE IF leavesIn(store, m.bounds) = {} THEN "empty"
    ELSE IF Cardinality(leavesIn(store, m.bounds)) = m.count THEN "matches" ELSE "differs"

answerFor(store, m) ==
    IF m.count = 0 THEN "matches"
    ELSE IF leavesIn(store, m.bounds) = {} THEN "empty"
    ELSE IF leavesIn(store, m.bounds) = m.fingerprint THEN "matches" ELSE "differs"

(* The ids one leaf list makes the requester fetch, each once.             *)
wanted(store, m) ==
    {m.leaves[i].key : i \in {j \in DOMAIN m.leaves :
        /\ rangeContains(m.bounds, m.leaves[j].key)
        /\ prefersResponder(m.leaves[j].leaf, store[m.leaves[j].key])}}

(* pendingIndexFor: starts where a pending range starts, ends inside it.   *)
answers(range, b) ==
    /\ range.type = b.type /\ range.lower = b.lower
    /\ b.upper <= range.upper /\ b.lower < b.upper

(* pending without its i-th range, or with what follows the answered part. *)
narrow(i, b) ==
    IF b.upper = pending[i].upper
    THEN [j \in 1..(Len(pending) - 1) |-> IF j < i THEN pending[j] ELSE pending[j + 1]]
    ELSE [pending EXCEPT ![i] = [type |-> @.type, lower |-> b.upper, upper |-> @.upper]]

(* What applyRecordChunk makes of a fetched leaf: the greater decision, or *)
(* the copies of both.                                                     *)
merge(held, got) ==
    IF got.grade > held.grade THEN got
    ELSE IF got.grade < held.grade THEN held
    ELSE [held EXCEPT !.signers = @ \cup got.signers]

Init ==
    /\ world \in World
    /\ mine \in [Key -> world.mine]
    /\ theirs \in [Key -> world.theirs]
    /\ \E order \in [1..Cardinality(Type) -> Type] :
          /\ \A i, j \in DOMAIN order : order[i] = order[j] => i = j
          /\ pending = [i \in DOMAIN order |-> [type |-> order[i], lower |-> 0, upper |-> End]]
    /\ requested = [k \in Key |-> 0]
    /\ steps = [i \in DOMAIN pending |-> [kind |-> "begin", bounds |-> pending[i]]]
    /\ inbox = <<>>
    /\ emptied = {} /\ touched = {}
    /\ changes = 0 /\ faults = 0

(* The responder handles the oldest step it was sent.                      *)
Handles(kinds) ==
    /\ steps # <<>> /\ Head(steps).kind \in kinds
    /\ steps' = Tail(steps)
    /\ UNCHANGED <<stores, pass, faults>>

Summarize ==
    /\ Handles({"begin"})
    /\ inbox' = Append(inbox, summarizeRange(theirs, Head(steps).bounds))

(* splitRange of a range small enough to list.                             *)
ListRange ==
    /\ Handles({"differs"})
    /\ LET b == Head(steps).bounds
       IN  /\ fewEnough(Cardinality(leavesIn(theirs, b)))
           /\ \E inside \in [1..Cardinality(leavesIn(theirs, b)) -> leavesIn(theirs, b)] :
                 /\ InOrder(inside, leavesIn(theirs, b))
                 /\ inbox' = Append(inbox, [kind |-> "list", bounds |-> b, leaves |-> inside])

(* splitRange of a larger one.                                             *)
SplitRange ==
    /\ Handles({"differs"})
    /\ LET b == Head(steps).bounds
           n == Cardinality(leavesIn(theirs, b))
       IN  /\ ~fewEnough(n)
           /\ \E inside \in [1..n -> leavesIn(theirs, b)], c \in 1..RANGE_SPLIT :
                 /\ InOrder(inside, leavesIn(theirs, b)) /\ ChildCount(n, c)
                 /\ inbox' = inbox \o [i \in 1..c |-> Child(b, inside, i)]

(* The records of a range answered `empty`, or of fetched ids.             *)
SendRange ==
    /\ Handles({"empty"})
    /\ inbox' = Append(inbox, [kind |-> "records", leaves |-> leavesIn(theirs, Head(steps).bounds)])

SendRecords ==
    /\ Handles({"get"})
    /\ inbox' = Append(inbox,
          [kind |-> "records", leaves |->
              {[key |-> k, leaf |-> theirs[k]] : k \in {x \in Head(steps).keys : theirs[x] # NoLeaf}}])

Settle == Handles({"matches"}) /\ UNCHANGED inbox

Answer == Summarize \/ ListRange \/ SplitRange \/ SendRange \/ SendRecords \/ Settle

Without(i) == [j \in 1..(Len(inbox) - 1) |-> IF j < i THEN inbox[j] ELSE inbox[j + 1]]

(* The transport hands over the oldest message, or any when it reorders.   *)
Deliverable == {i \in DOMAIN inbox : world.ordered => i = 1}

(* advanceRecordPull on a summary.                                         *)
AdvanceSummary(i, n) ==
    /\ inbox[i].kind = "summary" /\ answers(pending[n], inbox[i].bounds)
    /\ LET b == inbox[i].bounds
           answer == answerFor(mine, inbox[i])
       IN  /\ pending' = IF answer = "differs" THEN Append(narrow(n, b), b) ELSE narrow(n, b)
           /\ emptied' = IF answer = "empty" THEN emptied \cup {b} ELSE emptied
           /\ steps' = Append(steps, [kind |-> answer, bounds |-> b])
    /\ inbox' = Without(i)
    /\ UNCHANGED <<stores, requested, faults>>

(* advanceRecordPull on a leaf list.                                       *)
AdvanceList(i, n) ==
    /\ inbox[i].kind = "list" /\ answers(pending[n], inbox[i].bounds)
    /\ Len(inbox[i].leaves) <= RANGE_LEAF_THRESHOLD
    /\ LET get == wanted(mine, inbox[i])
       IN  /\ requested' = [k \in Key |-> requested[k] + IF k \in get THEN 1 ELSE 0]
           /\ steps' = IF get = {} THEN steps ELSE Append(steps, [kind |-> "get", keys |-> get])
    /\ pending' = narrow(n, inbox[i].bounds)
    /\ inbox' = Without(i)
    /\ UNCHANGED <<stores, emptied, faults>>

(* advanceRecordPull throws a RecordRangeError; the pass is as it was.     *)
Refuse(i) ==
    /\ inbox[i].kind \in {"summary", "list"}
    /\ \/ \A n \in DOMAIN pending : ~answers(pending[n], inbox[i].bounds)
       \/ inbox[i].kind = "list" /\ Len(inbox[i].leaves) > RANGE_LEAF_THRESHOLD
    /\ inbox' = Without(i)
    /\ UNCHANGED <<stores, pass, steps, faults>>

(* Fetched records are applied like any other.                             *)
Receive(i) ==
    /\ inbox[i].kind = "records"
    /\ mine' = [k \in Key |->
          IF \E l \in inbox[i].leaves : l.key = k
          THEN merge(mine[k], (CHOOSE l \in inbox[i].leaves : l.key = k).leaf)
          ELSE mine[k]]
    /\ inbox' = Without(i)
    /\ UNCHANGED <<world, theirs, touched, changes, pass, steps, faults>>

Deliver ==
    \E i \in Deliverable :
        \/ \E n \in DOMAIN pending : AdvanceSummary(i, n) \/ AdvanceList(i, n)
        \/ Refuse(i)
        \/ Receive(i)

(* Either store applies a record from elsewhere while the pass runs.       *)
ChangeMine(k, leaf) ==
    /\ changes < world.changes /\ changes' = changes + 1
    /\ mine' = [mine EXCEPT ![k] = merge(@, leaf)]
    /\ UNCHANGED <<world, theirs, touched, pass, steps, inbox, faults>>

ChangeTheirs(k, leaf) ==
    /\ changes < world.changes /\ changes' = changes + 1
    /\ theirs' = [theirs EXCEPT ![k] = merge(@, leaf)]
    /\ touched' = touched \cup {k}
    /\ UNCHANGED <<world, mine, pass, steps, inbox, faults>>

Change == \E k \in Key, leaf \in Leaf : ChangeMine(k, leaf) \/ ChangeTheirs(k, leaf)

(* The transport delivers a message twice.                                 *)
Duplicate ==
    /\ ~world.ordered /\ faults < world.faults /\ faults' = faults + 1
    /\ \E i \in DOMAIN inbox : inbox' = Append(inbox, inbox[i])
    /\ UNCHANGED <<stores, pass, steps>>

(* A responder that does not follow the code sends what it likes.          *)
Forge ==
    /\ faults < world.faults /\ faults' = faults + 1
    /\ \E m \in world.forged : inbox' = Append(inbox, m)
    /\ UNCHANGED <<stores, pass, steps>>

complete == pending = <<>>

Finished ==
    /\ steps = <<>> /\ inbox = <<>>
    /\ UNCHANGED vars

Next == Answer \/ Deliver \/ Change \/ Duplicate \/ Forge \/ Finished

Spec == Init /\ [][Next]_vars

(* The caller's loop sends what advanceRecordPull returns and hands over   *)
(* what arrives.                                                           *)
FairSpec == Spec /\ WF_vars(Answer) /\ WF_vars(Deliver)

-----------------------------------------------------------------------------
(* A pass's state and the messages are well formed; in particular no       *)
(* pending range is empty, since pendingIndexFor refuses a response that   *)
(* ends before it starts.                                                  *)
TypeOK ==
    /\ world \in World
    /\ mine \in [Key -> Stored] /\ theirs \in [Key -> Stored]
    /\ pending \in Seq(Bounds)
    /\ requested \in [Key -> Nat]
    /\ steps \in Seq(Step)
    /\ inbox \in Seq(Summary \cup LeafList \cup Records)
    /\ emptied \subseteq Bounds /\ touched \subseteq Key
    /\ changes \in 0..world.changes /\ faults \in 0..world.faults

(* advanceRecordPull's comment: "pending ranges never overlap", whatever   *)
(* the responder sends and in whatever order it arrives.                   *)
PendingDisjoint ==
    \A i, j \in DOMAIN pending : i # j =>
        \A k \in Key : ~(rangeContains(pending[i], k) /\ rangeContains(pending[j], k))

(* advanceRecordPull's comment: "No id can already be in `requested`", so  *)
(* no record is fetched twice in one pass.                                 *)
RequestedOnce == \A k \in Key : requested[k] <= 1

(* The requester's store already has all that the responder's leaf offers. *)
Holds(held, offered) ==
    \/ held.grade > offered.grade
    \/ held.grade = offered.grade /\ offered.signers \subseteq held.signers

(* The responder follows the code.                                         *)
Honest == world.forged = {}

(* A record the requester needs never drops out of a pass: it is held,     *)
(* requested, in a range that is sent whole, or in a range still pending.  *)
Covered(k) ==
    \/ Holds(mine[k], theirs[k])
    \/ requested[k] > 0
    \/ \E b \in emptied : rangeContains(b, k)
    \/ \E i \in DOMAIN pending : rangeContains(pending[i], k)

(* advanceRecordPull loses no record on the way, and RecordPullState's     *)
(* complete means what it says: once nothing is pending and nothing in     *)
(* flight, the requester has everything the responder had when it began.   *)
Pulled ==
    Honest => \A k \in Key \ touched :
        /\ Covered(k)
        /\ complete /\ steps = <<>> /\ inbox = <<>> => Holds(mine[k], theirs[k])

(* With an ordered transport and a responder that follows the code, a pass *)
(* completes, even while both stores change.                               *)
PullCompletes ==
    Honest /\ world.ordered ~> (complete /\ steps = <<>> /\ inbox = <<>>)

=============================================================================
