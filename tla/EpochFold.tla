----------------------------- MODULE EpochFold ------------------------------
(***************************************************************************)
(* foldEpochDetailed of @kokuin/controller (epoch.ts): how one verifier    *)
(* works out an epoch, and what it remembers of it (log.ts appliedCopies,  *)
(* history.ts authoritativeLog) for the next presentation.                 *)
(*                                                                         *)
(* A fold triages what it is shown together with the copies it trusts,     *)
(* then evaluates ready events by ascending digest.  The state after an    *)
(* event is kept only until its last child has read it.  EpochRules says   *)
(* what the answer has to be.                                              *)
(***************************************************************************)
EXTENDS EpochRules, Sequences

CONSTANTS
    Anchor,             \* the chain event whose epoch is folded
    Presentation,       \* the sets of copies a caller may present
    MaxPresentations    \* bound on presentations

ASSUME FoldAssumption ==
    /\ Anchor \in ChainEvent
    /\ Presentation \subseteq SUBSET Copy
    /\ \A copies \in Presentation : IsFiniteSet(copies)
    /\ MaxPresentations \in Nat

VARIABLES
    memory,     \* the copies remembered, one per applied event
    answer,     \* the last fold's result: head, applied events, saturated
    folds,      \* presentations so far
    pc,         \* "idle", or "fold" while foldEpochDetailed runs
    shown,      \* what is presented
    candidates, \* events of the epoch to evaluate
    waiting,    \* candidate -> parents that have not applied
    ready,      \* candidates that wait for nothing
    after,      \* the states after events that some child has yet to read
    unread,     \* how many children have yet to read each
    applied,    \* the events applied, in order
    union,      \* the join of their effects
    authentic,  \* applied event -> the copy that verified
    failures      \* signatures that failed to verify

local == <<shown, candidates, waiting, ready, after, unread, applied, union, authentic, failures>>
foldVars == <<memory, answer, folds, pc, local>>

Smallest(events) == CHOOSE e \in events : \A d \in events : e <= d

(* f with a new value.                                                     *)
With(f, x, value) == [y \in DOMAIN f \cup {x} |-> IF y = x THEN value ELSE f[y]]

Nothing == [x \in {} |-> x]

(* Edges are registered between candidates only.                           *)
children(e) == {d \in candidates : e \in Parents[d]}

FoldInit ==
    /\ memory = {}
    /\ answer = [head |-> anchorState(Anchor), applied |-> {}, saturated |-> FALSE]
    /\ folds = 0
    /\ pc = "idle"
    /\ shown = {} /\ candidates = {} /\ ready = {} /\ applied = <<>> /\ failures = 0
    /\ waiting = Nothing /\ after = Nothing /\ unread = Nothing /\ authentic = Nothing
    /\ union = emptyState

(* The call returns, and its local variables are gone.                     *)
Return ==
    /\ pc' = "idle"
    /\ shown' = {} /\ candidates' = {} /\ ready' = {} /\ applied' = <<>> /\ failures' = 0
    /\ waiting' = Nothing /\ after' = Nothing /\ unread' = Nothing /\ authentic' = Nothing
    /\ union' = emptyState

-----------------------------------------------------------------------------
(* Parents of another epoch refuse an event: presented ones, and the       *)
(* chain's own events.                                                     *)
crossEpoch(own, copies) ==
    LET others == {e \in {k.event : k \in copies} : EpochOf[e] # Anchor}
    IN  {e \in own : (Parents[e] \ (own \cup {Anchor})) \cap (others \cup ChainEvent) # {}}

(* Triage: memory and the presentation, by digest.                         *)
Triage(copies) ==
    /\ pc = "idle" /\ folds < MaxPresentations
    /\ folds' = folds + 1 /\ pc' = "fold"
    /\ shown' = copies
    /\ LET own == Own(Anchor, memory \cup copies)
       IN  candidates' = own \ crossEpoch(own, copies)
    /\ waiting' = [e \in candidates' |-> Cardinality(Parents[e] \ {Anchor})]
    /\ ready' = {e \in candidates' : waiting'[e] = 0}
    /\ after' = Nothing /\ unread' = Nothing
    /\ applied' = <<>> /\ authentic' = Nothing /\ failures' = 0
    /\ union' = anchorState(Anchor)
    /\ UNCHANGED <<memory, answer>>

(* Mutant: the causal state is whatever has applied by now.                *)
causalSoFar(e) == union

(* The join of the states after e's parents.                               *)
causal(e) ==
    Join({after[p] : p \in Parents[e] \cap DOMAIN after}
         \cup {anchorState(p) : p \in Parents[e] \cap {Anchor}})

(* Mutant: a state is dropped when its first child has read it.            *)
readEarly(e) == Parents[e] \cap DOMAIN unread

(* The parents whose state e is the last child to read.                    *)
lastRead(e) == {p \in Parents[e] \cap DOMAIN unread : unread[p] = 1}

(* The states still kept once e has read its parents'.                     *)
released(e) == Restrict(after, DOMAIN after \ lastRead(e))

counted(e) ==
    [p \in DOMAIN unread \ lastRead(e) |-> unread[p] - (IF p \in Parents[e] THEN 1 ELSE 0)]

Trusted(e) == CopiesOf(e, memory)

(* Mutant: copies of an event that is held already are charged too.        *)
chargedAlways(e) ==
    IF signerStands(e, causal(e)) THEN Charge(CopiesOf(e, shown)) ELSE 0

(* The failing copies evaluating e would charge: none of a trusted event,  *)
(* none when the signer does not stand.                                    *)
charged(e) ==
    IF signerStands(e, causal(e)) /\ Trusted(e) = {} THEN Charge(CopiesOf(e, shown)) ELSE 0

verifies(e) == Trusted(e) # {} \/ CopiesOf(e, shown) \cap Genuine # {}

passes(e) == signerStands(e, causal(e)) /\ verifies(e) /\ ruleAllows(Anchor, e, causal(e))

(* Mutant: the first copy shown is kept, not one that verified.            *)
keptCopyFirst(e) ==
    IF Trusted(e) # {} THEN CHOOSE k \in Trusted(e) : TRUE
    ELSE CHOOSE k \in CopiesOf(e, shown) : \A d \in CopiesOf(e, shown) : k.rank <= d.rank

keptCopy(e) == KeptCopy(e, memory, shown)

(* The smallest ready event is evaluated next.                             *)
Evaluate(e) == pc = "fold" /\ ready # {} /\ e = Smallest(ready)

withinBudget(e) == failures + charged(e) <= MAX_FAILED_SIGNATURES

Reject(e) ==
    /\ Evaluate(e) /\ withinBudget(e) /\ ~passes(e)
    /\ failures' = failures + charged(e)
    /\ ready' = ready \ {e}
    /\ after' = released(e) /\ unread' = counted(e)
    /\ UNCHANGED <<memory, answer, folds, pc, shown, candidates, waiting, applied, union, authentic>>

Apply(e) ==
    /\ Evaluate(e) /\ withinBudget(e) /\ passes(e)
    /\ failures' = failures + charged(e)
    /\ applied' = Append(applied, e)
    /\ authentic' = With(authentic, e, keptCopy(e))
    /\ union' = Join({union, effect(e)})
    /\ IF children(e) = {}
       THEN /\ ready' = ready \ {e}
            /\ after' = released(e) /\ unread' = counted(e)
            /\ UNCHANGED waiting
       ELSE /\ after' = With(released(e), e, Join({causal(e), effect(e)}))
            /\ unread' = With(counted(e), e, Cardinality(children(e)))
            /\ waiting' = [d \in candidates |-> waiting[d] - (IF d \in children(e) THEN 1 ELSE 0)]
            /\ ready' = (ready \ {e}) \cup {d \in children(e) : waiting[d] = 1}
    /\ UNCHANGED <<memory, answer, folds, pc, shown, candidates>>

(* The request limit on failing signatures refuses the presentation.       *)
Exhaust(e) ==
    /\ Evaluate(e) /\ ~withinBudget(e)
    /\ Return
    /\ UNCHANGED <<memory, answer, folds>>

(* Mutant: all of a saturated epoch's events but the limit are forgotten.  *)
keptAtLimit == SubSeq(applied, 1, IF Len(applied) > MAX_EPOCH_EVENTS
                                  THEN MAX_EPOCH_EVENTS ELSE Len(applied))

(* appliedCopies: a saturated epoch is kept as its first events, one more  *)
(* than the limit.                                                         *)
keptEvents == SubSeq(applied, 1, IF Len(applied) > MAX_EPOCH_EVENTS
                                 THEN MAX_EPOCH_EVENTS + 1 ELSE Len(applied))

Finish ==
    /\ pc = "fold" /\ ready = {}
    /\ Return
    /\ answer' = [head |-> union, applied |-> Range(applied),
                  saturated |-> Len(applied) > MAX_EPOCH_EVENTS]
    /\ memory' = {authentic[e] : e \in Range(keptEvents)}
    /\ UNCHANGED folds

(* A provider failure propagates: nothing is learned.                      *)
Throw ==
    /\ pc = "fold" /\ ready # {}
    /\ Return
    /\ UNCHANGED <<memory, answer, folds>>

FoldNext ==
    \/ \E copies \in Presentation : Triage(copies)
    \/ \E e \in Event : Reject(e) \/ Apply(e) \/ Exhaust(e)
    \/ Finish
    \/ Throw

FoldSpec == FoldInit /\ [][FoldNext]_foldVars

-----------------------------------------------------------------------------
(* The fold's local variables keep their types.                            *)
FoldTypeOK ==
    /\ memory \subseteq Copy /\ shown \subseteq Copy
    /\ answer \in [head : EpochState, applied : SUBSET Event, saturated : BOOLEAN]
    /\ folds \in 0..MaxPresentations
    /\ pc \in {"idle", "fold"}
    /\ candidates \subseteq Event /\ ready \subseteq candidates
    /\ waiting \in [candidates -> Nat]
    /\ DOMAIN after \subseteq candidates /\ DOMAIN unread = DOMAIN after
    /\ \A e \in DOMAIN after : after[e] \in EpochState /\ unread[e] \in Nat
    /\ applied \in Seq(candidates) /\ union \in EpochState /\ failures \in Nat
    /\ DOMAIN authentic = Range(applied)
    /\ \A e \in DOMAIN authentic : authentic[e] \in CopiesOf(e, Copy)

(* "nothing here may depend on the order": the events that apply and the   *)
(* head are those of the reference, whatever digests order the evaluation  *)
(* and whenever a parent's state is dropped.  What is then remembered      *)
(* verified and, folded alone, gives the same events again.  "One key, one *)
(* live incarnation along any causal line": two effective members that pin *)
(* one key were added concurrently.                                        *)
FoldSound ==
    pc = "fold" /\ ready = {} =>
        /\ Range(applied) = Applies(Anchor, memory, shown)
        /\ union = HeadOf(Anchor, Range(applied))
        /\ LET remembered == {authentic[e] : e \in Range(keptEvents)}
           IN  /\ remembered = Remembered(Anchor, memory, shown)
               /\ remembered \subseteq Genuine
               /\ Applies(Anchor, remembered, {}) = Range(keptEvents)
        /\ \A i, j \in effective(union) :
               i # j /\ Pin[i] = Pin[j] =>
                   i \in Event /\ j \in Event /\ <<i, j>> \notin Precedes

(* "stopping as soon as it passes the limit refuses exactly the            *)
(* presentations that would have passed it anyway."                        *)
RefusedExactly ==
    [][/\ (\E e \in Event : Exhaust(e)) =>
             Failing(Anchor, memory, shown) > MAX_FAILED_SIGNATURES
       /\ Finish => Failing(Anchor, memory, shown) <= MAX_FAILED_SIGNATURES]_foldVars

(* Within an epoch nothing a verifier answered for is taken back: applied  *)
(* events stay, denials and removals stay in force whatever later          *)
(* presentations withhold, and a saturated epoch stays saturated.          *)
NothingForgotten ==
    [][/\ answer.saturated => answer'.saturated
       /\ answer'.saturated \/
            /\ answer.applied \subseteq answer'.applied
            /\ answer.head.deny \subseteq answer'.head.deny
            /\ answer.head.removed \subseteq answer'.head.removed]_foldVars
=============================================================================
