----------------------------- MODULE EpochRules -----------------------------
(***************************************************************************)
(* What one epoch of a controller's log means (@kokuin/controller          *)
(* epoch.ts, members.ts): the lattice of membership states, the rules that *)
(* judge an event against its causal past, and the events that apply.      *)
(*                                                                         *)
(* Events are numbers in the order of their digests.  A chain event opens  *)
(* an epoch and settles who is a member of it; the epoch's events name it  *)
(* and each other as parents.  An incarnation is a membership by the       *)
(* digest of its add; incarnations that a snapshot carries from elsewhere  *)
(* are founders.  A copy is an event under one list of signatures.         *)
(***************************************************************************)
EXTENDS Integers, FiniteSets, FiniteSetsExt

CONSTANTS
    Event,
    ChainEvent,
    Founder,
    Key, DID, Target,
    KeyTarget,      \* Key -> the target that spells it; other targets are DIDs
    Canonical,      \* DID -> the form normalizeDID gives it
    Carried,        \* DID -> the signing keys it carries
    RootKey,        \* ChainEvent -> keys its generation's chain holds or commits to
    Pin,            \* incarnation -> the key it pins
    DIDOf,          \* incarnation -> its DID
    Kind,           \* Event -> "add", "ren", "rmv" or "rev"
    By,             \* Event -> the signing incarnation, or Root
    EpochOf,        \* Event -> the chain event that opened its epoch
    Parents,        \* Event -> the events and chain events it lists
    Height,         \* Event -> its distance from the events without parents
    Names,          \* Event -> the incarnation a ren or rmv is about
    LeaseOf,        \* add, ren -> the lease's end
    Denies,         \* rev -> its target
    Misnamed,       \* events for another controller or generation
    Published,      \* ChainEvent -> the keys it publishes
    MembersAt,      \* ChainEvent -> its snapshot's members
    DenyAt,         \* ChainEvent -> its snapshot's denials
    Copy,           \* the copies there are, [event, rank, charge]
    Genuine,        \* copies whose signatures verify under the named signer
    MAX_EPOCH_EVENTS, MAX_FAILED_SIGNATURES

Root == -1

Incarnation == Event \cup Founder

Adds == {e \in Event : Kind[e] = "add"}

(* A digest covers its parents' digests, so parents are always lower; they *)
(* are a list, and a snapshot that names one key twice is refused.         *)
ASSUME EpochAssumption ==
    /\ Event \subseteq Nat /\ IsFiniteSet(Event)
    /\ Founder \subseteq Nat /\ Founder \cap Event = {}
    /\ ChainEvent \cap Incarnation = {}
    /\ Kind \in [Event -> {"add", "ren", "rmv", "rev"}]
    /\ By \in [Event -> Incarnation \cup {Root}]
    /\ EpochOf \in [Event -> ChainEvent]
    /\ Parents \in [Event -> (SUBSET (Event \cup ChainEvent)) \ {{}}]
    /\ \A e \in Event : IsFiniteSet(Parents[e])
    /\ Height \in [Event -> Nat \ {0}]
    /\ \A e \in Event : \A p \in Parents[e] \cap Event : Height[p] < Height[e]
    /\ Names \in [Event -> Incarnation]
    /\ LeaseOf \in [Incarnation -> Nat]
    /\ Denies \in [Event -> Target]
    /\ Misnamed \subseteq Event
    /\ DID \subseteq Target
    /\ KeyTarget \in [Key -> Target \ DID]
    /\ Canonical \in [DID -> DID] /\ Carried \in [DID -> SUBSET Key]
    /\ RootKey \in [ChainEvent -> SUBSET Key]
    /\ Pin \in [Incarnation -> Key] /\ DIDOf \in [Incarnation -> DID]
    /\ Published \in [ChainEvent -> SUBSET Key]
    /\ MembersAt \in [ChainEvent -> SUBSET (Adds \cup Founder)]
    /\ \A c \in ChainEvent : \A i, j \in MembersAt[c] : Pin[i] = Pin[j] => i = j
    /\ DenyAt \in [ChainEvent -> SUBSET Target]
    /\ \A c \in ChainEvent : \A k \in Published[c] : KeyTarget[k] \notin DenyAt[c]
    /\ Copy \subseteq [event : Event, rank : Nat, charge : Nat \ {0}]
    /\ Genuine \subseteq Copy
    /\ MAX_EPOCH_EVENTS \in Nat /\ MAX_FAILED_SIGNATURES \in Nat

-----------------------------------------------------------------------------
(* EpochState: what an epoch accumulates.  Lease 0 is no renewal.          *)
EpochState == [added : SUBSET Incarnation, removed : SUBSET Incarnation,
               leases : [Incarnation -> Nat], deny : SUBSET Target]

emptyState == [added |-> {}, removed |-> {},
               leases |-> [i \in Incarnation |-> 0], deny |-> {}]

(* joinInto over a set of states: unions, and the latest lease.            *)
Join(states) ==
    [added   |-> UNION {s.added : s \in states},
     removed |-> UNION {s.removed : s \in states},
     leases  |-> [i \in Incarnation |-> Max({0} \cup {s.leases[i] : s \in states})],
     deny    |-> UNION {s.deny : s \in states}]

(* A chain state's members carry no removals and no renewals.              *)
anchorState(c) == [emptyState EXCEPT !.added = MembersAt[c], !.deny = DenyAt[c]]

(* A denial of the pinned key, or of the DID in any of its spellings.      *)
denialTargetsMember(t, i) ==
    t = KeyTarget[Pin[i]] \/ (t \in DID /\ Canonical[t] = Canonical[DIDOf[i]])

memberCarriesKey(i) == Carried[DIDOf[i]] = {Pin[i]}

isDenied(deny, i) == \E t \in deny : denialTargetsMember(t, i)

isEffective(s, i) == i \notin s.removed /\ ~isDenied(s.deny, i)

(* Root, or an incarnation the causal past holds and has not ended.        *)
signerStands(e, causal) ==
    By[e] = Root \/ (By[e] \in causal.added /\ isEffective(causal, By[e]))

(* Mutant: a second add of a key that is effective already is let through. *)
ruleAllowsAlias(c, e, causal) ==
    CASE Kind[e] = "rev" ->
           /\ By[e] = Root \/ \A i \in causal.added : ~denialTargetsMember(Denies[e], i)
           /\ \A k \in Published[c] : Denies[e] # KeyTarget[k]
      [] Kind[e] = "add" -> /\ By[e] = Root
                              /\ memberCarriesKey(e) /\ Pin[e] \notin RootKey[c]
                              /\ ~isDenied(causal.deny, e)
      [] OTHER -> Names[e] \in causal.added /\ (By[e] = Root \/ Pin[By[e]] # Pin[Names[e]])

(* The switch of evaluate: what each type asks of the causal state.        *)
ruleAllows(c, e, causal) ==
    CASE Kind[e] = "rev" ->
           /\ By[e] = Root \/ \A i \in causal.added : ~denialTargetsMember(Denies[e], i)
           /\ \A k \in Published[c] : Denies[e] # KeyTarget[k]
      [] Kind[e] = "add" ->
           /\ By[e] = Root
           /\ memberCarriesKey(e) /\ Pin[e] \notin RootKey[c]
           /\ ~isDenied(causal.deny, e)
           /\ \A i \in causal.added : Pin[i] = Pin[e] => ~isEffective(causal, i)
      [] OTHER ->
           /\ Names[e] \in causal.added
           /\ By[e] = Root \/ Pin[By[e]] # Pin[Names[e]]

effect(e) ==
    CASE Kind[e] = "rev" -> [emptyState EXCEPT !.deny = {Denies[e]}]
      [] Kind[e] = "add" -> [emptyState EXCEPT !.added = {e}]
      [] Kind[e] = "ren" -> [emptyState EXCEPT !.leases[Names[e]] = LeaseOf[e]]
      [] Kind[e] = "rmv" -> [emptyState EXCEPT !.removed = {Names[e]}]

-----------------------------------------------------------------------------
(* canonicalCopy walks an event's copies in signature order up to the      *)
(* first that verifies, and charges every copy that does not.              *)
canonicalCopy(copies) ==
    CHOOSE k \in copies \cap Genuine : \A d \in copies \cap Genuine : k.rank <= d.rank

Charge(copies) ==
    LET failing == {k \in copies \ Genuine : \A d \in copies \cap Genuine : k.rank < d.rank}
    IN  MapThenSumSet(LAMBDA k : k.charge, failing)

CopiesOf(e, copies) == {k \in copies : k.event = e}

(* Events of the epoch c opened, for this controller and generation.       *)
Own(c, copies) == {e \in {k.event : k \in copies} : EpochOf[e] = c /\ e \notin Misnamed}

-----------------------------------------------------------------------------
(* The reference: which events apply, said without an order of evaluation. *)
(* An event's causal past is all its ancestors, not its parents' states.   *)

MaxHeight == Max({0} \cup {Height[e] : e \in Event})

Precedes ==
    LET upTo[h \in 0..MaxHeight] ==
          IF h = 0 THEN {}
          ELSE upTo[h - 1] \cup
               {r \in Event \X Event :
                   /\ Height[r[2]] = h
                   /\ \E p \in Parents[r[2]] : r[1] = p \/ <<r[1], p>> \in upTo[h - 1]}
    IN  upTo[MaxHeight]

Past ==
    [c \in ChainEvent |-> [e \in Event |->
        Join({anchorState(c)} \cup {effect(a) : a \in {x \in Event : <<x, e>> \in Precedes}})]]

Permitted(c, e, causal) == signerStands(e, causal) /\ ruleAllows(c, e, causal)

(* trusted: copies the verifier kept itself; shown: what was presented.    *)
Authentic(e, trusted, shown) == CopiesOf(e, trusted \cup (shown \cap Genuine)) # {}

Applies(c, trusted, shown) ==
    LET own == Own(c, trusted \cup shown)
        upTo[h \in 0..MaxHeight] ==
          IF h = 0 THEN {}
          ELSE upTo[h - 1] \cup
               {e \in own : /\ Height[e] = h
                            /\ Parents[e] \subseteq upTo[h - 1] \cup {c}
                            /\ Authentic(e, trusted, shown)
                            /\ Permitted(c, e, Past[c][e])}
    IN  upTo[MaxHeight]

(* The failing signatures a presentation makes the verifier check.         *)
Failing(c, trusted, shown) ==
    LET checked == {e \in Own(c, shown) :
                       /\ CopiesOf(e, trusted) = {}
                       /\ Parents[e] \subseteq Applies(c, trusted, shown) \cup {c}
                       /\ signerStands(e, Past[c][e])}
    IN  MapThenSumSet(LAMBDA e : Charge(CopiesOf(e, shown)), checked)

(* What appliedCopies keeps: all of them, or the first of the fold's order *)
(* that already saturate the epoch.                                        *)
Saturates(applied) == Cardinality(applied) > MAX_EPOCH_EVENTS

Kept(c, applied) ==
    LET first[n \in 0..MAX_EPOCH_EVENTS + 1] ==
          IF n = 0 THEN {}
          ELSE first[n - 1] \cup
               {Min({e \in applied \ first[n - 1] : Parents[e] \subseteq first[n - 1] \cup {c}})}
    IN  IF Saturates(applied) THEN first[MAX_EPOCH_EVENTS + 1] ELSE applied

(* The copy to keep of an event: the one held, or the one that verified.   *)
KeptCopy(e, trusted, shown) ==
    IF CopiesOf(e, trusted) # {} THEN CHOOSE k \in CopiesOf(e, trusted) : TRUE
    ELSE canonicalCopy(CopiesOf(e, shown))

Remembered(c, trusted, shown) ==
    {KeptCopy(e, trusted, shown) : e \in Kept(c, Applies(c, trusted, shown))}

HeadOf(c, applied) == Join({anchorState(c)} \cup {effect(e) : e \in applied})

(* The members the head reports as effective.                              *)
effective(s) == {i \in s.added : isEffective(s, i)}
=============================================================================
