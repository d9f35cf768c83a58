---------------------------- MODULE VaultSession ----------------------------
(***************************************************************************)
(* Opening one vault key through a coordinator: coordinator-open.ts over   *)
(* the key cache, the PIN throttle and the generations of                  *)
(* coordinator-context.ts, in replicated mode.                             *)
(*                                                                         *)
(* An open is a chain of awaits, so every read of the database, the probe  *)
(* of the cache and the unwrap are steps of their own, interleaved with    *)
(* the other calls, with the mutations that commit first and evict after,  *)
(* and with records that a peer's synchronisation stores without telling   *)
(* the cache.  Content keys are the pairs <<version, branch>> they belong  *)
(* to.  Branches are naturals in the order of compareVaultBranches.        *)
(***************************************************************************)
EXTENDS Naturals, FiniteSets

CONSTANTS
    Call,           \* calls made to the coordinator, each used once
    Branch,         \* branches a version can have, in winning order
    MaxVersion,     \* bound on the key's version
    Plan,           \* what callers ask for: see PlanType
    Ttl,            \* KeyCacheParams.ttl
    FreeAttempts,   \* PinThrottleParams.freeAttempts
    BaseDelay,      \* PinThrottleParams.baseDelay
    MaxDelay,       \* PinThrottleParams.maxDelay
    None

ASSUME SessionConstants ==
    /\ Branch \subseteq Nat /\ Branch # {}
    /\ MaxVersion \in Nat \ {0}
    /\ Ttl \in Nat \ {0} /\ FreeAttempts \in Nat
    /\ BaseDelay \in Nat /\ MaxDelay \in Nat
    /\ None \notin Call /\ None \notin {"served", "unlocked", "throttled"}

VARIABLES
    plan,       \* what this behaviour's callers ask for, and its bounds
    db,         \* the key's rows, its branches, our wrappings, our revocation
    gen,        \* generations.get(cacheID): 0 before it is first asked for
    cache,      \* the key cache's entries of this key, by version
    throttle,   \* the PIN throttle's record of this key
    flight,     \* inFlight, by the requested version (0: the current one)
    call,       \* the calls
    evicting,   \* mutations that committed and have not evicted yet
    now,        \* the clock
    events,     \* what happened to the key so far; also numbers wrappings
    locks,      \* history: evictions so far
    strikes     \* history: calls whose PIN was wrong since the last right one

vars == <<plan, db, gen, cache, throttle, flight, call, evicting, now, events,
          locks, strikes>>

Version == 1..MaxVersion
Kind == {"plain", "tx", "right", "wrong", "specific", "status"}

\* What each call asks for (a kind, and the version or 0 for the current
\* one), and the bounds on the other events and on the clock.
Ask == [kind : Kind, at : 0..MaxVersion]
PlanType == [ask : [Call -> Ask \cup {None}], events : Nat, time : Nat]
ASSUME PlanAssumption == Plan \subseteq PlanType

\* The calls that carry a PIN, and those that never warm the cache.
Pin == {"right", "wrong"}
Idle == [pc |-> "idle", kind |-> "plain", at |-> 0, gen |-> 0, ver |-> 0,
         branch |-> None, rows |-> {}, out |-> None, key |-> None,
         from |-> 0, late |-> FALSE, began |-> 0, ended |-> 0, after |-> {}]

(***************************************************************************)
(* The PIN throttle.                                                       *)
(***************************************************************************)
Lesser(a, b) == IF a < b THEN a ELSE b

DelayAfter(failures) ==
    IF failures < FreeAttempts
    THEN 0
    ELSE Lesser(BaseDelay * 2 ^ (failures - FreeAttempts), MaxDelay)

RetryAfter ==
    LET due == throttle.last + DelayAfter(throttle.failures)
    IN  IF throttle.failures = 0 \/ due <= now THEN 0 ELSE due - now

\* Mutant: the failure count does not grow.
RecordFailureOnce == [failures |-> 1, last |-> now]

RecordFailure == [failures |-> throttle.failures + 1, last |-> now]
RecordSuccess == [failures |-> 0, last |-> 0]

(***************************************************************************)
(* The key cache and the generations.                                      *)
(***************************************************************************)
\* live: the cached key of a version, unless its time has passed.
Live(v) == cache[v] # None /\ now - cache[v].at < Ttl

EvictVersion(v) == [cache EXCEPT ![v] = None]
NoKeys == [v \in Version |-> None]

\* generation: the first question registers the key with value 0 (1 here).
Registered == IF gen = 0 THEN 1 ELSE gen

\* evict: a new generation, and no cached key.
Evict ==
    /\ gen' = Registered + 1
    /\ cache' = NoKeys
    /\ locks' = locks + 1

(***************************************************************************)
(* ctx.branch: the winning branch of a version, or the one asked for.      *)
(***************************************************************************)
Winner(v) == CHOOSE b \in db.branches[v] : \A o \in db.branches[v] : o <= b

\* Mutant: the place in inFlight is given up by a call that succeeds only.
SettleServed(c, r, out, key) ==
    /\ call' = [call EXCEPT ![c] =
                    [r EXCEPT !.pc = "done", !.out = out, !.key = key,
                              !.rows = {}, !.at = 0, !.gen = 0, !.from = 0,
                              !.ended = IF r.kind \in Pin THEN now ELSE 0]]
    /\ flight' = [a \in DOMAIN flight |->
                    IF flight[a] = c /\ out = "served" THEN None ELSE flight[a]]

\* The end of a call: its result, and its place in inFlight given up.
Settle(c, r, out, key) ==
    /\ call' = [call EXCEPT ![c] =
                    [r EXCEPT !.pc = "done", !.out = out, !.key = key,
                              !.rows = {}, !.at = 0, !.gen = 0, !.from = 0,
                              !.ended = IF r.kind \in Pin THEN now ELSE 0]]
    /\ flight' = [a \in DOMAIN flight |->
                    IF flight[a] = c THEN None ELSE flight[a]]

(***************************************************************************)
(* open: the generation is taken before anything else; a PIN asks the      *)
(* throttle first, an input-free open on the root store waits for the one  *)
(* in flight.  status asks for neither.                                    *)
(***************************************************************************)
Begin(c) ==
    LET k  == plan.ask[c].kind
        at == plan.ask[c].at
        r  == [Idle EXCEPT !.pc = "read", !.kind = k, !.at = at,
                           !.gen = Registered, !.from = locks,
                           !.began = IF k \in Pin THEN now ELSE 0,
                           !.late = db.revoked,
                           !.after = IF k \in Pin THEN strikes ELSE {}]
    IN  /\ plan.ask[c] # None
        /\ call[c].pc = "idle"
        /\ gen' = IF k = "status" THEN gen ELSE Registered
        /\ \/ /\ k \in Pin /\ RetryAfter > 0
              /\ Settle(c, r, "throttled", None)
           \/ /\ k \in Pin /\ RetryAfter = 0
              /\ call' = [call EXCEPT ![c] = r]
              /\ UNCHANGED flight
           \/ /\ k = "plain" /\ flight[at] = None
              /\ call' = [call EXCEPT ![c] = r]
              /\ flight' = [flight EXCEPT ![at] = c]
           \/ /\ k = "plain" /\ flight[at] # None
              /\ call' = [call EXCEPT ![c] = [r EXCEPT !.pc = "gate"]]
              /\ UNCHANGED flight
           \/ /\ k \in {"tx", "specific", "status"}
              /\ call' = [call EXCEPT ![c] = r]
              /\ UNCHANGED flight
        /\ UNCHANGED <<plan, db, cache, throttle, evicting, now, events, locks,
                       strikes>>

\* The wait for the open in flight; the generation stays the one taken.
PassGate(c) ==
    /\ call[c].pc = "gate"
    /\ flight[call[c].at] = None
    /\ flight' = [flight EXCEPT ![call[c].at] = c]
    /\ call' = [call EXCEPT ![c].pc = "read"]
    /\ UNCHANGED <<plan, db, gen, cache, throttle, evicting, now, events, locks,
                   strikes>>

(***************************************************************************)
(* doOpen.  The key row and the revocations are read together; a version   *)
(* the key does not have is not found, and a revoked principal is not      *)
(* served whatever is cached: its cached keys are dropped.                 *)
(***************************************************************************)
\* Mutant: the revocations are not consulted before the cache.
ReadKeyOnly(c) ==
    LET v == IF call[c].at = 0 THEN db.version ELSE call[c].at
    IN  /\ call[c].pc = "read"
        /\ \/ /\ v = 0 \/ v > db.version
              /\ Settle(c, call[c], "notFound", None)
           \/ /\ v \in 1..db.version
              /\ call' = [call EXCEPT ![c].pc = "branch", ![c].ver = v]
              /\ UNCHANGED flight
        /\ UNCHANGED <<plan, db, gen, cache, throttle, evicting, now, events,
                       locks, strikes>>

ReadKey(c) ==
    LET v == IF call[c].at = 0 THEN db.version ELSE call[c].at
    IN  /\ call[c].pc = "read"
        /\ \/ /\ v = 0 \/ v > db.version
              /\ Settle(c, call[c], "notFound", None)
              /\ UNCHANGED <<gen, cache, locks>>
           \/ /\ v \in 1..db.version
              /\ db.revoked
              /\ Evict
              /\ Settle(c, call[c], "notFound", None)
           \/ /\ v \in 1..db.version
              /\ ~db.revoked
              /\ call' = [call EXCEPT ![c].pc = "branch", ![c].ver = v]
              /\ UNCHANGED <<gen, cache, flight, locks>>
        /\ UNCHANGED <<plan, db, throttle, evicting, now, events, strikes>>

\* The branch: none stored for the version is a repair that is pending.
ReadBranch(c) ==
    LET held == db.branches[call[c].ver]
    IN  /\ call[c].pc = "branch"
        /\ \/ /\ held = {}
              /\ Settle(c, call[c], "repairPending", None)
           \/ /\ held # {}
              /\ \E b \in IF call[c].kind = "specific"
                          THEN held ELSE {Winner(call[c].ver)} :
                    call' = [call EXCEPT ![c].pc = "probe", ![c].branch = b]
              /\ UNCHANGED flight
        /\ UNCHANGED <<plan, db, gen, cache, throttle, evicting, now, events, locks,
                       strikes>>

\* The cached key a call may be served: an open that carries no input, on
\* the branch it read.
Cached(c) == cache[call[c].ver]

\* Mutant: the cached key's branch is not compared.
HitAnyBranch(c) == Live(call[c].ver)

Hit(c) == Live(call[c].ver) /\ Cached(c).branch = call[c].branch

\* The probe of the cache.  A key of another branch, or past its time, is
\* dropped; status asks without opening, and drops an expired one only.
Probe(c) ==
    /\ call[c].pc = "probe"
    /\ \/ /\ call[c].kind \notin Pin
          /\ Hit(c)
          /\ IF call[c].kind = "status"
             THEN Settle(c, call[c], "unlocked", None)
             ELSE Settle(c, call[c], "served",
                         [ver |-> call[c].ver, branch |-> Cached(c).branch,
                          age |-> now - Cached(c).at])
          /\ UNCHANGED cache
       \/ /\ call[c].kind \in Pin \/ ~Hit(c)
          /\ cache' = IF call[c].kind \in Pin
                         \/ (call[c].kind = "status" /\ Live(call[c].ver))
                      THEN cache ELSE EvictVersion(call[c].ver)
          /\ call' = [call EXCEPT ![c].pc = "list"]
          /\ UNCHANGED flight
    /\ UNCHANGED <<plan, db, gen, throttle, evicting, now, events, locks, strikes>>

\* What a wrapping answers to a call: opened, a wrong secret, or a secret
\* that was not supplied.
Answer(w, k) ==
    CASE ~w.pin \/ k = "right" -> "served"
      [] w.pin /\ k = "wrong"  -> "rejected"
      [] OTHER                 -> "locked"

\* The wrappings of the version, those of other branches included.
ListWrappings(c) ==
    LET rows == {w \in db.wraps : w.ver = call[c].ver}
        mine == {w \in rows : w.branch = call[c].branch}
    IN  /\ call[c].pc = "list"
        /\ IF call[c].kind = "status"
           THEN Settle(c, call[c],
                       CASE \E w \in mine : ~w.pin -> "available"
                         [] \A w \in mine : w.pin  ->
                              IF mine = {} THEN "unopenable" ELSE "locked",
                       None)
           ELSE /\ call' = [call EXCEPT ![c].pc = "unwrap", ![c].rows = rows]
                /\ UNCHANGED flight
        /\ UNCHANGED <<plan, db, gen, cache, throttle, evicting, now, events, locks,
                       strikes>>

\* The result of a PIN is recorded in the throttle.
Recorded(c, out) ==
    IF call[c].kind \in Pin /\ out \in {"served", "rejected"}
    THEN /\ throttle' = IF out = "served" THEN RecordSuccess ELSE RecordFailure
         /\ strikes' = IF out = "served" THEN {} ELSE strikes \cup {c}
    ELSE UNCHANGED <<throttle, strikes>>

\* Mutant: a late open warms the cache whatever was locked meanwhile.
WarmAlways(c) ==
    IF call[c].kind # "specific"
    THEN [cache EXCEPT ![call[c].ver] =
            [branch |-> call[c].branch, at |-> now, from |-> call[c].from]]
    ELSE cache

\* An unwrapped key warms the cache only in the generation the open began
\* in, and only if the open did not name a branch.
Warm(c) ==
    IF call[c].gen = gen /\ call[c].kind # "specific"
    THEN [cache EXCEPT ![call[c].ver] =
            [branch |-> call[c].branch, at |-> now, from |-> call[c].from]]
    ELSE cache

\* The unwrap.  A wrapping whose signed record is gone since the listing is
\* not found; otherwise the first that opens, a rejection before a lock.
Unwrap(c) ==
    LET mine    == {w \in call[c].rows : w.branch = call[c].branch}
        answers == {Answer(w, call[c].kind) : w \in mine}
        kept    == {w \in mine : w \in db.wraps}
        found   == CASE "served" \in answers   -> "served"
                     [] "rejected" \in answers -> "rejected"
                     [] "locked" \in answers   -> "locked"
                     [] call[c].rows # {}      -> "repairPending"
                     [] OTHER                  -> "notFound"
    IN  /\ call[c].pc = "unwrap"
        /\ \E out \in {"served", "rejected", "locked", "repairPending",
                       "notFound"} :
              /\ \/ mine = kept /\ out = found
                 \/ mine # kept /\ out = "notFound"
                 \/ /\ mine # kept /\ out = "served"
                    /\ \E w \in kept : Answer(w, call[c].kind) = "served"
              /\ Recorded(c, out)
              /\ cache' = IF out = "served" THEN Warm(c) ELSE cache
              /\ Settle(c, call[c], out,
                        IF out = "served"
                        THEN [ver |-> call[c].ver, branch |-> call[c].branch,
                              age |-> 0]
                        ELSE None)
        /\ UNCHANGED <<plan, db, gen, evicting, now, events, locks>>

Step(c) ==
    \/ PassGate(c) \/ ReadKey(c) \/ ReadBranch(c) \/ Probe(c)
    \/ ListWrappings(c) \/ Unwrap(c)

(***************************************************************************)
(* What else happens to the key.                                           *)
(***************************************************************************)
Happens ==
    /\ events < plan.events
    /\ events' = events + 1
    /\ UNCHANGED <<plan, throttle, flight, call, now, strikes>>

\* lock.
Lock == Happens /\ Evict /\ UNCHANGED <<db, evicting>>

\* lockAll evicts the keys whose generation was asked for, and no other.
LockAll ==
    /\ Happens
    /\ gen' = IF gen = 0 THEN gen ELSE gen + 1
    /\ cache' = IF gen = 0 THEN cache ELSE NoKeys
    /\ locks' = locks + 1
    /\ UNCHANGED <<db, evicting>>

\* A mutation commits; its evict comes after the transaction has ended.
Commit(new) ==
    /\ Happens
    /\ db' = new
    /\ evicting' = evicting + 1
    /\ UNCHANGED <<gen, cache, locks>>

Evicted ==
    /\ evicting > 0
    /\ evicting' = evicting - 1
    /\ Evict
    /\ UNCHANGED <<plan, db, throttle, flight, call, now, events, strikes>>

\* rotate: the next version on a branch of its own, our wrapping re-wrapped.
Rotate ==
    /\ db.version \in 1..(MaxVersion - 1) /\ ~db.revoked
    /\ db.branches[db.version] # {}
    /\ \E b \in Branch, w \in db.wraps :
          /\ w.ver = db.version
          /\ Commit([db EXCEPT
                !.version = @ + 1,
                !.branches[db.version + 1] = {b},
                !.wraps = @ \cup {[w EXCEPT !.ver = db.version + 1,
                                            !.branch = b, !.id = events]}])

\* addFactor and removeFactor: our only wrapping of the current version on
\* the winning branch is replaced by one with, or without, a PIN.
Rewrap ==
    LET mine == {w \in db.wraps : /\ w.ver = db.version
                                  /\ w.branch = Winner(db.version)}
    IN  /\ db.version > 0 /\ ~db.revoked /\ db.branches[db.version] # {}
        /\ Cardinality(mine) = 1
        /\ \E w \in mine :
              Commit([db EXCEPT !.wraps = (@ \ {w}) \cup
                        {[w EXCEPT !.pin = ~@, !.id = events]}])

\* deleteKey.
DeleteKey == db.version > 0 /\ Commit([db EXCEPT !.version = 0])

\* Records of a peer, stored by the synchronisation: a new version, whose
\* branch is a record of its own and comes later; another branch of a
\* version, with or without a wrapping for us; our revocation, which drops
\* our wrappings in the same transaction.  None of them evicts.
SyncKey ==
    /\ Happens
    /\ db.version \in 1..(MaxVersion - 1)
    /\ db' = [db EXCEPT !.version = @ + 1]
    /\ UNCHANGED <<gen, cache, evicting, locks>>

SyncBranch ==
    /\ Happens
    /\ \E v \in Version, b \in Branch, given \in BOOLEAN :
          /\ v <= db.version /\ b \notin db.branches[v]
          /\ db' = [db EXCEPT
                !.branches[v] = @ \cup {b},
                !.wraps = IF given /\ ~db.revoked
                          THEN @ \cup {[ver |-> v, branch |-> b,
                                        pin |-> FALSE, id |-> events]}
                          ELSE @]
    /\ UNCHANGED <<gen, cache, evicting, locks>>

SyncRevocation ==
    /\ Happens
    /\ ~db.revoked
    /\ db' = [db EXCEPT !.revoked = TRUE, !.wraps = {}]
    /\ UNCHANGED <<gen, cache, evicting, locks>>

Tick ==
    /\ now < plan.time
    /\ now' = now + 1
    /\ UNCHANGED <<plan, db, gen, cache, throttle, flight, call, evicting, events,
                   locks, strikes>>

(***************************************************************************)
(* The specification.                                                      *)
(***************************************************************************)
Init ==
    /\ plan \in Plan
    /\ \E b \in Branch, pin \in BOOLEAN :
          db = [version  |-> 1,
                branches |-> [v \in Version |-> IF v = 1 THEN {b} ELSE {}],
                wraps    |-> {[ver |-> 1, branch |-> b, pin |-> pin,
                               id |-> plan.events]},
                revoked  |-> FALSE]
    /\ gen = 0 /\ cache = NoKeys
    /\ throttle = RecordSuccess
    /\ flight = [a \in 0..MaxVersion |-> None]
    /\ call = [c \in Call |-> Idle]
    /\ evicting = 0 /\ now = 0 /\ events = 0 /\ locks = 0 /\ strikes = {}

Next ==
    \/ \E c \in Call : Begin(c) \/ Step(c)
    \/ Lock \/ LockAll \/ Rotate \/ Rewrap \/ DeleteKey \/ Evicted
    \/ SyncKey \/ SyncBranch \/ SyncRevocation \/ Tick

Spec == Init /\ [][Next]_vars

\* The event loop runs every call's continuation that is ready.
FairSpec == Spec /\ \A c \in Call : WF_vars(Step(c))

(***************************************************************************)
(* Properties.                                                             *)
(***************************************************************************)
Wrapping == [ver : Version, branch : Branch, pin : BOOLEAN,
             id : 0..plan.events]

\* TypeOK: the session's variables keep their types.
TypeOK ==
    /\ db \in [version : 0..MaxVersion,
               branches : [Version -> SUBSET Branch],
               wraps : SUBSET Wrapping, revoked : BOOLEAN]
    /\ gen \in Nat /\ locks \in Nat /\ evicting \in Nat
    /\ events \in 0..plan.events /\ now \in 0..plan.time
    /\ throttle \in [failures : Nat, last : 0..plan.time]
    /\ flight \in [0..MaxVersion -> Call \cup {None}]
    /\ DOMAIN call = Call /\ strikes \subseteq Call
    /\ \A v \in Version :
          cache[v] # None => cache[v].branch \in db.branches[v]

\* LocksHold: "Locks invalidate pending cache warming"
\* (packages/store-vault/README.md).  A cached key was opened by a call
\* that began after the last lock, rotation, re-wrap or deletion evicted;
\* an open that was under way then never puts its key back.
LocksHold == \A v \in Version : cache[v] # None => cache[v].from = locks

\* ServedFresh: the cache is told nothing of what synchronisation stores, and
\* still the key handed out is the one of the version and of the winning
\* branch that the same call read after it began, within its time; and once
\* our revocation is stored no call that begins later is handed a key.
ServedFresh ==
    \A c \in Call :
        /\ call[c].out = "served" =>
              /\ call[c].key.ver = call[c].ver
              /\ call[c].key.branch = call[c].branch
              /\ call[c].key.age < Ttl
        /\ call[c].late => call[c].out \notin {"served", "unlocked"}

\* PinsPaced: a PIN that is evaluated began at least the prescribed delay
\* after each of the wrong ones that had been answered by then, the delay
\* growing with their number; only a right PIN clears them.
PinsPaced ==
    \A c \in Call :
        call[c].kind \in Pin /\ call[c].out \notin {None, "throttled"} =>
            \A d \in call[c].after :
                call[c].began - call[d].ended
                    >= DelayAfter(Cardinality(call[c].after))

\* CallsEnd: every open that began is settled, also those that wait for the
\* one in flight when that one fails.
CallsEnd == \A c \in Call : (call[c].pc # "idle") ~> (call[c].pc = "done")
=============================================================================
