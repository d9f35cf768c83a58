------------------------- MODULE VaultSessionProofs -------------------------
(***************************************************************************)
(* LocksHold and ServedFresh of VaultSession, for every set of calls,      *)
(* versions, branches and plans.                                           *)
(*                                                                         *)
(* Neither is inductive.  Whether a cached key is of this side of the last *)
(* eviction depends on the opens that may still warm the cache, so the     *)
(* invariant says what their generations are worth; whether a revoked      *)
(* principal is served depends on how far its calls can come.              *)
(***************************************************************************)
EXTENDS VaultSession, FiniteSetTheorems, TLAPS

(* A call record has these fields, and no others.                          *)
Fields(r) ==
    [pc : {r.pc}, kind : {r.kind}, at : {r.at}, gen : {r.gen}, ver : {r.ver},
     branch : {r.branch}, rows : {r.rows}, out : {r.out}, key : {r.key},
     from : {r.from}, late : {r.late}, began : {r.began}, ended : {r.ended},
     after : {r.after}]

(* The database has these, and no others.                                  *)
Tables(d) == [version : {d.version}, branches : {d.branches},
              wraps : {d.wraps}, revoked : {d.revoked}]

Shape ==
    /\ call = [c \in Call |-> call[c]]
    /\ \A c \in Call : call[c] \in Fields(call[c])
    /\ cache = [v \in Version |-> cache[v]]
    /\ db \in Tables(db)

(* A call that may still warm the cache.                                   *)
Warming(r) == r.pc \notin {"idle", "done"} /\ r.kind # "status"

(* The generation an open took is worth what was evicted since: it is the  *)
(* present one only if nothing was.                                        *)
GenerationsTell ==
    \A c \in Call :
        /\ Warming(call[c]) =>
              /\ call[c].gen \in Nat \ {0} /\ call[c].gen <= gen
              /\ call[c].gen = gen => call[c].from = locks
        /\ call[c].pc = "unwrap" => call[c].kind # "status"

(* A call that began revoked never gets past the read of the key.          *)
Stopped ==
    \A c \in Call :
        /\ call[c].late => db.revoked /\ call[c].pc \in {"idle", "gate", "read", "done"}
        /\ call[c].pc # "done" => call[c].out = None

SessionInv ==
    /\ Shape
    /\ gen \in Nat
    /\ gen = 0 => \A v \in Version : cache[v] = None
    /\ LocksHold
    /\ GenerationsTell
    /\ Stopped
    /\ ServedFresh

LEMMA SessionInit == Init => SessionInv
<1>1. SUFFICES ASSUME Init PROVE SessionInv
  OBVIOUS
<1>2. Shape
  <2>1. call = [c \in Call |-> call[c]] /\ \A c \in Call : call[c] = Idle
    BY <1>1 DEF Init
  <2>2. Idle \in Fields(Idle)
    BY DEF Fields, Idle
  <2>3. db \in Tables(db)
    BY <1>1 DEF Init, Tables
  <2>4. QED
    BY <1>1, <2>1, <2>2, <2>3 DEF Init, Shape, NoKeys
<1>3. \A c \in Call : call[c] = Idle
  BY <1>1 DEF Init
<1>4. GenerationsTell
  BY <1>3 DEF GenerationsTell, Idle, Warming
<1>5. Stopped /\ ServedFresh
  BY <1>3, SessionConstants DEF Stopped, ServedFresh, Idle
<1>6. QED
  BY <1>1, <1>2, <1>4, <1>5 DEF Init, SessionInv, LocksHold, NoKeys

(* The calls and the database are told apart from the generation and the   *)
(* cache: an eviction touches only the latter.                             *)
LEMMA EvictKeeps ==
    ASSUME SessionInv, Evict
    PROVE  /\ gen' \in Nat \ {0} /\ gen' > gen
           /\ cache' = [v \in Version |-> cache'[v]]
           /\ LocksHold'
           /\ \A v \in Version : cache'[v] = None
BY DEF SessionInv, Evict, Registered, NoKeys, LocksHold

(* What happens to the key, and moves no call: nothing, an eviction, or a  *)
(* lockAll that finds no generation registered.                            *)
LEMMA EventKeeps ==
    ASSUME SessionInv, UNCHANGED call, db' \in Tables(db'), db.revoked => db'.revoked,
           \/ UNCHANGED <<gen, cache, locks>>
           \/ Evict
           \/ gen = 0 /\ UNCHANGED <<gen, cache>>
    PROVE  SessionInv'
<1>1. Shape'
  <2>1. cache' = [v \in Version |-> cache'[v]]
    BY EvictKeeps DEF SessionInv, Shape
  <2>2. QED
    BY <2>1 DEF Shape, SessionInv
<1>2. (Stopped /\ ServedFresh)'
  BY DEF SessionInv, Stopped, ServedFresh
<1>3. CASE UNCHANGED <<gen, cache, locks>>
  BY <1>1, <1>2, <1>3 DEF SessionInv, LocksHold, GenerationsTell, Warming
<1>4. CASE Evict
  <2>1. GenerationsTell'
    BY <1>4, EvictKeeps DEF SessionInv, GenerationsTell, Warming
  <2>2. QED
    BY <1>1, <1>2, <1>4, <2>1, EvictKeeps DEF SessionInv
<1>5. CASE gen = 0 /\ UNCHANGED <<gen, cache>>
  <2>1. GenerationsTell'
    BY <1>5 DEF SessionInv, GenerationsTell, Warming
  <2>2. QED
    BY <1>1, <1>2, <1>5, <2>1 DEF SessionInv, LocksHold
<1>6. QED
  BY <1>3, <1>4, <1>5

(* A step of call c: what it has to see to about its own record r, when    *)
(* the other calls and the database stay as they are.                      *)
CallSound(r, g, l) ==
    /\ r \in Fields(r)
    /\ Warming(r) => /\ r.gen \in Nat \ {0} /\ r.gen <= g
                     /\ r.gen = g => r.from = l
    /\ r.pc = "unwrap" => r.kind # "status"
    /\ r.late => db.revoked /\ r.pc \in {"idle", "gate", "read", "done"}
    /\ r.pc # "done" => r.out = None
    /\ r.out = "served" => /\ r.key.ver = r.ver /\ r.key.branch = r.branch
                           /\ r.key.age < Ttl
    /\ r.late => r.out \notin {"served", "unlocked"}

LEMMA CallIsSound ==
    ASSUME SessionInv, NEW c \in Call
    PROVE  /\ CallSound(call[c], gen, locks)
           /\ call[c] \in Fields(call[c])
           /\ call[c].late => /\ db.revoked
                              /\ call[c].pc \in {"idle", "gate", "read", "done"}
BY DEF SessionInv, Shape, GenerationsTell, Stopped, ServedFresh, CallSound

(* The generation, and what an open of another call took of it.            *)
LEMMA CallKeeps ==
    ASSUME SessionInv, NEW c \in Call, NEW r,
           call' = [call EXCEPT ![c] = r], UNCHANGED db,
           CallSound(r, gen', locks'),
           gen' \in Nat, LocksHold', gen' = 0 => \A v \in Version : cache'[v] = None,
           cache' = [v \in Version |-> cache'[v]],
           \/ UNCHANGED <<gen, locks>>
           \/ gen' > gen
    PROVE  SessionInv'
<1>1. call = [d \in Call |-> call[d]]
  BY DEF SessionInv, Shape
<1>2. call'[c] = r /\ \A d \in Call \ {c} : call'[d] = call[d]
  BY <1>1
<1>3. \A d \in Call : CallSound(call'[d], gen', locks')
  <2>1. ASSUME NEW d \in Call \ {c} PROVE CallSound(call[d], gen', locks')
    <3>1. CallSound(call[d], gen, locks)
      BY CallIsSound
    <3>2. QED
      BY <3>1 DEF CallSound, SessionInv
  <2>2. QED
    BY <1>2, <2>1
<1>4. Shape'
  <2>1. \A d \in Call : call'[d] \in Fields(call'[d])
    BY <1>3 DEF CallSound
  <2>2. call' = [d \in Call |-> call'[d]]
    BY <1>1
  <2>3. QED
    BY <2>1, <2>2 DEF Shape, SessionInv
<1>5. (GenerationsTell /\ Stopped /\ ServedFresh)'
  BY <1>3 DEF CallSound, GenerationsTell, Stopped, ServedFresh, Warming
<1>6. QED
  BY <1>4, <1>5 DEF SessionInv

(* The record a settled call is left with.                                 *)
Settled(r, out, key) ==
    [r EXCEPT !.pc = "done", !.out = out, !.key = key, !.rows = {}, !.at = 0,
              !.gen = 0, !.from = 0, !.ended = IF r.kind \in Pin THEN now ELSE 0]

LEMMA SettledIsSound ==
    ASSUME NEW r, NEW out, NEW key, NEW g, NEW l,
           r \in Fields(r), r.late => db.revoked,
           out = "served" => /\ key.ver = r.ver /\ key.branch = r.branch
                             /\ key.age < Ttl,
           r.late => out \notin {"served", "unlocked"}
    PROVE  CallSound(Settled(r, out, key), g, l)
<1> DEFINE s == Settled(r, out, key)
<1>1. s \in Fields(s)
  BY DEF Settled, Fields
<1>2. /\ s.pc = "done" /\ s.out = out /\ s.key = key
      /\ s.ver = r.ver /\ s.branch = r.branch /\ s.late = r.late
  BY DEF Settled, Fields
<1> HIDE DEF s
<1>3. CallSound(s, g, l)
  BY <1>1, <1>2 DEF CallSound, Warming
<1>4. QED
  BY <1>3 DEF s

LEMMA CallsStay ==
    ASSUME SessionInv, UNCHANGED <<gen, cache, locks>>
    PROVE  /\ gen' \in Nat /\ LocksHold'
           /\ gen' = 0 => \A v \in Version : cache'[v] = None
           /\ cache' = [v \in Version |-> cache'[v]]
BY DEF SessionInv, LocksHold, Shape

(* The record a call begins with.                                          *)
Begun(i, k, at, g, l, began, late, after) ==
    [i EXCEPT !.pc = "read", !.kind = k, !.at = at, !.gen = g, !.from = l,
              !.began = began, !.late = late, !.after = after]

LEMMA BegunFields ==
    ASSUME NEW i, i \in Fields(i), NEW k, NEW at, NEW g, NEW l, NEW began,
           NEW late, NEW after
    PROVE  LET r == Begun(i, k, at, g, l, began, late, after)
               w == [r EXCEPT !.pc = "gate"]
           IN  /\ r \in Fields(r)
               /\ r.pc = "read" /\ r.kind = k /\ r.gen = g /\ r.from = l
               /\ r.late = late /\ r.out = i.out
               /\ w \in Fields(w)
               /\ w.pc = "gate" /\ w.kind = k /\ w.gen = g /\ w.from = l
               /\ w.late = late /\ w.out = i.out
BY DEF Begun, Fields

LEMMA BeginKeeps ==
    ASSUME SessionInv, NEW c \in Call, Begin(c)
    PROVE  SessionInv'
<1> DEFINE k == plan.ask[c].kind
           r == Begun(Idle, k, plan.ask[c].at, Registered, locks,
                      IF k \in Pin THEN now ELSE 0, db.revoked,
                      IF k \in Pin THEN strikes ELSE {})
           w == [r EXCEPT !.pc = "gate"]
<1>1. UNCHANGED <<db, cache, locks>> /\ gen' = (IF k = "status" THEN gen ELSE Registered)
  BY DEF Begin
<1>2. Idle \in Fields(Idle) /\ Idle.out = None
  BY DEF Idle, Fields
<1>3. gen' \in Nat /\ (k # "status" => gen' = Registered) /\ Registered \in Nat \ {0}
  BY <1>1 DEF SessionInv, Registered
<1>4. \/ call' = [call EXCEPT ![c] = r]
      \/ call' = [call EXCEPT ![c] = w]
      \/ call' = [call EXCEPT ![c] = Settled(r, "throttled", None)]
  BY DEF Begin, Settle, Settled, Begun
<1>5. /\ r \in Fields(r)
      /\ r.pc = "read" /\ r.kind = k /\ r.gen = Registered /\ r.from = locks
      /\ r.late = db.revoked /\ r.out = None
      /\ w \in Fields(w)
      /\ w.pc = "gate" /\ w.kind = k /\ w.gen = Registered /\ w.from = locks
      /\ w.late = db.revoked /\ w.out = None
  BY <1>2, BegunFields
<1> HIDE DEF r, w, k
<1>6. CallSound(r, gen', locks') /\ CallSound(w, gen', locks')
  BY <1>1, <1>3, <1>5, SessionConstants DEF CallSound, Warming
<1>7. CallSound(Settled(r, "throttled", None), gen', locks')
  BY <1>5, SettledIsSound
<1>8. LocksHold' /\ cache' = [v \in Version |-> cache'[v]]
  BY <1>1 DEF SessionInv, LocksHold, Shape
<1>9. gen' = 0 => \A v \in Version : cache'[v] = None
  BY <1>1, <1>3 DEF SessionInv, Registered
<1>10. UNCHANGED <<gen, locks>> \/ gen' > gen
  BY <1>1 DEF SessionInv, Registered
<1>11. QED
  BY <1>1, <1>3, <1>4, <1>6, <1>7, <1>8, <1>9, <1>10, CallKeeps

LEMMA PassGateKeeps ==
    ASSUME SessionInv, NEW c \in Call, PassGate(c)
    PROVE  SessionInv'
<1> DEFINE r == [call[c] EXCEPT !.pc = "read"]
<1>1. call' = [call EXCEPT ![c] = r] /\ UNCHANGED <<db, gen, cache, locks>>
  BY DEF PassGate
<1>2. CallSound(call[c], gen, locks) /\ call[c].pc = "gate"
  BY CallIsSound DEF PassGate
<1>3. CallSound(r, gen, locks)
  BY <1>2 DEF CallSound, Fields, Warming
<1> HIDE DEF r
<1>4. QED
  BY <1>1, <1>3, CallsStay, CallKeeps

LEMMA ReadKeyKeeps ==
    ASSUME SessionInv, NEW c \in Call, ReadKey(c)
    PROVE  SessionInv'
<1> DEFINE v == IF call[c].at = 0 THEN db.version ELSE call[c].at
           r == [call[c] EXCEPT !.pc = "branch", !.ver = v]
           s == Settled(call[c], "notFound", None)
<1>1. CallSound(call[c], gen, locks) /\ call[c].pc = "read" /\ UNCHANGED db
  BY CallIsSound DEF ReadKey
<1>2. CallSound(s, gen', locks')
  BY <1>1, CallIsSound, SettledIsSound
<1>3. ~db.revoked => CallSound(r, gen, locks)
  BY <1>1, SessionConstants DEF CallSound, Fields, Warming
<1>4. \/ call' = [call EXCEPT ![c] = s] /\ UNCHANGED <<gen, cache, locks>>
      \/ call' = [call EXCEPT ![c] = s] /\ Evict
      \/ /\ call' = [call EXCEPT ![c] = r] /\ UNCHANGED <<gen, cache, locks>>
         /\ ~db.revoked
  BY DEF ReadKey, Settle, Settled
<1> HIDE DEF r, s
<1>5. CASE Evict
  <2>1. call' = [call EXCEPT ![c] = s]
    BY <1>4, <1>5, EvictKeeps DEF SessionInv
  <2>2. QED
    BY <1>1, <1>2, <1>5, <2>1, EvictKeeps, CallKeeps
<1>6. CASE UNCHANGED <<gen, cache, locks>>
  <2>1. \E x : call' = [call EXCEPT ![c] = x] /\ CallSound(x, gen', locks')
    BY <1>2, <1>3, <1>4, <1>5, <1>6
  <2>2. QED
    BY <1>1, <1>6, <2>1, CallsStay, CallKeeps
<1>7. QED
  BY <1>4, <1>5, <1>6

LEMMA ReadBranchKeeps ==
    ASSUME SessionInv, NEW c \in Call, ReadBranch(c)
    PROVE  SessionInv'
<1> DEFINE s == Settled(call[c], "repairPending", None)
           r(b) == [call[c] EXCEPT !.pc = "probe", !.branch = b]
<1>1. CallSound(call[c], gen, locks) /\ call[c].pc = "branch"
  BY CallIsSound DEF ReadBranch
<1>2. CallSound(s, gen, locks)
  BY <1>1, CallIsSound, SettledIsSound
<1>3. ASSUME NEW b PROVE CallSound(r(b), gen, locks)
  BY <1>1, SessionConstants DEF CallSound, Fields, Warming
<1>4. /\ UNCHANGED <<db, gen, cache, locks>>
      /\ \/ call' = [call EXCEPT ![c] = s]
         \/ \E b : call' = [call EXCEPT ![c] = r(b)]
  BY DEF ReadBranch, Settle, Settled
<1> HIDE DEF r, s
<1>5. QED
  BY <1>2, <1>3, <1>4, CallsStay, CallKeeps

LEMMA ProbeKeeps ==
    ASSUME SessionInv, NEW c \in Call, Probe(c)
    PROVE  SessionInv'
<1> DEFINE key == [ver |-> call[c].ver, branch |-> Cached(c).branch,
                   age |-> now - Cached(c).at]
           u == Settled(call[c], "unlocked", None)
           s == Settled(call[c], "served", key)
           r == [call[c] EXCEPT !.pc = "list"]
<1>1. /\ CallSound(call[c], gen, locks) /\ call[c].pc = "probe"
      /\ UNCHANGED <<db, gen, locks>>
  BY CallIsSound DEF Probe
<1>2. CallSound(u, gen, locks)
  BY <1>1, CallIsSound, SettledIsSound
<1>3. Hit(c) => CallSound(s, gen, locks)
  <2>1. Hit(c) => /\ key.ver = call[c].ver /\ key.branch = call[c].branch
                  /\ key.age < Ttl
    BY DEF Hit, Live, Cached
  <2> HIDE DEF key
  <2>2. QED
    BY <1>1, <2>1, CallIsSound, SettledIsSound
<1>4. CallSound(r, gen, locks)
  BY <1>1, SessionConstants DEF CallSound, Fields, Warming
<1>5. /\ cache' = cache \/ cache' = EvictVersion(call[c].ver)
      /\ \/ call' = [call EXCEPT ![c] = u]
         \/ Hit(c) /\ call' = [call EXCEPT ![c] = s]
         \/ call' = [call EXCEPT ![c] = r]
  BY DEF Probe, Settle, Settled
<1>6. /\ LocksHold' /\ cache' = [v \in Version |-> cache'[v]]
      /\ gen' = 0 => \A v \in Version : cache'[v] = None
  BY <1>1, <1>5 DEF SessionInv, Shape, LocksHold, EvictVersion
<1> HIDE DEF key, u, s, r
<1>7. QED
  BY <1>1, <1>2, <1>3, <1>4, <1>5, <1>6, CallKeeps DEF SessionInv

LEMMA ListWrappingsKeeps ==
    ASSUME SessionInv, NEW c \in Call, ListWrappings(c)
    PROVE  SessionInv'
<1> DEFINE rows == {w \in db.wraps : w.ver = call[c].ver}
           mine == {w \in rows : w.branch = call[c].branch}
           out == CASE \E w \in mine : ~w.pin -> "available"
                    [] \A w \in mine : w.pin  ->
                         IF mine = {} THEN "unopenable" ELSE "locked"
           s == Settled(call[c], out, None)
           r == [call[c] EXCEPT !.pc = "unwrap", !.rows = rows]
<1>1. /\ CallSound(call[c], gen, locks) /\ call[c].pc = "list"
      /\ UNCHANGED <<db, gen, cache, locks>>
  BY CallIsSound DEF ListWrappings
<1>2. out \notin {"served", "unlocked"}
  <2>1. (\E w \in mine : ~w.pin) \/ (\A w \in mine : w.pin)
    OBVIOUS
  <2> HIDE DEF mine
  <2>2. QED
    BY <2>1
<1>3. \/ call' = [call EXCEPT ![c] = s]
      \/ call[c].kind # "status" /\ call' = [call EXCEPT ![c] = r]
  BY DEF ListWrappings, Settle, Settled
<1> HIDE DEF out, rows
<1>4. CallSound(s, gen, locks)
  BY <1>1, <1>2, CallIsSound, SettledIsSound
<1>5. call[c].kind # "status" => CallSound(r, gen, locks)
  BY <1>1, SessionConstants DEF CallSound, Fields, Warming
<1> HIDE DEF s, r
<1>6. QED
  BY <1>1, <1>3, <1>4, <1>5, CallsStay, CallKeeps

LEMMA UnwrapKeeps ==
    ASSUME SessionInv, NEW c \in Call, Unwrap(c)
    PROVE  SessionInv'
<1> DEFINE key(out) == IF out = "served"
                       THEN [ver |-> call[c].ver, branch |-> call[c].branch,
                             age |-> 0]
                       ELSE None
           s(out) == Settled(call[c], out, key(out))
<1>1. /\ CallSound(call[c], gen, locks) /\ call[c].pc = "unwrap"
      /\ UNCHANGED <<db, gen, locks>>
  BY CallIsSound DEF Unwrap
<1>2. PICK out \in {"served", "rejected", "locked", "repairPending", "notFound"} :
          /\ cache' = IF out = "served" THEN Warm(c) ELSE cache
          /\ call' = [call EXCEPT ![c] = s(out)]
  BY DEF Unwrap, Settle, Settled
<1>3. CallSound(s(out), gen, locks)
  <2>1. out = "served" => /\ key(out).ver = call[c].ver
                          /\ key(out).branch = call[c].branch
                          /\ key(out).age < Ttl
    BY SessionConstants
  <2> HIDE DEF key
  <2>2. QED
    BY <1>1, <2>1, CallIsSound, SettledIsSound
<1>4. /\ call[c].kind # "status" /\ call[c].gen \in Nat \ {0} /\ call[c].gen <= gen
      /\ call[c].gen = gen => call[c].from = locks
  BY <1>1 DEF CallSound, Warming
<1>5. /\ LocksHold' /\ cache' = [v \in Version |-> cache'[v]]
      /\ gen' = 0 => \A v \in Version : cache'[v] = None
  BY <1>1, <1>2, <1>4 DEF SessionInv, Shape, LocksHold, Warm
<1> HIDE DEF s
<1>6. QED
  BY <1>1, <1>2, <1>3, <1>5, CallKeeps DEF SessionInv

(* A mutation leaves the revocation as it is.                              *)
LEMMA CommitKeeps ==
    ASSUME SessionInv, NEW new, new \in Tables(new), new.revoked = db.revoked,
           Commit(new)
    PROVE  SessionInv'
BY EventKeeps DEF Commit, Happens

LEMMA MutationKeeps ==
    ASSUME SessionInv, Rotate \/ Rewrap \/ DeleteKey
    PROVE  SessionInv'
<1>1. db \in Tables(db)
  BY DEF SessionInv, Shape
<1>2. CASE Rotate
  <2> DEFINE new(b, w) == [db EXCEPT
                !.version = @ + 1,
                !.branches[db.version + 1] = {b},
                !.wraps = @ \cup {[w EXCEPT !.ver = db.version + 1,
                                            !.branch = b, !.id = events]}]
  <2>1. PICK b \in Branch, w \in db.wraps : Commit(new(b, w))
    BY <1>2 DEF Rotate
  <2>2. new(b, w) \in Tables(new(b, w)) /\ new(b, w).revoked = db.revoked
    BY <1>1 DEF Tables
  <2> HIDE DEF new
  <2>3. QED
    BY <2>1, <2>2, CommitKeeps
<1>3. CASE Rewrap
  <2> DEFINE new(w) == [db EXCEPT !.wraps = (@ \ {w}) \cup
                          {[w EXCEPT !.pin = ~@, !.id = events]}]
  <2>1. \E w : Commit(new(w))
    BY <1>3 DEF Rewrap
  <2>2. PICK w : Commit(new(w))
    BY <2>1
  <2>3. new(w) \in Tables(new(w)) /\ new(w).revoked = db.revoked
    BY <1>1 DEF Tables
  <2> HIDE DEF new
  <2>4. QED
    BY <2>2, <2>3, CommitKeeps
<1>4. CASE DeleteKey
  <2> DEFINE new == [db EXCEPT !.version = 0]
  <2>1. Commit(new)
    BY <1>4 DEF DeleteKey
  <2>2. new \in Tables(new) /\ new.revoked = db.revoked
    BY <1>1 DEF Tables
  <2> HIDE DEF new
  <2>3. QED
    BY <2>1, <2>2, CommitKeeps
<1>5. QED
  BY <1>2, <1>3, <1>4

LEMMA SyncKeeps ==
    ASSUME SessionInv, SyncKey \/ SyncBranch \/ SyncRevocation
    PROVE  SessionInv'
<1>1. db \in Tables(db)
  BY DEF SessionInv, Shape
<1>2. UNCHANGED <<call, gen, cache, locks>>
  BY DEF SyncKey, SyncBranch, SyncRevocation, Happens
<1>3. db' \in Tables(db') /\ (db.revoked => db'.revoked)
  <2>1. CASE SyncKey
    BY <1>1, <2>1 DEF SyncKey, Tables
  <2>2. CASE SyncBranch
    <3> DEFINE new(v, b, ws) == [db EXCEPT !.branches[v] = @ \cup {b}, !.wraps = ws]
    <3>1. \E v, b, ws : db' = new(v, b, ws)
      BY <2>2 DEF SyncBranch
    <3>2. PICK v, b, ws : db' = new(v, b, ws)
      BY <3>1
    <3>3. QED
      BY <1>1, <3>2 DEF Tables
  <2>3. CASE SyncRevocation
    BY <1>1, <2>3 DEF SyncRevocation, Tables
  <2>4. QED
    BY <2>1, <2>2, <2>3
<1>4. QED
  BY <1>2, <1>3, EventKeeps

LEMMA LocksKeep ==
    ASSUME SessionInv, Lock \/ LockAll \/ Evicted \/ Tick \/ UNCHANGED vars
    PROVE  SessionInv'
<1>1. UNCHANGED <<db, call>>
  BY DEF Lock, LockAll, Evicted, Tick, vars, Happens
<1>2. db' \in Tables(db')
  BY <1>1 DEF SessionInv, Shape
<1>3. \/ UNCHANGED <<gen, cache, locks>>
      \/ Evict
      \/ gen = 0 /\ UNCHANGED <<gen, cache>>
  BY DEF SessionInv, Lock, LockAll, Evicted, Evict, Registered, Tick, vars
<1>4. QED
  BY <1>1, <1>2, <1>3, EventKeeps

LEMMA SessionNext == SessionInv /\ [Next]_vars => SessionInv'
<1>1. SUFFICES ASSUME SessionInv, [Next]_vars PROVE SessionInv'
  OBVIOUS
<1>2. ASSUME NEW c \in Call, Begin(c) \/ Step(c) PROVE SessionInv'
  BY <1>1, <1>2, BeginKeeps, PassGateKeeps, ReadKeyKeeps, ReadBranchKeeps,
     ProbeKeeps, ListWrappingsKeeps, UnwrapKeeps DEF Step
<1>3. CASE Rotate \/ Rewrap \/ DeleteKey
  BY <1>1, <1>3, MutationKeeps
<1>4. CASE SyncKey \/ SyncBranch \/ SyncRevocation
  BY <1>1, <1>4, SyncKeeps
<1>5. CASE Lock \/ LockAll \/ Evicted \/ Tick \/ UNCHANGED vars
  BY <1>1, <1>5, LocksKeep
<1>6. QED
  BY <1>1, <1>2, <1>3, <1>4, <1>5 DEF Next

LEMMA SessionAlways == Spec => []SessionInv
BY SessionInit, SessionNext, PTL DEF Spec

(* "Locks invalidate pending cache warming": whatever opens are under way  *)
(* when a key is locked, rotated, re-wrapped or deleted, no content key of *)
(* before is in the key cache afterwards.                                  *)
THEOREM LocksAlwaysHold == Spec => []LocksHold
<1>1. SessionInv => LocksHold
  BY DEF SessionInv
<1>2. QED
  BY <1>1, SessionAlways, PTL

(* openKey hands out the key of the version and branch the call itself     *)
(* read, and none to a principal whose revocation was stored before the    *)
(* call, although synchronisation tells the cache of neither.              *)
THEOREM AlwaysServedFresh == Spec => []ServedFresh
<1>1. SessionInv => ServedFresh
  BY DEF SessionInv
<1>2. QED
  BY <1>1, SessionAlways, PTL

-----------------------------------------------------------------------------
(* The PIN throttle.                                                       *)

(* A delay is a number of seconds: 2^n counts the subsets of 1..n.         *)
LEMMA DelayIsNat == ASSUME NEW n \in Nat PROVE DelayAfter(n) \in Nat
<1>1. \A k \in Nat : 2^k \in Nat
  <2>1. ASSUME NEW k \in Nat PROVE 2^k \in Nat
    <3>1. IsFiniteSet(1..k) /\ Cardinality(1..k) = k
      BY FS_Interval
    <3>2. IsFiniteSet(SUBSET (1..k)) /\ Cardinality(SUBSET (1..k)) = 2^k
      BY <3>1, FS_SUBSET
    <3>3. QED
      BY <3>2, FS_CardinalityType
  <2>2. QED
    BY <2>1
<1>2. CASE n < FreeAttempts
  BY <1>2 DEF DelayAfter
<1>3. CASE ~(n < FreeAttempts)
  <2> DEFINE k == n - FreeAttempts
             p == 2^k
  <2>1. k \in Nat /\ p \in Nat
    BY <1>1, <1>3, SessionConstants
  <2>2. DelayAfter(n) = Lesser(BaseDelay * p, MaxDelay)
    BY <1>3 DEF DelayAfter
  <2> HIDE DEF p, k
  <2>3. QED
    BY <2>1, <2>2, SessionConstants DEF Lesser
<1>4. QED
  BY <1>2, <1>3

(* The throttle counts the wrong PINs since the last right one, and its    *)
(* time is that of the latest of them or later.                            *)
ThrottleTells ==
    /\ now \in Nat
    /\ strikes \subseteq Call /\ IsFiniteSet(strikes)
    /\ throttle \in [failures : {Cardinality(strikes)}, last : 0..now]
    /\ \A d \in strikes : call[d].pc = "done" /\ call[d].ended \in 0..throttle.last

(* A PIN let past the throttle had waited for each wrong one it knew of,   *)
(* whatever becomes of it.                                                 *)
Waited(c) ==
    call[c].kind \in Pin /\ call[c].pc # "idle" /\ call[c].out # "throttled" =>
        \A d \in call[c].after :
            /\ d \in Call /\ call[d].pc = "done"
            /\ call[c].began - call[d].ended >= DelayAfter(Cardinality(call[c].after))

PacedInv == ThrottleTells /\ \A c \in Call : Waited(c)

LEMMA PacedInit == Init => PacedInv
<1>1. SUFFICES ASSUME Init PROVE PacedInv
  OBVIOUS
<1>2. ThrottleTells
  BY <1>1, FS_EmptySet DEF Init, ThrottleTells, RecordSuccess
<1>3. \A c \in Call : call[c].pc = "idle"
  BY <1>1 DEF Init, Idle
<1>4. QED
  BY <1>2, <1>3 DEF PacedInv, Waited

(* A step of a call under way that leaves the throttle alone.              *)
LEMMA StepPaced ==
    ASSUME SessionInv, PacedInv, NEW c \in Call, NEW r,
           call' = [call EXCEPT ![c] = r], call[c].pc \notin {"idle", "done"},
           r.kind = call[c].kind, r.began = call[c].began, r.after = call[c].after,
           UNCHANGED <<now, throttle, strikes>>
    PROVE  PacedInv'
<1>1. call'[c] = r /\ \A d \in Call \ {c} : call'[d] = call[d]
  BY DEF SessionInv, Shape
<1>2. c \notin strikes /\ \A d \in strikes : d \in Call
  BY DEF PacedInv, ThrottleTells
<1>3. ThrottleTells'
  BY <1>1, <1>2 DEF PacedInv, ThrottleTells
<1>4. call[c].out = None
  BY DEF SessionInv, Stopped
<1>5. ASSUME NEW b \in Call PROVE Waited(b)'
  <2>1. Waited(b)
    BY DEF PacedInv
  <2>2. CASE b = c
    BY <1>1, <1>4, <2>1, <2>2, SessionConstants DEF Waited
  <2>3. CASE b # c
    BY <1>1, <2>1, <2>3 DEF Waited
  <2>4. QED
    BY <2>2, <2>3
<1>6. QED
  BY <1>3, <1>5 DEF PacedInv

LEMMA SettledFields ==
    ASSUME NEW r, NEW out, NEW key, r \in Fields(r)
    PROVE  LET s == Settled(r, out, key)
           IN  /\ s.pc = "done" /\ s.out = out /\ s.kind = r.kind
               /\ s.began = r.began /\ s.after = r.after
               /\ r.kind \in Pin => s.ended = now
BY DEF Settled, Fields

(* What a step other than the unwrap does to the record of its call.       *)
LEMMA StepShape ==
    ASSUME SessionInv, NEW c \in Call,
           PassGate(c) \/ ReadKey(c) \/ ReadBranch(c) \/ Probe(c) \/ ListWrappings(c)
    PROVE  \E r : /\ call' = [call EXCEPT ![c] = r]
                  /\ call[c].pc \notin {"idle", "done"}
                  /\ r.kind = call[c].kind /\ r.began = call[c].began
                  /\ r.after = call[c].after
                  /\ UNCHANGED <<now, throttle, strikes>>
<1> DEFINE Same(r) == /\ r.kind = call[c].kind /\ r.began = call[c].began
                      /\ r.after = call[c].after
<1>1. call[c] \in Fields(call[c])
  BY CallIsSound
<1>2. \A out, key : Same(Settled(call[c], out, key))
  BY <1>1, SettledFields
<1>3. /\ call[c].pc \notin {"idle", "done"}
      /\ UNCHANGED <<now, throttle, strikes>>
  BY DEF PassGate, ReadKey, ReadBranch, Probe, ListWrappings
<1>4. \E r : call' = [call EXCEPT ![c] = r] /\ Same(r)
  <2>1. CASE PassGate(c)
    <3>1. call' = [call EXCEPT ![c] = [call[c] EXCEPT !.pc = "read"]]
      BY <2>1 DEF PassGate
    <3>2. Same([call[c] EXCEPT !.pc = "read"])
      BY <1>1 DEF Fields
    <3>3. QED
      BY <3>1, <3>2
  <2>2. CASE ReadKey(c)
    <3>1. \/ call' = [call EXCEPT ![c] = Settled(call[c], "notFound", None)]
          \/ \E v : call' = [call EXCEPT ![c] = [call[c] EXCEPT !.pc = "branch", !.ver = v]]
      BY <2>2 DEF ReadKey, Settle, Settled
    <3>2. \A v : Same([call[c] EXCEPT !.pc = "branch", !.ver = v])
      BY <1>1 DEF Fields
    <3> HIDE DEF Same
    <3>3. QED
      BY <1>2, <3>1, <3>2
  <2>3. CASE ReadBranch(c)
    <3>1. \/ call' = [call EXCEPT ![c] = Settled(call[c], "repairPending", None)]
          \/ \E b : call' = [call EXCEPT ![c] = [call[c] EXCEPT !.pc = "probe", !.branch = b]]
      BY <2>3 DEF ReadBranch, Settle, Settled
    <3>2. \A b : Same([call[c] EXCEPT !.pc = "probe", !.branch = b])
      BY <1>1 DEF Fields
    <3> HIDE DEF Same
    <3>3. QED
      BY <1>2, <3>1, <3>2
  <2>4. CASE Probe(c)
    <3>1. \/ \E out, key : call' = [call EXCEPT ![c] = Settled(call[c], out, key)]
          \/ call' = [call EXCEPT ![c] = [call[c] EXCEPT !.pc = "list"]]
      BY <2>4 DEF Probe, Settle, Settled
    <3>2. Same([call[c] EXCEPT !.pc = "list"])
      BY <1>1 DEF Fields
    <3> HIDE DEF Same
    <3>3. QED
      BY <1>2, <3>1, <3>2
  <2>5. CASE ListWrappings(c)
    <3>1. \/ \E out : call' = [call EXCEPT ![c] = Settled(call[c], out, None)]
          \/ \E ws : call' = [call EXCEPT ![c] = [call[c] EXCEPT !.pc = "unwrap", !.rows = ws]]
      BY <2>5 DEF ListWrappings, Settle, Settled
    <3>2. \A ws : Same([call[c] EXCEPT !.pc = "unwrap", !.rows = ws])
      BY <1>1 DEF Fields
    <3> HIDE DEF Same
    <3>3. QED
      BY <1>2, <3>1, <3>2
  <2>6. QED
    BY <2>1, <2>2, <2>3, <2>4, <2>5
<1>5. QED
  BY <1>3, <1>4

(* The unwrap of a PIN is the one step that the throttle hears of.         *)
LEMMA UnwrapPaced ==
    ASSUME SessionInv, PacedInv, NEW c \in Call, Unwrap(c)
    PROVE  PacedInv'
<1>1. PICK out \in {"served", "rejected", "locked", "repairPending", "notFound"} :
        \E key : /\ Recorded(c, out)
                 /\ call' = [call EXCEPT ![c] = Settled(call[c], out, key)]
  <2>1. PICK out \in {"served", "rejected", "locked", "repairPending", "notFound"} :
          Recorded(c, out) /\ \E key : Settle(c, call[c], out, key)
    BY DEF Unwrap
  <2>2. QED
    BY <2>1 DEF Settle, Settled
<1>2. PICK key : call' = [call EXCEPT ![c] = Settled(call[c], out, key)]
  BY <1>1
<1> DEFINE s == Settled(call[c], out, key)
<1>3. /\ s.pc = "done" /\ s.out = out /\ s.kind = call[c].kind
      /\ s.began = call[c].began /\ s.after = call[c].after
      /\ call[c].kind \in Pin => s.ended = now
  BY CallIsSound, SettledFields
<1>4. Recorded(c, out) /\ call' = [call EXCEPT ![c] = s]
  BY <1>1, <1>2
<1> HIDE DEF s
<1>5. call[c].pc = "unwrap" /\ now' = now
  BY DEF Unwrap
<1>6. CASE UNCHANGED <<throttle, strikes>>
  BY <1>3, <1>4, <1>5, <1>6, StepPaced
<1>7. CASE call[c].kind \in Pin /\ out \in {"served", "rejected"}
  <2>1. call'[c] = s /\ \A d \in Call \ {c} : call'[d] = call[d]
    BY <1>4 DEF SessionInv, Shape
  <2>2. ThrottleTells'
    <3>1. CASE out = "served"
      <4>1. strikes' = {} /\ throttle' = [failures |-> 0, last |-> 0]
        BY <1>4, <1>7, <3>1 DEF Recorded, RecordSuccess
      <4>2. QED
        BY <1>5, <4>1, FS_EmptySet DEF PacedInv, ThrottleTells
    <3>2. CASE out = "rejected"
      <4>1. /\ strikes' = strikes \cup {c}
            /\ throttle' = [failures |-> throttle.failures + 1, last |-> now]
        BY <1>4, <1>7, <3>2 DEF Recorded, RecordFailure
      <4>2. c \notin strikes
        BY <1>5 DEF PacedInv, ThrottleTells
      <4>3. IsFiniteSet(strikes') /\ Cardinality(strikes') = Cardinality(strikes) + 1
        BY <4>1, <4>2, FS_AddElement DEF PacedInv, ThrottleTells
      <4>4. throttle' \in [failures : {Cardinality(strikes')}, last : 0..now']
        BY <1>5, <4>1, <4>3 DEF PacedInv, ThrottleTells
      <4>5. \A d \in strikes' :
               call'[d].pc = "done" /\ call'[d].ended \in 0..throttle'.last
        <5>1. call'[c].pc = "done" /\ call'[c].ended \in 0..throttle'.last
          BY <1>3, <1>7, <2>1, <4>1 DEF PacedInv, ThrottleTells
        <5>2. ASSUME NEW d \in strikes
              PROVE  call'[d].pc = "done" /\ call'[d].ended \in 0..throttle'.last
          BY <2>1, <4>1, <4>2 DEF PacedInv, ThrottleTells
        <5>3. QED
          BY <4>1, <5>1, <5>2
      <4>6. QED
        BY <1>5, <4>1, <4>3, <4>4, <4>5 DEF PacedInv, ThrottleTells
    <3>3. QED
      BY <1>7, <3>1, <3>2
  <2>3. ASSUME NEW b \in Call PROVE Waited(b)'
    <3>1. Waited(b)
      BY DEF PacedInv
    <3>2. call[c].out = None
      BY <1>5 DEF SessionInv, Stopped
    <3>3. CASE b = c
      BY <1>3, <1>5, <2>1, <3>1, <3>2, <3>3, SessionConstants DEF Waited
    <3>4. CASE b # c
      BY <1>5, <2>1, <3>1, <3>4 DEF Waited
    <3>5. QED
      BY <3>3, <3>4
  <2>4. QED
    BY <2>2, <2>3 DEF PacedInv
<1>8. call[c].kind \notin Pin \/ out \notin {"served", "rejected"}
        => UNCHANGED <<throttle, strikes>>
  <2>1. CASE call[c].kind \notin Pin
    BY <1>4, <2>1 DEF Recorded
  <2>2. CASE call[c].kind \in Pin /\ out # "served" /\ out # "rejected"
    BY <1>4, <2>2 DEF Recorded
  <2>3. QED
    BY <2>1, <2>2
<1>9. QED
  BY <1>6, <1>7, <1>8

(* The one PIN a begin lets past has waited for every strike.              *)
LEMMA BeginPaced ==
    ASSUME SessionInv, PacedInv, NEW c \in Call, Begin(c)
    PROVE  PacedInv'
<1> DEFINE k == plan.ask[c].kind
           began == IF k \in Pin THEN now ELSE 0
           after == IF k \in Pin THEN strikes ELSE {}
           r == Begun(Idle, k, plan.ask[c].at, Registered, locks, began,
                      db.revoked, after)
           w == [r EXCEPT !.pc = "gate"]
           s == Settled(r, "throttled", None)
<1>1. call[c].pc = "idle" /\ UNCHANGED <<now, throttle, strikes>>
  BY DEF Begin
<1>2. Idle \in Fields(Idle)
  BY DEF Idle, Fields
<1>3. r.kind = k /\ r.began = began /\ r.after = after /\ r \in Fields(r) /\ r.pc = "read"
  BY <1>2 DEF Begun, Fields
<1>4. w.kind = k /\ w.pc = "gate"
  BY <1>3 DEF Fields
<1>5. s.out = "throttled"
  BY <1>3, SettledFields
<1>6. \/ k \in Pin /\ RetryAfter = 0 /\ call' = [call EXCEPT ![c] = r]
      \/ k \notin Pin /\ call' = [call EXCEPT ![c] = r]
      \/ k \notin Pin /\ call' = [call EXCEPT ![c] = w]
      \/ call' = [call EXCEPT ![c] = s]
  BY DEF Begin, Begun, Settle, Settled, Pin
<1>7. \A d \in Call \ {c} : call'[d] = call[d]
  BY <1>6 DEF SessionInv, Shape
<1>8. \A x : call' = [call EXCEPT ![c] = x] => call'[c] = x
  BY DEF SessionInv, Shape
<1>9. ThrottleTells'
  <2>1. c \notin strikes
    BY <1>1 DEF PacedInv, ThrottleTells
  <2>2. QED
    BY <1>1, <1>7, <2>1 DEF PacedInv, ThrottleTells
<1>10. Waited(c)'
  <2>1. CASE k \in Pin /\ RetryAfter = 0 /\ call'[c] = r
    <3>1. /\ \A d \in strikes : /\ d \in Call \ {c}
                               /\ call[d].pc = "done" /\ call[d].ended \in 0..throttle.last
          /\ IsFiniteSet(strikes) /\ throttle.failures = Cardinality(strikes)
          /\ throttle.last \in Nat /\ now \in Nat
      BY <1>1 DEF PacedInv, ThrottleTells
    <3>2. strikes # {} => throttle.failures \in Nat \ {0}
      BY <3>1, FS_CardinalityType, FS_EmptySet
    <3>3. strikes # {} => throttle.last + DelayAfter(throttle.failures) <= now
      BY <2>1, <3>1, <3>2, DelayIsNat DEF RetryAfter
    <3>4. \A d \in strikes : now - call[d].ended >= DelayAfter(Cardinality(strikes))
      BY <3>1, <3>2, <3>3, DelayIsNat
    <3>5. call'[c].began = now /\ call'[c].after = strikes
      BY <1>3, <2>1
    <3> HIDE DEF r, w, s
    <3>6. QED
      BY <1>7, <3>1, <3>4, <3>5 DEF Waited
  <2>2. CASE k \notin Pin /\ call'[c] \in {r, w}
    BY <1>3, <1>4, <2>2 DEF Waited
  <2>3. CASE call'[c] = s
    BY <1>5, <2>3 DEF Waited
  <2>4. QED
    BY <1>6, <1>8, <2>1, <2>2, <2>3
<1>11. ASSUME NEW b \in Call \ {c} PROVE Waited(b)'
  BY <1>1, <1>7 DEF PacedInv, Waited
<1>12. QED
  BY <1>9, <1>10, <1>11 DEF PacedInv

LEMMA PacedNext == SessionInv /\ PacedInv /\ [Next]_vars => PacedInv'
<1>1. SUFFICES ASSUME SessionInv, PacedInv, [Next]_vars PROVE PacedInv'
  OBVIOUS
<1>2. ASSUME NEW c \in Call, Begin(c) PROVE PacedInv'
  BY <1>1, <1>2, BeginPaced
<1>3. ASSUME NEW c \in Call, Step(c) PROVE PacedInv'
  <2>1. CASE Unwrap(c)
    BY <1>1, <2>1, UnwrapPaced
  <2>2. CASE PassGate(c) \/ ReadKey(c) \/ ReadBranch(c) \/ Probe(c) \/ ListWrappings(c)
    BY <1>1, <2>2, StepShape, StepPaced
  <2>3. QED
    BY <1>3, <2>1, <2>2 DEF Step
<1>4. CASE Tick
  BY <1>1, <1>4 DEF Tick, PacedInv, ThrottleTells, Waited
<1>5. CASE \/ Lock \/ LockAll \/ Rotate \/ Rewrap \/ DeleteKey \/ Evicted
           \/ SyncKey \/ SyncBranch \/ SyncRevocation \/ UNCHANGED vars
  <2>1. UNCHANGED <<throttle, call, now, strikes>>
    BY <1>5 DEF Lock, LockAll, Rotate, Rewrap, DeleteKey, Evicted, SyncKey,
                SyncBranch, SyncRevocation, Commit, Happens, vars
  <2>2. QED
    BY <1>1, <2>1 DEF PacedInv, ThrottleTells, Waited
<1>6. QED
  BY <1>1, <1>2, <1>3, <1>4, <1>5 DEF Next

(* A PIN that is evaluated began at least the delay after each wrong one   *)
(* answered by then, whatever calls are made, in parallel or in turn.      *)
THEOREM PinsAlwaysPaced == Spec => []PinsPaced
<1>1. SessionInv /\ PacedInv => PinsPaced
  <2>1. SUFFICES ASSUME SessionInv, PacedInv, NEW c \in Call, call[c].kind \in Pin,
                        call[c].out \notin {None, "throttled"},
                        NEW d \in call[c].after
                 PROVE  call[c].began - call[d].ended
                            >= DelayAfter(Cardinality(call[c].after))
    BY DEF PinsPaced
  <2>2. call[c].pc # "idle"
    BY <2>1 DEF SessionInv, Stopped
  <2>3. QED
    BY <2>1, <2>2 DEF PacedInv, Waited
<1>2. QED
  BY <1>1, PacedInit, PacedNext, SessionAlways, PTL DEF Spec
=============================================================================
