---------------------------- MODULE RecordApply -----------------------------
(***************************************************************************)
(* applyRecordChunk of @kokuin/records over the vault's record store       *)
(* (@kokuin/store-vault) and record types (@kokuin/vault): peers receive   *)
(* chunks of signed records and keep, for every record, the copies of one  *)
(* decision.                                                               *)
(*                                                                         *)
(* A session is one call of applyRecordChunk at a time on one peer's       *)
(* database.  It screens and sorts its chunk, reads the stored decisions   *)
(* without a lock to learn which vault keys to lock, then runs one         *)
(* transaction: take the locks, read again, retry when the lock set moved, *)
(* and judge the candidates against a per-transaction cache.  A session    *)
(* sees committed rows overlaid with its own writes; nothing else keeps    *)
(* sessions apart but the vault-key locks, and the single writer of SQLite *)
(* when SingleWriter holds.                                                *)
(***************************************************************************)
EXTENDS RecordPolicy, FiniteSets

CONSTANTS
    Peer, Session,
    PeerOf,         \* Session -> Peer
    SingleWriter,   \* TRUE: SQLite; FALSE: Postgres, read committed
    TypeOf,         \* Key -> vault record type
    Rank,           \* type -> its position in dependency order (rankTypes)
    Lock, LockOf,   \* Op -> the vault key [owner, keyID] it belongs to
    Issuer, IssuerOf,  \* Op -> the DID that signed it
    SignerOf,       \* Op -> issuer and kid (recordSignerKey)
    Deps,           \* Op -> set of [key, by]: satisfied by a copy of key in by
    Live,           \* ops that are not tombstones
    Did,
    Recipients,     \* Op -> the DIDs a wrapping is for; empty for other types
    Revokes,        \* Op -> the DIDs a revocation denies; empty for other types
    Signed,         \* ops whose signature and envelope verify
    Admissible,     \* ops the type's stateless precheck accepts
    Refused,        \* ops whose type hook throws RecordContentRefusalError
    Intact,         \* ops whose payload matches the signed digest
    Authorities,    \* the issuer sets the consumer's policy may authorize
    Chunk,          \* the chunks peers may send
    Seed,           \* ops every peer has stored already, one per key
    SourceAttempts, \* 5 in the code
    MaxDrift,
    MaxNow,         \* bound on the wall clock
    MaxChunks       \* bound on the chunks of a session

VaultType == {"key", "branch", "wrapping", "entry", "revocation"}

NoRow == -1     \* no projection row

Keep == -2      \* the transaction did not touch the projection row

ASSUME ApplyAssumption ==
    /\ PeerOf \in [Session -> Peer]
    /\ SingleWriter \in BOOLEAN
    /\ TypeOf \in [Key -> VaultType]
    /\ Rank \in [VaultType -> Nat]
    /\ LockOf \in [Op -> Lock]
    /\ IssuerOf \in [Op -> Issuer]
    /\ \A a, b \in Op : SignerOf[a] = SignerOf[b] => IssuerOf[a] = IssuerOf[b]
    /\ Deps \in [Op -> SUBSET [key : Key, by : SUBSET Op]]
    /\ Live \subseteq Op /\ Signed \subseteq Op /\ Admissible \subseteq Op
    /\ Refused \subseteq Op /\ Intact \subseteq Op
    /\ Recipients \in [Op -> SUBSET Did]
    /\ Revokes \in [Op -> SUBSET Did]
    /\ Authorities \subseteq SUBSET Issuer /\ Authorities # {}
    /\ Chunk \subseteq Seq(Op)
    /\ Seed \subseteq Live \cap Intact
    /\ \A a, b \in Seed : KeyOf[a] = KeyOf[b] => a = b
    /\ \A a \in Seed : TypeOf[KeyOf[a]] # "revocation" /\ Deps[a] = {}
    /\ SourceAttempts \in Nat \ {0}
    /\ MaxDrift \in Nat /\ MaxNow \in Nat /\ MaxChunks \in Nat

(***************************************************************************)
(* The digest covers the deletion flag, the meta that names the vault key  *)
(* and, through the payload's own digest, the recipients of a wrapping.    *)
(***************************************************************************)
ASSUME ClaimAssumption ==
    /\ \A a, b \in Intact : Digest[a] = Digest[b] =>
           /\ a \in Live <=> b \in Live
           /\ LockOf[a] = LockOf[b] /\ Recipients[a] = Recipients[b]
    /\ \A o \in Op : /\ Recipients[o] # {} => TypeOf[KeyOf[o]] = "wrapping"
                     /\ Revokes[o] # {} => TypeOf[KeyOf[o]] = "revocation"

(***************************************************************************)
(* What satisfies a dependency gives way only to what satisfies it too: a  *)
(* key of some version to a later one, a branch, which the coordinator     *)
(* names by the digest of its payload, to a copy of itself.                *)
(***************************************************************************)
DependenciesLast ==
    \A o \in Op : \A d \in Deps[o] : \A a \in d.by, b \in Op :
        /\ KeyOf[a] = d.key /\ KeyOf[b] = d.key
        /\ Digest[a] = Digest[b] \/ (b \in Signed \cap Admissible /\ Wins(b, a))
        => b \in d.by

VARIABLES
    (* committed, per peer *)
    rows,       \* vault_records: Key -> the copies of the stored decision
    proj,       \* vault_keys, _entries, _wrappings, _key_branches: Key -> op
    revs,       \* vault_revocations: the denied <<lock, DID>>
    judged,     \* history: the ops merged so far (entries: vault_entry_candidates)
    clock,      \* the local HLC, as far as receiveClock has advanced it
    auth,       \* issuers the consumer's policy authorizes now
    now,        \* the wall clock
    (* one call of applyRecordChunk, per session *)
    pc,
    sent,       \* chunks submitted so far
    active,     \* candidates still in play, in dependency order
    limit,      \* the attempt loop's bound
    attempts, retries,
    expected,   \* Op -> the locks its record needs, from the unlocked read
    (* one transaction of the call *)
    del, ins,   \* Key -> rows deleted and inserted, not yet committed
    projBuf,    \* Key -> projection row written, or Keep
    revsBuf, judgedBuf,
    verified,   \* the chunk cache: Key -> copies held (snapshot.verified)
    listed,     \* Key -> copies the cached decision lists (snapshot.decision)
    checkedPrior,  \* keys whose earlier copies were re-authorized
    pending, parked, applied,
    stored      \* did this pass store anything?

committed == <<rows, proj, revs, judged>>
call      == <<active, limit, attempts, retries, expected>>
cache     == <<verified, listed, checkedPrior>>
buffers   == <<del, ins, projBuf, revsBuf, judgedBuf>>
progress  == <<pending, parked, applied, stored>>
vars == <<committed, clock, auth, now, pc, sent, call, cache, buffers, progress>>

-----------------------------------------------------------------------------
Elems(s) == {s[i] : i \in DOMAIN s}

InTx(p) == {s \in Session : PeerOf[s] = p /\ pc[s] = "tx"}

(* What a read of the session's transaction returns.                       *)
View(s, k) == (rows[PeerOf[s]][k] \ del[s][k]) \cup ins[s][k]

(* records-rows.ts decision() throws when rows of one record disagree.     *)
Readable(copies) == \A a, b \in copies : Digest[a] = Digest[b]

ProjView(s, k) == IF projBuf[s][k] = Keep THEN proj[PeerOf[s]][k] ELSE projBuf[s][k]

RevsView(s) == revs[PeerOf[s]] \cup revsBuf[s]

HeldLocks(s) == UNION {expected[s][o] : o \in Elems(active[s])}

(* Mutant: the stored copies' vault keys are left out of the lock set.     *)
lockKeysIncoming(o, copies) == {LockOf[o]}

(* vault lockKeys: the incoming op's vault key and every stored copy's.    *)
lockKeys(o, copies) == {LockOf[o]} \cup {LockOf[c] : c \in copies}

(* A wrapping is refused, or its projection dropped, for a denied DID.     *)
revoked(o, denied) == \E d \in Recipients[o] : <<LockOf[o], d>> \in denied

Init ==
    /\ rows = [p \in Peer |-> [k \in Key |-> {o \in Seed : KeyOf[o] = k}]]
    /\ proj = [p \in Peer |-> [k \in Key |->
                 IF \E o \in Seed : KeyOf[o] = k
                 THEN CHOOSE o \in Seed : KeyOf[o] = k ELSE NoRow]]
    /\ revs = [p \in Peer |-> {}]
    /\ judged = [p \in Peer |-> Seed]
    /\ clock = [p \in Peer |-> 0]
    /\ auth \in [Peer -> Authorities]
    /\ now = 0
    /\ pc = [s \in Session |-> "idle"]
    /\ sent = [s \in Session |-> 0]
    /\ active = [s \in Session |-> <<>>]
    /\ limit = [s \in Session |-> 0]
    /\ attempts = [s \in Session |-> 0]
    /\ retries = [s \in Session |-> 0]
    /\ expected = [s \in Session |-> [o \in Op |-> {}]]
    /\ del = [s \in Session |-> [k \in Key |-> {}]]
    /\ ins = [s \in Session |-> [k \in Key |-> {}]]
    /\ projBuf = [s \in Session |-> [k \in Key |-> Keep]]
    /\ revsBuf = [s \in Session |-> {}]
    /\ judgedBuf = [s \in Session |-> {}]
    /\ verified = [s \in Session |-> [k \in Key |-> {}]]
    /\ listed = [s \in Session |-> [k \in Key |-> {}]]
    /\ checkedPrior = [s \in Session |-> {}]
    /\ pending = [s \in Session |-> <<>>]
    /\ parked = [s \in Session |-> <<>>]
    /\ applied = [s \in Session |-> {}]
    /\ stored = [s \in Session |-> FALSE]

-----------------------------------------------------------------------------
(* Receiving a chunk.                                                      *)

(* Stamp canonical and within drift, signature, then the type's precheck.  *)
Screened(o) ==
    /\ Hlc[o] # NoStamp /\ Hlc[o] <= now + MaxDrift
    /\ o \in Signed /\ o \in Admissible

(* Candidates run in the types' dependency order, else in arrival order.   *)
RankOf(o) == Rank[TypeOf[KeyOf[o]]]

Before(chunk, i, j) ==
    \/ RankOf(chunk[i]) < RankOf(chunk[j])
    \/ RankOf(chunk[i]) = RankOf(chunk[j]) /\ i < j

Submit(s, chunk) ==
    /\ pc[s] = "idle" /\ sent[s] < MaxChunks
    /\ LET passed == {i \in DOMAIN chunk : Screened(chunk[i])}
           count  == Cardinality(passed)
       IN  /\ \E sorted \in [1..count -> passed] :
                 /\ \A i \in 2..count : Before(chunk, sorted[i - 1], sorted[i])
                 /\ active' = [active EXCEPT ![s] = [i \in 1..count |-> chunk[sorted[i]]]]
           /\ limit' = [limit EXCEPT ![s] = count + SourceAttempts]
    /\ sent' = [sent EXCEPT ![s] = @ + 1]
    /\ pc' = [pc EXCEPT ![s] = "prefetch"]
    /\ UNCHANGED <<committed, clock, auth, now, attempts, retries, expected, cache,
                   buffers, progress>>

(* The unlocked read that names the locks each candidate needs.            *)
Prefetch(s) ==
    /\ pc[s] = "prefetch"
    /\ \A o \in Elems(active[s]) : Readable(rows[PeerOf[s]][KeyOf[o]])
    /\ expected' = [expected EXCEPT ![s] =
                       [o \in Op |-> IF o \in Elems(active[s])
                                     THEN lockKeys(o, rows[PeerOf[s]][KeyOf[o]])
                                     ELSE {}]]
    /\ pc' = [pc EXCEPT ![s] = "begin"]
    /\ UNCHANGED <<committed, clock, auth, now, sent, active, limit, attempts,
                   retries, cache, buffers, progress>>

-----------------------------------------------------------------------------
(* The transaction.                                                        *)

(* The database admits the transaction, and every lock it asks for is free.*)
CanEnter(s) ==
    /\ SingleWriter => InTx(PeerOf[s]) = {}
    /\ \A t \in InTx(PeerOf[s]) : HeldLocks(s) \cap HeldLocks(t) = {}

(* Read again under the locks: is the lock set still the right one?        *)
SourceUnchanged(s) ==
    \A o \in Elems(active[s]) :
        lockKeys(o, rows[PeerOf[s]][KeyOf[o]]) = expected[s][o]

Begin(s) ==
    /\ pc[s] = "begin" /\ CanEnter(s)
    /\ \A o \in Elems(active[s]) : Readable(rows[PeerOf[s]][KeyOf[o]])
    /\ SourceUnchanged(s)
    /\ verified' = [verified EXCEPT ![s] = rows[PeerOf[s]]]
    /\ listed' = [listed EXCEPT ![s] = rows[PeerOf[s]]]
    /\ checkedPrior' = [checkedPrior EXCEPT ![s] = {}]
    /\ pending' = [pending EXCEPT ![s] = active[s]]
    /\ pc' = [pc EXCEPT ![s] = "tx"]
    /\ UNCHANGED <<committed, clock, auth, now, sent, call, buffers, parked,
                   applied, stored>>

(* Dropping the transaction's private state: a rollback, or after commit.  *)
ClearTx(s) ==
    /\ del' = [del EXCEPT ![s] = [k \in Key |-> {}]]
    /\ ins' = [ins EXCEPT ![s] = [k \in Key |-> {}]]
    /\ projBuf' = [projBuf EXCEPT ![s] = [k \in Key |-> Keep]]
    /\ revsBuf' = [revsBuf EXCEPT ![s] = {}]
    /\ judgedBuf' = [judgedBuf EXCEPT ![s] = {}]
    /\ verified' = [verified EXCEPT ![s] = [k \in Key |-> {}]]
    /\ listed' = [listed EXCEPT ![s] = [k \in Key |-> {}]]
    /\ checkedPrior' = [checkedPrior EXCEPT ![s] = {}]
    /\ pending' = [pending EXCEPT ![s] = <<>>]
    /\ parked' = [parked EXCEPT ![s] = <<>>]
    /\ stored' = [stored EXCEPT ![s] = FALSE]

(* Mutant: the loop ends one attempt early.                                *)
NextAttemptShort(s) ==
    /\ attempts' = [attempts EXCEPT ![s] = @ + 1]
    /\ pc' = [pc EXCEPT ![s] = IF attempts[s] + 2 < limit[s] THEN "prefetch"
                                                             ELSE "exhausted"]

(* The next iteration of the attempt loop, or its end without an outcome.  *)
NextAttempt(s) ==
    /\ attempts' = [attempts EXCEPT ![s] = @ + 1]
    /\ pc' = [pc EXCEPT ![s] = IF attempts[s] + 1 < limit[s] THEN "prefetch"
                                                             ELSE "exhausted"]

(* The call returns or throws: its locals are gone.                        *)
EndCall(s) ==
    /\ pc' = [pc EXCEPT ![s] = "idle"]
    /\ active' = [active EXCEPT ![s] = <<>>]
    /\ limit' = [limit EXCEPT ![s] = 0]
    /\ attempts' = [attempts EXCEPT ![s] = 0]
    /\ retries' = [retries EXCEPT ![s] = 0]
    /\ expected' = [expected EXCEPT ![s] = [o \in Op |-> {}]]

(* A lock set that moved between the two reads rolls back and retries.     *)
SourceChanged(s) ==
    /\ pc[s] = "begin" /\ CanEnter(s)
    /\ \A o \in Elems(active[s]) : Readable(rows[PeerOf[s]][KeyOf[o]])
    /\ ~SourceUnchanged(s)
    /\ IF retries[s] + 1 >= SourceAttempts
       THEN EndCall(s)
       ELSE /\ retries' = [retries EXCEPT ![s] = @ + 1]
            /\ NextAttempt(s)
            /\ UNCHANGED <<active, limit, expected>>
    /\ UNCHANGED <<committed, clock, auth, now, sent, cache, buffers, progress>>

-----------------------------------------------------------------------------
(* applyCandidate, one action per outcome, for the head of the pass.       *)

Candidate(s) == Head(pending[s])

InPass(s) == pc[s] = "tx" /\ pending[s] # <<>>

IsReplay(s, o) == o \in listed[s][KeyOf[o]]

(* Mutant: a dependency counts as satisfied once its record exists.        *)
isParkedIfAbsent(s, o) == \E d \in Deps[o] : verified[s][d.key] = {}

isParked(s, o) == \E d \in Deps[o] : verified[s][d.key] \cap d.by = {}

(* The type's authorizer: payload, revocations, then the consumer's policy.*)
Authorized(s, o) ==
    /\ o \in Intact
    /\ o \in Live => ~revoked(o, RevsView(s))
    /\ IssuerOf[o] \in auth[PeerOf[s]]

(* The op reached the checks that follow replay and parking.               *)
Judgeable(s, o) == ~IsReplay(s, o) /\ ~isParked(s, o)

SameDecision(s, o) == \E c \in listed[s][KeyOf[o]] : Digest[c] = Digest[o]

(* Mutant: the stored op is not compared with.                             *)
PrevailsUnchecked(s, o) == admitFirstWrite(o)

(* The stored op the policy compares with: a copy of the cached decision.  *)
Prevails(s, o) ==
    IF verified[s][KeyOf[o]] = {} THEN admitFirstWrite(o)
    ELSE \A c \in verified[s][KeyOf[o]] : Wins(o, c)

PolicyRejects(s, o) ==
    IF verified[s][KeyOf[o]] = {} THEN ~admitFirstWrite(o)
    ELSE \E c \in verified[s][KeyOf[o]] : compareRecordOps(o, c) = "reject"

(* Moving on to the next candidate without touching the store.             *)
Skip(s) ==
    /\ pending' = [pending EXCEPT ![s] = Tail(@)]
    /\ UNCHANGED <<committed, clock, auth, now, pc, sent, call, cache, del, ins,
                   projBuf, revsBuf, applied, stored>>

Replay(s) ==
    /\ InPass(s) /\ IsReplay(s, Candidate(s))
    /\ Skip(s) /\ UNCHANGED <<parked, judgedBuf>>

Park(s) ==
    /\ InPass(s)
    /\ ~IsReplay(s, Candidate(s)) /\ isParked(s, Candidate(s))
    /\ parked' = [parked EXCEPT ![s] = Append(@, Candidate(s))]
    /\ Skip(s) /\ UNCHANGED judgedBuf

Reject(s) ==
    /\ InPass(s) /\ Judgeable(s, Candidate(s)) /\ Candidate(s) \notin Refused
    /\ \/ ~Authorized(s, Candidate(s))
       \/ /\ ~SameDecision(s, Candidate(s))
          /\ PolicyRejects(s, Candidate(s))
    /\ Skip(s) /\ UNCHANGED <<parked, judgedBuf>>

Lose(s) ==
    /\ InPass(s) /\ Judgeable(s, Candidate(s)) /\ Candidate(s) \notin Refused
    /\ Authorized(s, Candidate(s)) /\ ~SameDecision(s, Candidate(s))
    /\ ~PolicyRejects(s, Candidate(s)) /\ ~Prevails(s, Candidate(s))
    /\ judgedBuf' = [judgedBuf EXCEPT ![s] = @ \cup {Candidate(s)}]
    /\ Skip(s) /\ UNCHANGED parked

(* A hook's content refusal rolls back and retries without the candidate.  *)
Without(seq, o) ==
    LET first == CHOOSE i \in DOMAIN seq : seq[i] = o /\ \A j \in 1..(i - 1) : seq[j] # o
    IN  [i \in 1..(Len(seq) - 1) |-> IF i < first THEN seq[i] ELSE seq[i + 1]]

RefuseContent(s) ==
    /\ InPass(s) /\ Judgeable(s, Candidate(s)) /\ Candidate(s) \in Refused
    /\ active' = [active EXCEPT ![s] = Without(@, Candidate(s))]
    /\ ClearTx(s) /\ NextAttempt(s)
    /\ applied' = [applied EXCEPT ![s] = {}]
    /\ UNCHANGED <<committed, clock, auth, now, sent, limit, retries, expected>>

-----------------------------------------------------------------------------
(* Storing: putCopy, pruneCopy and the cache that must follow them.        *)

(* Write the rows of key k so that the session's view of it becomes copies.*)
WriteCopies(s, k, copies) ==
    LET gone == View(s, k) \ copies
    IN  /\ del' = [del EXCEPT ![s][k] = @ \cup gone]
        /\ ins' = [ins EXCEPT ![s][k] = (@ \ gone) \cup (copies \ View(s, k))]

(* putCopy: of one signer's copies of a decision the least opHash stays; a *)
(* different decision replaces every row.                                  *)
putCopy(o, prior) ==
    LET sameSigner == {c \in prior : SignerOf[c] = SignerOf[o]}
        kept == {c \in sameSigner \cup {o} : \A d \in sameSigner \cup {o} : c <= d}
    IN  IF \E c \in prior : Digest[c] = Digest[o]
        THEN (prior \ sameSigner) \cup kept
        ELSE {o}

rememberCopy(o, held) ==
    LET retained == {c \in held : SignerOf[c] # SignerOf[o] \/ c < o}
    IN  IF \E c \in retained : SignerOf[c] = SignerOf[o] THEN held
                                                         ELSE retained \cup {o}

(* Issuers of earlier copies that are no longer authorized: their copies   *)
(* are pruned when another issuer re-signs the decision.                   *)
Pruned(s, o) ==
    IF KeyOf[o] \in checkedPrior[s] THEN {}
    ELSE {IssuerOf[c] : c \in {c \in verified[s][KeyOf[o]] :
                                 IssuerOf[c] # IssuerOf[o] /\ ~Authorized(s, c)}}

pruneCopies(copies, issuers) == {c \in copies : IssuerOf[c] \notin issuers}

Store(s) ==
    /\ pending' = [pending EXCEPT ![s] = Tail(@)]
    /\ applied' = [applied EXCEPT ![s] = @ \cup {Candidate(s)}]
    /\ stored' = [stored EXCEPT ![s] = TRUE]
    /\ judgedBuf' = [judgedBuf EXCEPT ![s] = @ \cup {Candidate(s)}]
    /\ checkedPrior' = [checkedPrior EXCEPT ![s] = @ \cup {KeyOf[Candidate(s)]}]
    /\ UNCHANGED <<committed, clock, auth, now, pc, sent, call, parked>>

(* Another copy of the decision already stored.                            *)
AddCopy(s) ==
    LET o      == Candidate(s)
        k      == KeyOf[o]
        pruned == Pruned(s, o)
        held   == rememberCopy(o, pruneCopies(verified[s][k], pruned))
    IN  /\ InPass(s) /\ Judgeable(s, o) /\ o \notin Refused
        /\ Authorized(s, o) /\ SameDecision(s, o)
        /\ Readable(View(s, k))
        /\ WriteCopies(s, k, pruneCopies(putCopy(o, View(s, k)), pruned))
        /\ verified' = [verified EXCEPT ![s][k] = held]
        /\ listed' = [listed EXCEPT ![s][k] = IF o \in held THEN held ELSE @]
        /\ Store(s)
        /\ UNCHANGED <<projBuf, revsBuf>>

(* projection, then dropRevokedWrappings for wrappings and revocations.    *)
projection(o) == IF o \in Live THEN o ELSE NoRow

(* Mutant: a revocation leaves the wrappings already projected.            *)
SuppressedByWrapping(s, o, k) ==
    /\ TypeOf[KeyOf[o]] = "wrapping" /\ k = KeyOf[o]
    /\ projection(o) \in Op /\ revoked(o, RevsView(s))

Suppressed(s, o, k) ==
    /\ TypeOf[KeyOf[o]] \in {"wrapping", "revocation"}
    /\ LET row == IF k = KeyOf[o] THEN projection(o) ELSE ProjView(s, k)
       IN  /\ row \in Op /\ LockOf[row] = LockOf[o]
           /\ revoked(row, RevsView(s) \cup ({LockOf[o]} \X Revokes[o]))

(* The op wins: it replaces every copy of the stored decision.             *)
Win(s) ==
    LET o == Candidate(s)
        k == KeyOf[o]
    IN  /\ InPass(s) /\ Judgeable(s, o) /\ o \notin Refused
        /\ Authorized(s, o) /\ ~SameDecision(s, o)
        /\ ~PolicyRejects(s, o) /\ Prevails(s, o)
        /\ Readable(View(s, k))
        /\ WriteCopies(s, k, putCopy(o, View(s, k)))
        /\ projBuf' = [projBuf EXCEPT ![s] =
              [j \in Key |-> IF Suppressed(s, o, j) THEN NoRow
                             ELSE IF j = k /\ TypeOf[k] # "revocation"
                                  THEN projection(o) ELSE @[j]]]
        /\ revsBuf' = [revsBuf EXCEPT ![s] = @ \cup ({LockOf[o]} \X Revokes[o])]
        /\ verified' = [verified EXCEPT ![s][k] = {o}]
        /\ listed' = [listed EXCEPT ![s][k] = {o}]
        /\ Store(s)

-----------------------------------------------------------------------------
(* The end of a pass, of the transaction and of the call.                  *)

PassDone(s) == pc[s] = "tx" /\ pending[s] = <<>>

(* Mutant: parked candidates are retried until none is left.               *)
SettledWhenEmpty(s) == parked[s] = <<>>

Settled(s) == parked[s] = <<>> \/ ~stored[s]

(* Parked candidates are tried again after a pass that stored something.   *)
RetryParked(s) ==
    /\ PassDone(s) /\ ~Settled(s)
    /\ pending' = [pending EXCEPT ![s] = parked[s]]
    /\ parked' = [parked EXCEPT ![s] = <<>>]
    /\ stored' = [stored EXCEPT ![s] = FALSE]
    /\ UNCHANGED <<committed, clock, auth, now, pc, sent, call, cache, buffers, applied>>

Commit(s) ==
    LET p == PeerOf[s]
    IN  /\ PassDone(s) /\ Settled(s)
        /\ rows' = [rows EXCEPT ![p] = [k \in Key |-> View(s, k)]]
        /\ proj' = [proj EXCEPT ![p] = [k \in Key |-> ProjView(s, k)]]
        /\ revs' = [revs EXCEPT ![p] = RevsView(s)]
        /\ judged' = [judged EXCEPT ![p] = @ \cup judgedBuf[s]]
        /\ ClearTx(s)
        /\ pc' = [pc EXCEPT ![s] = "receive"]
        /\ UNCHANGED <<clock, auth, now, sent, call, applied>>

(* receiveClock for every applied record, once the transaction returned.   *)
ReceiveClock(s) ==
    /\ pc[s] = "receive"
    /\ clock' = [clock EXCEPT ![PeerOf[s]] =
                    CHOOSE t \in {@} \cup {Hlc[o] : o \in applied[s]} :
                        \A u \in {@} \cup {Hlc[o] : o \in applied[s]} : u <= t]
    /\ applied' = [applied EXCEPT ![s] = {}]
    /\ EndCall(s)
    /\ UNCHANGED <<committed, auth, now, sent, cache, buffers, pending, parked, stored>>

(* An error of the store, a hook or a resolver rolls back and propagates.  *)
Fault(s) ==
    /\ pc[s] \in {"prefetch", "begin", "tx"}
    /\ ClearTx(s)
    /\ applied' = [applied EXCEPT ![s] = {}]
    /\ EndCall(s)
    /\ UNCHANGED <<committed, clock, auth, now, sent>>

-----------------------------------------------------------------------------
(* The environment: the consumer's authority and the wall clock move.      *)

ChangeAuthority(p) ==
    /\ \E a \in Authorities \ {auth[p]} : auth' = [auth EXCEPT ![p] = a]
    /\ UNCHANGED <<committed, clock, now, pc, sent, call, cache, buffers, progress>>

Tick ==
    /\ now < MaxNow
    /\ now' = now + 1
    /\ UNCHANGED <<committed, clock, auth, pc, sent, call, cache, buffers, progress>>

Advance(s) ==
    \/ Prefetch(s) \/ Begin(s) \/ SourceChanged(s)
    \/ Replay(s) \/ Park(s) \/ Reject(s) \/ Lose(s) \/ RefuseContent(s)
    \/ AddCopy(s) \/ Win(s) \/ RetryParked(s) \/ Commit(s) \/ ReceiveClock(s)

Next ==
    \/ \E s \in Session : Advance(s) \/ Fault(s)
    \/ \E s \in Session, chunk \in Chunk : Submit(s, chunk)
    \/ \E p \in Peer : ChangeAuthority(p)
    \/ Tick

Spec == Init /\ [][Next]_vars

(* A call once made runs on: promises settle, and the lock queue is FIFO.  *)
Fairness == \A s \in Session : WF_vars(Advance(s))

FairSpec == Spec /\ Fairness

-----------------------------------------------------------------------------
(* Properties.                                                             *)

(* Every variable keeps to the shape its table or local variable has.      *)
TypeOK ==
    /\ rows \in [Peer -> [Key -> SUBSET Op]]
    /\ proj \in [Peer -> [Key -> Op \cup {NoRow}]]
    /\ revs \in [Peer -> SUBSET (Lock \X Did)]
    /\ judged \in [Peer -> SUBSET Op]
    /\ clock \in [Peer -> Nat]
    /\ auth \in [Peer -> Authorities]
    /\ now \in Nat
    /\ pc \in [Session -> {"idle", "prefetch", "begin", "tx", "receive", "exhausted"}]
    /\ sent \in [Session -> Nat]
    /\ active \in [Session -> Seq(Op)]
    /\ limit \in [Session -> Nat]
    /\ attempts \in [Session -> Nat]
    /\ retries \in [Session -> Nat]
    /\ expected \in [Session -> [Op -> SUBSET Lock]]
    /\ del \in [Session -> [Key -> SUBSET Op]]
    /\ ins \in [Session -> [Key -> SUBSET Op]]
    /\ projBuf \in [Session -> [Key -> Op \cup {NoRow, Keep}]]
    /\ revsBuf \in [Session -> SUBSET (Lock \X Did)]
    /\ judgedBuf \in [Session -> SUBSET Op]
    /\ verified \in [Session -> [Key -> SUBSET Op]]
    /\ listed \in [Session -> [Key -> SUBSET Op]]
    /\ checkedPrior \in [Session -> SUBSET Key]
    /\ pending \in [Session -> Seq(Op)]
    /\ parked \in [Session -> Seq(Op)]
    /\ applied \in [Session -> SUBSET Op]
    /\ stored \in [Session -> BOOLEAN]

(* The rows of a record always agree on one decision; otherwise decision() *)
(* throws VaultRecordRowError and the record can never be read again.      *)
OneDecision == \A p \in Peer, k \in Key : Readable(rows[p][k])

(* putCopy leaves at most one copy of a decision per signing key, whatever *)
(* copies arrive, in whatever order and over however many transactions.    *)
OneCopyPerSigner ==
    \A p \in Peer, k \in Key : \A a, b \in rows[p][k] :
        SignerOf[a] = SignerOf[b] => a = b

(* The keys a call consults: its candidates' and their dependencies'.      *)
Consulted(s) == UNION {{KeyOf[o]} \cup {d.key : d \in Deps[o]} : o \in Elems(active[s])}

(* "Writes made by this chunk update these snapshots in place": the cache  *)
(* a transaction judges by equals what the store would answer now, through *)
(* copies added, replaced and pruned, and while other sessions commit.     *)
CacheCoherent ==
    \A s \in Session : pc[s] = "tx" =>
        \A k \in Consulted(s) : verified[s][k] = View(s, k)

(* Of all the ops a peer ever merged into a record, none would win over a  *)
(* copy it holds: arrival order, duplicates and retries do not matter.     *)
WinnerIsGreatest ==
    \A p \in Peer : \A o \in judged[p] :
        /\ rows[p][KeyOf[o]] # {}
        /\ \A c \in rows[p][KeyOf[o]] : ~Wins(o, c)

(* Peers that merged the same ops of a record hold the same decision.      *)
Agreement ==
    \A p, q \in Peer, k \in Key :
        {o \in judged[p] : KeyOf[o] = k} = {o \in judged[q] : KeyOf[o] = k} =>
            {Digest[c] : c \in rows[p][k]} = {Digest[c] : c \in rows[q][k]}

(* A commit never drops a stored record or takes it back to an op the      *)
(* stored one wins over: two racing calls cannot undo each other.          *)
NeverRegresses ==
    [][\A p \in Peer, k \in Key : \A c \in rows[p][k] :
          /\ rows'[p][k] # {}
          /\ \A d \in rows'[p][k] : ~Wins(c, d)]_vars

(* The projection row of a record is the stored decision's, absent exactly *)
(* when that is a tombstone, a revocation, or a wrapping for a denied DID: *)
(* a revocation suppresses wrappings stored before and after it.           *)
ProjectionFaithful ==
    \A p \in Peer, k \in Key :
        IF rows[p][k] = {} \/ TypeOf[k] = "revocation" THEN proj[p][k] = NoRow
        ELSE \A c \in rows[p][k] :
               IF c \notin Live \/ revoked(c, revs[p])
               THEN proj[p][k] = NoRow
               ELSE proj[p][k] \in Op /\ Digest[proj[p][k]] = Digest[c]

(* Whatever a peer stores, it also stores what that depends on.            *)
DependenciesClosed ==
    \A p \in Peer, k \in Key : \A c \in rows[p][k] : \A d \in Deps[c] :
        rows[p][d.key] \cap d.by # {}

(* The attempt loop's bound (candidates + 5) is enough for every mix of    *)
(* content refusals and source changes: it never ends without an outcome.  *)
LoopNeverExhausted == \A s \in Session : pc[s] # "exhausted"

(* receiveClock never takes the local clock further than the drift bound   *)
(* ahead of the wall clock.                                                *)
ClockBounded == \A p \in Peer : clock[p] <= now + MaxDrift

(* Every call settles: no wait for a lock or for the single writer, and no *)
(* retry loop, goes on for ever.                                           *)
CallsSettle == \A s \in Session : pc[s] = "prefetch" ~> pc[s] = "idle"
=============================================================================
