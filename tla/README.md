# Kokuin in TLA+

TLA+ specifications of the stateful parts of Kokuin, TLC configurations that
check them on small instances, and TLAPS proofs of the properties that matter
most. `PROJECT.json` maps every definition to the lines it models and lists the
runs, the mutants, the hazards and the theorems.

## 1. The system

Kokuin is a TypeScript monorepo of identity and key-management libraries. Its
parts, the state each keeps, and what makes each one right:

| Part | Packages | State | Operations | What must hold |
|---|---|---|---|---|
| Records | `records` | a store of signed ops per record, a clock, a reconciliation pass | `applyRecordChunk`, `advanceRecordPull`, `answerRecordPull` | one decision per record, the same on every peer; a pass neither loses nor repeats a record |
| Vault record store | `store-vault` (records-*), `vault` (record-types) | rows, projections, denied DIDs | putCopy, pruneCopy, transaction, lock, project | rows agree; projections follow rows; a revocation suppresses wrappings in either order |
| Controller | `controller`, `store-controller` | a DID's key log, membership events of its epoch, the log remembered per DID | fold, resolve, merge, `foldEpochDetailed` | same events, same members; no rollback; forks refused; a denial is not forgotten |
| Vault | `vault`, `store-vault` (coordinator-*) | vault keys, versions, wrappings, entries, key cache, PIN throttle | open, unlock, lock, put, update, move, rotate, grant, rewrap | no interleaving strands an entry or brings an excluded reader back; a lock holds against opens under way |
| Delegations | `capability`, `store-delegation` | delegation tokens, revocation records | check a chain, add, remove, revoke, settle, purge | a chain never widens; a revoked link stays revoked; junk records refuse nothing |
| Tokens | `token`, `jwe` | identities, DID cache, verified memo, verified objects, groups of signatures | create, sign, verify, resolve | what is accepted was signed as it stands by its issuer, whatever is reused; good tokens are not called bad |
| OAuth | `oauth` | pending authorizations | begin, exchange | each state is used once, before it expires |
| Key stores | `node`, `browser`, `electron`, `expo`, `deterministic`, `ledger-device` | keys by name, cached keys, chains of calls, lock files | open, provide, get, set, remove, list | two racing provides return one key, and no key that is there is replaced |
| Cryptography | `crypto*`, `jwe`, `crates`, `apps/ledger` | none | primitives and bindings | not a state-machine question |

How they interact. A consumer hands records from a transport to
`applyRecordChunk`, which calls the store through one transaction and the vault's
record types through hooks (precheck, authorize, merge, project). The vault
coordinator writes through the same store. `authorize` asks a delegation chain
and a controller's folded membership; the chain check reads revocations from the
delegation store and verifies each link with `verifyToken`, whose issuers are
resolved through a controller resolver or from the DID itself. Identities sign with
keys a key store provides. A controller resolver loads a log, folds
it, and merges what it settled into a `LogStore`, whose SQL form is
`store-controller`. Range reconciliation only says which records to fetch;
fetched records go to `applyRecordChunk` like any other.

What is hard here: calls that read before they lock (apply, the coordinator), opens and
verifications that finish after what they rely on has changed (the key cache, the
verified memo, cached keys), processes that share a key store, two database engines with
different isolation (SQLite one writer, Postgres read committed), records that arrive in
any order, twice or by way of a peer that does not follow the code, loops with a bound
that must be enough, folds whose result must not depend on the order of presentation,
and stores that must never go back.

## 2. Modules

| Module | Models | Extends |
|---|---|---|
| `RecordPolicy` | `records/policy.ts`: lww, monotonic and immutable comparison, first writes | |
| `RecordApply` | `applyRecordChunk` over the vault record store and types | `RecordPolicy` |
| `RecordPull` | `range.ts` and `reconcile.ts`: one pull pass over a transport | |
| `RecordApplyProofs`, `RecordPullProofs`, `ControllerProofs`, `VaultSessionProofs`, `VaultEntriesProofs`, `DelegationsProofs`, `KeyStoresProofs`, `TokensProofs` | theorems | the module they are named for; `ControllerProofs`: `ControllerHistory` and `EpochFold` |
| `MCRows`, `MCTable`, `MCApply*`, `MCPull` | instances | |
| `EpochRules` | `controller/epoch.ts`, `members.ts`: the rules of an epoch, and which events apply, said without an order | |
| `EpochFold` | `foldEpochDetailed`: the fold itself, and what is remembered between two | `EpochRules` |
| `ControllerLog` | `fold.ts`, `supersede.ts`, `log.ts`, `history.ts`: chains, branches, logs (operators) | `EpochRules` |
| `ControllerBranches` | `resolveBranches` for a party that collects chains | `ControllerLog` |
| `ControllerHistory` | `resolver.ts`, `fold-memo.ts`, `store-controller/api.ts`: resolvers over log stores | `ControllerLog` |
| `VaultSession` | `coordinator-open.ts`, `key-cache.ts`, `pin-throttle.ts`: opening one vault key | |
| `VaultEntries` | `coordinator*.ts` over `store-vault/api.ts`: keys, wrappings and entries | |
| `VaultText` | what the vault promises about the texts it keeps; `VaultEntries` implements it | |
| `Capability` | `capability/patterns.ts`, `time.ts`: grants and times (operators) | |
| `Delegations` | `capability/delegation.ts`, `revocation.ts`, `member.ts` over `store-delegation` | `Capability` |
| `KeyStores` | the five key stores | |
| `TokenIdentity` | `token/identity.ts`, `peer4.ts`, `jwe`: identities, documents, DIDs (operators) | |
| `Tokens` | `token/token.ts`, `did.ts`, `verifier.ts`, `verified-memo.ts`, `cache.ts` | `TokenIdentity` |
| `MCEpoch`, `MCLog`, `MCHistory`, `MCSession`, `MCEntries`, `MCDelegations`, `MCKeyStores`, `MCTokens` | instances | |

### RecordPolicy

Ops are numbers in opHash order. A stamp is a number, a version a tuple (empty
when absent), a digest a number: the code compares all three and uses nothing
else of them. `DigestAssumption` says that ops with one digest agree in record,
stamp and version, which is what the digest hashes. (With a string `version` an
lww digest leaves out the stamp; no vault type does this.)

### RecordApply

A *session* is a caller on one peer's database that makes one call of
`applyRecordChunk` at a time. One action per phase of the call:

| Action | Code |
|---|---|
| `Submit` | screening, precheck, dependency sort |
| `Prefetch` | the unlocked read that computes the locks |
| `Begin` / `SourceChanged` | open the transaction, lock, read again; retry when the lock set moved |
| `Replay`, `Park`, `Deny`, ... | the branches of `applyCandidate`, with the store writes each makes |
| `NextPass`, `Commit`, `Refuse`, `Fault` | end of a pass, commit, rollback on a refused candidate, rollback on an error |
| `EndCall` | `receiveClock` over what was stored |
| `ChangeAuthority`, `Tick` | the consumer's policy changes, time passes |

`rows`, `proj` and `revs` are the committed tables; `del`, `ins`, `projBuf` and
`revsBuf` a transaction's own writes; `verified` and `listed` the chunk cache.
`judged` is a history variable: what was merged. `SingleWriter` chooses between
SQLite and Postgres; under Postgres only the vault-key locks keep transactions
apart, and each read sees what has been committed by then.

Abstractions: signatures, prechecks, refusals and payload checks are sets of ops;
the lock acquisition, the second read and its prefetch are one step; the type
hooks' side effects are those of the five vault types.

### RecordPull

Positions stand for ids in string order, a fingerprint is the set it hashes, a
leaf has a grade (its place in the policy's order) and signers. `steps` and
`inbox` are the two directions of a transport that may reorder, duplicate and,
in the person of a responder of other code, invent messages. Stores change while
a pass runs.

### EpochRules and EpochFold

Events are numbers in the order of their digests. Each has a kind, a signer
(root or an incarnation, the digest of an add), parents, and what it adds,
renews, removes or denies. A copy is an event under one list of signatures, with
its place in signature order and the number of failing signatures it costs;
`Genuine` is the set of copies that verify.

`EpochRules` holds the lattice of epoch states, `ruleAllows` and `effect` (the switch of
`evaluate`), and a reference, `Applies`, that judges every event against all its
ancestors. `EpochFold` is the code's algorithm: `Triage` collects the candidates,
`Apply` and `Reject` evaluate the smallest ready event against the join of its parents'
states, which are dropped when the last child has read them; `Exhaust` is the limit on
failing signatures, `Throw` a failing provider, `Finish` the return, with
`appliedCopies` choosing what to remember.

### ControllerLog, ControllerBranches and ControllerHistory

A chain event's digest covers the history behind it, so whether a rotate or reset
verifies is a matter of the event (`Sound`). `Ignorable` events have an unknown
type and say `crit: false`. `foldChain` keeps the spine, the events that moved the
state, and counts what it skipped. `resolveBranches`, `authoritativeLog`,
`pruneLog` and `mergeLogs` are operators; `ControllerHistory` uses them with the
epoch's answer from `EpochRules`, which `epoch_fold` shows to be the code's.

A *flight* in `ControllerHistory` is one resolution:

| Action | Code |
|---|---|
| `LoadServed`, `LoadForwarded`, `Get` and `LoadMerged` | `loadLog` answered: a relay's log, another party's pruned one, or one its caller merged |
| `Read` | the flight's turn in `keyLock`; the row is read |
| `Recall`, `Settle`, `Refuse` | `memoizedAuthoritativeLog`: hit, miss, refusal |
| `Write`, `ReadRaced` | upsert; a first insert that lost is repeated on the row that won |
| `InsertUnlocked` | a writer that does not hold this process' lock |
| `Fail`, `Restart` | rollback; the process ends and the memo with it |

`ControllerBranches` runs in the same instance as `ControllerHistory`, as a world of
its own.

### VaultSession

One vault key, in replicated mode. A call is one `openKey`, `unlock` or `status`:

| Action | Code |
|---|---|
| `Begin`, `PassGate` | the throttle is asked, the generation taken; input-free opens queue behind the one in flight |
| `ReadKey`, `ReadBranch` | the reads of `doOpen`: key and revocation, then the winning branch |
| `Probe`, `Hit` | the key cache |
| `ListWrappings`, `Unwrap` | the wrappings are read and tried; the cache is filled if the generation still holds |
| `Lock`, `LockAll`, `Rotate`, `Rewrap`, `DeleteKey`, `Commit` | evictions; mutations commit first and evict after |
| `SyncKey`, `SyncBranch`, `SyncRevocation` | records stored by synchronisation, which tell the cache nothing |
| `Tick` | time, for the cache and the throttle |

A content key is the pair of version and branch it belongs to; `locks` counts
evictions so that `LocksHold` can say from which side of one a cached key comes.

### VaultEntries and VaultText

Local mode, one owner, two keys, two entries. A call observes what it needs outside
any lock (`Look`, `Observe`), takes its locks and reads again (`Enter*`), opens
content keys (`Open*`) and writes (`Commit*`); `Fail` rolls back. A move names two
keys and takes their locks one after the other: with the first it may wait for the
second (`Wait`). hozon takes them in the order of their advisory IDs
(`docs/reference/vault.md:292`), `LockRank` here; that order is why `CallsEnd` holds
when two moves name the same keys the other way round, and the mutant
`FirstLockNamed` takes it away. A row carries the
key and version it names and, apart from them, the content key it was really
sealed under, so a stale write shows as a row that is not `Authentic`. Texts and
stamps are named after the call that writes them. `VaultText` knows of texts only:
an entry's text is the last one written, and none comes back. `TextKept` states
that `VaultEntries`, seen through decryption, implements it.

### Capability and Delegations

A pattern is the sequence of its components. `Delegations` walks one chain at a
time, link by link, with a step for every await: the signature (`VerifyLink`), the
revocation row (`ReadRevocation`, `JudgeRecord`), the audiences (`AskAudience`), the
member root (`AskMember`, `AskMemberAudience`). Between them revocations arrive
(`addRevocation`), are settled when their capability comes
(`markRevocationVerified`, `deletePendingRevocationsFromOtherIssuers`) or purged,
tokens are added and removed, and the subject's log rotates, denies and changes
members. A frozen resolver answers from the log of its first question. DIDs have
spellings, `Canon` gives the canonical one. `Denotes` gives patterns a meaning, as
sets of concrete paths, that the code does not use: `AcceptedAuthorized` compares
`hasPermission` with it.

`RevocationOutlives` speaks of the capabilities whose revocation is *in force*.
`inForce` is a history variable: a capability enters when the store takes a genuine
record for it into a row that `Outlasts` it, and leaves when a step of the store
takes that row from it. `binding` are those in force ever since the check began. What
makes the store lose a revocation is part of the model, since
`addRevocation` verifies nothing (`store-delegation/api.ts:394`) and a `jti` may be used by
several issuers (`:346`) or by one issuer twice:

- a later stamped record of the same row replaces it, signed or not, and is not
  genuine or does not outlast the capability;
- its row, while pending, is settled with another capability of the issuer under that `jti`
  that expires sooner, and is purged by that expiry;
- its row, while pending, is discarded because a capability of another issuer under that
  `jti` is settled (`:560`).

Capabilities past the limits of `store-delegation/api.ts:96` to `:112` (lifetime, issue
time) are not outlasted by a pending row. Nothing else loses one: neither the purges,
nor settling with the right capability, nor rotation, denial, or the spelling of a DID.

### KeyStores

One module for the five stores, since they implement one contract
(`token/keystore.ts`); a world picks the backend, the processes, how the store is
opened and which calls are made. A method runs to its next await in one step
(`Begin*`, `ProvideSync*`); `Enter`, `Await`, `Acquire` and `Timeout` are the chain of
`provideAsync` calls and the file lock; `Read`, `Generate*`, `Copy`, `Put`, `Write`,
`Transact` touch the storage; `Fail` and `Crash` are a failing storage and a process
that ends, with its lock left behind. A generated key is a number never used
before. `provideIdentitySync` is left out. Expo is one
process (`StoresAssumption`; `expo/src/entry.ts`: "Expo runs a single app process").

### TokenIdentity and Tokens

Signatures are ideal: one is its key and the text it signs. The text is a set of
claims in one of several serializations. A `did:peer:4` in its short form carries
the hash of a document, in its long form any document beside it. `Tokens` is one
verifying process: a `verifyToken` call parses (`Begin`), resolves its issuer
(resolver, DID cache or the DID itself), joins a group of signatures that the crypto
provider answers as a whole, and writes the cache. What is kept between calls is the
verified objects with their policy, the memo of signatures, the decoded long forms
and the cached documents, each with its bound. Holders write to objects they were
given and present them again, the issuer's log rotates, resolvers fail or lie,
providers fail.

## 3. Runs

| Run | Instance | Checks |
|---|---|---|
| `apply_moves` | Postgres, two sessions, two chunks each: an entry moved between two vault keys, re-signed copies, a refused op, an op whose dependency never comes, changing authority, faults | one decision, greatest winner, loop bound |
| `apply_revocation` | Postgres: a key, a wrapping, its revocation and replacement, entries of two key versions, clock drift, fair | projections, dependencies, every call ends |
| `apply_replicas` | two peers, all ties of all policies, damaged, forged and unversioned ops | agreement |
| `apply_first_write` | Postgres: two first writes of one entry under two vault keys | *violated*: see section 6 |
| `pull` | three kinds of environment: forged and reordered messages, a responder of this code with reordering and changing stores, an ordered transport with two types (fair) | nothing drops out of a pass and all is pulled at its end, a pass completes |
| `epoch_fold` | 15 events, 2 presentations of small or almost complete sets of copies | the fold is sound (agrees with the reference, memory refolds to it, one live incarnation), refusals exact, nothing forgotten |
| `history` | two resolvers at one store with an unlocked insert and restarts, or one at each of two stores forwarding to each other, 3 loads (fair); and 3 of 18 chains in any order | stores forwardable, forks real, winner by the rules whatever the order, no rollback of log or epoch, answers stand, every resolution ends |
| `vault_session` | plans of two or three calls on one key with 2 branches and 2 versions, up to 2 events (fair) | locks hold, what is served is fresh (no revoked principal, the winning branch), PINs are paced, every open ends |
| `vault_entries` | all pairs and many triples of entry, key and rotation calls from 8 initial vaults (fair) | entries stay readable and reads are answered, a rotation takes (it completes and the excluded stay out), no stale write, `VaultText` implemented, every call ends, also when two moves need the same two locks |
| `delegations` | chains of up to 4 links in 7 groups: genuine revocations, what makes the store lose them, capabilities past the limits, junk, shapes, members, tokens | accepted means authorized in one view of the log, a revocation in force outlives settling, replacement and purging, refusals have a cause, tokens accounted for |
| `key_stores` | 10 worlds, two processes, three calls, faults and crashes (fair) | one key, a stored key is kept, quiet reads, every call ends |
| `tokens` | 7 worlds: a peer identity and its imitators, objects of a rotating issuer, policies, times and malformed tokens, groups, providers, 504 identity specs (fair) | what is accepted is genuine and, if strict, by a key that was current when asked, refusals earned, what memo and cache keep was earned and is bounded, agreement meets, every verification ends |

Bounds. Two sessions are enough for every pair of conflicting transactions, and
one chunk after another per session lets a call meet what an earlier one left.
Chunks have up to three ops, so that one candidate can be parked, another refused
and a third stored in one transaction. `SourceAttempts` is 2 instead of 5, which
makes the loop's bound tighter, not looser. `RANGE_SPLIT` and the leaf threshold
are 2 and 1 (16 and 16 in the code) so that three positions need two levels of
splitting. `MaxNow`, `MaxChunks`, `MaxChanges` and `MaxFaults` bound the
environment only.

Controller runs: `MAX_EPOCH_EVENTS` is 5 in `epoch_fold` and 2 elsewhere, and
`MAX_FAILED_SIGNATURES` 2 and 1, so that an epoch saturates and a presentation is
refused within the instance; `MAX_SKIPPED_SLACK` 0 lets a padded chain use up its
budget; `FOLD_MEMO_SIZE` 1 makes the memo evict; `MAX_LOG_EVENTS` 5 is passed by one
log. `MaxPresentations`, `MaxChains` and `MaxLoads` bound the environment: three
chains are the least with a group that shrinks before it conflicts, two
resolutions the least that race, a third meets what they left.

Vault runs: two versions are enough for a cached key to be of the wrong one, two
branches for a fork; three versions let a rotation start from an older source after
another. Three calls are a waiter behind a waiter, and a third writer for the pairs
that can lose an update. Calls are given as plans, sets of small questions, instead
of all triples, which would not finish.

Delegation runs: `TTL`, `Drift`, `Grace`, `Tolerance`, `Lag` are 2, 1, 3, 1, 1 with
`Grace >= Drift + Tolerance + Lag` as `TimesAssumption` says, the relation the code's
defaults keep; `MaxNow` 7 passes every purge boundary. Among the capabilities are one
whose `jti` another issuer reuses, one that expires sooner under the same `jti`, and two
past the limits of lifetime and issue time, so that each way of losing a revocation
happens. `MaxDepth` 3 (4 in the code) is passed by one chain. Token runs: memo sizes 1
and 2 make every cache evict; three calls are two that race and one that meets what they
left. Key-store runs: two processes and three calls, so that a lock holder, a waiter and
a third caller meet.

Fairness. `RecordApply` assumes weak fairness of each session's own next step: a promise
settles, and lock queues are first-in first-out. Faults, new calls, authority changes
and the clock are not fair. `RecordPull` assumes the caller goes on sending what
`advanceRecordPull` returns and handing over what arrives. `ControllerHistory` assumes
weak fairness of each resolution's own step past its load; it is spelt out with
`CanResolve`, the enabling condition of `Resolve`. `VaultSession`, `VaultEntries`,
`KeyStores` and `Tokens` assume weak fairness of each call's own next step: a promise
settles, a lock is released when its holder ends (a lock file of a crashed process by
the timeout of those who wait). New calls, other parties, failures, crashes and the
clock are not fair. `Delegations` states safety only. Deadlock checking is on for
`RecordPull` and `Delegations`. It is off elsewhere, where a behaviour ends once the
sessions have spent their chunks or calls or the bound on presentations, chains or loads
is reached.

What is proved and not also run: `TypeOK` of `RecordApply`, `RecordPull`, `VaultEntries` and
`ControllerHistory`, `FoldTypeOK` of `EpochFold`,
`OneCopyPerSigner`, `CacheCoherent`, `NeverRegresses`, `ClockBounded`,
`PendingDisjoint`, `RequestedOnce` (section 4). Each module keeps its `TypeOK`.

Every property of a passing run has a mutant in `PROJECT.json`, a small change
of one mapped definition under which TLC finds that property violated. A definition that
several backends share (`Open`, `conflicts` of `KeyStores`) is mapped to one of them.

## 4. Proofs

`RecordApplyProofs`, of `RecordPolicy`: over the ops of one record, `Wins` is irreflexive,
transitive and, among what a first write would admit, total. The argument goes
through a characterization of each policy as a lexicographic order.

Of `RecordApply`: `CallInv` is inductive for every instance: `TypeOK`, a bound
that ties `attempts` to the candidates left and the retries used, and the
screening of what is active. It gives `TypeOK`, `LoopNeverExhausted` (the loop's
measure, refusals shrink `active`, source changes use up `SourceAttempts`) and
`ClockBounded`.

The stored records, in the same module: assuming `SingleWriter`, `StoreInv` is
inductive. It adds that at most one session per peer is in a transaction (`Alone`), that
every peer's rows agree, hold one copy per signer and are beaten by nothing judged
(`PeerSound`), and the same of a running transaction's view together with the equality
of cache and view (`TxSound`). `WinnerIsGreatest` alone is not inductive: a commit
publishes what the transaction's view held, so the invariant must speak of the view, and
judging relies on the cache, so it must tie the cache to the view. Transitivity of
`Wins` carries the invariant through a replacement. `TablesInv` adds what stands beside
the copies, for every peer's committed tables and for the view of every running
transaction: all that was merged is intact and ranked (the policy can order it, or it
decides as a seeded copy does), the projections are those of the copies (`Whole`), and
every copy has its dependencies (`Closed`). `ProjectionFaithful` needs the digest to
cover the fields a projection is made of (`ClaimAssumption`; `recordClaimDigest` hashes
the whole claim). `Agreement` follows from it: two peers' copies are both greatest among
the same ops, and of two ranked decisions one wins. `DependenciesClosed` has the
hypothesis `DependenciesLast`: what satisfies a dependency gives way only to what
satisfies it too. Key versions only grow (`keyAtLeast`), and the coordinator names a
branch by the digest of its payload (`coordinator-context.ts:607`), so a branch is
replaced by copies of itself; every instance satisfies it, and section 7 says what rests
on the coordinator there.

`RecordPullProofs`: `PassInv` (types, disjointness, single requests, and that no
requested id lies in a pending range) is inductive against any transport and any
responder. `Pulled` needs the responder to be of this code (`Honest`) and `PullInv`:
every response under way is truthful about each key nobody has touched, every such key
is covered (held, asked for, or in a pending range), and one asked for is held,
requested or in a response under way. It holds through the splitting of ranges, lost and
repeated messages, and changes on either side. `ControllerProofs`: `HistoryInv` is
inductive for any relays, stores, flights, chains and copies. The properties say nothing
of a flight between its steps, so `HistoryInv` does: only the first of a store's queue
is in its turn, so that what it read is still held when it writes, unless it read
nothing (`Knowing`); what it will write and what the memo keeps are settlements of just
the two logs they are filed under (`Settles`); what is held folds, with one copy per
event, closed under parents and permitted by its causal past (`Held`); and a store's
last answer tells of what it holds (`Telling`). TLC checked it on the instance of
`history`. Two facts about operators carry the rest. `HeldStays`: a fold that trusts
such a set applies all of it and remembers it, or saturates; `Applies` is characterized
as a fixpoint above every closed set it permits, since the least event outside it would
have to apply. `AuthorityDecides`: `resolveBranches` of two chains answers for the
second only if it is of a higher generation or goes through the first's head, and finds
a fork exactly when their lines differ at one place. It holds because a generation's
line counts its places without a gap, and two lines that agree at one place agree before
it (`LinesAgree`): an event names the one before. `AnswersStand`, `NoRollback`,
`ForksAreReal` and `TypeOK` follow. `StoresForwardable` needs one more invariant
(`ModestInv`): what is held of an epoch verified and is at most one copy past its limit.
Then a verifier that has seen nothing applies and remembers all of it, at no failed
signature; and what pruning keeps of a spine is itself a spine (`CutSpined`: the first
reset it keeps chains to the inception by what a reset is), which folds to itself
(`SpineItself`).

`WinnerByRules` is about any number of chains. `byHead` keeps one branch of each valid
head (`OnePerHead`), so the contestants' lines end apart from each other
(`ContestRivals`) and are the spines the rules speak of (`ContestLines`). A round of
`resolveContenders` either changes nothing, because every line goes on past the place
where the group first disagrees and two of them differ there, or drops only lines that
all others extend (`NarrowOnce`); since it then leaves fewer, as many rounds as there
are contenders end with one or with a group that parts (`ResolveMany`). One: every line
is below it, and lines below one line are comparable. A group that parts: its events at
the first differing place have one number, one generation and one event before them
(`PartedFork`).

Of the epoch's fold, in the same module, `FoldInv` is inductive for any graph of events,
any copies and any presentations. `FoldSound` speaks of the moment nothing is ready;
`FoldInv` says how the fold gets there. A candidate counts down the parents that have
not applied (`Awaits`). The state after an event is held exactly while a child of it is
still to be evaluated, and is the head of all that came before it (`StatesHeld`), so
what a child joins from its parents is the head of its own past (`PastFromParents`,
`JoinOfHeads`): judged by that, an event passes exactly when the reference applies it
(`JudgedRight`), and the ready event of smallest digest is the one the reference counts
next (`InOrder`, `NextInTurn`), which is why a saturated epoch is remembered as the same
first events. When nothing is ready, a right event that had not applied would have one
of least height, whose parents all had, and which would be ready (`AllApplied`).
`NothingForgotten` follows through `Answered`, which ties the last answer to what is
remembered, and `HeldStays`. `RefusedExactly` needs `Counted`: the failures counted are
the sum over the evaluated events of what each is charged, a sum that does not depend on
the order it is taken in (`SumsExist`, `SumsGrow`), so it passes the limit on the way
exactly if the whole would. `EpochAssumption` says what these proofs need: an event's
parents are a list, and a snapshot that names one key twice is refused
(`members.ts:196`), else two founders could be live under one key; `FoldAssumption`,
that a presentation is a list.


`VaultSessionProofs`: `SessionInv` is inductive for any calls, versions, branches and
plans. `LocksHold` alone is not: a call under way may still warm the cache, so
`GenerationsTell` says that the generation it took is the present one only if nothing
was evicted since. `ServedFresh` needs `Stopped`: a call that began after the revocation
never gets past the read of the key, because a revocation is never taken back.
`PinsPaced` needs `PacedInv`: the throttle holds as many failures as there are wrong
guesses since the last right one, and a call that passed it had waited for all of those
answered before it began. The record shapes (`Fields`, `Tables`) take the place of a
type invariant; that a finite set of branches has a greatest one is an induction, so
`TypeOK` stays with TLC.

`VaultEntriesProofs`: `Inv` relates the tables (each row's version, and the present
version of each stored key, opens unless we were excluded; who was excluded holds no
wrapping) and says what a call that holds its locks may rely on: what it read and opened
under them is still so when it writes, since no two calls hold one lock; a call that
waits for its second lock relies on nothing yet. `StaysReadable` alone is not inductive:
a commit writes what was opened earlier, and a rotation re-wraps for those it listed
earlier. From `Inv` follow `RotationTakes`, the action property `NoStaleWrite`, and
`TextKept`, the refinement of `VaultText`: initial texts map to initial texts, and every
step to a write of one text or a stutter. `Version` has no bound. `StartAssumption` says
the vault begins as the coordinator leaves it; `KeyIDsAreRandom` that a created key's
ID, a hash of 16 random bytes, was not used before.

`DelegationsProofs`: `hasPermission` is transitive for patterns over any components
(`PermissionTransitive`). `checkCapability` compares each link with its parent only;
with this the request lies in what the root grants, and the comparison of whole patterns
(`isMatch`) adds nothing to that by components. `CheckInv` carries what a check under
way has established of the links it has passed and which view of the log supports it;
the acceptance alone says nothing of the earlier links. `StoreInv` (tokens) keeps a
slot's one active row ahead of those that were superseded. `RevInv` (revocations) says
that the row of every capability in force is there, genuine and outlasts it, or that the
capability is past every check's tolerance (`Forced`): settling, replacing and purging
keep it so or take the capability out of `inForce`. Of a check under way it says that
the links it has passed are not in `binding`, and that the row it holds of one that is
refuses it (`Cleared`); `binding` only shrinks until the next check. `CauseInv` traces
each row, and the row a check holds between reading and judging it, to a record that
arrived under its key, filed if genuine (`Origin`), and ties the keys and members a
check began with to the log of now (`Loads`); for a chain that was minted, each refusing
guard then names a cause (`RefusalHasCause`). `Minted` signs each link under its
issuer's own keys and ends at the first root, and every disjunct of `Cause` is reached
by some refusal. `TimesAssumption` is the contract of `store-delegation/src/api.ts:85`:
the grace covers the drift, the tolerance and the time a check takes. The limits of
`:96` to `:112`, a bounded lifetime and an issue time within the drift, are no
assumption: `Outlasts` asks them of each capability. `ArrivalsAssumption` and
`SettlesAssumption` give types only; any record may be filed under any row, and issuers
may share a `jti`.

`KeyStoresProofs`: `KeyInv` is inductive for any worlds, processes, key IDs and calls.
`OneKey` says nothing of the calls under way, so `KeyInv` does: `Ordered` places each
call and ties it to the head of its entry's chain and to its lock file, whence at most
one call is inside per key ID, and per store in electron, whose writes concern every key
ID (`Exclusive`); `Informed` says that what a call read or found missing is still so
when it answers or writes, unless a `set` or `remove`, which take no lock, came between,
after which nothing has been served (`Overtaken`). A crash gives up all that its process
held. `ProvideKeeps` follows. Both are claimed under `Guarded` only: one process, a
browser, or one lock path that all calls ask for. Two node processes without one do
generate two keys, as `node/src/store.ts` says they may. `QuietReads` needs `QuietInv`
beside `KeyInv`: while no call has overlapped another of its key ID or listed, one call
per key ID is under way (`Lone`), it holds what is stored (`Holds`), and an entry knows
what is stored, until a `set` or `remove` that has written goes on (`Recalls`). A call
that overlapped another is never quiet again, so a quiet step comes from a quiet state.

`TokensProofs`: `IInv` is inductive for any tokens, worlds and cache sizes. It says of
each await what the call has in hand: a resolved key is one its issuer authorizes, a
place in a group is that of the call's own signature, an answer of the group is the
truth about it. Whatever outlives a call has a witness: an object that was verified has
a call that verified it under that policy (`ObjectWitnessed`), a remembered signature is
true (`MemoSound`), a cached document was signed for (`DocsEarned`). `AcceptedGenuine`,
`RefusalsEarned` and `KeptEarned` follow. `AgreementsMeet` compares, for any list of
keys, the first agreement key of a document with the first an identity can use.

Induction over data is out of reach, but a set of numbers that is not empty has a
least element (`Least`, from the library's theorem on well-founded orders, which takes
no operator): the loops over key lists, messages and chains are reasoned about by a
least counterexample. That the throttle's 2^n is a number follows from its counting the
subsets of 1..n.

Assumptions are the named ASSUMEs of the specifications, evaluated by TLC on
every instance. Besides those explained above they give constants their types
(`PolicyAssumption`, `ApplyAssumption`, `PullAssumption`, `TokensAssumption`,
`ClaimsAssumption`, `RequestsAssumption`...), say what a digest covers
(`DigestAssumption`) and keep `None` apart from data (`NoneIsNoRow`, `NoneIsNoView`).

Only model-checked: the safety properties of `RecordApply` under Postgres' vault-key
locks, where they hold only for entries that exist already (section 6), and liveness
(`CallsSettle`, `PullCompletes`, `ResolutionsSettle`, `CallsEnd`, `VerifiesEnd`), which
is out of the prover's reach.

## 5. Not modelled

- A caller's own transaction around `applyRecordChunk` (`isTransaction`),
  local-mode rows (`VaultModeConflict`), stored copies whose signature stops
  verifying, the reporting of refused replays.
- Fingerprint collisions, visibility filters and holder proofs.
- A responder with a leaf threshold above `RANGE_LEAF_THRESHOLD`
  (`PullAssumption`); a reordering transport can stall a pass, so completion is
  stated for an ordered one.
- Encodings, cryptography, migrations, device I/O, the OAuth client.
- Controller: callers that join a resolution in flight, `markObserved`,
  a stored log damaged outside the code, a host's own transaction, `epochHeads`;
  construction and encoding of events.
- Vault: records written by coordinator calls in replicated mode (their merge is
  `RecordApply`), authorization hooks, factor derivation, listing filters.
- Vault locks: the replicated mode takes more key locks inside a transaction that holds
  some (`store-vault/records.ts:292`); neither these nor their order are modelled, and
  `CallsEnd` says nothing of them.
- Delegations: device policies, diagnostic listings.
- Key stores: `provideIdentitySync`, the platform storages themselves. Electron's
  synchronous provide (`electron/entry.ts:111`) reads and writes its map in one step,
  though another process may come between. A storage call fails before it has an effect;
  one that takes effect and then rejects is left out.
- Tokens: schemas, multibase and canonical JSON; ES256 points. Of the time claims `exp`
  alone is judged, at the present time: `nbf` and `atTime` (`token/time.ts:44`) are left
  out, as are the refusal to sign a payload that names another issuer
  (`token/identity.ts:149`) and the normalisation of the audience that picks an
  identity's form (`identity.ts:470`).
- OAuth client: a pending authorization that is used once; all else is requests
  and parsing.

## 6. Findings

`lockKeys` locks the vault key of the incoming op and of the stored copies. For
the first write of a record there are no stored copies, so two calls that store
the first two ops of one `vault.entry` id, made under different vault keys, lock
different keys; on Postgres both find the record absent, both insert, and the
record is left with rows of two decisions, which no later read accepts. The run
`apply_first_write` shows it; `docs/reference/records.md:76` and
`store-vault/README.md:23` say otherwise. SQLite is not affected.

`preferred` (`supersede.ts:105`) keeps the shorter of two chains that fold to one head,
and of two of equal length the one with the smaller last digest. The comment above it
calls this a total order. Two chains that reach one head over different skipped or
superseded events may have the same length and the same last event; then the first to
arrive is kept. The head, the state and the fork report do not depend on it
(`WinnerByRules` gives them without an order); the chain handed back does. It was seen
in an earlier run of `ControllerBranches` and no run keeps it, since nothing that is
stored or answered depends on the difference.

`NodeKeyEntry.removeAsync` (`node/src/entry.ts:163`) leaves the text that
`NodeKeyStore.list()` put into the entry, so a `getAsync` after it answers with
the removed key. `keystore-conformance/src/index.ts:192` expects the key to be
absent; its cases never list before they remove. The model does as the code does,
and `QuietReads` leaves histories with a list out.

## 7. Hazards that no property covers

Seen while modelling; the models do as the code does, or leave the part out.

- Records: `splitRange` takes any leaf threshold while a requester refuses lists
  above its own (`range.ts:202`); a reordered split makes `advanceRecordPull` throw
  for what is no longer pending (`reconcile.ts:154`, completion is stated for an
  ordered transport); `recordClaimDigest` leaves the stamp out when the version is a
  string (`record.ts:67`); `authorizeBranch` checks everything of a branch but its
  id (`record-types.ts:339`), so a branch under the id of another would replace it and
  leave records that name the first without what they depend on.
- Vault: PIN guesses that start together all pass the throttle before one has failed
  (`coordinator-open.ts:192`); `PinsPaced` speaks of the attempts that start after.
- Delegations: a record that names a key its issuer's log denies is honoured without a
  signature check (`revocation.ts:208`, deliberate in its comment); a newer pending
  record sets a verified row back to pending (`store-delegation/api.ts:430`), which the
  checker reads all the same; removal is by `jti` alone (`:383`); two issuers may share
  a `jti`, so that settling a capability of one discards the other's pending revocation
  (`:560`), and a later stamped record that nobody signed replaces a genuine one
  (`:430`). The last two are in the model: `RevocationOutlives` names them as the ways
  to lose a revocation.
- Key stores: a `getAsync` that resumes after a removal caches the key it read before
  (`node/entry.ts:83`), and see section 6 for `:163`; electron writes the whole map of
  keys back, so processes under different lock paths erase each other's
  (`electron/entry.ts:74`); expo's synchronous provide is outside the chain of
  `provideAsync` calls (`expo/entry.ts:51`), and its synchronous remove may finish after
  a later call has begun (`:79`: a get or a provide may still answer with the key;
  `QuietReads` speaks of calls that overlap none); a browser store remembers a failed
  open (`browser/store.ts:42`).
- Tokens: an object verified strictly before a rotation is accepted by the fast path
  after it (`token.ts:424`), so `AcceptedGenuine` says of a strict caller that the key
  was current in this call or in an earlier one that asked the same; a `did:key` made
  of an X25519 key is published under the Ed25519 codec (`identity.ts:560`,
  `AgreementMeets` leaves it out); the long form counts as sent before the token is
  signed, so a failed signature leaves the audience without it (`identity.ts:473`).

## 8. Plan

1. Composition of pull and apply: peers that go on pulling converge. Leaf order
   strings against the policy order; `rankTypes` against a topological order.
2. Holder proofs and visibility filters of records; the records a coordinator
   writes in replicated mode; pending authorizations of the OAuth client.
