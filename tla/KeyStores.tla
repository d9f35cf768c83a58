----------------------------- MODULE KeyStores ------------------------------
(***************************************************************************)
(* The key stores that implement token/src/keystore.ts: a keyring (node),  *)
(* an encrypted file (electron), IndexedDB (browser), the secure store of  *)
(* a device (expo) and derivation from a seed (hd).                        *)
(*                                                                         *)
(* Processes share the storage.  A call of an entry's method runs up to    *)
(* the next await in one step; an awaited read or write of the storage     *)
(* takes effect at one moment and its caller goes on at a later one.       *)
(* provideAsync calls of one entry run one after another, and those of a   *)
(* store opened with a lockPath hold that file lock.  Electron's methods   *)
(* are synchronous: only another process comes between the steps of one.   *)
(***************************************************************************)
EXTENDS Naturals, Sequences, FiniteSets

CONSTANTS
    Proc, KeyID, MaxCalls,
    Lock, NoLock,       \* lock paths, and a store opened without one
    World               \* see StoresAssumption

Call == 1..MaxCalls
NoCall == 0
NoKey == 0

(* A key as the storage holds it: base64 text, the same encrypted, or a    *)
(* key record, which may be one from before the Ed25519 migration.         *)
Form == {"base64", "encrypted", "record", "es256"}
Absent == [form |-> "none", key |-> NoKey]
Text == [form : Form, key : Nat \ {NoKey}] \cup {Absent}

Backend == {"node", "electron", "browser", "expo", "hd"}
Op == {"provide", "identity", "signing", "get", "set", "remove", "list", "provideSync"}
Ask == [lock : Lock \cup {NoLock}, crypto : {"noble", "other"}, insecure : {"unset", "no", "yes"}]

ASSUME StoresAssumption ==
    /\ NoLock \notin Lock /\ MaxCalls \in Nat
    /\ \A w \in World :
         /\ w.backend \in Backend /\ w.procs \subseteq Proc /\ w.ids \subseteq KeyID
         /\ w.backend = "expo" => \E p \in Proc : w.procs = {p}  \* a single app process
         /\ w.opens \subseteq Ask           \* how the store may be opened first
         /\ w.asks \subseteq Ask            \* how the callers open it
         /\ w.ops \subseteq Op              \* the calls made
         /\ w.stored \in [KeyID -> Text]    \* what the storage holds at first
         /\ w.path \in [KeyID -> Nat]       \* hd: the key a keyID derives to, NoKey when invalid
         /\ w.encrypts \in BOOLEAN          \* electron: is encryption available?
         /\ w.faults \in Nat                \* bound on failures and crashes

VARIABLES
    world,
    keyring,    \* the storage: key ID -> text
    store,      \* process -> the cached store, Unopened or Broken
    entry,      \* process -> key ID -> [known, key, encoded], the cached entry
    chain,      \* process -> key ID -> the calls behind its #provideLock
    holder,     \* lock path -> the call that holds the file lock
    call,
    minted,     \* keys generated so far
    faults,
    served      \* history: key ID -> the keys provideAsync resolved to since the last other write

vars == <<world, keyring, store, entry, chain, holder, call, minted, faults, served>>

Unopened == [state |-> "none", lock |-> NoLock, crypto |-> "noble", insecure |-> "unset"]
Broken == [Unopened EXCEPT !.state = "broken"]
NoEntry == [known |-> FALSE, key |-> NoKey, encoded |-> Absent]
Blank == [k \in KeyID |-> Absent]

Idle == [op |-> "none", proc |-> "none", id |-> "none", pc |-> "idle",
         inside |-> FALSE, got |-> Blank, put |-> Absent, quiet |-> TRUE, fresh |-> TRUE,
         ret |-> NoKey]

Init ==
    /\ world \in World
    /\ keyring = world.stored
    /\ store = [p \in Proc |-> Unopened]
    /\ entry = [p \in Proc |-> [k \in KeyID |-> NoEntry]]
    /\ chain = [p \in Proc |-> [k \in KeyID |-> <<>>]]
    /\ holder = [l \in Lock |-> NoCall]
    /\ call = [c \in Call |-> Idle]
    /\ minted = 0 /\ faults = 0
    /\ served = [k \in KeyID |-> {}]

-----------------------------------------------------------------------------
Is(backend) == world.backend = backend

Active(c) == call[c].pc \notin {"idle", "done", "failed"}

(* The process is inside one of electron's synchronous bodies.             *)
Busy(p) ==
    /\ Is("electron")
    /\ \E c \in Call : call[c].proc = p /\ call[c].pc \in {"reading", "copying", "copied"}

encryptKey(key) == [form |-> "encrypted", key |-> key]
generateKeyRecord(key) == [form |-> "record", key |-> key]
isLegacyES256Record(text) == text.form = "es256"

(* A new key as the backend stores it.                                     *)
encode(key) ==
    IF Is("electron") THEN encryptKey(key)
    ELSE IF Is("browser") THEN generateKeyRecord(key)
    ELSE [form |-> "base64", key |-> key]

(* Mutant: a removal leaves the decoded key in the entry.                  *)
CachedOnce(p, k, key) ==
    IF (Is("node") \/ Is("electron")) /\ key # NoKey THEN [entry EXCEPT ![p][k].key = key] ELSE entry

(* Node and electron keep the decoded key in the entry.                    *)
Cached(p, k, key) ==
    IF Is("node") \/ Is("electron") THEN [entry EXCEPT ![p][k].key = key] ELSE entry

-----------------------------------------------------------------------------
(* open: one store per process, as whoever opens it first asks.            *)
Open(p, ask) ==
    /\ store[p] = Unopened
    /\ store' = [store EXCEPT ![p] = [state |-> "open", lock |-> ask.lock, crypto |-> ask.crypto,
                                       insecure |-> IF ask.insecure = "yes" THEN "yes" ELSE "no"]]
    /\ UNCHANGED <<world, keyring, entry, chain, holder, call, minted, faults, served>>

(* IndexedDB failed to open; the rejected promise is what later callers    *)
(* of open are given.                                                      *)
OpenFails(p) ==
    /\ Is("browser") /\ store[p] = Unopened /\ faults < world.faults
    /\ store' = [store EXCEPT ![p] = Broken]
    /\ faults' = faults + 1
    /\ UNCHANGED <<world, keyring, entry, chain, holder, call, minted, served>>

(* open throws: the cached store is not the one asked for.                 *)
conflictsNode(cached, ask) ==
    \/ ask.lock # NoLock /\ ask.lock # cached.lock
    \/ ask.crypto # cached.crypto

conflictsElectron(cached, ask) ==
    \/ ask.insecure # "unset" /\ ask.insecure # cached.insecure
    \/ ask.lock # NoLock /\ ask.lock # cached.lock
    \/ ask.crypto # cached.crypto

conflictsExpo(cached, ask) == ask.crypto # cached.crypto

conflicts(p, ask) ==
    \/ Is("node") /\ conflictsNode(store[p], ask)
    \/ Is("electron") /\ conflictsElectron(store[p], ask)
    \/ Is("expo") /\ conflictsExpo(store[p], ask)

(* The next call: process p, with a store opened as asked, calls op.       *)
Begins(c, p, op) ==
    /\ call[c].pc = "idle" /\ \A d \in 1..(c - 1) : call[d].pc # "idle"
    /\ op \in world.ops /\ store[p] # Unopened /\ ~Busy(p)
    /\ UNCHANGED <<world, store, holder, faults>>

(* Every call of one key ID that overlaps another is no longer quiet.      *)
Starting(c, p, op, k, with) ==
    [d \in Call |->
        IF d = c THEN [with EXCEPT !.op = op, !.id = k,
                                   !.proc = IF with.pc \in {"done", "failed"} THEN @ ELSE p,
                                   !.quiet = \A e \in Call : ~(Active(e) /\ call[e].id = k)]
        ELSE IF Active(d) /\ call[d].id = k THEN [call[d] EXCEPT !.quiet = FALSE] ELSE call[d]]

At(pc) == [Idle EXCEPT !.pc = pc]
Writing(pc, text) == [Idle EXCEPT !.pc = pc, !.put = text]
Returning(op, key) == [Idle EXCEPT !.pc = "done", !.ret = IF op = "get" THEN key ELSE NoKey]

(* entry(k), created on its first use.                                     *)
Touch(p, k) == [entry EXCEPT ![p][k].known = TRUE]

Refused(c, p, op, k, ask) ==
    /\ Begins(c, p, op)
    /\ store[p] = Broken \/ conflicts(p, ask)
    /\ call' = Starting(c, p, op, k, At("failed"))
    /\ UNCHANGED <<keyring, entry, chain, minted, served>>

Granted(c, p, op, ask) ==
    /\ Begins(c, p, op)
    /\ store[p] # Broken /\ ~conflicts(p, ask)

-----------------------------------------------------------------------------
(* Reads.  provideIdentity begins with getAsync, except in the browser.    *)

(* NodeKeyEntry: the key it keeps, or the snapshot a list left in it.      *)
known(e) == IF e.key # NoKey THEN e.key ELSE e.encoded.key

recall(e) == IF e.key # NoKey THEN e ELSE [e EXCEPT !.key = e.encoded.key, !.encoded = Absent]

BeginGetNode(c, p, op, k, ask) ==
    /\ Is("node") /\ op \in {"get", "identity"} /\ Granted(c, p, op, ask)
    /\ entry' = [Touch(p, k) EXCEPT ![p][k] = recall(@)]
    /\ call' = Starting(c, p, op, k, IF known(entry[p][k]) # NoKey
                                     THEN Returning(op, known(entry[p][k])) ELSE At("reading"))
    /\ UNCHANGED <<keyring, chain, minted, served>>

(* ElectronKeyEntry reads at once.                                         *)
BeginGetElectron(c, p, op, k, ask) ==
    /\ Is("electron") /\ op \in {"get", "identity"} /\ Granted(c, p, op, ask)
    /\ LET e == entry[p][k]
           key == IF e.key # NoKey THEN e.key ELSE keyring[k].key
       IN  /\ entry' = [Touch(p, k) EXCEPT ![p][k].key = key]
           /\ IF key # NoKey \/ op = "get"
              THEN call' = Starting(c, p, op, k, Returning(op, key)) /\ UNCHANGED chain
              ELSE /\ call' = Starting(c, p, op, k, At("queued"))
                   /\ chain' = [chain EXCEPT ![p][k] = Append(@, c)]
    /\ UNCHANGED <<keyring, minted, served>>

(* Browser and expo keep nothing.                                          *)
BeginGetBrowser(c, p, op, k, ask) ==
    /\ Is("browser") /\ op = "get" /\ Granted(c, p, op, ask)
    /\ call' = Starting(c, p, op, k, At("reading"))
    /\ entry' = Touch(p, k)
    /\ UNCHANGED <<keyring, chain, minted, served>>

BeginGetExpo(c, p, op, k, ask) ==
    /\ Is("expo") /\ op \in {"get", "identity"} /\ Granted(c, p, op, ask)
    /\ call' = Starting(c, p, op, k, At("reading"))
    /\ entry' = Touch(p, k)
    /\ UNCHANGED <<keyring, chain, minted, served>>

(* NodeKeyStore.listAsync; the key ID only marks the call.                 *)
BeginList(c, p, op, k, ask) ==
    /\ op = "list" /\ Is("node") /\ Granted(c, p, op, ask)
    /\ call' = Starting(c, p, op, k, At("reading"))
    /\ UNCHANGED <<keyring, entry, chain, minted, served>>

(* resolveDerivationPath: a keyID is an index or a path, or is refused.    *)
resolveDerivationPath(k) == world.path[k]

(* HDKeyEntry: the key is derived once and kept.                           *)
derive(e, k) == IF e.key # NoKey THEN e.key ELSE resolveDerivationPath(k)

Derive(c, p, op, k, ask) ==
    /\ Is("hd") /\ op \in {"get", "provide", "identity"} /\ Granted(c, p, op, ask)
    /\ LET key == derive(entry[p][k], k)
       IN  IF key = NoKey
           THEN call' = Starting(c, p, op, k, At("failed")) /\ UNCHANGED <<entry, served>>
           ELSE /\ call' = Starting(c, p, op, k, Returning(op, key))
                /\ entry' = [Touch(p, k) EXCEPT ![p][k].key = key]
                /\ served' = [served EXCEPT ![k] = @ \cup {key}]
    /\ UNCHANGED <<keyring, chain, minted>>

-----------------------------------------------------------------------------
(* Writes other than provideAsync's.  A derived key cannot be written.     *)

(* #assertEncryptionAvailable                                              *)
mayPersist(p) ==
    Is("electron") => world.encrypts \/ store[p].insecure = "yes"

BeginSet(c, p, op, k, ask) ==
    /\ op = "set" /\ ~Is("electron") /\ ~Is("hd") /\ Granted(c, p, op, ask)
    /\ call' = Starting(c, p, op, k, Writing("writing", encode(minted + 1)))
    /\ minted' = minted + 1
    /\ entry' = Touch(p, k)
    /\ UNCHANGED <<keyring, chain, served>>

BeginSetElectron(c, p, op, k, ask) ==
    /\ op = "set" /\ Is("electron") /\ Granted(c, p, op, ask)
    /\ call' = Starting(c, p, op, k, IF mayPersist(p) THEN Writing("copying", encode(minted + 1))
                                     ELSE At("failed"))
    /\ minted' = minted + 1
    /\ entry' = Touch(p, k)
    /\ UNCHANGED <<keyring, chain, served>>

(* removeAsync; expo's remove() does the same and nobody awaits it.        *)
BeginRemove(c, p, op, k, ask) ==
    /\ op = "remove" /\ ~Is("electron") /\ ~Is("hd") /\ Granted(c, p, op, ask)
    /\ call' = Starting(c, p, op, k, Writing("writing", Absent))
    /\ entry' = Touch(p, k)
    /\ UNCHANGED <<keyring, chain, minted, served>>

BeginRemoveElectron(c, p, op, k, ask) ==
    /\ op = "remove" /\ Is("electron") /\ Granted(c, p, op, ask)
    /\ call' = Starting(c, p, op, k, Writing("copying", Absent))
    /\ entry' = Touch(p, k)
    /\ UNCHANGED <<keyring, chain, minted, served>>

(* Writers other than provideAsync do not take its locks, and electron's   *)
(* write back every key ID.                                                *)
Foreign(c) == call[c].op \in {"set", "remove"}

Rewritten(c) ==
    IF ~Foreign(c) THEN {} ELSE IF Is("electron") THEN KeyID ELSE {call[c].id}

(* The calls after call c wrote: those on a key ID it rewrote are not      *)
(* fresh.                                                                  *)
Stale(c) ==
    [d \in Call |-> IF d # c /\ Active(d) /\ call[d].id \in Rewritten(c)
                    THEN [call[d] EXCEPT !.fresh = FALSE] ELSE call[d]]

Kept(c) == [k \in KeyID |-> IF k \in Rewritten(c) THEN {} ELSE served[k]]

(* provide(): one synchronous body that takes no lock.  It finds a key, or *)
(* generates one and sets it.                                              *)
SyncFound(c, p, k, key) ==
    /\ call' = Starting(c, p, "provideSync", k, Returning("provideSync", key))
    /\ UNCHANGED <<keyring, minted, served>>

SyncGenerates(c, p, k) ==
    /\ call' = [d \in Call |->
         LET now == Starting(c, p, "provideSync", k, Returning("provideSync", NoKey))[d]
         IN  IF d # c /\ Active(d) /\ now.id = k THEN [now EXCEPT !.fresh = FALSE] ELSE now]
    /\ keyring' = [keyring EXCEPT ![k] = encode(minted + 1)]
    /\ minted' = minted + 1
    /\ served' = [served EXCEPT ![k] = {}]

SyncRefused(c, p, k) ==
    /\ call' = Starting(c, p, "provideSync", k, At("failed"))
    /\ UNCHANGED <<keyring, minted, served>>

(* Node and electron refuse where a lock was asked for.                    *)
ProvideSyncNode(c, p, op, k, ask) ==
    /\ Is("node") /\ op = "provideSync" /\ Granted(c, p, op, ask)
    /\ LET e == recall(Touch(p, k)[p][k])
           key == IF e.key # NoKey THEN e.key ELSE keyring[k].key
       IN  IF store[p].lock # NoLock THEN SyncRefused(c, p, k) /\ entry' = Touch(p, k)
           ELSE IF key # NoKey
           THEN SyncFound(c, p, k, key) /\ entry' = [entry EXCEPT ![p][k] = [e EXCEPT !.key = key]]
           ELSE SyncGenerates(c, p, k) /\ entry' = [entry EXCEPT ![p][k] = [e EXCEPT !.key = minted + 1]]
    /\ UNCHANGED chain

ProvideSyncElectron(c, p, op, k, ask) ==
    /\ Is("electron") /\ op = "provideSync" /\ Granted(c, p, op, ask)
    /\ LET at(key) == [Touch(p, k) EXCEPT ![p][k].key = key]
       IN  IF store[p].lock # NoLock THEN SyncRefused(c, p, k) /\ entry' = Touch(p, k)
           ELSE IF keyring[k] = Absent /\ ~mayPersist(p) THEN SyncRefused(c, p, k) /\ entry' = at(NoKey)
           ELSE IF keyring[k] # Absent
           THEN SyncFound(c, p, k, keyring[k].key) /\ entry' = at(keyring[k].key)
           ELSE SyncGenerates(c, p, k) /\ entry' = at(minted + 1)
    /\ UNCHANGED chain

ProvideSyncExpo(c, p, op, k, ask) ==
    /\ Is("expo") /\ op = "provideSync" /\ Granted(c, p, op, ask)
    /\ IF keyring[k] # Absent THEN SyncFound(c, p, k, keyring[k].key) ELSE SyncGenerates(c, p, k)
    /\ entry' = Touch(p, k)
    /\ UNCHANGED chain

-----------------------------------------------------------------------------
(* provideAsync: its turn behind #provideLock, then the lock file.         *)

BeginProvide(c, p, op, k, ask) ==
    /\ ~Is("browser") /\ ~Is("hd") /\ op = "provide" /\ Granted(c, p, op, ask)
    /\ call' = Starting(c, p, op, k, At("queued"))
    /\ chain' = [chain EXCEPT ![p][k] = Append(@, c)]
    /\ entry' = Touch(p, k)
    /\ UNCHANGED <<keyring, minted, served>>

(* The browser takes no lock and generates a key first; both of its        *)
(* identities are provided so.                                             *)
BeginProvideBrowser(c, p, op, k, ask) ==
    /\ Is("browser") /\ op \in {"provide", "identity", "signing"} /\ Granted(c, p, op, ask)
    /\ call' = Starting(c, p, op, k, At("minting"))
    /\ entry' = Touch(p, k)
    /\ UNCHANGED <<keyring, chain, minted, served>>

(* Only the call whose turn has come settles.                              *)
IsHead(line, c) == line # <<>> /\ Head(line) = c

(* Mutant: a rejected provide keeps its place.                             *)
LeaveResolved(c, pc) ==
    /\ chain' = IF pc = "failed" THEN chain ELSE
                [chain EXCEPT ![call[c].proc][call[c].id] = IF IsHead(@, c) THEN Tail(@) ELSE @]
    /\ holder' = [l \in Lock |-> IF holder[l] = c THEN NoCall ELSE holder[l]]

(* The call gives up its place behind #provideLock and the file lock,      *)
(* whether it resolved or rejected.                                        *)
Leave(c, pc) ==
    /\ chain' = [chain EXCEPT ![call[c].proc][call[c].id] = IF IsHead(@, c) THEN Tail(@) ELSE @]
    /\ holder' = [l \in Lock |-> IF holder[l] = c THEN NoCall ELSE holder[l]]

(* What is kept of a call that ended: what a get returned.                 *)
Ended(c, pc, key) ==
    [Idle EXCEPT !.pc = pc, !.op = call[c].op, !.id = call[c].id, !.quiet = call[c].quiet,
                 !.ret = IF call[c].op = "get" THEN key ELSE NoKey]

Fail(c) ==
    /\ Leave(c, "failed")
    /\ call' = [call EXCEPT ![c] = Ended(c, "failed", NoKey)]

(* provideAsync resolves to key.                                           *)
Provide(c, key) ==
    /\ Leave(c, "done")
    /\ call' = [call EXCEPT ![c] = Ended(c, "done", key)]
    /\ served' = IF call[c].fresh THEN [served EXCEPT ![call[c].id] = @ \cup {key}] ELSE served

(* #provideUnlocked forgets what the entry knows, a list's snapshot too.   *)
dropCache(e) == [e EXCEPT !.key = NoKey, !.encoded = Absent]

(* The call is alone with the entry, and with the lock file if there is    *)
(* one: #provideUnlocked begins.  Its getAsync answers from the entry, if  *)
(* the entry still knows a key.                                            *)
Enters(c) ==
    LET e == dropCache(entry[call[c].proc][call[c].id])
    IN  /\ entry' = [entry EXCEPT ![call[c].proc][call[c].id] = e]
        /\ call' = [call EXCEPT ![c].inside = TRUE,
                       ![c].pc = IF known(e) = NoKey THEN "reading" ELSE "read",
                       ![c].got[call[c].id] = IF known(e) = NoKey THEN @ ELSE encode(known(e))]
        /\ UNCHANGED <<world, keyring, store, chain, minted, faults, served>>

LockPath(c) == store[call[c].proc].lock

(* Its turn behind #provideLock has come.                                  *)
Turn(c) ==
    /\ call[c].pc = "queued" /\ IsHead(chain[call[c].proc][call[c].id], c)
    /\ ~Busy(call[c].proc)

Enter(c) ==
    /\ Turn(c) /\ LockPath(c) = NoLock
    /\ Enters(c)
    /\ UNCHANGED holder

Await(c) ==
    /\ Turn(c) /\ LockPath(c) # NoLock
    /\ call' = [call EXCEPT ![c].pc = "waiting"]
    /\ UNCHANGED <<world, keyring, store, entry, chain, holder, minted, faults, served>>

(* withFileLock: one holder of a lock file in all processes; a caller that *)
(* waits too long is rejected.                                             *)
Acquire(c) ==
    /\ call[c].pc = "waiting" /\ ~Busy(call[c].proc)
    /\ holder[LockPath(c)] = NoCall
    /\ holder' = [holder EXCEPT ![LockPath(c)] = c]
    /\ Enters(c)

(* Mutant: a caller that waited too long goes on without the lock.         *)
TimeoutProceeds(c) ==
    /\ call[c].pc = "waiting" /\ ~Busy(call[c].proc) /\ holder[LockPath(c)] # NoCall
    /\ Enters(c)
    /\ UNCHANGED holder

Timeout(c) ==
    /\ call[c].pc = "waiting" /\ ~Busy(call[c].proc) /\ holder[LockPath(c)] # NoCall
    /\ Fail(c)
    /\ UNCHANGED <<world, keyring, store, entry, minted, faults, served>>

-----------------------------------------------------------------------------
(* The storage answers a read: one key, or all of them for a list.         *)
Read(c) ==
    /\ ~Is("electron") /\ call[c].pc = "reading"
    /\ call' = [call EXCEPT ![c].pc = "read",
                   ![c].got = [k \in KeyID |-> IF k = call[c].id \/ call[c].op = "list"
                                               THEN keyring[k] ELSE Absent]]
    /\ UNCHANGED <<world, keyring, store, entry, chain, holder, minted, faults, served>>

Answered(c) == call[c].got[call[c].id]

(* getAsync goes on: an entry of node's keeps what was read.               *)
GetGoesOn(c) ==
    /\ call[c].pc = "read" /\ ~call[c].inside
    /\ call[c].op = "get" \/ (call[c].op = "identity" /\ Answered(c) # Absent)
    /\ call' = [call EXCEPT ![c] = Ended(c, "done", Answered(c).key)]
    /\ entry' = IF Answered(c) = Absent THEN entry
                ELSE Cached(call[c].proc, call[c].id, Answered(c).key)
    /\ UNCHANGED <<world, keyring, store, chain, holder, minted, faults, served>>

(* provideIdentity found no key, and calls provideAsync.                   *)
IdentityGoesOn(c) ==
    /\ call[c].pc = "read" /\ ~call[c].inside /\ call[c].op = "identity" /\ Answered(c) = Absent
    /\ call' = [call EXCEPT ![c].pc = "queued"]
    /\ chain' = [chain EXCEPT ![call[c].proc][call[c].id] = Append(@, c)]
    /\ UNCHANGED <<world, keyring, store, entry, holder, minted, faults, served>>

(* #toEntry: an entry that exists keeps what it has.                       *)
ListGoesOn(c) ==
    /\ call[c].pc = "read" /\ call[c].op = "list"
    /\ entry' = [entry EXCEPT ![call[c].proc] = [k \in KeyID |->
                    IF @[k].known \/ call[c].got[k] = Absent THEN @[k]
                    ELSE [known |-> TRUE, key |-> NoKey, encoded |-> call[c].got[k]]]]
    /\ call' = [call EXCEPT ![c] = Ended(c, "done", NoKey)]
    /\ UNCHANGED <<world, keyring, store, chain, holder, minted, faults, served>>

(* provideAsync goes on: the stored key, or a new one to be written.       *)
Found(c) ==
    /\ call[c].pc = "read" /\ call[c].inside /\ Answered(c) # Absent
    /\ entry' = Cached(call[c].proc, call[c].id, Answered(c).key)
    /\ Provide(c, Answered(c).key)
    /\ UNCHANGED <<world, keyring, store, minted, faults>>

Generates(c) ==
    /\ minted' = minted + 1
    /\ call' = [call EXCEPT ![c].pc = "writing", ![c].put = encode(minted + 1), ![c].got = Blank]
    /\ UNCHANGED <<world, keyring, store, entry, chain, holder, faults, served>>

GenerateNode(c) ==
    /\ Is("node") /\ call[c].pc = "read" /\ call[c].inside /\ Answered(c) = Absent
    /\ Generates(c)

(* Expo awaits the random bytes; the browser starts with them.             *)
AwaitRandom(c) ==
    /\ Is("expo") /\ call[c].pc = "read" /\ call[c].inside /\ Answered(c) = Absent
    /\ call' = [call EXCEPT ![c].pc = "minting", ![c].got = Blank]
    /\ UNCHANGED <<world, keyring, store, entry, chain, holder, minted, faults, served>>

Generate(c) == call[c].pc = "minting" /\ Generates(c)

(* Electron reads the map and, when the key is absent, goes on to set().   *)
Body(c) ==
    /\ Is("electron") /\ call[c].pc = "reading"
    /\ LET p == call[c].proc
           k == call[c].id
       IN  IF keyring[k] # Absent
           THEN /\ Provide(c, keyring[k].key)
                /\ entry' = Cached(p, k, keyring[k].key)
                /\ UNCHANGED minted
           ELSE /\ IF mayPersist(p)
                   THEN /\ call' = [call EXCEPT ![c].pc = "copying", ![c].put = encode(minted + 1)]
                        /\ UNCHANGED <<chain, holder>>
                   ELSE Fail(c)
                /\ minted' = minted + 1
                /\ UNCHANGED <<entry, served>>
    /\ UNCHANGED <<world, keyring, store, faults>>

(* set and remove: getKeys, and later setKeys of the changed copy.         *)
Copy(c) ==
    /\ call[c].pc = "copying"
    /\ call' = [call EXCEPT ![c].pc = "copied", ![c].got = keyring]
    /\ UNCHANGED <<world, keyring, store, entry, chain, holder, minted, faults, served>>

Put(c) ==
    /\ call[c].pc = "copied"
    /\ keyring' = [call[c].got EXCEPT ![call[c].id] = call[c].put]
    /\ entry' = Cached(call[c].proc, call[c].id, call[c].put.key)
    /\ IF Foreign(c)
       THEN /\ call' = [Stale(c) EXCEPT ![c] = Ended(c, "done", NoKey)]
            /\ served' = Kept(c)
            /\ UNCHANGED <<chain, holder>>
       ELSE Provide(c, call[c].put.key)
    /\ UNCHANGED <<world, store, minted, faults>>

(* The storage carries out a write or a deletion.                          *)
Writes(c, text) ==
    /\ keyring' = [keyring EXCEPT ![call[c].id] = text]
    /\ call' = [Stale(c) EXCEPT ![c].pc = "written", ![c].put = text]
    /\ served' = Kept(c)
    /\ UNCHANGED <<world, store, entry, chain, holder, minted, faults>>

Write(c) ==
    /\ call[c].pc = "writing" /\ (Is("browser") => Foreign(c))
    /\ Writes(c, call[c].put)

(* Mutant: a new key replaces a record of the old suite.                   *)
winsFresh(stored) == stored # Absent /\ ~isLegacyES256Record(stored)

(* In the browser a stored record always wins over the generated one.      *)
wins(stored) == stored # Absent

(* The transaction of the browser's provideAsync reads and writes.         *)
Transact(c) ==
    /\ call[c].pc = "writing" /\ Is("browser") /\ ~Foreign(c)
    /\ Writes(c, IF wins(keyring[call[c].id]) THEN keyring[call[c].id] ELSE call[c].put)

(* setAsync and removeAsync go on: the entry keeps the key, or none.       *)
WriteGoesOn(c) ==
    /\ call[c].pc = "written" /\ Foreign(c)
    /\ entry' = Cached(call[c].proc, call[c].id, call[c].put.key)
    /\ call' = [call EXCEPT ![c] = Ended(c, "done", NoKey)]
    /\ UNCHANGED <<world, keyring, store, chain, holder, minted, faults, served>>

(* provideAsync goes on.                                                   *)
Provided(c) ==
    /\ call[c].pc = "written" /\ ~Foreign(c) /\ ~(call[c].op = "identity" /\ isLegacyES256Record(call[c].put))
    /\ entry' = Cached(call[c].proc, call[c].id, call[c].put.key)
    /\ Provide(c, call[c].put.key)
    /\ UNCHANGED <<world, keyring, store, minted, faults>>

(* The browser's provideIdentity refuses a legacy record, which            *)
(* provideSigningIdentity accepts.                                         *)
RefuseLegacy(c) ==
    /\ call[c].pc = "written" /\ call[c].op = "identity" /\ isLegacyES256Record(call[c].put)
    /\ Fail(c)
    /\ UNCHANGED <<world, keyring, store, entry, minted, faults, served>>

-----------------------------------------------------------------------------
(* The storage, or the generation of a key, rejects.                       *)
StorageFails(c) ==
    /\ call[c].pc \in {"reading", "minting", "writing"} /\ ~Is("electron")
    /\ faults < world.faults /\ faults' = faults + 1
    /\ Fail(c)
    /\ UNCHANGED <<world, keyring, store, entry, minted, served>>

(* A process ends; its lock file is recovered as a stale one.              *)
Crash(p) ==
    /\ store[p] # Unopened /\ faults < world.faults /\ faults' = faults + 1
    /\ store' = [store EXCEPT ![p] = Unopened]
    /\ entry' = [entry EXCEPT ![p] = [k \in KeyID |-> NoEntry]]
    /\ chain' = [chain EXCEPT ![p] = [k \in KeyID |-> <<>>]]
    /\ holder' = [l \in Lock |-> IF \E c \in Call : holder[l] = c /\ call[c].proc = p
                                 THEN NoCall ELSE holder[l]]
    /\ call' = [c \in Call |-> IF Active(c) /\ call[c].proc = p
                               THEN Ended(c, "failed", NoKey) ELSE call[c]]
    /\ UNCHANGED <<world, keyring, minted, served>>

(* A method is called.                                                     *)
Begin(c, p, op, k, ask) ==
    \/ Refused(c, p, op, k, ask)
    \/ BeginGetNode(c, p, op, k, ask) \/ BeginGetElectron(c, p, op, k, ask)
    \/ BeginGetBrowser(c, p, op, k, ask) \/ BeginGetExpo(c, p, op, k, ask)
    \/ BeginList(c, p, op, k, ask) \/ Derive(c, p, op, k, ask)
    \/ BeginSet(c, p, op, k, ask) \/ BeginSetElectron(c, p, op, k, ask)
    \/ BeginRemove(c, p, op, k, ask) \/ BeginRemoveElectron(c, p, op, k, ask)
    \/ ProvideSyncNode(c, p, op, k, ask) \/ ProvideSyncElectron(c, p, op, k, ask)
    \/ ProvideSyncExpo(c, p, op, k, ask)
    \/ BeginProvide(c, p, op, k, ask) \/ BeginProvideBrowser(c, p, op, k, ask)

(* A step of a call under way.                                             *)
Step(c) ==
    \/ Enter(c) \/ Await(c) \/ Acquire(c) \/ Timeout(c)
    \/ Read(c) \/ GetGoesOn(c) \/ IdentityGoesOn(c) \/ ListGoesOn(c) \/ Found(c)
    \/ GenerateNode(c) \/ AwaitRandom(c) \/ Generate(c)
    \/ Body(c) \/ Copy(c) \/ Put(c)
    \/ Write(c) \/ Transact(c) \/ WriteGoesOn(c) \/ Provided(c) \/ RefuseLegacy(c)

Next ==
    \/ \E p \in world.procs : OpenFails(p) \/ Crash(p) \/ \E ask \in world.opens : Open(p, ask)
    \/ \E c \in Call, p \in world.procs, op \in Op, k \in world.ids, ask \in world.asks :
         Begin(c, p, op, k, ask)
    \/ \E c \in Call : Step(c) \/ StorageFails(c)

Spec == Init /\ [][Next]_vars

(* Promises settle, and a wait for the lock file is bounded.               *)
FairSpec == Spec /\ \A c \in Call : WF_vars(Step(c))

-----------------------------------------------------------------------------
(* The variables keep their types; a call behind an entry's #provideLock   *)
(* is one that has not ended, and a lock file is held by a call that runs  *)
(* inside it.                                                              *)
TypeOK ==
    /\ world \in World
    /\ keyring \in [KeyID -> Text]
    /\ store \in [Proc -> [state : {"none", "open", "broken"}, lock : Lock \cup {NoLock},
                         crypto : {"noble", "other"}, insecure : {"unset", "no", "yes"}]]
    /\ entry \in [Proc -> [KeyID -> [known : BOOLEAN, key : Nat, encoded : Text]]]
    /\ minted \in Nat /\ faults \in 0..world.faults
    /\ served \in [KeyID -> SUBSET Nat]
    /\ \A p \in Proc, k \in KeyID : \A i \in DOMAIN chain[p][k] :
         LET c == chain[p][k][i]
         IN  /\ Active(c) /\ call[c].proc = p /\ call[c].id = k
             /\ \A j \in DOMAIN chain[p][k] : chain[p][k][j] = c => i = j
    /\ \A l \in Lock : holder[l] # NoCall => call[holder[l]].inside

OneProcess == \E p \in Proc : world.procs = {p}

(* Calls that all asked for one lock path.                                 *)
OneLock(l) == \A ask \in world.asks : ask.lock = l

(* The callers are within what the contract promises: one process, a       *)
(* browser, or calls that all asked for one lock path.                     *)
Guarded == Is("browser") \/ OneProcess \/ \E l \in Lock : OneLock(l)

(* keystore.ts: "Two concurrent calls on one keyID resolve to the same     *)
(* key. Never two keys; never a key that is generated, returned to a       *)
(* caller, and then overwritten by a racer": the keys provideAsync         *)
(* resolved to with no other writer at work are one, and it is stored.     *)
OneKey ==
    Guarded => \A k \in KeyID :
        /\ Cardinality(served[k]) <= 1
        /\ ~Is("hd") => served[k] \subseteq {keyring[k].key}

(* A key that is there is never replaced by one provideAsync generated,    *)
(* a legacy record included ("NEVER silently re-keyed"), unless another    *)
(* writer worked on the key ID while the call ran.                         *)
ProvideKeeps ==
    [][Guarded => \A k \in KeyID : keyring[k] # Absent /\ keyring'[k] # keyring[k] =>
         \E c \in Call : /\ call[c].pc \in {"writing", "copied"} /\ call'[c].pc # call[c].pc
                         /\ Foreign(c) \/ ~call[c].fresh]_vars

(* One call at a time, whatever failed before, an entry is a cell: a get   *)
(* answers with what is stored, null after a removal and the key after a   *)
(* set.  NodeKeyStore.list() leaves a snapshot that outlives a removal.    *)
QuietReads ==
    [][\A c \in Call :
         /\ call[c].pc # "done" /\ call'[c].pc = "done" /\ call'[c].op = "get"
         /\ Is("browser") \/ OneProcess
         /\ ~Is("hd")
         /\ \A d \in Call : call'[d].quiet /\ call'[d].op # "list"
         => call'[c].ret = keyring'[call'[c].id].key]_vars

(* Every call ends, also behind one that was rejected, behind a lock file  *)
(* whose holder crashed, and after a storage failure.                      *)
CallsEnd == \A c \in Call : Active(c) ~> ~Active(c)
=============================================================================
