---------------------------- MODULE VaultEntries ----------------------------
(***************************************************************************)
(* The vault coordinator in local mode over the store of store-vault:      *)
(* keys, wrappings and entries of one owner, and the calls that create,    *)
(* write, move, refresh, delete and read entries while keys are rotated,   *)
(* granted, re-wrapped, retired and deleted.                               *)
(*                                                                         *)
(* A call observes what it needs outside any lock, takes the locks of the  *)
(* keys it names, reads again, opens content keys and writes, each an      *)
(* await of its own; a transaction's writes appear together when it        *)
(* commits.  A content key is the pair <<key, version>>.  A text, and the  *)
(* stamp of a row, are named after the call that writes them.              *)
(***************************************************************************)
EXTENDS Naturals, FiniteSets

CONSTANTS
    Key, Entry,
    Call,           \* calls made to the coordinator, each used once
    Recipient,      \* principals a key can be wrapped for
    Self,           \* the coordinator's own principal
    Plan,           \* what the calls ask for: functions from Call to Ask
    Start,          \* the databases a behaviour can begin with
    LockRank,       \* the order in which withKeyLocks takes locks
    Old,            \* the text and the stamp of the rows at the beginning
    None

ASSUME VaultConstants ==
    /\ Self \in Recipient
    /\ Old \notin Call /\ None \notin Call \cup Key \cup Entry /\ None # Old

ASSUME LocksAreOrdered ==
    /\ LockRank \in [Key -> Nat]
    /\ \A k, j \in Key : LockRank[k] = LockRank[j] => k = j

VARIABLES
    plan,       \* what this behaviour's calls ask for
    keys,       \* vault_keys: version and state, or None
    wraps,      \* vault_wrappings
    rows,       \* vault_entries, or None
    call,       \* the calls
    gone,       \* history: recipients excluded and not granted again, by key
    skipped,    \* history: entries the last rotation was told to skip, by key
    past        \* history: the texts that were ever stored

vars == <<plan, keys, wraps, rows, call, gone, skipped, past>>
database == <<plan, keys, wraps, rows, gone, skipped, past>>

Stamp == Call \cup {Old}
Version == Nat \ {0}
Direct == {"put", "create", "rotate", "grant", "rewrap", "setState",
           "deleteKey"}
Conditional == {"updateIf", "refresh"}
Op == Direct \cup Conditional \cup {"update", "delete", "reKey", "read"}

\* What a call asks for.  re: the reissue instruction for each entry, from
\* is the sourceVersion of a rotation, 0 if it names none.
Ask == [op : Op, e : Entry, k : Key, from : Nat, to : Recipient,
        out : SUBSET Recipient, trust : BOOLEAN, pin : BOOLEAN,
        re : [Entry -> {"none", "preserve", "skip", "delete", "replace"}]]
ASSUME PlanAssumption == Plan \subseteq [Call -> Ask \cup {None}]

Idle == [pc |-> "idle", seen |-> None, obs |-> None, held |-> {},
         row |-> None, ver |-> 0, list |-> None, open |-> 0, out |-> "none"]

KeyRow == [ver : Version, state : {"active", "retired"}]
EntryRow == [key : Key, ver : Version, hlc : Stamp,
             seal : Key \X Version, text : Stamp]

ASSUME NoneIsNoRow == None \notin KeyRow \cup EntryRow

(***************************************************************************)
(* A behaviour begins with a vault that the coordinator left: each stored  *)
(* key wrapped for it, each entry sealed under the version its key has.    *)
(***************************************************************************)
ASSUME StartAssumption ==
    \A s \in Start :
        /\ s.keys \in [Key -> KeyRow \cup {None}]
        /\ s.rows \in [Entry -> EntryRow \cup {None}]
        /\ \A w \in s.wraps :
              /\ w \in [key : Key, ver : Version, rcpt : Recipient, id : {w.id},
                        pin : BOOLEAN]
              /\ s.keys[w.key] # None => w.ver <= s.keys[w.key].ver
        /\ \A k \in Key : s.keys[k] # None =>
              \E w \in s.wraps : w.key = k /\ w.ver = s.keys[k].ver /\ w.rcpt = Self
        /\ \A e \in Entry : s.rows[e] # None =>
              LET row == s.rows[e]
              IN  /\ row.seal = <<row.key, row.ver>> /\ row.text = Old
                  /\ s.keys[row.key] # None => row.ver = s.keys[row.key].ver

(***************************************************************************)
(* createVaultKeyReference derives a key's ID from 16 random bytes: no key *)
(* that was deleted is created again.                                      *)
(***************************************************************************)
Creates(p, k) == \E c \in Call : p[c] # None /\ p[c].op = "create" /\ p[c].k = k

ASSUME KeyIDsAreRandom ==
    \A p \in Plan : \A k \in Key :
        Creates(p, k) =>
            /\ \A c \in Call : p[c] # None /\ p[c].op = "deleteKey" => p[c].k # k
            /\ \A s \in Start : s.keys[k] = None =>
                  /\ \A w \in s.wraps : w.key # k
                  /\ \A e \in Entry : s.rows[e] # None => s.rows[e].key # k

(***************************************************************************)
(* Helpers.                                                                *)
(***************************************************************************)
\* Mutant: the key locks are not taken.
FreeAlways(c, K) == TRUE

\* No other call holds a lock of K.
Free(c, K) == \A d \in Call \ {c} : call[d].held \cap K = {}

WrapsOf(k) == {w \in wraps : w.key = k}
WrapsAt(k, v) == {w \in wraps : w.key = k /\ w.ver = v}

\* open: a stored key, a version it has, a wrapping the identity satisfies.
CanOpen(k, v) ==
    /\ keys[k] # None
    /\ v \in 1..keys[k].ver
    /\ \E w \in WrapsAt(k, v) : w.rcpt = Self

\* decryptEntry authenticates the key and the version of the row.
Authentic(row) == row.seal = <<row.key, row.ver>>

\* encryptEntry under version v of key k, stored as version kv.
Sealed(k, kv, v, c, text) ==
    [key |-> k, ver |-> kv, hlc |-> c, seal |-> <<k, v>>, text |-> text]

Ends(c, out) ==
    call' = [call EXCEPT ![c] = [Idle EXCEPT !.pc = "done", !.out = out,
                                             !.seen = call[c].seen,
                                             !.obs = call[c].obs]]

\* Mutant: a call that fails keeps its locks.
StopsHolding(c, out) ==
    /\ call' = [call EXCEPT ![c].pc = "done", ![c].out = out]
    /\ UNCHANGED database

\* A call that ends with nothing written.
Stops(c, out) == Ends(c, out) /\ UNCHANGED database

\* A call that goes on.
Goes(c, next) ==
    /\ call' = [call EXCEPT ![c] = next]
    /\ UNCHANGED database

(***************************************************************************)
(* Before the locks.  The caller of a conditional update or of a refresh   *)
(* read the row's stamp earlier; then the entry's row says which key to    *)
(* lock.  A rotation that names its source version observes the key.       *)
(***************************************************************************)
Look(c) ==
    LET a == plan[c]
    IN  /\ a # None /\ a.op \in Conditional
        /\ call[c].pc = "idle"
        /\ rows[a.e] # None
        /\ Goes(c, [call[c] EXCEPT !.pc = "looked", !.seen = rows[a.e].hlc])

Observe(c) ==
    LET a == plan[c]
    IN  /\ a # None
        /\ \/ call[c].pc = "idle" /\ a.op \in {"update", "delete", "reKey"}
           \/ call[c].pc = "looked"
        /\ \/ rows[a.e] = None /\ Stops(c, "absent")
           \/ /\ rows[a.e] # None
              /\ Goes(c, [call[c] EXCEPT
                    !.pc = "observed", !.obs = rows[a.e].key,
                    !.row = IF a.op = "reKey" THEN rows[a.e] ELSE None])

ObserveKey(c) ==
    LET a == plan[c]
    IN  /\ a # None /\ a.op = "rotate" /\ a.from # 0
        /\ call[c].pc = "idle"
        /\ \/ keys[a.k] = None /\ Stops(c, "notFound")
           \/ /\ keys[a.k] # None
              /\ Goes(c, [call[c] EXCEPT !.pc = "observed",
                                         !.ver = keys[a.k].ver])

(***************************************************************************)
(* Under the locks: the first reads of each operation.                     *)
(***************************************************************************)
Locks(c) ==
    LET a == plan[c]
    IN  CASE a.op \in Direct  -> {a.k}
          [] a.op = "reKey"   -> {call[c].obs, a.k}
          [] OTHER            -> {call[c].obs}

\* Mutant: the locks are taken in the order the call names them.
FirstLockNamed(c) == call[c].obs

\* withKeyLocks takes the locks of a call one by one, in one order for every
\* caller, whatever order they are named in.
FirstLock(c) == CHOOSE k \in Locks(c) : \A j \in Locks(c) : LockRank[k] <= LockRank[j]

TwoLocks(c) == plan[c].op = "reKey" /\ call[c].obs # plan[c].k

\* A call that names two keys has the first lock and waits for the second.
Wait(c) ==
    /\ call[c].pc = "observed" /\ TwoLocks(c)
    /\ Free(c, {FirstLock(c)})
    /\ Goes(c, [call[c] EXCEPT !.pc = "waiting", !.held = {FirstLock(c)}])

Ready(c, ops) ==
    /\ plan[c] # None /\ plan[c].op \in ops
    /\ \/ call[c].pc = "idle"
          /\ plan[c].op \in Direct
          /\ ~(plan[c].op = "rotate" /\ plan[c].from # 0)
       \/ call[c].pc = "observed" /\ ~TwoLocks(c)
       \/ call[c].pc = "waiting"
    /\ Free(c, Locks(c))

Entered(c, row, ver, list) ==
    Goes(c, [call[c] EXCEPT !.pc = "entered", !.held = Locks(c),
                            !.row = row, !.ver = ver, !.list = list])

\* putEntry: an entry that is stored is a conflict.
EnterPut(c) ==
    LET a == plan[c]
    IN  /\ Ready(c, {"put"})
        /\ \/ rows[a.e] # None /\ Stops(c, "conflict")
           \/ rows[a.e] = None /\ keys[a.k] = None /\ Stops(c, "notFound")
           \/ /\ rows[a.e] = None /\ keys[a.k] # None
              /\ Entered(c, None, keys[a.k].ver, None)

\* Mutant: the stamp the caller expects is not compared.
EnterEntryAnyStamp(c) ==
    LET row == rows[plan[c].e]
    IN  /\ Ready(c, Conditional \cup {"update", "delete"})
        /\ IF row = None THEN Stops(c, "absent")
           ELSE IF row.key # call[c].obs THEN Stops(c, "conflict")
           ELSE Entered(c, row, IF keys[row.key] = None THEN 0
                                ELSE keys[row.key].ver, None)

\* Mutant: the key the row is under now is not compared with the one locked.
EnterEntryAnyKey(c) ==
    LET row == rows[plan[c].e]
    IN  /\ Ready(c, Conditional \cup {"update", "delete"})
        /\ IF row = None THEN Stops(c, "absent")
           ELSE IF plan[c].op \in Conditional /\ row.hlc # call[c].seen
           THEN Stops(c, "superseded")
           ELSE Entered(c, row, IF keys[row.key] = None THEN 0
                                ELSE keys[row.key].ver, None)

\* update, refreshEntry and deleteEntry: the row again.  It may be gone,
\* belong to another key than the one locked, or have another stamp than
\* the caller expects.
EnterEntry(c) ==
    LET a   == plan[c]
        row == rows[a.e]
    IN  /\ Ready(c, Conditional \cup {"update", "delete"})
        /\ IF row = None THEN Stops(c, "absent")
           ELSE IF row.key # call[c].obs THEN Stops(c, "conflict")
           ELSE IF a.op \in Conditional /\ row.hlc # call[c].seen
           THEN Stops(c, "superseded")
           ELSE Entered(c, row, IF keys[row.key] = None THEN 0
                                ELSE keys[row.key].ver, None)

\* Mutant: the row observed before the lock is moved.
EnterReKeyObserved(c) ==
    LET row == rows[plan[c].e]
    IN  /\ Ready(c, {"reKey"})
        /\ IF row # None /\ row.key = call[c].obs
           THEN Entered(c, call[c].row, 0, None)
           ELSE Stops(c, "conflict")

\* reKeyEntry: the row must be the one observed, stamp included.
EnterReKey(c) ==
    LET row == rows[plan[c].e]
    IN  /\ Ready(c, {"reKey"})
        /\ IF row # None /\ row.key = call[c].obs /\ row.hlc = call[c].row.hlc
           THEN Entered(c, row, 0, None)
           ELSE Stops(c, "conflict")

\* The operations on a key.
EnterKey(c) ==
    LET a == plan[c]
    IN  /\ Ready(c, {"grant", "rewrap", "setState", "deleteKey"})
        /\ \/ keys[a.k] = None /\ Stops(c, "notFound")
           \/ /\ keys[a.k] # None
              /\ Entered(c, None, keys[a.k].ver, None)

EnterCreate(c) ==
    /\ Ready(c, {"create"})
    /\ \/ keys[plan[c].k] # None /\ Stops(c, "conflict")
       \/ keys[plan[c].k] = None /\ Entered(c, None, 0, None)

\* rotateLocked: the key, its wrappings of every version and its entries.
EnterRotate(c) ==
    LET a == plan[c]
    IN  /\ Ready(c, {"rotate"})
        /\ \/ keys[a.k] = None /\ Stops(c, "notFound")
           \/ /\ keys[a.k] # None /\ a.from # 0
              /\ keys[a.k].ver # call[c].ver
              /\ Stops(c, "conflict")
           \/ /\ keys[a.k] # None
              /\ (a.from # 0 => keys[a.k].ver = call[c].ver)
              /\ Entered(c, None, keys[a.k].ver,
                         [wraps |-> WrapsOf(a.k),
                          rows |-> [e \in {e \in Entry : rows[e] # None
                                              /\ rows[e].key = a.k} |->
                                      rows[e]],
                          state |-> keys[a.k].state])

(***************************************************************************)
(* Opening the content keys.                                               *)
(***************************************************************************)
Opened(c, v) == Goes(c, [call[c] EXCEPT !.pc = "opened", !.open = v])

Reads(row) == CanOpen(row.key, row.ver)
CurrentOpens(k) == keys[k] # None /\ CanOpen(k, keys[k].ver)

\* The writes that need the current content key of the row's own key.
OpenEntry(c) ==
    LET a == plan[c]
        k == IF a.op = "put" THEN a.k ELSE call[c].row.key
    IN  /\ call[c].pc = "entered"
        /\ a.op \in Conditional \cup {"put", "update"}
        /\ IF ~CurrentOpens(k) \/ (a.op = "refresh" /\ ~Reads(call[c].row))
           THEN Stops(c, "notFound")
           ELSE IF a.op = "refresh" /\ ~Authentic(call[c].row)
           THEN Stops(c, "tampered")
           ELSE Opened(c, keys[k].ver)

OpenReKey(c) ==
    LET k == plan[c].k
    IN  /\ call[c].pc = "entered" /\ plan[c].op = "reKey"
        /\ IF ~Reads(call[c].row) \/ ~CurrentOpens(k)
           THEN Stops(c, "notFound")
           ELSE IF Authentic(call[c].row)
           THEN Opened(c, keys[k].ver)
           ELSE Stops(c, "tampered")

\* grant and rewrap open the current version; rewrap replaces the only
\* wrapping that the identity satisfies.
OpenKey(c) ==
    LET a    == plan[c]
        mine == {w \in WrapsAt(a.k, call[c].ver) : w.rcpt = Self}
    IN  /\ call[c].pc = "entered" /\ a.op \in {"grant", "rewrap"}
        /\ IF CanOpen(a.k, call[c].ver)
              /\ (a.op = "rewrap" => Cardinality(mine) = 1)
           THEN Opened(c, call[c].ver)
           ELSE Stops(c, "notFound")

\* The wrappings a rotation carries over: those of the source version that
\* are not excluded.
Source(c) == IF plan[c].from = 0 THEN call[c].ver ELSE plan[c].from
Excluded(c, w) == w.rcpt \in plan[c].out
Retained(c) ==
    {w \in call[c].list.wraps : w.ver = Source(c) /\ ~Excluded(c, w)}

\* A secret on a wrapping that this identity cannot open is not verified.
Unverifiable(c) ==
    ~plan[c].trust /\ \E w \in Retained(c) : w.pin /\ w.rcpt # Self

\* The entries a rotation decrypts: those with no instruction, or preserved.
Kept(c) == {e \in DOMAIN call[c].list.rows :
                plan[c].re[e] \in {"none", "preserve"}}

OpenRotate(c) ==
    LET a    == plan[c]
        held == call[c].list.rows
        out  == IF a.from # 0 /\ (~CanOpen(a.k, a.from) \/ Retained(c) = {})
                THEN "notFound"
                ELSE IF \E e \in Entry \ DOMAIN held : a.re[e] # "none"
                THEN "instructions"
                ELSE IF Unverifiable(c) THEN "unverifiable"
                ELSE IF \E e \in Kept(c) : ~Reads(held[e]) THEN "notFound"
                ELSE IF \E e \in Kept(c) : ~Authentic(held[e]) THEN "tampered"
                ELSE "opened"
    IN  /\ call[c].pc = "entered" /\ a.op = "rotate"
        /\ IF out = "opened" THEN Opened(c, call[c].ver + 1) ELSE Stops(c, out)

(***************************************************************************)
(* The writes, with what the store itself refuses.                         *)
(***************************************************************************)
\* Mutant: the upsert overwrites a row of another key.
TakenNever(e, k) == FALSE

\* upsertEntries: a row stored under another key is left alone, and the
\* whole transaction fails.
Taken(e, k) == rows[e] # None /\ rows[e].key # k

Stores(new) ==
    /\ rows' = new
    /\ past' = past \cup {new[e].text : e \in {e \in Entry : new[e] # None}}

\* save of a put or an update.
CommitEntry(c) ==
    LET a  == plan[c]
        k  == IF a.op = "put" THEN a.k ELSE call[c].row.key
        kv == IF a.op = "put" THEN call[c].ver ELSE call[c].open
    IN  /\ call[c].pc = "opened" /\ a.op \in {"put", "update", "updateIf"}
        /\ \/ Taken(a.e, k) /\ Stops(c, "conflict")
           \/ /\ ~Taken(a.e, k)
              /\ Stores([rows EXCEPT ![a.e] = Sealed(k, kv, call[c].open, c, c)])
              /\ Ends(c, "updated")
              /\ UNCHANGED <<plan, keys, wraps, gone, skipped>>

\* refreshEntry: the key again, then updateEntryIfUnchanged.
CommitRefresh(c) ==
    LET a   == plan[c]
        old == call[c].row
    IN  /\ call[c].pc = "opened" /\ a.op = "refresh"
        /\ IF /\ keys[old.key] # None /\ keys[old.key].ver = call[c].ver
              /\ rows[a.e] # None /\ rows[a.e].key = old.key
              /\ rows[a.e].hlc = old.hlc
           THEN /\ Stores([rows EXCEPT ![a.e] =
                    Sealed(old.key, call[c].open, call[c].open, c, old.text)])
                /\ Ends(c, "updated")
                /\ UNCHANGED <<plan, keys, wraps, gone, skipped>>
           ELSE Stops(c, "conflict")

\* deleteEntry: the row is found again and deleted while it is its key's.
CommitDelete(c) ==
    /\ call[c].pc = "entered" /\ plan[c].op = "delete"
    /\ rows' = [rows EXCEPT ![plan[c].e] = None]
    /\ Ends(c, "deleted")
    /\ UNCHANGED <<plan, keys, wraps, gone, skipped, past>>

\* moveEntry updates the row it finds; it inserts none.
CommitReKey(c) ==
    LET a == plan[c]
    IN  /\ call[c].pc = "opened" /\ a.op = "reKey"
        /\ Stores(IF rows[a.e] = None THEN rows
                  ELSE [rows EXCEPT ![a.e] =
                          Sealed(a.k, call[c].open, call[c].open, c,
                                 call[c].row.text)])
        /\ Ends(c, "moved")
        /\ UNCHANGED <<plan, keys, wraps, gone, skipped>>

\* putKey: a later version that is stored stays.
PutKey(k, v, state) ==
    IF keys[k] # None /\ keys[k].ver > v THEN keys
    ELSE [keys EXCEPT ![k] = [ver |-> v, state |-> state]]

\* createKey, with one wrapping for us and, if it is asked for, one for
\* another recipient that may need a secret.
CommitCreate(c) ==
    LET a == plan[c]
    IN  /\ call[c].pc = "entered" /\ a.op = "create"
        /\ keys' = PutKey(a.k, 1, "active")
        /\ wraps' = wraps \cup {[key |-> a.k, ver |-> 1, rcpt |-> r, id |-> c,
                                 pin |-> a.pin /\ r # Self] : r \in {Self, a.to}}
        /\ Ends(c, "created")
        /\ UNCHANGED <<plan, rows, gone, skipped, past>>

CommitGrant(c) ==
    LET a == plan[c]
    IN  /\ call[c].pc = "opened" /\ a.op = "grant"
        /\ wraps' = wraps \cup {[key |-> a.k, ver |-> call[c].ver,
                                 rcpt |-> a.to, id |-> c, pin |-> FALSE]}
        /\ gone' = [gone EXCEPT ![a.k] = @ \ {a.to}]
        /\ Ends(c, "granted")
        /\ UNCHANGED <<plan, keys, rows, skipped, past>>

\* addFactor, removeFactor: the new wrapping is written, the old deleted.
CommitRewrap(c) ==
    LET a    == plan[c]
        mine == {w \in WrapsAt(a.k, call[c].ver) : w.rcpt = Self}
    IN  /\ call[c].pc = "opened" /\ a.op = "rewrap"
        /\ wraps' = (wraps \ mine) \cup {[w EXCEPT !.id = c] : w \in mine}
        /\ Ends(c, "rewrapped")
        /\ UNCHANGED <<plan, keys, rows, gone, skipped, past>>

CommitState(c) ==
    LET k == plan[c].k
    IN  /\ call[c].pc = "entered" /\ plan[c].op = "setState"
        /\ keys' = IF keys[k] = None THEN keys
                   ELSE [keys EXCEPT ![k].state = "retired"]
        /\ Ends(c, "set")
        /\ UNCHANGED <<plan, wraps, rows, gone, skipped, past>>

\* deleteKey: the key's row only.
CommitDeleteKey(c) ==
    /\ call[c].pc = "entered" /\ plan[c].op = "deleteKey"
    /\ keys' = [keys EXCEPT ![plan[c].k] = None]
    /\ Ends(c, "deleted")
    /\ UNCHANGED <<plan, wraps, rows, gone, skipped, past>>

\* The wrappings and the entries a rotation leaves.
Rewrapped(c) ==
    {[w EXCEPT !.ver = call[c].open, !.id = <<c, w.id>>] : w \in Retained(c)}

\* Mutant: the wrappings of earlier versions are deleted as well.
DeniedBelow(c) ==
    {w \in call[c].list.wraps : Excluded(c, w) \/ w.ver < call[c].open}

\* Mutant: the excluded lose their wrappings of the source version only.
DeniedSource(c) ==
    {w \in call[c].list.wraps : Excluded(c, w) /\ w.ver = Source(c)}

Denied(c) == {w \in call[c].list.wraps : Excluded(c, w)}

Reissued(c) ==
    [e \in Entry |->
        IF e \notin DOMAIN call[c].list.rows \/ plan[c].re[e] = "skip"
        THEN rows[e]
        ELSE IF plan[c].re[e] = "delete" THEN None
        ELSE Sealed(plan[c].k, call[c].open, call[c].open, c,
                    IF plan[c].re[e] = "replace" THEN c
                    ELSE call[c].list.rows[e].text)]

CommitRotate(c) ==
    LET a  == plan[c]
        in == DOMAIN call[c].list.rows
    IN  /\ call[c].pc = "opened" /\ a.op = "rotate"
        /\ IF \E e \in in : a.re[e] \notin {"skip", "delete"} /\ Taken(e, a.k)
           THEN Stops(c, "conflict")
           ELSE /\ keys' = PutKey(a.k, call[c].open, call[c].list.state)
                /\ wraps' = (wraps \cup Rewrapped(c)) \ Denied(c)
                /\ Stores(Reissued(c))
                /\ gone' = [gone EXCEPT ![a.k] = @ \cup a.out]
                /\ skipped' = [skipped EXCEPT ![a.k] =
                                  {e \in in : a.re[e] = "skip"}]
                /\ Ends(c, "rotated")
                /\ UNCHANGED plan

\* A transaction that fails, taking its locks or under them, is rolled back
\* and leaves nothing.
Fail(c) == call[c].pc \in {"waiting", "entered", "opened"} /\ Stops(c, "failed")

(***************************************************************************)
(* readEntry: one transaction, no lock; the row, then its content key.     *)
(***************************************************************************)
ReadRow(c) ==
    LET a == plan[c]
    IN  /\ a # None /\ a.op = "read" /\ call[c].pc = "idle"
        /\ \/ rows[a.e] = None /\ Stops(c, "absent")
           \/ /\ rows[a.e] # None
              /\ Goes(c, [call[c] EXCEPT !.pc = "found", !.obs = rows[a.e].key,
                                         !.row = rows[a.e]])

\* Mutant: the content key opened is the current one, not the row's.
DecryptCurrent(c) ==
    /\ call[c].pc = "found"
    /\ LET row == call[c].row
       IN  Stops(c, IF ~CurrentOpens(row.key) THEN "unread"
                    ELSE IF row.seal = <<row.key, keys[row.key].ver>>
                    THEN "read" ELSE "tampered")

Decrypt(c) ==
    /\ call[c].pc = "found"
    /\ Stops(c, IF ~Reads(call[c].row) THEN "unread"
                ELSE IF Authentic(call[c].row) THEN "read" ELSE "tampered")

(***************************************************************************)
(* The specification.                                                      *)
(***************************************************************************)
Enter(c) ==
    \/ EnterPut(c) \/ EnterEntry(c) \/ EnterReKey(c) \/ EnterKey(c)
    \/ EnterCreate(c) \/ EnterRotate(c)

Open(c) == OpenEntry(c) \/ OpenReKey(c) \/ OpenKey(c) \/ OpenRotate(c)

Commit(c) ==
    \/ CommitEntry(c) \/ CommitRefresh(c) \/ CommitDelete(c) \/ CommitReKey(c)
    \/ CommitCreate(c) \/ CommitGrant(c) \/ CommitRewrap(c) \/ CommitState(c)
    \/ CommitDeleteKey(c) \/ CommitRotate(c)

Step(c) == Observe(c) \/ Wait(c) \/ Enter(c) \/ Open(c) \/ Commit(c) \/ Decrypt(c)

Init ==
    /\ plan \in Plan
    /\ \E s \in Start : keys = s.keys /\ wraps = s.wraps /\ rows = s.rows
    /\ call = [c \in Call |-> Idle]
    /\ gone = [k \in Key |-> {}]
    /\ skipped = [k \in Key |-> {}]
    /\ past = {rows[e].text : e \in {e \in Entry : rows[e] # None}}

Next ==
    \E c \in Call :
        \/ Look(c) \/ ObserveKey(c) \/ ReadRow(c) \/ Step(c) \/ Fail(c)

Spec == Init /\ [][Next]_vars

\* A call that has begun runs on: its continuations are scheduled, and a
\* lock is handed to one that waits for it.
FairSpec == Spec /\ \A c \in Call : WF_vars(call[c].pc # "idle" /\ Step(c))

(***************************************************************************)
(* Properties.                                                             *)
(***************************************************************************)
\* TypeOK: the tables keep their types; a wrapping is of a version its key
\* has reached.
TypeOK ==
    /\ keys \in [Key -> KeyRow \cup {None}]
    /\ rows \in [Entry -> EntryRow \cup {None}]
    /\ \A w \in wraps : /\ w.key \in Key /\ w.rcpt \in Recipient
                        /\ keys[w.key] # None => w.ver \in 1..keys[w.key].ver
    /\ gone \in [Key -> SUBSET Recipient] /\ skipped \in [Key -> SUBSET Entry]
    /\ past \subseteq Stamp

\* StaysReadable: every stored entry is sealed under the key and the version
\* its row names, and as long as the key is stored and we were not excluded
\* from it a wrapping for us opens that version: no interleaving of
\* rotations, moves, re-wraps and writes strands an entry.  And a read that
\* found its entry's row answers with the text, whatever is committed between
\* its two reads, unless the row's key was deleted or we were excluded from it.
StaysReadable ==
    /\ \A e \in Entry : rows[e] # None =>
          /\ Authentic(rows[e])
          /\ keys[rows[e].key] # None /\ Self \notin gone[rows[e].key]
                => CanOpen(rows[e].key, rows[e].ver)
    /\ \A c \in Call : call[c].out # "tampered" /\
          (call[c].out = "unread" =>
              keys[call[c].obs] = None \/ Self \in gone[call[c].obs])

\* RotationTakes: a recipient that a rotation excluded holds no wrapping of
\* any version of the key until it is granted the key again, also when a
\* later rotation starts from an older version; and no entry is left under
\* an older content key than its key's, except those the last rotation was
\* told to skip: a write under way when the key rotated does not put the old
\* one back.
RotationTakes ==
    /\ \A w \in wraps : w.rcpt \notin gone[w.key]
    /\ \A e \in Entry :
          rows[e] # None /\ keys[rows[e].key] # None
              /\ rows[e].ver # keys[rows[e].key].ver
          => e \in skipped[rows[e].key]

\* NoStaleWrite: no write of a row that was read earlier undoes another.  A
\* conditional update or refresh that reports "updated" replaced the very row
\* its caller had looked at, an entry changes its key by reKeyEntry only, and
\* a key its state by setKeyState.
Finishes(c, op) ==
    plan[c] # None /\ plan[c].op = op
    /\ call[c].pc # "done" /\ call'[c].pc = "done"
NoStaleWrite ==
    [][/\ \A c \in Call :
            /\ plan[c] # None /\ plan[c].op \in Conditional
            /\ call[c].out # "updated" /\ call'[c].out = "updated"
            => rows[plan[c].e] # None /\ rows[plan[c].e].hlc = call[c].seen
       /\ \A e \in Entry :
            rows[e] # None /\ rows'[e] # None /\ rows[e].key # rows'[e].key
            => \E c \in Call : Finishes(c, "reKey")
       /\ \A k \in Key :
            keys[k] # None /\ keys'[k] # None /\ keys[k].state # keys'[k].state
            => \E c \in Call : Finishes(c, "setState")]_vars

\* TextKept: seen through decryption, the vault implements VaultText.
Texts == INSTANCE VaultText WITH
    Text <- Stamp,
    text <- [e \in Entry |-> IF rows[e] = None THEN None
                             ELSE IF Authentic(rows[e]) THEN rows[e].text
                             ELSE Old],
    past <- past
TextKept == Texts!Spec

\* CallsEnd: every call that has begun ends: no calls that hold one lock of
\* two wait for each other, whichever keys they move entries between, and a
\* call that fails leaves no lock behind.
CallsEnd == \A c \in Call : (call[c].pc # "idle") ~> (call[c].pc = "done")
=============================================================================
