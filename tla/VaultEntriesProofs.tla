------------------------- MODULE VaultEntriesProofs -------------------------
(***************************************************************************)
(* What the vault keeps, for any number of keys, entries, calls and        *)
(* recipients: entries stay readable, rotations take, no write undoes      *)
(* another, and the vault implements VaultText.                            *)
(*                                                                         *)
(* The inductive invariant has two parts.  DbInv relates the tables: every *)
(* row's version and every stored key's current one can be opened, unless  *)
(* we were excluded from the key, and no one excluded holds a wrapping.    *)
(* CallsInv says what a call that holds its locks may rely on: what it     *)
(* read and opened under them is still so when it writes.                  *)
(***************************************************************************)
EXTENDS VaultEntries, TLAPS

(* A record with these fields.                                             *)
Fields(r) == [pc : {r.pc}, seen : {r.seen}, obs : {r.obs}, held : {r.held},
              row : {r.row}, ver : {r.ver}, list : {r.list}, open : {r.open},
              out : {r.out}]
Wrapping(w) == [key : Key, ver : Version, rcpt : Recipient, id : {w.id}, pin : BOOLEAN]

(* Version v of key k opens, unless the key is gone or we were excluded.   *)
Openable(k, v) == keys[k] # None /\ Self \notin gone[k] => CanOpen(k, v)

(* A key that some call creates has an ID no one has used before.          *)
Created(k) == Creates(plan, k)
Untouched(k) ==
    /\ gone[k] = {}
    /\ \A w \in wraps : w.key # k
    /\ \A e \in Entry : rows[e] # None => rows[e].key # k

(* A row that was stored can be read, if it is not a lost one.             *)
RowOK(row) ==
    /\ row \in EntryRow
    /\ Authentic(row)
    /\ Openable(row.key, row.ver)
    /\ Created(row.key) => keys[row.key] # None

Current(e) ==
    LET row == rows[e]
    IN  keys[row.key] # None /\ row.ver # keys[row.key].ver => e \in skipped[row.key]

Types ==
    /\ plan \in Plan
    /\ keys \in [Key -> KeyRow \cup {None}]
    /\ rows \in [Entry -> EntryRow \cup {None}]
    /\ \A w \in wraps : /\ w \in Wrapping(w)
                        /\ keys[w.key] # None => w.ver <= keys[w.key].ver
    /\ gone \in [Key -> SUBSET Recipient]
    /\ skipped \in [Key -> SUBSET Entry]
    /\ past \subseteq Stamp

DbInv ==
    /\ Types
    /\ \A e \in Entry : rows[e] # None =>
          RowOK(rows[e]) /\ rows[e].text \in past /\ Current(e)
    /\ \A k \in Key : keys[k] # None => Openable(k, keys[k].ver)
    /\ \A w \in wraps : w.rcpt \notin gone[w.key]
    /\ \A k \in Key : keys[k] = None /\ Created(k) => Untouched(k)

(* The locks call c takes, r its record, and what it knows under them.     *)
Locked(r) == r.pc \in {"entered", "opened"}
LocksOf(c, r) ==
    IF plan[c].op \in Direct THEN {plan[c].k}
    ELSE IF plan[c].op = "reKey" THEN {r.obs, plan[c].k}
    ELSE {r.obs}

Entries == Conditional \cup {"update", "delete", "reKey"}

Listed(k) ==
    [wraps |-> WrapsOf(k),
     rows  |-> [e \in {e \in Entry : rows[e] # None /\ rows[e].key = k} |-> rows[e]],
     state |-> keys[k].state]

Knows(c, r) ==
    LET a == plan[c]
    IN  /\ a \in Ask /\ a.op # "read"
        /\ a.op \in Entries => /\ r.row # None /\ r.row = rows[a.e] /\ r.row.key = r.obs
        /\ a.op \in Conditional => r.row.hlc = r.seen
        /\ a.op \in {"put", "grant", "rewrap", "rotate", "setState", "deleteKey"} =>
              keys[a.k] # None /\ r.ver = keys[a.k].ver
        /\ a.op = "create" => keys[a.k] = None
        /\ a.op = "rotate" => r.list = Listed(a.k)

Opens(c, r) ==
    LET a == plan[c]
        k == IF a.op \in {"put", "reKey", "grant", "rewrap"} THEN a.k ELSE r.row.key
    IN  /\ a.op \in Conditional \cup {"put", "update", "reKey", "grant", "rewrap"} =>
              keys[k] # None /\ r.open = keys[k].ver /\ CanOpen(k, r.open)
        /\ a.op = "rotate" =>
              /\ r.open = r.ver + 1
              /\ a.from # 0 => CanOpen(a.k, a.from)

(* Rows under key k cannot be read any more.                               *)
Lost(k) == k \in Key /\ ((keys[k] = None /\ ~Created(k)) \/ Self \in gone[k])

CallOK(c, r) ==
    /\ r \in Fields(r)
    /\ IF Locked(r) THEN r.held = LocksOf(c, r) ELSE r.pc = "waiting" \/ r.held = {}
    /\ Locked(r) => plan[c] # None /\ Knows(c, r)
    /\ r.pc = "opened" => Opens(c, r)
    /\ r.pc = "found" => RowOK(r.row) /\ r.obs = r.row.key
    /\ r.out # "tampered" /\ (r.out = "unread" => r.pc = "done" /\ Lost(r.obs))
    /\ c \in past => r.pc = "done"

CallsInv ==
    /\ call = [c \in Call |-> call[c]]
    /\ \A c \in Call : CallOK(c, call[c])
    /\ \A c, d \in Call : c # d => call[c].held \cap call[d].held = {}

Inv == DbInv /\ CallsInv

-----------------------------------------------------------------------------
(* Steps that only move a call.                                            *)
LEMMA CallKept ==
    ASSUME UNCHANGED database, NEW d, NEW r, CallOK(d, r)
    PROVE  CallOK(d, r)'
<1>1. UNCHANGED <<plan, keys, wraps, rows, gone, past>>
  BY DEF database
<1>2. /\ \A k, v : CanOpen(k, v) => CanOpen(k, v)'
      /\ \A k : Listed(k)' = Listed(k)
      /\ \A k : Created(k)' = Created(k)
      /\ LocksOf(d, r)' = LocksOf(d, r)
      /\ \A k : Lost(k) => Lost(k)'
  BY <1>1 DEF CanOpen, WrapsAt, Listed, WrapsOf, Created, LocksOf, Lost
<1>3. RowOK(r.row) => RowOK(r.row)'
  BY <1>1, <1>2 DEF RowOK, Openable, Authentic
<1>4. Locked(r) => Knows(d, r)'
  BY <1>1, <1>2 DEF CallOK, Knows
<1>5. r.pc = "opened" => Opens(d, r)'
  BY <1>1, <1>2 DEF CallOK, Opens
<1>6. QED
  BY <1>1, <1>2, <1>3, <1>4, <1>5 DEF CallOK, Locked, Fields

LEMMA DbKept == ASSUME DbInv, UNCHANGED database PROVE DbInv'
<1>1. UNCHANGED <<plan, keys, wraps, rows, gone, skipped, past>>
  BY DEF database
<1>2. /\ \A k, v : Openable(k, v) => Openable(k, v)'
      /\ \A k : Created(k)' = Created(k)
      /\ \A k : Untouched(k) => Untouched(k)'
  BY <1>1 DEF Openable, CanOpen, WrapsAt, Created, Untouched
<1>3. \A e \in Entry : rows[e] # None /\ RowOK(rows[e]) => RowOK(rows[e])'
  BY <1>1, <1>2 DEF RowOK, Authentic
<1>4. Types' /\ \A e \in Entry : Current(e) => Current(e)'
  BY <1>1 DEF DbInv, Types, Current, Wrapping
<1>5. QED
  BY <1>1, <1>2, <1>3, <1>4 DEF DbInv

LEMMA Moves ==
    ASSUME Inv, NEW c \in Call, NEW n, call' = [call EXCEPT ![c] = n],
           UNCHANGED database, CallOK(c, n),
           \A d \in Call \ {c} : n.held \cap call[d].held = {}
    PROVE  Inv'
<1>1. DbInv'
  BY DbKept DEF Inv
<1>2. /\ call' = [d \in Call |-> call'[d]]
      /\ call'[c] = n /\ \A d \in Call : d # c => call'[d] = call[d]
  BY DEF Inv, CallsInv
<1>3. ASSUME NEW d \in Call PROVE CallOK(d, call[d])'
  <2>1. PICK r : r = call'[d]
    OBVIOUS
  <2>2. CallOK(d, r)
    BY <1>2, <2>1 DEF Inv, CallsInv
  <2>3. CallOK(d, r)'
    BY <2>2, CallKept
  <2>4. QED
    BY <2>1, <2>3
<1>4. ASSUME NEW d \in Call, NEW e \in Call, d # e
      PROVE  call'[d].held \cap call'[e].held = {}
  BY <1>2, <1>4 DEF Inv, CallsInv
<1>5. QED
  BY <1>1, <1>2, <1>3, <1>4 DEF Inv, CallsInv

(* A call that ends lets go of its locks.                                  *)
LEMMA Ending ==
    ASSUME NEW c, NEW out, Ends(c, out)
    PROVE  \E n : /\ n \in Fields(n) /\ n.pc = "done" /\ n.out = out /\ n.held = {}
                 /\ n.obs = call[c].obs
                 /\ call' = [call EXCEPT ![c] = n]
<1>1. PICK s, o : s = call[c].seen /\ o = call[c].obs
  OBVIOUS
<1>2. PICK n : n = [Idle EXCEPT !.pc = "done", !.out = out, !.seen = s, !.obs = o]
  OBVIOUS
<1>3. call' = [call EXCEPT ![c] = n]
  BY <1>1, <1>2 DEF Ends
<1>4. n \in Fields(n) /\ n.pc = "done" /\ n.out = out /\ n.held = {} /\ n.obs = o
  BY <1>2 DEF Idle, Fields
<1>5. QED
  BY <1>1, <1>3, <1>4

LEMMA Stopping ==
    ASSUME Inv, NEW c \in Call, NEW out, Stops(c, out),
           out # "tampered", out = "unread" => Lost(call[c].obs)
    PROVE  Inv'
<1>1. Ends(c, out) /\ UNCHANGED database
  BY DEF Stops
<1>2. PICK n : /\ n \in Fields(n) /\ n.pc = "done" /\ n.out = out /\ n.held = {}
               /\ n.obs = call[c].obs
               /\ call' = [call EXCEPT ![c] = n]
  BY <1>1, Ending
<1>3. CallOK(c, n)
  BY <1>2 DEF CallOK, Locked
<1>4. QED
  BY <1>1, <1>2, <1>3, Moves

-----------------------------------------------------------------------------
(* Before the locks.                                                       *)
LEMMA Early ==
    ASSUME Inv, NEW c \in Call, call[c].pc \in {"idle", "looked"},
           NEW n, n \in Fields(n), n.pc \in {"looked", "observed"},
           n.held = call[c].held, n.out = call[c].out, Goes(c, n)
    PROVE  Inv'
<1>1. call' = [call EXCEPT ![c] = n] /\ UNCHANGED database
  BY DEF Goes
<1>2. CallOK(c, call[c])
  BY DEF Inv, CallsInv
<1>3. CallOK(c, n) /\ n.held = {}
  BY <1>2 DEF CallOK, Locked
<1>4. QED
  BY <1>1, <1>3, Moves

LEMMA LookKeeps == ASSUME Inv, NEW c \in Call, Look(c) PROVE Inv'
<1>1. call[c] \in Fields(call[c])
  BY DEF Inv, CallsInv, CallOK
<1>2. PICK n, s : /\ n = [call[c] EXCEPT !.pc = "looked", !.seen = s]
                  /\ Goes(c, n) /\ call[c].pc = "idle"
  BY DEF Look
<1>3. n \in Fields(n) /\ n.pc = "looked" /\ n.held = call[c].held /\ n.out = call[c].out
  BY <1>1, <1>2 DEF Fields
<1>4. QED
  BY <1>2, <1>3, Early

LEMMA ObserveKeeps == ASSUME Inv, NEW c \in Call, Observe(c) PROVE Inv'
<1>1. call[c] \in Fields(call[c])
  BY DEF Inv, CallsInv, CallOK
<1>2. CASE Stops(c, "absent")
  BY <1>2, Stopping
<1>3. CASE ~Stops(c, "absent")
  <2>1. PICK n, o, w : /\ n = [call[c] EXCEPT !.pc = "observed", !.obs = o, !.row = w]
                       /\ Goes(c, n) /\ call[c].pc \in {"idle", "looked"}
    BY <1>3 DEF Observe
  <2>2. n \in Fields(n) /\ n.pc = "observed" /\ n.held = call[c].held /\ n.out = call[c].out
    BY <1>1, <2>1 DEF Fields
  <2>3. QED
    BY <2>1, <2>2, Early
<1>4. QED
  BY <1>2, <1>3

LEMMA ObserveKeyKeeps == ASSUME Inv, NEW c \in Call, ObserveKey(c) PROVE Inv'
<1>1. call[c] \in Fields(call[c])
  BY DEF Inv, CallsInv, CallOK
<1>2. CASE Stops(c, "notFound")
  BY <1>2, Stopping
<1>3. CASE ~Stops(c, "notFound")
  <2>1. PICK n, v : /\ n = [call[c] EXCEPT !.pc = "observed", !.ver = v]
                    /\ Goes(c, n) /\ call[c].pc = "idle"
    BY <1>3 DEF ObserveKey
  <2>2. n \in Fields(n) /\ n.pc = "observed" /\ n.held = call[c].held /\ n.out = call[c].out
    BY <1>1, <2>1 DEF Fields
  <2>3. QED
    BY <2>1, <2>2, Early
<1>4. QED
  BY <1>2, <1>3

-----------------------------------------------------------------------------
(* Taking the locks.                                                       *)
LEMMA LocksAre ==
    ASSUME NEW c
    PROVE  Locks(c) = LocksOf(c, call[c])
<1>1. "reKey" \notin Direct
  BY DEF Direct
<1>2. QED
  BY <1>1 DEF Locks, LocksOf

LEMMA Asked ==
    ASSUME Inv, NEW c \in Call, plan[c] # None
    PROVE  plan[c] \in Ask
<1>1. plan \in Plan /\ Plan \subseteq [Call -> Ask \cup {None}]
  BY PlanAssumption DEF Inv, DbInv, Types
<1>2. QED
  BY <1>1

LEMMA Entering ==
    ASSUME Inv, NEW c \in Call, NEW ops, "read" \notin ops, Ready(c, ops),
           NEW row, NEW ver, NEW list, Entered(c, row, ver, list),
           \A n : /\ n.row = row /\ n.ver = ver /\ n.list = list
                  /\ n.obs = call[c].obs /\ n.seen = call[c].seen
                  => Knows(c, n)
    PROVE  Inv'
<1>1. CallOK(c, call[c])
  BY DEF Inv, CallsInv
<1>2. PICK n : /\ n = [call[c] EXCEPT !.pc = "entered", !.held = Locks(c), !.row = row,
                                      !.ver = ver, !.list = list]
               /\ call' = [call EXCEPT ![c] = n] /\ UNCHANGED database
  BY DEF Entered, Goes
<1>3. /\ n \in Fields(n) /\ n.pc = "entered" /\ n.held = Locks(c) /\ n.row = row
      /\ n.ver = ver /\ n.list = list /\ n.obs = call[c].obs /\ n.seen = call[c].seen
      /\ n.out = call[c].out
  BY <1>1, <1>2 DEF CallOK, Fields
<1>4. n.held = LocksOf(c, n)
  BY <1>3, LocksAre DEF LocksOf
<1>5. plan[c] # None /\ call[c].pc \in {"idle", "observed", "waiting"} /\ Free(c, Locks(c))
  BY DEF Ready
<1>6. Knows(c, n)
  BY <1>3
<1>7. CallOK(c, n)
  BY <1>1, <1>3, <1>4, <1>5, <1>6 DEF CallOK, Locked
<1>8. \A d \in Call \ {c} : n.held \cap call[d].held = {}
  BY <1>3, <1>5 DEF Free
<1>9. QED
  BY <1>2, <1>7, <1>8, Moves

(* A call that names two keys takes the lock of the first alone.           *)
LEMMA WaitKeeps == ASSUME Inv, NEW c \in Call, Wait(c) PROVE Inv'
<1> DEFINE k == FirstLock(c)
<1>1. CallOK(c, call[c]) /\ call[c].pc = "observed" /\ Free(c, {k})
  BY DEF Wait, Inv, CallsInv
<1>2. PICK n : /\ n = [call[c] EXCEPT !.pc = "waiting", !.held = {k}]
               /\ call' = [call EXCEPT ![c] = n] /\ UNCHANGED database
  BY DEF Wait, Goes
<1> HIDE DEF k
<1>3. n \in Fields(n) /\ n.pc = "waiting" /\ n.held = {k} /\ n.out = call[c].out
  BY <1>1, <1>2 DEF CallOK, Fields
<1>4. n.obs = call[c].obs
  BY <1>1, <1>2 DEF CallOK, Fields
<1>5. CallOK(c, n)
  BY <1>1, <1>3, <1>4 DEF CallOK, Locked
<1>6. \A d \in Call \ {c} : n.held \cap call[d].held = {}
  BY <1>1, <1>3 DEF Free
<1>7. QED
  BY <1>2, <1>5, <1>6, Moves

LEMMA EnterPutKeeps == ASSUME Inv, NEW c \in Call, EnterPut(c) PROVE Inv'
<1>1. Ready(c, {"put"}) /\ plan[c] # None /\ plan[c].op = "put" /\ plan[c] \in Ask
  BY Asked DEF EnterPut, Ready
<1>2. CASE Stops(c, "conflict") \/ Stops(c, "notFound")
  BY <1>2, Stopping
<1>3. CASE keys[plan[c].k] # None /\ Entered(c, None, keys[plan[c].k].ver, None)
  <2>1. \A n : n.ver = keys[plan[c].k].ver => Knows(c, n)
    BY <1>1, <1>3 DEF Knows, Entries, Conditional
  <2>2. QED
    BY <1>1, <1>3, <2>1, Entering
<1>4. QED
  BY <1>2, <1>3 DEF EnterPut

LEMMA EnterEntryKeeps == ASSUME Inv, NEW c \in Call, EnterEntry(c) PROVE Inv'
<1> DEFINE a == plan[c]
           row == rows[a.e]
           ver == IF keys[row.key] = None THEN 0 ELSE keys[row.key].ver
           ops == Conditional \cup {"update", "delete"}
<1>1. Ready(c, ops) /\ a # None /\ a.op \in ops /\ a \in Ask
  BY Asked DEF EnterEntry, Ready
<1>2. CASE Stops(c, "absent") \/ Stops(c, "conflict") \/ Stops(c, "superseded")
  BY <1>2, Stopping
<1>3. CASE /\ row # None /\ row.key = call[c].obs
           /\ a.op \in Conditional => row.hlc = call[c].seen
           /\ Entered(c, row, ver, None)
  <2>1. \A n : n.row = row /\ n.obs = call[c].obs /\ n.seen = call[c].seen => Knows(c, n)
    BY <1>1, <1>3 DEF Knows, Entries, Conditional
  <2>2. "read" \notin ops
    BY DEF Conditional
  <2> HIDE DEF row, ver, ops
  <2>3. QED
    BY <1>1, <1>3, <2>1, <2>2, Entering
<1>4. QED
  BY <1>2, <1>3 DEF EnterEntry

LEMMA EnterReKeyKeeps == ASSUME Inv, NEW c \in Call, EnterReKey(c) PROVE Inv'
<1> DEFINE a == plan[c]
           row == rows[a.e]
<1>1. Ready(c, {"reKey"}) /\ a # None /\ a.op = "reKey" /\ a \in Ask
  BY Asked DEF EnterReKey, Ready
<1>2. CASE Stops(c, "conflict")
  BY <1>2, Stopping
<1>3. CASE row # None /\ row.key = call[c].obs /\ Entered(c, row, 0, None)
  <2>1. \A n : n.row = row /\ n.obs = call[c].obs => Knows(c, n)
    BY <1>1, <1>3 DEF Knows, Entries, Conditional
  <2> HIDE DEF row
  <2>2. QED
    BY <1>1, <1>3, <2>1, Entering
<1>4. QED
  BY <1>2, <1>3 DEF EnterReKey

LEMMA EnterKeyKeeps == ASSUME Inv, NEW c \in Call, EnterKey(c) PROVE Inv'
<1> DEFINE ops == {"grant", "rewrap", "setState", "deleteKey"}
<1>1. Ready(c, ops) /\ plan[c] # None /\ plan[c].op \in ops /\ plan[c] \in Ask
  BY Asked DEF EnterKey, Ready
<1>2. CASE Stops(c, "notFound")
  BY <1>2, Stopping
<1>3. CASE keys[plan[c].k] # None /\ Entered(c, None, keys[plan[c].k].ver, None)
  <2>1. \A n : n.ver = keys[plan[c].k].ver => Knows(c, n)
    BY <1>1, <1>3 DEF Knows, Entries, Conditional
  <2>2. QED
    BY <1>1, <1>3, <2>1, Entering
<1>4. QED
  BY <1>2, <1>3 DEF EnterKey

LEMMA EnterCreateKeeps == ASSUME Inv, NEW c \in Call, EnterCreate(c) PROVE Inv'
<1>1. /\ Ready(c, {"create"}) /\ plan[c] # None /\ plan[c].op = "create"
      /\ plan[c] \in Ask
  BY Asked DEF EnterCreate, Ready
<1>2. CASE Stops(c, "conflict")
  BY <1>2, Stopping
<1>3. CASE keys[plan[c].k] = None /\ Entered(c, None, 0, None)
  <2>1. \A n : Knows(c, n)
    BY <1>1, <1>3 DEF Knows, Entries, Conditional
  <2>2. QED
    BY <1>1, <1>3, <2>1, Entering
<1>4. QED
  BY <1>2, <1>3 DEF EnterCreate

LEMMA EnterRotateKeeps == ASSUME Inv, NEW c \in Call, EnterRotate(c) PROVE Inv'
<1> DEFINE k == plan[c].k
<1>1. /\ Ready(c, {"rotate"}) /\ plan[c] # None /\ plan[c].op = "rotate"
      /\ plan[c] \in Ask
  BY Asked DEF EnterRotate, Ready
<1>2. CASE Stops(c, "notFound") \/ Stops(c, "conflict")
  BY <1>2, Stopping
<1>3. CASE keys[k] # None /\ Entered(c, None, keys[k].ver, Listed(k))
  <2>1. \A n : n.ver = keys[k].ver /\ n.list = Listed(k) => Knows(c, n)
    BY <1>1, <1>3 DEF Knows, Entries, Conditional
  <2>2. QED
    BY <1>1, <1>3, <2>1, Entering
<1>4. QED
  BY <1>2, <1>3 DEF EnterRotate, Listed

-----------------------------------------------------------------------------
(* Opening the keys.                                                       *)
LEMMA Opening ==
    ASSUME Inv, NEW c \in Call, call[c].pc = "entered", NEW v, Opened(c, v),
           \A n : n.open = v /\ n.row = call[c].row /\ n.ver = call[c].ver => Opens(c, n)
    PROVE  Inv'
<1>1. CallOK(c, call[c])
  BY DEF Inv, CallsInv
<1>2. PICK n : /\ n = [call[c] EXCEPT !.pc = "opened", !.open = v]
               /\ call' = [call EXCEPT ![c] = n] /\ UNCHANGED database
  BY DEF Opened, Goes
<1>3. /\ n \in Fields(n) /\ n.pc = "opened" /\ n.held = call[c].held /\ n.row = call[c].row
      /\ n.ver = call[c].ver /\ n.list = call[c].list /\ n.obs = call[c].obs
      /\ n.seen = call[c].seen /\ n.out = call[c].out /\ n.open = v
  BY <1>1, <1>2 DEF CallOK, Fields
<1>4. Knows(c, n)
  BY <1>1, <1>3 DEF CallOK, Locked, Knows
<1>5. n.held = LocksOf(c, n)
  BY <1>1, <1>3 DEF CallOK, Locked, LocksOf
<1>6. Opens(c, n)
  BY <1>3
<1>7. CallOK(c, n)
  BY <1>1, <1>3, <1>4, <1>5, <1>6 DEF CallOK, Locked
<1>8. \A d \in Call \ {c} : n.held \cap call[d].held = {}
  BY <1>3 DEF Inv, CallsInv
<1>9. QED
  BY <1>2, <1>7, <1>8, Moves

(* What a call holds, it read from a table that is sound.                  *)
LEMMA RowHeld ==
    ASSUME Inv, NEW c \in Call, Locked(call[c]), plan[c].op \in Entries
    PROVE  /\ call[c].row # None /\ call[c].row = rows[plan[c].e] /\ plan[c].e \in Entry
           /\ RowOK(call[c].row) /\ call[c].row.text \in past
<1>1. Knows(c, call[c])
  BY DEF Inv, CallsInv, CallOK
<1>2. /\ plan[c] \in Ask /\ call[c].row # None /\ call[c].row = rows[plan[c].e]
  BY <1>1 DEF Knows
<1>3. plan[c].e \in Entry
  BY <1>2 DEF Ask
<1>4. QED
  BY <1>2, <1>3 DEF Inv, DbInv

LEMMA OpenEntryKeeps == ASSUME Inv, NEW c \in Call, OpenEntry(c) PROVE Inv'
<1> DEFINE a == plan[c]
           k == IF a.op = "put" THEN a.k ELSE call[c].row.key
<1>1. /\ call[c].pc = "entered" /\ a.op \in Conditional \cup {"put", "update"}
      /\ Locked(call[c])
  BY DEF OpenEntry, Locked
<1>2. CASE Stops(c, "notFound")
  BY <1>2, Stopping
<1>3. CASE a.op = "refresh" /\ ~Authentic(call[c].row)
  BY <1>1, <1>3, RowHeld DEF RowOK, Entries, Conditional
<1>4. CASE CurrentOpens(k) /\ Opened(c, keys[k].ver)
  <2>1. \A n : n.open = keys[k].ver /\ n.row = call[c].row => Opens(c, n)
    BY <1>1, <1>4 DEF Opens, CurrentOpens, Conditional
  <2> HIDE DEF k
  <2>2. QED
    BY <1>1, <1>4, <2>1, Opening
<1>5. QED
  BY <1>2, <1>3, <1>4 DEF OpenEntry

LEMMA OpenReKeyKeeps == ASSUME Inv, NEW c \in Call, OpenReKey(c) PROVE Inv'
<1> DEFINE k == plan[c].k
<1>1. call[c].pc = "entered" /\ plan[c].op = "reKey" /\ Locked(call[c])
  BY DEF OpenReKey, Locked
<1>2. CASE Stops(c, "notFound")
  BY <1>2, Stopping
<1>3. CASE ~Authentic(call[c].row)
  BY <1>1, <1>3, RowHeld DEF RowOK, Entries
<1>4. CASE CurrentOpens(k) /\ Opened(c, keys[k].ver)
  <2>1. \A n : n.open = keys[k].ver => Opens(c, n)
    BY <1>1, <1>4 DEF Opens, CurrentOpens
  <2>2. QED
    BY <1>1, <1>4, <2>1, Opening
<1>5. QED
  BY <1>2, <1>3, <1>4 DEF OpenReKey

LEMMA OpenKeyKeeps == ASSUME Inv, NEW c \in Call, OpenKey(c) PROVE Inv'
<1> DEFINE k == plan[c].k
<1>1. /\ call[c].pc = "entered" /\ plan[c].op \in {"grant", "rewrap"}
      /\ Locked(call[c])
  BY DEF OpenKey, Locked
<1>2. keys[k] # None /\ call[c].ver = keys[k].ver
  BY <1>1 DEF Inv, CallsInv, CallOK, Knows
<1>3. CASE Stops(c, "notFound")
  BY <1>3, Stopping
<1>4. CASE CanOpen(k, call[c].ver) /\ Opened(c, call[c].ver)
  <2>1. \A n : n.open = call[c].ver => Opens(c, n)
    BY <1>1, <1>2, <1>4 DEF Opens
  <2>2. QED
    BY <1>1, <1>4, <2>1, Opening
<1>5. QED
  BY <1>3, <1>4 DEF OpenKey

LEMMA OpenRotateKeeps == ASSUME Inv, NEW c \in Call, OpenRotate(c) PROVE Inv'
<1> DEFINE a == plan[c]
           held == call[c].list.rows
           out  == IF a.from # 0 /\ (~CanOpen(a.k, a.from) \/ Retained(c) = {})
                   THEN "notFound"
                   ELSE IF \E e \in Entry \ DOMAIN held : a.re[e] # "none"
                   THEN "instructions"
                   ELSE IF Unverifiable(c) THEN "unverifiable"
                   ELSE IF \E e \in Kept(c) : ~Reads(held[e]) THEN "notFound"
                   ELSE IF \E e \in Kept(c) : ~Authentic(held[e]) THEN "tampered"
                   ELSE "opened"
<1>1. /\ call[c].pc = "entered" /\ a.op = "rotate" /\ Locked(call[c])
      /\ IF out = "opened" THEN Opened(c, call[c].ver + 1) ELSE Stops(c, out)
  BY DEF OpenRotate, Locked
<1>2. \A e \in Kept(c) : Authentic(held[e])
  <2>1. Knows(c, call[c])
    BY <1>1 DEF Inv, CallsInv, CallOK
  <2>2. call[c].list = Listed(a.k)
    BY <1>1, <2>1 DEF Knows
  <2>3. \A e \in DOMAIN held : e \in Entry /\ rows[e] # None /\ held[e] = rows[e]
    BY <2>2 DEF Listed
  <2>4. QED
    BY <2>3 DEF Kept, Inv, DbInv, RowOK
<1>3. out # "tampered" /\ out # "unread" /\ (out = "opened" /\ a.from # 0 => CanOpen(a.k, a.from))
  <2>1. ~\E e \in Kept(c) : ~Authentic(held[e])
    BY <1>2
  <2> HIDE DEF held
  <2> QED
    BY <2>1
<1> HIDE DEF out
<1>4. CASE out = "opened"
  <2>1. \A n : n.open = call[c].ver + 1 /\ n.ver = call[c].ver => Opens(c, n)
    BY <1>1, <1>3, <1>4 DEF Opens, Conditional
  <2>2. QED
    BY <1>1, <1>4, <2>1, Opening
<1>5. CASE out # "opened"
  BY <1>1, <1>3, <1>5, Stopping
<1>6. QED
  BY <1>4, <1>5

-----------------------------------------------------------------------------
(* A read, and a transaction that fails.                                   *)
LEMMA ReadRowKeeps == ASSUME Inv, NEW c \in Call, ReadRow(c) PROVE Inv'
<1> DEFINE row == rows[plan[c].e]
<1>1. plan[c] \in Ask /\ call[c].pc = "idle"
  BY Asked DEF ReadRow
<1>2. CASE Stops(c, "absent")
  BY <1>2, Stopping
<1>3. CASE row # None /\ Goes(c, [call[c] EXCEPT !.pc = "found", !.obs = row.key, !.row = row])
  <2>1. CallOK(c, call[c])
    BY DEF Inv, CallsInv
  <2>2. RowOK(row)
    BY <1>1, <1>3 DEF Inv, DbInv, Ask
  <2> HIDE DEF row
  <2>3. PICK n : /\ n = [call[c] EXCEPT !.pc = "found", !.obs = row.key, !.row = row]
                 /\ call' = [call EXCEPT ![c] = n] /\ UNCHANGED database
    BY <1>3 DEF Goes
  <2>4. /\ n \in Fields(n) /\ n.pc = "found" /\ n.row = row /\ n.held = call[c].held
        /\ n.out = call[c].out /\ n.obs = row.key
    BY <2>1, <2>3 DEF CallOK, Fields
  <2>5. CallOK(c, n) /\ n.held = {}
    BY <1>1, <2>1, <2>2, <2>4 DEF CallOK, Locked
  <2>6. QED
    BY <2>3, <2>5, Moves
<1>4. QED
  BY <1>2, <1>3 DEF ReadRow

LEMMA DecryptKeeps == ASSUME Inv, NEW c \in Call, Decrypt(c) PROVE Inv'
<1> DEFINE row == call[c].row
           out == IF ~Reads(row) THEN "unread"
                  ELSE IF Authentic(row) THEN "read" ELSE "tampered"
<1>1. RowOK(row) /\ call[c].obs = row.key /\ Stops(c, out)
  BY DEF Decrypt, Inv, CallsInv, CallOK
<1>2. out # "tampered"
  BY <1>1 DEF RowOK
<1>3. out = "unread" => Lost(row.key)
  <2>1. SUFFICES ASSUME ~Reads(row) PROVE Lost(row.key)
    OBVIOUS
  <2>2. row.key \in Key
    BY <1>1 DEF RowOK, EntryRow
  <2>3. QED
    BY <1>1, <2>1, <2>2 DEF RowOK, Openable, Reads, Lost
<1>4. QED
  <2> HIDE DEF out
  <2> QED
    BY <1>1, <1>2, <1>3, Stopping

LEMMA FailKeeps == ASSUME Inv, NEW c \in Call, Fail(c) PROVE Inv'
BY Stopping DEF Fail

-----------------------------------------------------------------------------
(* Writes.  A commit touches what the locks in H cover.                    *)
Beyond(H) ==
    /\ \A k \in Key \ H : keys'[k] = keys[k] /\ WrapsOf(k)' = WrapsOf(k)
    /\ \A e \in Entry : rows'[e] # rows[e] =>
          /\ rows[e] # None => rows[e].key \in H
          /\ rows'[e] # None => rows'[e].key \in H

(* A version that opens goes on opening until its key is lost for good.    *)
Steady ==
    /\ \A k \in Key : keys[k] # None /\ Created(k) => keys'[k] # None
    /\ \A k \in Key : keys[k] = None /\ ~Created(k) => keys'[k] = None
    /\ \A k \in Key : Self \in gone[k] => Self \in gone'[k]
    /\ \A k \in Key, v \in Version :
          keys[k] # None /\ Openable(k, v) => Openable(k, v)'

LEMMA RowStays ==
    ASSUME Steady, plan' = plan, NEW row, RowOK(row)
    PROVE  RowOK(row)'
<1> DEFINE k == row.key
           v == row.ver
<1>1. k \in Key /\ v \in Version /\ row \in EntryRow
  BY DEF RowOK, EntryRow
<1>2. Created(k)' = Created(k) /\ Authentic(row)'
  BY DEF Created, RowOK, Authentic
<1>3. CASE keys[k] # None
  BY <1>1, <1>2, <1>3 DEF RowOK, Steady
<1>4. CASE keys[k] = None
  <2>1. keys'[k] = None /\ ~Created(k)
    BY <1>1, <1>4 DEF RowOK, Steady
  <2>2. QED
    BY <1>1, <1>2, <2>1 DEF RowOK, Openable
<1>5. QED
  BY <1>3, <1>4

LEMMA LocksHeld ==
    ASSUME Inv, NEW d \in Call, Locked(call[d])
    PROVE  /\ call[d].held = LocksOf(d, call[d]) /\ call[d].held \subseteq Key
           /\ plan[d] \in Ask /\ plan[d].k \in Key /\ plan[d].e \in Entry
           /\ Knows(d, call[d])
           /\ plan[d].op \in Direct \cup {"reKey"} => plan[d].k \in call[d].held
           /\ plan[d].op \in Entries => call[d].row.key \in call[d].held
<1> DEFINE a == plan[d]
           r == call[d]
<1>1. r.held = LocksOf(d, r) /\ Knows(d, r)
  BY DEF Inv, CallsInv, CallOK
<1>2. a \in Ask /\ a.k \in Key /\ a.e \in Entry /\ a.op \in Op /\ a.op # "read"
  BY <1>1 DEF Knows, Ask
<1>3. a.op \in Entries => r.row.key \in Key /\ r.row.key = r.obs
  BY <1>1, RowHeld DEF RowOK, EntryRow, Knows
<1>4. /\ a.op \in Direct \/ a.op \in Entries
      /\ ~(a.op \in Direct /\ a.op \in Entries)
  BY <1>2 DEF Op, Direct, Entries, Conditional
<1>5. QED
  BY <1>1, <1>2, <1>3, <1>4 DEF LocksOf

LEMMA OthersKnow ==
    ASSUME Inv, NEW d \in Call, Locked(call[d]), NEW H,
           call[d].held \cap H = {}, Beyond(H), plan' = plan,
           NEW r, r = call[d]
    PROVE  Knows(d, r)' /\ (r.pc = "opened" => Opens(d, r)')
<1> DEFINE a == plan[d]
<1>1. /\ r.held \subseteq Key /\ a.k \in Key /\ a.e \in Entry /\ Knows(d, r)
      /\ a.op \in Direct \cup {"reKey"} => a.k \in r.held
      /\ a.op \in Entries => r.row.key \in r.held
  BY LocksHeld
<1>2. \A k \in r.held : /\ keys'[k] = keys[k]
                        /\ \A v : CanOpen(k, v) => CanOpen(k, v)'
                        /\ Listed(k)' = Listed(k)
  <2>1. SUFFICES ASSUME NEW k \in r.held
                 PROVE  /\ keys'[k] = keys[k]
                        /\ \A v : CanOpen(k, v) => CanOpen(k, v)'
                        /\ Listed(k)' = Listed(k)
    OBVIOUS
  <2>2. keys'[k] = keys[k] /\ WrapsOf(k)' = WrapsOf(k)
    BY <1>1 DEF Beyond
  <2>3. \A v : CanOpen(k, v) => CanOpen(k, v)'
    <3>1. \A v : WrapsAt(k, v) = {w \in WrapsOf(k) : w.ver = v}
      BY DEF WrapsAt, WrapsOf
    <3>2. \A v : WrapsAt(k, v)' = {w \in WrapsOf(k)' : w.ver = v}
      BY DEF WrapsAt, WrapsOf
    <3>3. QED
      BY <2>2, <3>1, <3>2 DEF CanOpen
  <2>4. Listed(k)' = Listed(k)
    <3>1. \A e \in Entry : /\ (rows[e] # None /\ rows[e].key = k) <=>
                                (rows'[e] # None /\ rows'[e].key = k)
                           /\ rows[e] # None /\ rows[e].key = k => rows'[e] = rows[e]
      BY <1>1, <2>1 DEF Beyond
    <3>2. QED
      BY <2>2, <3>1 DEF Listed
  <2>5. QED
    BY <2>2, <2>3, <2>4
<1>3. a.op \in Entries => rows'[a.e] = rows[a.e]
  BY <1>1 DEF Knows, Beyond
<1>4. Knows(d, r)'
  BY <1>1, <1>2, <1>3 DEF Knows, Direct
<1>5. ASSUME r.pc = "opened" PROVE Opens(d, r)'
  <2>1. Opens(d, r)
    BY <1>5 DEF Inv, CallsInv, CallOK
  <2>2. a.op \in Direct \cup Entries
    BY <1>1 DEF Knows, Ask, Op, Direct, Entries, Conditional
  <2>3. QED
    BY <1>1, <1>2, <2>1, <2>2 DEF Opens, Direct, Entries, Conditional
<1>6. QED
  BY <1>4, <1>5

LEMMA Commits ==
    ASSUME Inv, NEW c \in Call, Locked(call[c]), NEW out, Ends(c, out),
           out # "tampered", out # "unread", plan' = plan, past' \subseteq past \cup {c},
           DbInv', Steady, Beyond(call[c].held)
    PROVE  Inv'
<1>1. PICK n : /\ n \in Fields(n) /\ n.pc = "done" /\ n.out = out /\ n.held = {}
               /\ n.obs = call[c].obs
               /\ call' = [call EXCEPT ![c] = n]
  BY Ending
<1>2. n \in Fields(n) /\ n.pc = "done" /\ n.out = out /\ n.held = {}
  BY <1>1
<1>3. /\ call' = [d \in Call |-> call'[d]]
      /\ call'[c] = n /\ \A d \in Call : d # c => call'[d] = call[d]
  BY <1>1 DEF Inv, CallsInv
<1>4. ASSUME NEW d \in Call, ~Locked(call'[d]) PROVE CallOK(d, call[d])'
  <2>1. PICK r : r = call'[d]
    OBVIOUS
  <2>2. CASE d = c
    <3>1. CallOK(d, r)'
      BY <1>2, <1>3, <2>1, <2>2 DEF CallOK, Locked, Fields
    <3>2. QED
      BY <2>1, <3>1
  <2>3. CASE d # c
    <3>1. CallOK(d, r) /\ ~Locked(r)
      BY <1>3, <1>4, <2>1, <2>3 DEF Inv, CallsInv
    <3>2. RowOK(r.row) => RowOK(r.row)'
      BY RowStays
    <3>3. \A k : Lost(k) => Lost(k)'
      BY DEF Lost, Steady, Created
    <3>4. d \in past' => d \in past
      BY <2>3
    <3>5. CallOK(d, r)'
      BY <3>1, <3>2, <3>3, <3>4 DEF CallOK, Locked, Fields
    <3>6. QED
      BY <2>1, <3>5
  <2>4. QED
    BY <2>2, <2>3
<1>5. ASSUME NEW d \in Call, Locked(call'[d]) PROVE CallOK(d, call[d])'
  <2>1. d # c /\ call'[d] = call[d]
    BY <1>2, <1>3, <1>5 DEF Locked
  <2>2. PICK r : r = call[d]
    OBVIOUS
  <2>3. CallOK(d, r) /\ r.held \cap call[c].held = {} /\ Locked(r)
    BY <1>5, <2>1, <2>2 DEF Inv, CallsInv
  <2>4. Knows(d, r)' /\ (r.pc = "opened" => Opens(d, r)')
    BY <2>2, <2>3, OthersKnow
  <2>5. \A k : Lost(k) => Lost(k)'
    BY DEF Lost, Steady, Created
  <2>6. LocksOf(d, r)' = LocksOf(d, r)
    BY DEF LocksOf
  <2>7. d \in past' => d \in past
    BY <2>1
  <2>8. CallOK(d, r)'
    BY <2>3, <2>4, <2>5, <2>6, <2>7 DEF CallOK, Locked, Fields
  <2>9. QED
    BY <2>1, <2>2, <2>8
<1>6. ASSUME NEW d \in Call, NEW e \in Call, d # e
      PROVE  call'[d].held \cap call'[e].held = {}
  BY <1>2, <1>3, <1>6 DEF Inv, CallsInv
<1>7. ASSUME NEW d \in Call PROVE CallOK(d, call[d])'
  BY <1>4, <1>5
<1>8. QED
  BY <1>3, <1>6, <1>7 DEF Inv, CallsInv

LEMMA SealedOK ==
    ASSUME Inv, NEW k \in Key, keys[k] # None, NEW v, v = keys[k].ver, CanOpen(k, v),
           NEW c \in Call, NEW t \in Stamp, NEW new, new = Sealed(k, v, v, c, t)
    PROVE  /\ RowOK(new) /\ new \in EntryRow
           /\ new.key = k /\ new.ver = v /\ new.text = t /\ new.hlc = c
<1>1. v \in Version
  BY DEF Inv, DbInv, Types, KeyRow
<1>2. /\ new \in EntryRow /\ new.key = k /\ new.ver = v /\ new.text = t
      /\ new.seal = <<k, v>> /\ new.hlc = c
  BY <1>1 DEF Sealed, EntryRow, Stamp
<1>3. QED
  BY <1>2 DEF RowOK, Authentic, Openable

(* One entry is written or deleted, under a key that is locked.            *)
LEMMA RowWritten ==
    ASSUME Inv, NEW c \in Call, Locked(call[c]), NEW out, Ends(c, out),
           out # "tampered", out # "unread",
           UNCHANGED <<plan, keys, wraps, gone, skipped>>,
           NEW e \in Entry, NEW new \in EntryRow \cup {None},
           rows' = [rows EXCEPT ![e] = new],
           past \subseteq past', past' \subseteq past \cup {c},
           rows[e] # None => rows[e].key \in call[c].held,
           new # None => /\ RowOK(new) /\ new.text \in past' /\ keys[new.key] # None
                         /\ new.ver = keys[new.key].ver /\ new.key \in call[c].held
    PROVE  Inv'
<1>1. Types /\ rows \in [Entry -> EntryRow \cup {None}]
  BY DEF Inv, DbInv, Types
<1>2. rows'[e] = new /\ \A f \in Entry : f # e => rows'[f] = rows[f]
  BY <1>1
<1>3. Steady
  BY DEF Steady, Openable, CanOpen, WrapsAt
<1>4. Types'
  <2>1. rows' \in [Entry -> EntryRow \cup {None}] /\ past' \subseteq Stamp
    BY <1>1 DEF Types, Stamp
  <2>2. QED
    BY <1>1, <2>1 DEF Types, Wrapping
<1>5. ASSUME NEW f \in Entry, rows'[f] # None
      PROVE  RowOK(rows[f])' /\ rows'[f].text \in past' /\ Current(f)'
  <2>1. PICK row : row = rows'[f]
    OBVIOUS
  <2>2. RowOK(row) /\ row.text \in past'
        /\ (keys[row.key] # None /\ row.ver # keys[row.key].ver => f \in skipped[row.key])
    <3>1. CASE f = e
      BY <1>2, <1>5, <2>1, <3>1
    <3>2. CASE f # e
      <4>1. row = rows[f] /\ rows[f] # None
        BY <1>2, <1>5, <2>1, <3>2
      <4>2. RowOK(rows[f]) /\ rows[f].text \in past /\ Current(f)
        BY <4>1 DEF Inv, DbInv
      <4>3. QED
        BY <4>1, <4>2 DEF Current
    <3>3. QED
      BY <3>1, <3>2
  <2>3. RowOK(row)'
    BY <1>3, <2>2, RowStays
  <2>4. QED
    BY <2>1, <2>2, <2>3 DEF Current
<1>6. ASSUME NEW k \in Key, keys'[k] = None, Created(k)' PROVE Untouched(k)'
  <2>1. Untouched(k)
    BY <1>6 DEF Created, Inv, DbInv
  <2>2. \A f \in Entry : rows'[f] # None => rows'[f].key # k
    BY <1>2, <1>6, <2>1 DEF Untouched
  <2>3. QED
    BY <2>1, <2>2 DEF Untouched
<1>7. /\ \A k \in Key : keys'[k] # None => Openable(k, keys[k].ver)'
      /\ \A w \in wraps' : w.rcpt \notin gone'[w.key]
  BY DEF Inv, DbInv, Openable, CanOpen, WrapsAt
<1>8. DbInv'
  BY <1>4, <1>5, <1>6, <1>7 DEF DbInv
<1>9. Beyond(call[c].held)
  BY <1>2 DEF Beyond, WrapsOf
<1>10. QED
  BY <1>3, <1>8, <1>9, Commits

(* The texts of a table in which one entry changes.                        *)
LEMMA StoresOne ==
    ASSUME Inv, NEW c \in Call, NEW e \in Entry, NEW new,
           new = None \/ new.text \in past \cup {c},
           Stores([rows EXCEPT ![e] = new])
    PROVE  /\ rows' = [rows EXCEPT ![e] = new]
           /\ past \subseteq past' /\ past' \subseteq past \cup {c}
           /\ new # None => new.text \in past' /\ past' = past \cup {new.text}
           /\ new = None => past' = past
<1>1. /\ rows' = [rows EXCEPT ![e] = new]
      /\ past' = past \cup {rows'[f].text : f \in {f \in Entry : rows'[f] # None}}
  BY DEF Stores
<1>2. rows'[e] = new /\ \A f \in Entry : f # e => rows'[f] = rows[f]
  BY <1>1 DEF Inv, DbInv, Types
<1>3. \A f \in Entry : rows[f] # None => rows[f].text \in past
  BY DEF Inv, DbInv
<1>4. QED
  BY <1>1, <1>2, <1>3

LEMMA CommitEntryKeeps == ASSUME Inv, NEW c \in Call, CommitEntry(c) PROVE Inv'
<1> DEFINE a == plan[c]
           k == IF a.op = "put" THEN a.k ELSE call[c].row.key
           v == call[c].open
           new == Sealed(k, v, v, c, c)
<1>1. call[c].pc = "opened" /\ a.op \in {"put", "update", "updateIf"} /\ Locked(call[c])
  BY DEF CommitEntry, Locked
<1>2. CASE Stops(c, "conflict")
  BY <1>2, Stopping
<1>3. CASE /\ ~Taken(a.e, k) /\ Ends(c, "updated")
           /\ UNCHANGED <<plan, keys, wraps, gone, skipped>>
           /\ Stores([rows EXCEPT ![a.e] =
                        Sealed(k, IF a.op = "put" THEN call[c].ver ELSE v, v, c, c)])
  <2>1. /\ Knows(c, call[c]) /\ a.e \in Entry /\ a.k \in Key
        /\ a.op \in Direct \cup {"reKey"} => a.k \in call[c].held
        /\ a.op \in Entries => call[c].row.key \in call[c].held
        /\ call[c].held \subseteq Key
    BY <1>1, LocksHeld
  <2>2. Opens(c, call[c])
    BY <1>1 DEF Inv, CallsInv, CallOK
  <2>3. k \in call[c].held /\ k \in Key
    BY <1>1, <2>1 DEF Direct, Entries, Conditional
  <2>4. keys[k] # None /\ v = keys[k].ver /\ CanOpen(k, v)
    BY <1>1, <2>2 DEF Opens, Conditional
  <2>5. a.op = "put" => call[c].ver = v
    BY <2>1, <2>4 DEF Knows
  <2>6. Stores([rows EXCEPT ![a.e] = new])
    BY <1>3, <2>5
  <2>7. /\ RowOK(new) /\ new \in EntryRow /\ new.key = k /\ new.ver = v /\ new.text = c
    <3>1. c \in Stamp
      BY DEF Stamp
    <3>2. new = Sealed(k, v, v, c, c)
      OBVIOUS
    <3> HIDE DEF new, k, v
    <3>3. QED
      BY <2>3, <2>4, <3>1, <3>2, SealedOK
  <2>8. rows[a.e] # None => rows[a.e].key \in call[c].held
    BY <1>3, <2>3 DEF Taken
  <2> HIDE DEF new, k, v
  <2>9. /\ rows' = [rows EXCEPT ![a.e] = new]
        /\ past \subseteq past' /\ past' \subseteq past \cup {c}
        /\ new # None => new.text \in past'
    BY <2>1, <2>6, <2>7, StoresOne
  <2>10. QED
    BY <1>1, <1>3, <2>1, <2>3, <2>4, <2>7, <2>8, <2>9, RowWritten
<1>4. QED
  BY <1>2, <1>3 DEF CommitEntry

LEMMA CommitRefreshKeeps == ASSUME Inv, NEW c \in Call, CommitRefresh(c) PROVE Inv'
<1> DEFINE a == plan[c]
           old == call[c].row
           v == call[c].open
           new == Sealed(old.key, v, v, c, old.text)
<1>1. call[c].pc = "opened" /\ a.op = "refresh" /\ Locked(call[c])
  BY DEF CommitRefresh, Locked
<1>2. CASE Stops(c, "conflict")
  BY <1>2, Stopping
<1>3. CASE /\ Ends(c, "updated") /\ UNCHANGED <<plan, keys, wraps, gone, skipped>>
           /\ Stores([rows EXCEPT ![a.e] = new])
  <2>1. /\ a.e \in Entry /\ old.key \in call[c].held /\ call[c].held \subseteq Key
    BY <1>1, LocksHeld DEF Entries, Conditional
  <2>2. /\ old # None /\ old = rows[a.e] /\ RowOK(old) /\ old.text \in past
    BY <1>1, RowHeld DEF Entries, Conditional
  <2>3. Opens(c, call[c])
    BY <1>1 DEF Inv, CallsInv, CallOK
  <2>4. keys[old.key] # None /\ v = keys[old.key].ver /\ CanOpen(old.key, v)
    BY <1>1, <2>3 DEF Opens, Conditional
  <2>5. /\ RowOK(new) /\ new \in EntryRow /\ new.key = old.key /\ new.ver = v
        /\ new.text = old.text
    <3>1. old.key \in Key /\ old.text \in Stamp
      BY <2>2 DEF RowOK, EntryRow
    <3>2. new = Sealed(old.key, v, v, c, old.text)
      OBVIOUS
    <3> HIDE DEF new, old, v
    <3>3. QED
      BY <2>4, <3>1, <3>2, SealedOK
  <2> HIDE DEF new, old, v
  <2>6. /\ rows' = [rows EXCEPT ![a.e] = new]
        /\ past \subseteq past' /\ past' \subseteq past \cup {c}
        /\ new # None => new.text \in past'
    BY <1>3, <2>1, <2>2, <2>5, StoresOne
  <2>7. QED
    BY <1>1, <1>3, <2>1, <2>2, <2>4, <2>5, <2>6, RowWritten
<1>4. QED
  BY <1>2, <1>3 DEF CommitRefresh

LEMMA CommitReKeyKeeps == ASSUME Inv, NEW c \in Call, CommitReKey(c) PROVE Inv'
<1> DEFINE a == plan[c]
           old == call[c].row
           v == call[c].open
           new == Sealed(a.k, v, v, c, old.text)
<1>1. call[c].pc = "opened" /\ a.op = "reKey" /\ Locked(call[c])
  BY DEF CommitReKey, Locked
<1>2. /\ a.e \in Entry /\ a.k \in Key /\ a.k \in call[c].held
      /\ old.key \in call[c].held
  BY <1>1, LocksHeld DEF Entries
<1>3. old # None /\ old = rows[a.e] /\ RowOK(old) /\ old.text \in past
  BY <1>1, RowHeld DEF Entries
<1>4. Opens(c, call[c])
  BY <1>1 DEF Inv, CallsInv, CallOK
<1>5. keys[a.k] # None /\ v = keys[a.k].ver /\ CanOpen(a.k, v)
  BY <1>1, <1>4 DEF Opens
<1>6. /\ RowOK(new) /\ new \in EntryRow /\ new.key = a.k /\ new.ver = v
      /\ new.text = old.text
  <2>1. old.text \in Stamp
    BY <1>3 DEF RowOK, EntryRow
  <2>2. QED
    BY <1>2, <1>5, <2>1, SealedOK
<1>7. /\ Stores([rows EXCEPT ![a.e] = new]) /\ Ends(c, "moved")
      /\ UNCHANGED <<plan, keys, wraps, gone, skipped>>
  BY <1>3 DEF CommitReKey
<1> HIDE DEF new, old, v
<1>8. /\ rows' = [rows EXCEPT ![a.e] = new]
      /\ past \subseteq past' /\ past' \subseteq past \cup {c}
      /\ new # None => new.text \in past'
  BY <1>2, <1>3, <1>6, <1>7, StoresOne
<1>9. QED
  BY <1>1, <1>2, <1>3, <1>5, <1>6, <1>7, <1>8, RowWritten

LEMMA CommitDeleteKeeps == ASSUME Inv, NEW c \in Call, CommitDelete(c) PROVE Inv'
<1>1. /\ call[c].pc = "entered" /\ plan[c].op = "delete" /\ Locked(call[c])
      /\ rows' = [rows EXCEPT ![plan[c].e] = None] /\ Ends(c, "deleted")
      /\ UNCHANGED <<plan, keys, wraps, gone, skipped, past>>
  BY DEF CommitDelete, Locked
<1>2. /\ plan[c].e \in Entry /\ call[c].row.key \in call[c].held
      /\ call[c].row = rows[plan[c].e]
  BY <1>1, LocksHeld, RowHeld DEF Entries
<1>3. QED
  BY <1>1, <1>2, RowWritten

(* One key is written, with its wrappings and no row.                      *)
LEMMA KeyWritten ==
    ASSUME Inv, NEW c \in Call, Locked(call[c]), NEW out, Ends(c, out),
           out # "tampered", out # "unread",
           UNCHANGED <<plan, rows, skipped, past>>,
           NEW k \in Key, k \in call[c].held,
           keys' \in [Key -> KeyRow \cup {None}],
           gone' \in [Key -> SUBSET Recipient],
           \A j \in Key : j # k => /\ keys'[j] = keys[j] /\ gone'[j] = gone[j]
                                   /\ WrapsOf(j)' = WrapsOf(j),
           \A w \in wraps' : /\ w \in Wrapping(w)
                             /\ w.rcpt \notin gone'[w.key]
                             /\ keys'[w.key] # None => w.ver <= keys'[w.key].ver,
           Self \in gone[k] => Self \in gone'[k],
           \/ /\ keys[k] # None
              /\ keys'[k] # None => keys'[k].ver = keys[k].ver
              /\ keys'[k] = None => ~Created(k)
              /\ \A v \in Version : Openable(k, v) => Openable(k, v)'
           \/ keys[k] = None /\ Created(k) /\ keys'[k] # None /\ Openable(k, keys[k].ver)'
    PROVE  Inv'
<1>1. Types
  BY DEF Inv, DbInv
<1>2. \A j \in Key, v \in Version : j # k /\ Openable(j, v) => Openable(j, v)'
  <2>1. \A j, v : /\ WrapsAt(j, v) = {w \in WrapsOf(j) : w.ver = v}
                  /\ WrapsAt(j, v)' = {w \in WrapsOf(j)' : w.ver = v}
    BY DEF WrapsAt, WrapsOf
  <2>2. QED
    BY <2>1 DEF Openable, CanOpen
<1>3. \A j : Created(j)' = Created(j)
  BY DEF Created
<1>4. Steady
  BY <1>2, <1>3 DEF Steady
<1>5. Types'
  BY <1>1 DEF Types, Wrapping
<1>6. ASSUME NEW e \in Entry, rows'[e] # None
      PROVE  RowOK(rows[e])' /\ rows'[e].text \in past' /\ Current(e)'
  <2>1. RowOK(rows[e]) /\ rows[e].text \in past /\ Current(e) /\ rows'[e] = rows[e]
    BY <1>6 DEF Inv, DbInv
  <2>2. PICK row : row = rows[e]
    OBVIOUS
  <2>3. RowOK(row) /\ RowOK(row)' /\ row.key \in Key
    BY <1>4, <2>1, <2>2, RowStays DEF RowOK, EntryRow
  <2>4. keys'[row.key] # None => keys[row.key] # None /\ keys'[row.key].ver = keys[row.key].ver
    <3>1. Created(row.key) => keys[row.key] # None
      BY <2>3 DEF RowOK
    <3>2. QED
      BY <2>3, <3>1
  <2>5. QED
    BY <2>1, <2>2, <2>3, <2>4 DEF Current
<1>7. ASSUME NEW j \in Key, keys'[j] # None PROVE Openable(j, keys[j].ver)'
  <2>1. CASE j = k
    <3>1. CASE keys[k] # None
      <4>1. keys'[k].ver = keys[k].ver /\ keys[k].ver \in Version /\ Openable(k, keys[k].ver)
        BY <1>1, <1>7, <2>1, <3>1 DEF Inv, DbInv, Types, KeyRow
      <4>2. PICK v : v = keys[k].ver
        OBVIOUS
      <4>3. Openable(k, v)'
        BY <3>1, <4>1, <4>2
      <4>4. QED
        BY <2>1, <4>1, <4>2, <4>3
    <3>2. CASE keys[k] = None
      BY <2>1, <3>2
    <3>3. QED
      BY <3>1, <3>2
  <2>2. CASE j # k
    <3>1. keys'[j] = keys[j] /\ keys[j].ver \in Version /\ Openable(j, keys[j].ver)
      BY <1>1, <1>7, <2>2 DEF Inv, DbInv, Types, KeyRow
    <3>2. PICK v : v = keys[j].ver
      OBVIOUS
    <3>3. Openable(j, v)'
      BY <1>2, <2>2, <3>1, <3>2
    <3>4. QED
      BY <3>1, <3>2, <3>3
  <2>3. QED
    BY <2>1, <2>2
<1>8. ASSUME NEW j \in Key, keys'[j] = None, Created(j)' PROVE Untouched(j)'
  <2>1. j # k /\ keys[j] = None /\ Created(j)
    BY <1>3, <1>8
  <2>2. Untouched(j) /\ WrapsOf(j)' = WrapsOf(j) /\ gone'[j] = gone[j]
    BY <2>1 DEF Inv, DbInv
  <2>3. QED
    BY <2>2 DEF Untouched, WrapsOf
<1>9. DbInv'
  BY <1>5, <1>6, <1>7, <1>8 DEF DbInv
<1>10. Beyond(call[c].held)
  BY DEF Beyond
<1>11. QED
  BY <1>4, <1>9, <1>10, Commits

LEMMA CommitStateKeeps == ASSUME Inv, NEW c \in Call, CommitState(c) PROVE Inv'
<1> DEFINE k == plan[c].k
<1>1. /\ Locked(call[c]) /\ plan[c].op = "setState" /\ Ends(c, "set")
      /\ UNCHANGED <<plan, wraps, rows, gone, skipped, past>>
  BY DEF CommitState, Locked
<1>2. k \in Key /\ k \in call[c].held /\ keys[k] # None
  BY <1>1, LocksHeld DEF Direct, Knows
<1>3. Types /\ keys[k] \in KeyRow
  BY <1>2 DEF Inv, DbInv, Types
<1>4. PICK row : row = [keys[k] EXCEPT !.state = "retired"]
  OBVIOUS
<1>5. row \in KeyRow /\ row.ver = keys[k].ver
  BY <1>3, <1>4 DEF KeyRow
<1>6. keys' = [keys EXCEPT ![k] = row]
  BY <1>2, <1>4 DEF CommitState
<1>7. /\ keys' \in [Key -> KeyRow \cup {None}] /\ keys'[k] = row /\ row # None
      /\ \A j \in Key : j # k => keys'[j] = keys[j]
  BY <1>2, <1>3, <1>5, <1>6, NoneIsNoRow DEF Types
<1>8. \A v \in Version : Openable(k, v) => Openable(k, v)'
  BY <1>1, <1>2, <1>5, <1>7 DEF Openable, CanOpen, WrapsAt
<1>9. \A w \in wraps' : /\ w \in Wrapping(w) /\ w.rcpt \notin gone'[w.key]
                        /\ keys'[w.key] # None => w.ver <= keys'[w.key].ver
  BY <1>1, <1>2, <1>3, <1>5, <1>7 DEF Types, Inv, DbInv, Wrapping
<1>10. \A j \in Key : WrapsOf(j)' = WrapsOf(j)
  BY <1>1 DEF WrapsOf
<1>11. QED
  BY <1>1, <1>2, <1>3, <1>5, <1>7, <1>8, <1>9, <1>10, KeyWritten DEF Types

LEMMA CommitDeleteKeyKeeps ==
    ASSUME Inv, NEW c \in Call, CommitDeleteKey(c) PROVE Inv'
<1> DEFINE k == plan[c].k
<1>1. /\ Locked(call[c]) /\ plan[c].op = "deleteKey" /\ Ends(c, "deleted")
      /\ UNCHANGED <<plan, wraps, rows, gone, skipped, past>>
      /\ keys' = [keys EXCEPT ![k] = None]
  BY DEF CommitDeleteKey, Locked
<1>2. /\ k \in Key /\ k \in call[c].held /\ keys[k] # None /\ plan[c] \in Ask
  BY <1>1, LocksHeld DEF Direct, Knows
<1>3. Types
  BY DEF Inv, DbInv
<1>4. plan[c] # None
  BY <1>1 DEF Inv, CallsInv, CallOK
<1>5. ~Created(k)
  BY <1>1, <1>2, <1>3, <1>4, KeyIDsAreRandom DEF Created, Types
<1>6. /\ keys' \in [Key -> KeyRow \cup {None}] /\ keys'[k] = None
      /\ \A j \in Key : j # k => keys'[j] = keys[j]
  BY <1>1, <1>2, <1>3 DEF Types
<1>7. \A v \in Version : Openable(k, v)'
  BY <1>1, <1>6 DEF Openable
<1>8. \A w \in wraps' : /\ w \in Wrapping(w) /\ w.rcpt \notin gone'[w.key]
                        /\ keys'[w.key] # None => w.ver <= keys'[w.key].ver
  BY <1>1, <1>3, <1>6 DEF Types, Inv, DbInv, Wrapping
<1>9. \A j \in Key : WrapsOf(j)' = WrapsOf(j)
  BY <1>1 DEF WrapsOf
<1>10. QED
  BY <1>1, <1>2, <1>3, <1>5, <1>6, <1>7, <1>8, <1>9, KeyWritten DEF Types

LEMMA CommitCreateKeeps == ASSUME Inv, NEW c \in Call, CommitCreate(c) PROVE Inv'
<1> DEFINE a == plan[c]
           k == a.k
           pinned(r) == a.pin /\ r # Self
           new == {[key |-> k, ver |-> 1, rcpt |-> r, id |-> c,
                    pin |-> pinned(r)] : r \in {Self, a.to}}
           row == [ver |-> 1, state |-> "active"]
<1>0. \A r : pinned(r) \in BOOLEAN
  OBVIOUS
<1>1. /\ Locked(call[c]) /\ a.op = "create" /\ Ends(c, "created")
      /\ UNCHANGED <<plan, rows, gone, skipped, past>>
      /\ keys' = PutKey(k, 1, "active") /\ wraps' = wraps \cup new
  BY DEF CommitCreate, Locked
<1> HIDE DEF pinned
<1>2. /\ k \in Key /\ k \in call[c].held /\ keys[k] = None /\ a \in Ask
      /\ a.to \in Recipient
  BY <1>1, LocksHeld DEF Direct, Knows, Ask
<1>3. a # None /\ Types
  BY <1>1 DEF Inv, DbInv, CallsInv, CallOK
<1>4. Created(k)
  BY <1>1, <1>3 DEF Created, Creates
<1>5. Untouched(k)
  BY <1>2, <1>4 DEF Inv, DbInv
<1>6. row \in KeyRow /\ row.ver = 1 /\ row # None
  BY NoneIsNoRow DEF KeyRow, Version
<1>7. keys' = [keys EXCEPT ![k] = row]
  BY <1>1, <1>2 DEF PutKey
<1> HIDE DEF row
<1>8. /\ keys' \in [Key -> KeyRow \cup {None}] /\ keys'[k] = row
      /\ \A j \in Key : j # k => keys'[j] = keys[j]
  BY <1>2, <1>3, <1>6, <1>7 DEF Types
<1>9. \A w \in new : /\ w \in Wrapping(w) /\ w.key = k /\ w.ver = 1
                     /\ w.rcpt \in Recipient
  BY <1>0, <1>2, VaultConstants DEF Wrapping, Version
<1>10. \E w \in new : w.rcpt = Self
  <2>1. PICK w : w = [key |-> k, ver |-> 1, rcpt |-> Self, id |-> c, pin |-> pinned(Self)]
    OBVIOUS
  <2>2. w \in new /\ w.rcpt = Self
    BY <2>1
  <2>3. QED
    BY <2>2
<1> HIDE DEF new
<1>11. \A w \in wraps' : /\ w \in Wrapping(w) /\ w.rcpt \notin gone'[w.key]
                         /\ keys'[w.key] # None => w.ver <= keys'[w.key].ver
  <2>1. SUFFICES ASSUME NEW w \in wraps'
                 PROVE  /\ w \in Wrapping(w) /\ w.rcpt \notin gone'[w.key]
                        /\ keys'[w.key] # None => w.ver <= keys'[w.key].ver
    OBVIOUS
  <2>2. CASE w \in new
    BY <1>1, <1>5, <1>6, <1>8, <1>9, <2>2 DEF Untouched
  <2>3. CASE w \in wraps
    <3>1. w.key # k /\ w.key \in Key
      BY <1>3, <1>5, <2>3 DEF Untouched, Types, Wrapping
    <3>2. QED
      BY <1>1, <1>3, <1>8, <2>3, <3>1 DEF Types, Inv, DbInv
  <2>4. QED
    BY <1>1, <2>1, <2>2, <2>3
<1>12. Openable(k, keys[k].ver)'
  <2>1. 1 \in 1..keys'[k].ver /\ keys'[k].ver = 1
    BY <1>6, <1>8
  <2>2. \E w \in WrapsAt(k, keys[k].ver)' : w.rcpt = Self
    BY <1>1, <1>9, <1>10, <2>1 DEF WrapsAt
  <2>3. QED
    BY <1>1, <2>1, <2>2 DEF Openable, CanOpen
<1>13. \A j \in Key : j # k => WrapsOf(j)' = WrapsOf(j)
  BY <1>1, <1>9 DEF WrapsOf
<1>14. QED
  BY <1>1, <1>2, <1>3, <1>4, <1>6, <1>8, <1>11, <1>12, <1>13, KeyWritten DEF Types

LEMMA CommitGrantKeeps == ASSUME Inv, NEW c \in Call, CommitGrant(c) PROVE Inv'
<1> DEFINE a == plan[c]
           k == a.k
           new == [key |-> k, ver |-> call[c].ver, rcpt |-> a.to, id |-> c, pin |-> FALSE]
<1>1. /\ Locked(call[c]) /\ a.op = "grant" /\ Ends(c, "granted") /\ call[c].pc = "opened"
      /\ UNCHANGED <<plan, keys, rows, skipped, past>>
      /\ wraps' = wraps \cup {new} /\ gone' = [gone EXCEPT ![k] = @ \ {a.to}]
  BY DEF CommitGrant, Locked
<1>2. /\ k \in Key /\ k \in call[c].held /\ keys[k] # None /\ a \in Ask
      /\ a.to \in Recipient /\ call[c].ver = keys[k].ver
  BY <1>1, LocksHeld DEF Direct, Knows, Ask
<1>3. Types /\ keys[k] \in KeyRow
  BY <1>2 DEF Inv, DbInv, Types
<1>4. Opens(c, call[c])
  BY <1>1 DEF Inv, CallsInv, CallOK
<1>5. CanOpen(k, keys[k].ver)
  BY <1>1, <1>2, <1>4 DEF Opens
<1>6. Self \notin gone[k]
  BY <1>5 DEF CanOpen, WrapsAt, Inv, DbInv
<1>7. /\ gone' \in [Key -> SUBSET Recipient] /\ gone'[k] = gone[k] \ {a.to}
      /\ \A j \in Key : j # k => gone'[j] = gone[j]
  BY <1>1, <1>2, <1>3 DEF Types
<1>8. /\ new \in Wrapping(new) /\ new.key = k /\ new.ver = keys[k].ver
      /\ new.rcpt = a.to /\ keys[k].ver \in Nat
  BY <1>2, <1>3 DEF Wrapping, KeyRow, Version
<1> HIDE DEF new
<1>9. \A w \in wraps' : /\ w \in Wrapping(w) /\ w.rcpt \notin gone'[w.key]
                        /\ keys'[w.key] # None => w.ver <= keys'[w.key].ver
  <2>1. SUFFICES ASSUME NEW w \in wraps'
                 PROVE  /\ w \in Wrapping(w) /\ w.rcpt \notin gone'[w.key]
                        /\ keys'[w.key] # None => w.ver <= keys'[w.key].ver
    OBVIOUS
  <2>2. CASE w = new
    BY <1>1, <1>7, <1>8, <2>2
  <2>3. CASE w \in wraps
    <3>1. /\ w \in Wrapping(w) /\ w.key \in Key /\ w.rcpt \notin gone[w.key]
          /\ keys[w.key] # None => w.ver <= keys[w.key].ver
      BY <1>3, <2>3 DEF Types, Wrapping, Inv, DbInv
    <3>2. QED
      BY <1>1, <1>7, <3>1
  <2>4. QED
    BY <1>1, <2>1, <2>2, <2>3
<1>10. \A v \in Version : Openable(k, v) => Openable(k, v)'
  BY <1>1, <1>6 DEF Openable, CanOpen, WrapsAt
<1>11. \A j \in Key : j # k => WrapsOf(j)' = WrapsOf(j)
  BY <1>1, <1>8 DEF WrapsOf
<1>12. QED
  BY <1>1, <1>2, <1>3, <1>6, <1>7, <1>9, <1>10, <1>11, KeyWritten DEF Types

LEMMA CommitRewrapKeeps == ASSUME Inv, NEW c \in Call, CommitRewrap(c) PROVE Inv'
<1> DEFINE a == plan[c]
           k == a.k
           mine == {w \in WrapsAt(k, call[c].ver) : w.rcpt = Self}
           new == {[w EXCEPT !.id = c] : w \in mine}
<1>1. /\ Locked(call[c]) /\ a.op = "rewrap" /\ Ends(c, "rewrapped")
      /\ UNCHANGED <<plan, keys, rows, gone, skipped, past>>
      /\ wraps' = (wraps \ mine) \cup new
  BY DEF CommitRewrap, Locked
<1>2. k \in Key /\ k \in call[c].held /\ keys[k] # None
  BY <1>1, LocksHeld DEF Direct, Knows
<1>3. Types
  BY DEF Inv, DbInv
<1>4. \A w \in mine : w \in wraps /\ w.key = k
  BY DEF WrapsAt
<1>5. \A w \in mine : LET x == [w EXCEPT !.id = c]
                      IN  /\ x \in new /\ x \in Wrapping(x)
                          /\ x.key = w.key /\ x.ver = w.ver /\ x.rcpt = w.rcpt
  BY <1>3, <1>4 DEF Types, Wrapping
<1>6. \A x \in new : \E w \in wraps : /\ x \in Wrapping(x) /\ w.key = k
                                      /\ x.key = w.key /\ x.ver = w.ver /\ x.rcpt = w.rcpt
  <2>1. SUFFICES ASSUME NEW x \in new
                 PROVE  \E w \in wraps : /\ x \in Wrapping(x) /\ w.key = k
                                        /\ x.key = w.key /\ x.ver = w.ver /\ x.rcpt = w.rcpt
    OBVIOUS
  <2>2. PICK w \in mine : x = [w EXCEPT !.id = c]
    OBVIOUS
  <2> HIDE DEF mine, new
  <2>3. QED
    BY <1>4, <1>5, <2>2
<1>7. \A w \in wraps : \E x \in wraps' : x.key = w.key /\ x.ver = w.ver /\ x.rcpt = w.rcpt
  <2>1. SUFFICES ASSUME NEW w \in wraps
                 PROVE  \E x \in wraps' : x.key = w.key /\ x.ver = w.ver /\ x.rcpt = w.rcpt
    OBVIOUS
  <2>2. CASE w \in mine
    BY <1>1, <1>5, <2>2
  <2>3. CASE w \notin mine
    BY <1>1, <2>3
  <2>4. QED
    BY <2>2, <2>3
<1> HIDE DEF mine, new
<1>8. \A w \in wraps' : /\ w \in Wrapping(w) /\ w.rcpt \notin gone'[w.key]
                        /\ keys'[w.key] # None => w.ver <= keys'[w.key].ver
  <2>1. \A w \in wraps : /\ w \in Wrapping(w) /\ w.rcpt \notin gone[w.key]
                         /\ keys[w.key] # None => w.ver <= keys[w.key].ver
    BY <1>3 DEF Types, Inv, DbInv
  <2>2. QED
    BY <1>1, <1>6, <2>1
<1>9. \A v \in Version : Openable(k, v) => Openable(k, v)'
  BY <1>1, <1>7 DEF Openable, CanOpen, WrapsAt
<1>10. \A j \in Key : j # k => WrapsOf(j)' = WrapsOf(j)
  BY <1>1, <1>4, <1>6 DEF WrapsOf
<1>11. QED
  BY <1>1, <1>2, <1>3, <1>8, <1>9, <1>10, KeyWritten DEF Types

-----------------------------------------------------------------------------
(* A rotation.  What it listed when it took the lock is what is stored.    *)
RowsOfKey(k) == {e \in Entry : rows[e] # None /\ rows[e].key = k}

LEMMA RotationListed ==
    ASSUME Inv, NEW c \in Call, call[c].pc = "opened", plan[c] # None,
           plan[c].op = "rotate"
    PROVE  LET a == plan[c]
               r == call[c]
           IN  /\ Locked(r) /\ a \in Ask /\ a.k \in Key /\ a.k \in r.held
               /\ a.out \subseteq Recipient /\ a.from \in Nat
               /\ keys[a.k] \in KeyRow /\ keys[a.k] # None
               /\ r.ver = keys[a.k].ver /\ r.open = r.ver + 1
               /\ r.list.wraps = WrapsOf(a.k) /\ r.list.state = keys[a.k].state
               /\ DOMAIN r.list.rows = RowsOfKey(a.k)
               /\ \A e \in RowsOfKey(a.k) : r.list.rows[e] = rows[e]
               /\ a.from # 0 => CanOpen(a.k, a.from)
<1> DEFINE a == plan[c]
           r == call[c]
<1>1. Locked(r) /\ Opens(c, r)
  BY DEF Locked, Inv, CallsInv, CallOK
<1>2. /\ a \in Ask /\ a.k \in Key /\ a.k \in r.held /\ Knows(c, r)
  BY <1>1, LocksHeld DEF Direct
<1>3. /\ keys[a.k] # None /\ r.ver = keys[a.k].ver /\ r.list = Listed(a.k)
  BY <1>2 DEF Knows
<1>4. keys[a.k] \in KeyRow
  BY <1>2, <1>3 DEF Inv, DbInv, Types
<1>5. /\ r.list.wraps = WrapsOf(a.k) /\ r.list.state = keys[a.k].state
      /\ DOMAIN r.list.rows = RowsOfKey(a.k)
      /\ \A e \in RowsOfKey(a.k) : r.list.rows[e] = rows[e]
  BY <1>3 DEF Listed, RowsOfKey
<1>6. r.open = r.ver + 1 /\ (a.from # 0 => CanOpen(a.k, a.from))
  BY <1>1 DEF Opens
<1>7. a.out \subseteq Recipient /\ a.from \in Nat
  BY <1>2 DEF Ask
<1>8. QED
  BY <1>1, <1>2, <1>3, <1>4, <1>5, <1>6, <1>7

Rotates(c) ==
    /\ call[c].pc = "opened" /\ plan[c] # None /\ plan[c].op = "rotate"
    /\ keys' = [keys EXCEPT ![plan[c].k] =
                  [ver |-> call[c].open, state |-> call[c].list.state]]
    /\ wraps' = (wraps \cup Rewrapped(c)) \ Denied(c)
    /\ Stores(Reissued(c))
    /\ gone' = [gone EXCEPT ![plan[c].k] = @ \cup plan[c].out]
    /\ skipped' = [skipped EXCEPT ![plan[c].k] =
                      {e \in RowsOfKey(plan[c].k) : plan[c].re[e] = "skip"}]
    /\ Ends(c, "rotated")
    /\ UNCHANGED plan

(* The key after it, and what it did to the wrappings.                     *)
LEMMA RotationKey ==
    ASSUME Inv, NEW c \in Call, Rotates(c), NEW k, k = plan[c].k
    PROVE  /\ keys' \in [Key -> KeyRow \cup {None}]
           /\ keys'[k] # None /\ keys'[k].ver = call[c].open
           /\ call[c].open \in Version /\ call[c].open > keys[k].ver
           /\ keys[k].ver \in Version
           /\ gone' \in [Key -> SUBSET Recipient]
           /\ gone'[k] = gone[k] \cup plan[c].out
           /\ skipped' \in [Key -> SUBSET Entry]
           /\ \A j \in Key : j # k => /\ keys'[j] = keys[j] /\ gone'[j] = gone[j]
                                      /\ skipped'[j] = skipped[j]
<1> DEFINE a == plan[c]
           row == [ver |-> call[c].open, state |-> call[c].list.state]
<1>1. /\ k \in Key /\ a.out \subseteq Recipient /\ keys[k] \in KeyRow
      /\ call[c].ver = keys[k].ver /\ call[c].open = call[c].ver + 1
      /\ call[c].list.state = keys[k].state
  BY RotationListed DEF Rotates
<1>2. Types
  BY DEF Inv, DbInv
<1>3. /\ call[c].open \in Version /\ call[c].open > keys[k].ver
      /\ keys[k].ver \in Version
  BY <1>1 DEF KeyRow, Version
<1>4. row \in KeyRow /\ row.ver = call[c].open /\ row # None
  BY <1>1, <1>3, NoneIsNoRow DEF KeyRow
<1>5. keys' = [keys EXCEPT ![k] = row]
  BY DEF Rotates
<1> HIDE DEF row
<1>6. /\ keys' \in [Key -> KeyRow \cup {None}] /\ keys'[k] = row
      /\ \A j \in Key : j # k => keys'[j] = keys[j]
  BY <1>1, <1>2, <1>4, <1>5 DEF Types
<1>7. /\ gone' \in [Key -> SUBSET Recipient] /\ gone'[k] = gone[k] \cup a.out
      /\ \A j \in Key : j # k => gone'[j] = gone[j]
  BY <1>1, <1>2 DEF Types, Rotates
<1>8. /\ skipped' \in [Key -> SUBSET Entry]
      /\ \A j \in Key : j # k => skipped'[j] = skipped[j]
  BY <1>1, <1>2 DEF Types, Rotates, RowsOfKey
<1>9. QED
  BY <1>3, <1>4, <1>6, <1>7, <1>8

LEMMA RotationWraps ==
    ASSUME Inv, NEW c \in Call, Rotates(c), NEW k, k = plan[c].k
    PROVE  /\ \A w \in wraps' : /\ w \in Wrapping(w)
                                /\ w.rcpt \notin gone'[w.key]
                                /\ keys'[w.key] # None => w.ver <= keys'[w.key].ver
           /\ \A j \in Key : j # k => WrapsOf(j)' = WrapsOf(j)
           /\ \A v \in Version : Openable(k, v) => Openable(k, v)'
           /\ \A v : v = call[c].open => Openable(k, v)'
<1> DEFINE a == plan[c]
           open == call[c].open
<1>1. /\ k \in Key /\ call[c].ver = keys[k].ver /\ keys[k] # None
      /\ call[c].list.wraps = WrapsOf(k) /\ (a.from # 0 => CanOpen(k, a.from))
  BY RotationListed DEF Rotates
<1>2. /\ keys'[k] # None /\ keys'[k].ver = open /\ open \in Version
      /\ open > keys[k].ver /\ keys[k].ver \in Version
      /\ gone'[k] = gone[k] \cup a.out
      /\ \A j \in Key : j # k => keys'[j] = keys[j] /\ gone'[j] = gone[j]
  BY RotationKey
<1>3. \A w \in wraps : /\ w \in Wrapping(w) /\ w.key \in Key /\ w.ver \in Version
                       /\ w.rcpt \notin gone[w.key]
                       /\ keys[w.key] # None => w.ver <= keys[w.key].ver
  BY DEF Inv, DbInv, Types, Wrapping
<1>4. Denied(c) = {w \in wraps : w.key = k /\ w.rcpt \in a.out}
  BY <1>1 DEF Denied, WrapsOf, Excluded
<1>5. Retained(c) = {w \in wraps : w.key = k /\ w.ver = Source(c) /\ w.rcpt \notin a.out}
  BY <1>1 DEF Retained, WrapsOf, Excluded
<1>6. ASSUME NEW w \in Retained(c)
      PROVE  \E x \in Rewrapped(c) : /\ x = [w EXCEPT !.ver = open, !.id = <<c, w.id>>]
                                     /\ x \in Wrapping(x) /\ x.key = k /\ x.ver = open
                                     /\ x.rcpt = w.rcpt
  <2>1. PICK x : x = [w EXCEPT !.ver = open, !.id = <<c, w.id>>]
    OBVIOUS
  <2>2. w \in Wrapping(w) /\ w.key = k
    BY <1>3, <1>5
  <2>3. /\ x \in Wrapping(x) /\ x.key = k /\ x.ver = open /\ x.rcpt = w.rcpt
    BY <1>2, <2>1, <2>2 DEF Wrapping
  <2>4. x \in Rewrapped(c)
    BY <2>1 DEF Rewrapped
  <2>5. QED
    BY <2>1, <2>3, <2>4
<1>7. \A x \in Rewrapped(c) : \E w \in Retained(c) :
        x \in Wrapping(x) /\ x.key = k /\ x.ver = open /\ x.rcpt = w.rcpt
  <2>1. SUFFICES ASSUME NEW x \in Rewrapped(c)
                 PROVE  \E w \in Retained(c) :
                          x \in Wrapping(x) /\ x.key = k /\ x.ver = open /\ x.rcpt = w.rcpt
    OBVIOUS
  <2>2. PICK w \in Retained(c) : x = [w EXCEPT !.ver = open, !.id = <<c, w.id>>]
    BY DEF Rewrapped
  <2>3. QED
    BY <1>6, <2>2
<1>8. wraps' = (wraps \cup Rewrapped(c)) \ Denied(c)
  BY DEF Rotates
<1> HIDE DEF open
<1>9. \A w \in wraps' : /\ w \in Wrapping(w)
                        /\ w.rcpt \notin gone'[w.key]
                        /\ keys'[w.key] # None => w.ver <= keys'[w.key].ver
  <2>1. SUFFICES ASSUME NEW w \in wraps'
                 PROVE  /\ w \in Wrapping(w)
                        /\ w.rcpt \notin gone'[w.key]
                        /\ keys'[w.key] # None => w.ver <= keys'[w.key].ver
    OBVIOUS
  <2>2. CASE w \in Rewrapped(c)
    <3>1. PICK u \in Retained(c) : /\ w \in Wrapping(w) /\ w.key = k /\ w.ver = open
                                   /\ w.rcpt = u.rcpt
      BY <1>7, <2>2
    <3>2. w.rcpt \notin gone[k] \cup a.out
      BY <1>3, <1>5, <3>1
    <3>3. QED
      BY <1>2, <3>1, <3>2 DEF Version
  <2>3. CASE w \in wraps /\ w \notin Denied(c)
    <3>1. CASE w.key = k
      <4>1. w.rcpt \notin gone[k] \cup a.out /\ w.ver <= keys[k].ver /\ w.ver \in Version
        BY <1>1, <1>3, <1>4, <2>3, <3>1
      <4>2. w.ver <= open
        BY <1>2, <4>1 DEF Version
      <4>3. QED
        BY <1>2, <1>3, <2>3, <3>1, <4>1, <4>2
    <3>2. CASE w.key # k
      BY <1>2, <1>3, <2>3, <3>2
    <3>3. QED
      BY <3>1, <3>2
  <2>4. QED
    BY <1>8, <2>2, <2>3
<1>10. \A j \in Key : j # k => WrapsOf(j)' = WrapsOf(j)
  BY <1>4, <1>7, <1>8 DEF WrapsOf
<1>11. ASSUME NEW v \in Version, Openable(k, v) PROVE Openable(k, v)'
  <2>1. SUFFICES ASSUME Self \notin gone'[k] PROVE CanOpen(k, v)'
    BY DEF Openable
  <2>2. CanOpen(k, v) /\ Self \notin a.out
    BY <1>1, <1>2, <1>11, <2>1 DEF Openable
  <2>3. PICK w \in WrapsAt(k, v) : w.rcpt = Self
    BY <2>2 DEF CanOpen
  <2>4. w \in WrapsAt(k, v)'
    BY <1>4, <1>8, <2>2, <2>3 DEF WrapsAt
  <2>5. v \in 1..keys'[k].ver
    <3>1. v \in 1..keys[k].ver
      BY <2>2 DEF CanOpen
    <3>2. QED
      BY <1>2, <3>1 DEF Version
  <2>6. QED
    BY <1>2, <2>3, <2>4, <2>5 DEF CanOpen
<1>12. ASSUME NEW v, v = open PROVE Openable(k, v)'
  <2>1. SUFFICES ASSUME Self \notin gone'[k] PROVE CanOpen(k, v)'
    BY DEF Openable
  <2>2. Self \notin gone[k] /\ Self \notin a.out
    BY <1>2, <2>1
  <2>3. CanOpen(k, Source(c))
    BY <1>1, <2>2 DEF Source, Inv, DbInv, Openable
  <2>4. PICK w \in WrapsAt(k, Source(c)) : w.rcpt = Self
    BY <2>3 DEF CanOpen
  <2>5. w \in Retained(c)
    BY <1>5, <2>2, <2>4 DEF WrapsAt
  <2>6. PICK x \in Rewrapped(c) : x.key = k /\ x.ver = open /\ x.rcpt = Self
    BY <1>6, <2>4, <2>5
  <2>7. x \in WrapsAt(k, v)'
    BY <1>4, <1>8, <1>12, <2>2, <2>6 DEF WrapsAt
  <2>8. v \in 1..keys'[k].ver
    BY <1>2, <1>12 DEF Version
  <2>9. QED
    BY <1>2, <2>6, <2>7, <2>8 DEF CanOpen
<1>13. QED
  BY <1>9, <1>10, <1>11, <1>12 DEF open

(* The entries after it: left alone, deleted, or under the new version.    *)
LEMMA RotationRows ==
    ASSUME Inv, NEW c \in Call, Rotates(c), NEW k, k = plan[c].k
    PROVE  /\ rows' \in [Entry -> EntryRow \cup {None}]
           /\ past \subseteq past' /\ past' \subseteq past \cup {c}
           /\ \A e \in Entry :
                 \/ rows'[e] = rows[e] /\ (e \in RowsOfKey(k) => e \in skipped'[k])
                 \/ rows'[e] = None /\ e \in RowsOfKey(k)
                 \/ /\ e \in RowsOfKey(k) /\ rows'[e] \in EntryRow
                    /\ rows'[e].text \in past'
                    /\ rows'[e].seal = <<k, call[c].open>>
                    /\ rows'[e].key = k /\ rows'[e].ver = call[c].open
<1> DEFINE a == plan[c]
           text(e) == IF a.re[e] = "replace" THEN c ELSE call[c].list.rows[e].text
           new(e) == Sealed(k, call[c].open, call[c].open, c, text(e))
           in == RowsOfKey(k)
<1>1. /\ k \in Key /\ DOMAIN call[c].list.rows = in
      /\ \A e \in in : call[c].list.rows[e] = rows[e]
  BY RotationListed DEF Rotates
<1>2. call[c].open \in Version
  BY RotationKey
<1>3. \A e \in in : e \in Entry /\ rows[e] # None /\ rows[e].key = k
                    /\ rows[e].text \in past /\ rows[e].text \in Stamp
  BY DEF RowsOfKey, Inv, DbInv, Types
<1>4. \A e \in in : text(e) \in past \cup {c} /\ text(e) \in Stamp
  BY <1>1, <1>3 DEF Stamp
<1> HIDE DEF text
<1>5. \A e \in in : /\ new(e) \in EntryRow /\ new(e).text = text(e)
                    /\ new(e).seal = <<k, call[c].open>>
                    /\ new(e).key = k /\ new(e).ver = call[c].open
  BY <1>1, <1>2, <1>4 DEF Sealed, EntryRow, Stamp
<1>6. rows' = [e \in Entry |-> IF e \notin in \/ a.re[e] = "skip" THEN rows[e]
                               ELSE IF a.re[e] = "delete" THEN None ELSE new(e)]
  BY <1>1 DEF Rotates, Stores, Reissued, text
<1> HIDE DEF new
<1>7. \A e \in Entry : \/ rows'[e] = rows[e] /\ (e \in in => a.re[e] = "skip")
                       \/ rows'[e] = None /\ e \in in
                       \/ rows'[e] = new(e) /\ e \in in
  BY <1>6
<1>8. rows \in [Entry -> EntryRow \cup {None}] /\ skipped \in [Key -> SUBSET Entry]
  BY DEF Inv, DbInv, Types
<1>9. rows' \in [Entry -> EntryRow \cup {None}]
  BY <1>5, <1>6, <1>7, <1>8
<1>10. past' = past \cup {rows'[e].text : e \in {e \in Entry : rows'[e] # None}}
  BY DEF Rotates, Stores
<1>11. \A e \in Entry : rows'[e] # None => rows'[e].text \in past \cup {c}
  <2>1. SUFFICES ASSUME NEW e \in Entry, rows'[e] # None
                 PROVE  rows'[e].text \in past \cup {c}
    OBVIOUS
  <2>2. CASE rows'[e] = rows[e]
    BY <2>1, <2>2 DEF Inv, DbInv
  <2>3. CASE rows'[e] = new(e) /\ e \in in
    BY <1>4, <1>5, <2>3
  <2>4. QED
    BY <1>7, <2>1, <2>2, <2>3
<1>12. skipped'[k] = {e \in in : a.re[e] = "skip"}
  BY <1>1, <1>8 DEF Rotates
<1>13. past \subseteq past' /\ past' \subseteq past \cup {c}
  BY <1>10, <1>11
<1>14. \A e \in Entry : rows'[e] # None => rows'[e].text \in past'
  BY <1>10
<1>15. ASSUME NEW e \in Entry, rows'[e] = new(e), e \in in
       PROVE  /\ rows'[e] \in EntryRow /\ rows'[e].text \in past'
              /\ rows'[e].seal = <<k, call[c].open>>
              /\ rows'[e].key = k /\ rows'[e].ver = call[c].open
  BY <1>5, <1>14, <1>15, NoneIsNoRow
<1>16. QED
  BY <1>7, <1>9, <1>12, <1>13, <1>15

LEMMA RotatesKeeps == ASSUME Inv, NEW c \in Call, Rotates(c) PROVE Inv'
<1>1. PICK k : k = plan[c].k
  OBVIOUS
<1>2. PICK open : open = call[c].open
  OBVIOUS
<1>3. /\ Locked(call[c]) /\ k \in Key /\ k \in call[c].held /\ keys[k] # None
      /\ plan' = plan /\ Ends(c, "rotated")
  BY <1>1, RotationListed DEF Rotates
<1>4. /\ keys' \in [Key -> KeyRow \cup {None}]
      /\ keys'[k] # None /\ keys'[k].ver = open /\ open \in Version
      /\ gone' \in [Key -> SUBSET Recipient]
      /\ gone'[k] = gone[k] \cup plan[c].out
      /\ skipped' \in [Key -> SUBSET Entry]
      /\ \A j \in Key : j # k => /\ keys'[j] = keys[j] /\ gone'[j] = gone[j]
                                 /\ skipped'[j] = skipped[j]
  BY <1>1, <1>2, RotationKey
<1>5. /\ \A w \in wraps' : /\ w \in Wrapping(w)
                           /\ w.rcpt \notin gone'[w.key]
                           /\ keys'[w.key] # None => w.ver <= keys'[w.key].ver
      /\ \A j \in Key : j # k => WrapsOf(j)' = WrapsOf(j)
      /\ \A v \in Version : Openable(k, v) => Openable(k, v)'
      /\ Openable(k, open)'
  BY <1>1, <1>2, RotationWraps
<1>6. /\ rows' \in [Entry -> EntryRow \cup {None}]
      /\ past \subseteq past' /\ past' \subseteq past \cup {c}
      /\ \A e \in Entry :
            \/ rows'[e] = rows[e] /\ (e \in RowsOfKey(k) => e \in skipped'[k])
            \/ rows'[e] = None /\ e \in RowsOfKey(k)
            \/ /\ e \in RowsOfKey(k) /\ rows'[e] \in EntryRow
               /\ rows'[e].text \in past' /\ rows'[e].seal = <<k, open>>
               /\ rows'[e].key = k /\ rows'[e].ver = open
  BY <1>1, <1>2, RotationRows
<1>7. \A j \in Key, v \in Version : j # k /\ Openable(j, v) => Openable(j, v)'
  <2>1. \A j, v : /\ WrapsAt(j, v) = {w \in WrapsOf(j) : w.ver = v}
                  /\ WrapsAt(j, v)' = {w \in WrapsOf(j)' : w.ver = v}
    BY DEF WrapsAt, WrapsOf
  <2>2. QED
    BY <1>4, <1>5, <2>1 DEF Openable, CanOpen
<1>8. \A j : Created(j)' = Created(j)
  BY <1>3 DEF Created
<1>9. Steady
  <2>1. \A j \in Key : Self \in gone[j] => Self \in gone'[j]
    BY <1>4
  <2>2. \A j \in Key, v \in Version : Openable(j, v) => Openable(j, v)'
    BY <1>5, <1>7
  <2>3. QED
    BY <1>3, <1>4, <1>8, <2>1, <2>2 DEF Steady
<1>10. Types'
  <2>1. Types /\ past' \subseteq Stamp
    BY <1>6 DEF Inv, DbInv, Types, Stamp
  <2>2. QED
    BY <1>3, <1>4, <1>5, <1>6, <2>1 DEF Types, Wrapping
<1>11. ASSUME NEW e \in Entry, rows'[e] # None
       PROVE  RowOK(rows[e])' /\ rows'[e].text \in past' /\ Current(e)'
  <2>1. PICK row : row = rows'[e]
    OBVIOUS
  <2>2. CASE row = rows[e] /\ (e \in RowsOfKey(k) => e \in skipped'[k])
    <3>1. RowOK(row) /\ row.text \in past /\ Current(e) /\ row.key \in Key
      BY <1>11, <2>1, <2>2 DEF Inv, DbInv, RowOK, EntryRow
    <3>2. RowOK(row)'
      BY <1>3, <1>9, <3>1, RowStays
    <3>3. Current(e)'
      BY <1>3, <1>4, <1>11, <2>1, <2>2, <3>1 DEF Current, RowsOfKey
    <3>4. QED
      BY <1>6, <2>1, <3>1, <3>2, <3>3
  <2>3. CASE /\ row \in EntryRow /\ row.text \in past' /\ row.seal = <<k, open>>
             /\ row.key = k /\ row.ver = open
    <3>1. RowOK(row)'
      BY <1>4, <1>5, <2>3 DEF RowOK, Authentic
    <3>2. Current(e)'
      BY <1>4, <2>1, <2>3 DEF Current
    <3>3. QED
      BY <2>1, <2>3, <3>1, <3>2
  <2>4. QED
    BY <1>6, <1>11, <2>1, <2>2, <2>3
<1>12. ASSUME NEW j \in Key, keys'[j] # None PROVE Openable(j, keys[j].ver)'
  <2>1. CASE j = k
    BY <1>4, <1>5, <2>1
  <2>2. CASE j # k
    <3>1. keys'[j] = keys[j] /\ keys[j].ver \in Version /\ Openable(j, keys[j].ver)
      BY <1>4, <1>12, <2>2 DEF Inv, DbInv, Types, KeyRow
    <3>2. PICK v : v = keys[j].ver
      OBVIOUS
    <3>3. Openable(j, v)'
      BY <1>7, <2>2, <3>1, <3>2
    <3>4. QED
      BY <3>1, <3>2, <3>3
  <2>3. QED
    BY <2>1, <2>2
<1>13. ASSUME NEW j \in Key, keys'[j] = None, Created(j)' PROVE Untouched(j)'
  <2>1. j # k /\ keys[j] = None /\ Created(j)
    BY <1>4, <1>8, <1>13
  <2>2. Untouched(j) /\ WrapsOf(j)' = WrapsOf(j) /\ gone'[j] = gone[j]
    BY <1>4, <1>5, <2>1 DEF Inv, DbInv
  <2>3. \A e \in Entry : rows'[e] # None => rows'[e].key # j
    BY <1>6, <2>1, <2>2 DEF Untouched
  <2>4. QED
    BY <2>2, <2>3 DEF Untouched, WrapsOf
<1>14. DbInv'
  BY <1>5, <1>10, <1>11, <1>12, <1>13 DEF DbInv
<1>15. Beyond(call[c].held)
  BY <1>3, <1>4, <1>5, <1>6 DEF Beyond, RowsOfKey
<1>16. QED
  BY <1>3, <1>6, <1>9, <1>14, <1>15, Commits

(* Under the lock no listed entry has moved, and no later version is stored. *)
LEMMA CommitRotateIs == ASSUME Inv, NEW c \in Call, CommitRotate(c) PROVE Rotates(c)
<1> DEFINE a == plan[c]
           in == DOMAIN call[c].list.rows
<1>1. call[c].pc = "opened" /\ a.op = "rotate" /\ a # None
  BY DEF CommitRotate, Inv, CallsInv, CallOK, Locked
<1>2. /\ in = RowsOfKey(a.k) /\ keys[a.k] # None
      /\ call[c].open = keys[a.k].ver + 1 /\ keys[a.k] \in KeyRow
  BY <1>1, RotationListed
<1>3. ~\E e \in in : Taken(e, a.k)
  BY <1>2 DEF Taken, RowsOfKey
<1>4. ~(keys[a.k].ver > call[c].open)
  BY <1>2 DEF KeyRow, Version
<1>5. QED
  BY <1>1, <1>2, <1>3, <1>4 DEF CommitRotate, Rotates, PutKey

LEMMA CommitRotateKeeps == ASSUME Inv, NEW c \in Call, CommitRotate(c) PROVE Inv'
BY CommitRotateIs, RotatesKeeps

-----------------------------------------------------------------------------
(* The invariant holds at the beginning and in every step.                 *)
LEMMA InvInit == ASSUME Init PROVE Inv
<1>1. PICK s \in Start : keys = s.keys /\ wraps = s.wraps /\ rows = s.rows
  BY DEF Init
<1>2. /\ plan \in Plan /\ call = [c \in Call |-> Idle]
      /\ gone = [k \in Key |-> {}] /\ skipped = [k \in Key |-> {}]
      /\ past = {rows[e].text : e \in {e \in Entry : rows[e] # None}}
  BY DEF Init
<1>3. /\ keys \in [Key -> KeyRow \cup {None}] /\ rows \in [Entry -> EntryRow \cup {None}]
      /\ \A w \in wraps : /\ w \in Wrapping(w)
                          /\ keys[w.key] # None => w.ver <= keys[w.key].ver
  BY <1>1, StartAssumption DEF Wrapping
<1>4. \A k \in Key : keys[k] # None =>
        \E w \in wraps : w.key = k /\ w.ver = keys[k].ver /\ w.rcpt = Self
  BY <1>1, StartAssumption
<1>5. ASSUME NEW e \in Entry, rows[e] # None
      PROVE  /\ rows[e].seal = <<rows[e].key, rows[e].ver>> /\ rows[e].text = Old
             /\ keys[rows[e].key] # None => rows[e].ver = keys[rows[e].key].ver
             /\ rows[e] \in EntryRow
  BY <1>1, <1>3, <1>5, StartAssumption
<1>6. \A k \in Key : keys[k] = None /\ Created(k) =>
        /\ \A w \in wraps : w.key # k
        /\ \A e \in Entry : rows[e] # None => rows[e].key # k
  BY <1>1, <1>2, KeyIDsAreRandom DEF Created
<1>7. past \subseteq Stamp /\ \A c \in Call : c \notin past
  BY <1>2, <1>5, VaultConstants DEF Stamp
<1>8. Types
  BY <1>2, <1>3, <1>7 DEF Types
<1>9. ASSUME NEW k \in Key, keys[k] # None PROVE Openable(k, keys[k].ver)
  <2>1. keys[k].ver \in 1..keys[k].ver
    BY <1>3, <1>9 DEF KeyRow, Version
  <2>2. QED
    BY <1>4, <1>9, <2>1 DEF Openable, CanOpen, WrapsAt
<1>10. ASSUME NEW e \in Entry, rows[e] # None
       PROVE  RowOK(rows[e]) /\ rows[e].text \in past /\ Current(e)
  <2>1. rows[e].key \in Key /\ rows[e].text \in past
    BY <1>2, <1>5, <1>10 DEF EntryRow
  <2>2. Created(rows[e].key) => keys[rows[e].key] # None
    BY <1>6, <1>10, <2>1
  <2>3. Openable(rows[e].key, rows[e].ver)
    BY <1>5, <1>9, <1>10, <2>1 DEF Openable
  <2>4. QED
    BY <1>5, <1>10, <2>1, <2>2, <2>3 DEF RowOK, Authentic, Current
<1>11. \A w \in wraps : w.rcpt \notin gone[w.key]
  BY <1>2, <1>3 DEF Wrapping
<1>12. \A k \in Key : keys[k] = None /\ Created(k) => Untouched(k)
  BY <1>2, <1>6 DEF Untouched
<1>13. Idle \in Fields(Idle) /\ Idle.pc = "idle" /\ Idle.held = {} /\ Idle.out = "none"
  BY DEF Idle, Fields
<1>14. \A c \in Call : CallOK(c, Idle)
  BY <1>7, <1>13 DEF CallOK, Locked
<1>15. CallsInv
  BY <1>2, <1>13, <1>14 DEF CallsInv
<1>16. QED
  BY <1>8, <1>9, <1>10, <1>11, <1>12, <1>15 DEF Inv, DbInv

LEMMA InvStep == ASSUME Inv, Next PROVE Inv'
<1>1. PICK c \in Call : Look(c) \/ ObserveKey(c) \/ ReadRow(c) \/ Step(c) \/ Fail(c)
  BY DEF Next
<1>2. CASE Look(c)
  BY <1>2, LookKeeps
<1>3. CASE ObserveKey(c)
  BY <1>3, ObserveKeyKeeps
<1>4. CASE ReadRow(c)
  BY <1>4, ReadRowKeeps
<1>5. CASE Fail(c)
  BY <1>5, FailKeeps
<1>6. CASE Observe(c)
  BY <1>6, ObserveKeeps
<1>11. CASE Wait(c)
  BY <1>11, WaitKeeps
<1>7. CASE Enter(c)
  BY <1>7, EnterPutKeeps, EnterEntryKeeps, EnterReKeyKeeps, EnterKeyKeeps,
     EnterCreateKeeps, EnterRotateKeeps DEF Enter
<1>8. CASE Open(c)
  BY <1>8, OpenEntryKeeps, OpenReKeyKeeps, OpenKeyKeeps, OpenRotateKeeps DEF Open
<1>9. CASE Commit(c)
  BY <1>9, CommitEntryKeeps, CommitRefreshKeeps, CommitDeleteKeeps, CommitReKeyKeeps,
     CommitCreateKeeps, CommitGrantKeeps, CommitRewrapKeeps, CommitStateKeeps,
     CommitDeleteKeyKeeps, CommitRotateKeeps DEF Commit
<1>10. CASE Decrypt(c)
  BY <1>10, DecryptKeeps
<1>12. QED
  BY <1>1, <1>2, <1>3, <1>4, <1>5, <1>6, <1>7, <1>8, <1>9, <1>10, <1>11 DEF Step

LEMMA InvNext == Inv /\ [Next]_vars => Inv'
<1>1. ASSUME Inv, Next PROVE Inv'
  BY <1>1, InvStep
<1>2. ASSUME Inv, UNCHANGED vars PROVE Inv'
  <2>1. UNCHANGED database /\ call' = call
    BY <1>2 DEF vars, database
  <2>2. DbInv'
    BY <1>2, <2>1, DbKept DEF Inv
  <2>3. ASSUME NEW c \in Call PROVE CallOK(c, call[c])'
    <3>1. PICK r : r = call[c]
      OBVIOUS
    <3>2. CallOK(c, r)
      BY <1>2, <3>1 DEF Inv, CallsInv
    <3>3. CallOK(c, r)'
      BY <2>1, <3>2, CallKept
    <3>4. QED
      BY <2>1, <3>1, <3>3
  <2>4. QED
    BY <1>2, <2>1, <2>2, <2>3 DEF Inv, CallsInv
<1>3. QED
  BY <1>1, <1>2

THEOREM VaultInvariant == Spec => []Inv
<1>1. Init => Inv
  BY InvInit
<1>2. QED
  BY <1>1, InvNext, PTL DEF Spec

(* Every entry stays readable, and so does every row a read has found:     *)
(* no order of rotations, moves, re-wraps and writes strands one.          *)
THEOREM EntriesStayReadable == Spec => []StaysReadable
<1>1. ASSUME Inv PROVE StaysReadable
  <2>1. ASSUME NEW e \in Entry, rows[e] # None
        PROVE  /\ Authentic(rows[e])
               /\ keys[rows[e].key] # None /\ Self \notin gone[rows[e].key]
                     => CanOpen(rows[e].key, rows[e].ver)
    BY <1>1, <2>1 DEF Inv, DbInv, RowOK, Openable
  <2>2. ASSUME NEW c \in Call
        PROVE  call[c].out # "tampered" /\
                 (call[c].out = "unread" =>
                    keys[call[c].obs] = None \/ Self \in gone[call[c].obs])
    BY <1>1 DEF Inv, CallsInv, CallOK, Lost
  <2>3. QED
    BY <2>1, <2>2 DEF StaysReadable
<1>2. QED
  BY <1>1, VaultInvariant, PTL

(* A rotation takes its excluded recipients off every version, and leaves  *)
(* no entry behind that it was not told to skip.                           *)
THEOREM RotationsTake == Spec => []RotationTakes
<1>1. ASSUME Inv PROVE RotationTakes
  <2>1. ASSUME NEW e \in Entry, rows[e] # None, keys[rows[e].key] # None,
               rows[e].ver # keys[rows[e].key].ver
        PROVE  e \in skipped[rows[e].key]
    BY <1>1, <2>1 DEF Inv, DbInv, Current
  <2>2. QED
    BY <1>1, <2>1 DEF RotationTakes, Inv, DbInv
<1>2. QED
  BY <1>1, VaultInvariant, PTL

(* The tables keep their types, and no wrapping is ahead of its key.       *)
THEOREM VaultTypeCorrect == Spec => []TypeOK
<1>1. ASSUME Inv PROVE TypeOK
  <2>1. ASSUME NEW w \in wraps
        PROVE  /\ w.key \in Key /\ w.rcpt \in Recipient
               /\ keys[w.key] # None => w.ver \in 1..keys[w.key].ver
    <3>1. /\ w \in Wrapping(w) /\ (keys[w.key] # None => w.ver <= keys[w.key].ver)
          /\ keys \in [Key -> KeyRow \cup {None}]
      BY <1>1 DEF Inv, DbInv, Types
    <3>2. w.key \in Key /\ w.rcpt \in Recipient /\ w.ver \in Version
      BY <3>1 DEF Wrapping
    <3>3. keys[w.key] # None => keys[w.key] \in KeyRow
      BY <3>1, <3>2
    <3>4. QED
      BY <3>1, <3>2, <3>3 DEF Version, KeyRow
  <2>2. QED
    BY <1>1, <2>1 DEF TypeOK, Inv, DbInv, Types
<1>2. QED
  BY <1>1, VaultInvariant, PTL

-----------------------------------------------------------------------------
(* What a step does to the tables: nothing, or a write whose effect on     *)
(* texts, keys of entries and states of keys is the one named here.        *)
Quiet(c) ==
    /\ UNCHANGED database
    /\ \E n : /\ call' = [call EXCEPT ![c] = n]
              /\ n.out = "updated" => call[c].out = "updated"

Writes(c) ==
    /\ c \notin past
    /\ past' = past \cup {rows'[e].text : e \in {e \in Entry : rows'[e] # None}}
    /\ \A e \in Entry :
          \/ rows'[e] = None
          \/ rows'[e].text = c
          \/ rows[e] # None /\ rows'[e].text = rows[e].text
    /\ \A e \in Entry : rows[e] # None /\ rows'[e] # None =>
          rows'[e].key = rows[e].key \/ Finishes(c, "reKey")
    /\ \A k \in Key : keys[k] # None /\ keys'[k] # None =>
          keys'[k].state = keys[k].state \/ Finishes(c, "setState")
    /\ \E out : /\ Ends(c, out)
                /\ plan[c].op \in Conditional =>
                      rows[plan[c].e] # None /\ rows[plan[c].e].hlc = call[c].seen

LEMMA StopsQuietly ==
    ASSUME NEW c, NEW out, Stops(c, out), out # "updated" PROVE Quiet(c)
<1>1. Ends(c, out) /\ UNCHANGED database
  BY DEF Stops
<1>2. PICK n : n.out = out /\ call' = [call EXCEPT ![c] = n]
  BY <1>1, Ending
<1>3. QED
  BY <1>1, <1>2 DEF Quiet, Stops

LEMMA GoesQuietly ==
    ASSUME NEW c, NEW n, Goes(c, n), n.out = call[c].out PROVE Quiet(c)
BY DEF Goes, Quiet

LEMMA EnteredQuietly ==
    ASSUME Inv, NEW c \in Call, NEW row, NEW ver, NEW list, Entered(c, row, ver, list)
    PROVE  Quiet(c)
<1>1. call[c] \in Fields(call[c])
  BY DEF Inv, CallsInv, CallOK
<1>2. PICK n : /\ n = [call[c] EXCEPT !.pc = "entered", !.held = Locks(c), !.row = row,
                                      !.ver = ver, !.list = list]
               /\ Goes(c, n)
  BY DEF Entered
<1>3. n.out = call[c].out
  BY <1>1, <1>2 DEF Fields
<1>4. QED
  BY <1>2, <1>3, GoesQuietly

LEMMA OpenedQuietly ==
    ASSUME Inv, NEW c \in Call, NEW v, Opened(c, v) PROVE Quiet(c)
<1>1. call[c] \in Fields(call[c])
  BY DEF Inv, CallsInv, CallOK
<1>2. PICK n : n = [call[c] EXCEPT !.pc = "opened", !.open = v] /\ Goes(c, n)
  BY DEF Opened
<1>3. n.out = call[c].out
  BY <1>1, <1>2 DEF Fields
<1>4. QED
  BY <1>2, <1>3, GoesQuietly

LEMMA EnterQuietly == ASSUME Inv, NEW c \in Call, Enter(c) PROVE Quiet(c)
<1>1. CASE \E out \in {"conflict", "notFound", "absent", "superseded"} : Stops(c, out)
  BY <1>1, StopsQuietly
<1>2. CASE \E row, ver, list : Entered(c, row, ver, list)
  BY <1>2, EnteredQuietly
<1>3. \/ \E out \in {"conflict", "notFound", "absent", "superseded"} : Stops(c, out)
      \/ \E row, ver, list : Entered(c, row, ver, list)
  <2>1. CASE EnterPut(c)
    BY <2>1 DEF EnterPut
  <2>2. CASE EnterEntry(c)
    BY <2>2 DEF EnterEntry
  <2>3. CASE EnterReKey(c)
    BY <2>3 DEF EnterReKey
  <2>4. CASE EnterKey(c)
    BY <2>4 DEF EnterKey
  <2>5. CASE EnterCreate(c)
    BY <2>5 DEF EnterCreate
  <2>6. CASE EnterRotate(c)
    BY <2>6 DEF EnterRotate
  <2>7. QED
    BY <2>1, <2>2, <2>3, <2>4, <2>5, <2>6 DEF Enter
<1>4. QED
  BY <1>1, <1>2, <1>3

LEMMA OpenQuietly == ASSUME Inv, NEW c \in Call, Open(c) PROVE Quiet(c)
<1> DEFINE outs == {"notFound", "tampered", "instructions", "unverifiable"}
<1>1. CASE \E out \in outs : Stops(c, out)
  BY <1>1, StopsQuietly
<1>2. CASE \E v : Opened(c, v)
  BY <1>2, OpenedQuietly
<1>3. (\E out \in outs : Stops(c, out)) \/ (\E v : Opened(c, v))
  <2>1. CASE OpenEntry(c)
    BY <2>1 DEF OpenEntry
  <2>2. CASE OpenReKey(c)
    BY <2>2 DEF OpenReKey
  <2>3. CASE OpenKey(c)
    BY <2>3 DEF OpenKey
  <2>4. CASE OpenRotate(c)
    BY <2>4 DEF OpenRotate
  <2>5. QED
    BY <2>1, <2>2, <2>3, <2>4 DEF Open
<1>4. QED
  BY <1>1, <1>2, <1>3

LEMMA BeforeQuietly ==
    ASSUME Inv, NEW c \in Call,
           Look(c) \/ Observe(c) \/ ObserveKey(c) \/ ReadRow(c) \/ Wait(c)
    PROVE  Quiet(c)
<1>1. call[c] \in Fields(call[c])
  BY DEF Inv, CallsInv, CallOK
<1>2. CASE \E out \in {"absent", "notFound"} : Stops(c, out)
  BY <1>2, StopsQuietly
<1>3. CASE Look(c)
  <2>1. PICK n, s : n = [call[c] EXCEPT !.pc = "looked", !.seen = s] /\ Goes(c, n)
    BY <1>3 DEF Look
  <2>2. n.out = call[c].out
    BY <1>1, <2>1 DEF Fields
  <2>3. QED
    BY <2>1, <2>2, GoesQuietly
<1>4. CASE Observe(c) /\ ~Stops(c, "absent")
  <2>1. PICK n, o, w : /\ n = [call[c] EXCEPT !.pc = "observed", !.obs = o, !.row = w]
                       /\ Goes(c, n)
    BY <1>4 DEF Observe
  <2>2. n.out = call[c].out
    BY <1>1, <2>1 DEF Fields
  <2>3. QED
    BY <2>1, <2>2, GoesQuietly
<1>5. CASE ObserveKey(c) /\ ~Stops(c, "notFound")
  <2>1. PICK n, v : n = [call[c] EXCEPT !.pc = "observed", !.ver = v] /\ Goes(c, n)
    BY <1>5 DEF ObserveKey
  <2>2. n.out = call[c].out
    BY <1>1, <2>1 DEF Fields
  <2>3. QED
    BY <2>1, <2>2, GoesQuietly
<1>6. CASE ReadRow(c) /\ ~Stops(c, "absent")
  <2>1. PICK n, o, w : /\ n = [call[c] EXCEPT !.pc = "found", !.obs = o, !.row = w]
                       /\ Goes(c, n)
    BY <1>6 DEF ReadRow
  <2>2. n.out = call[c].out
    BY <1>1, <2>1 DEF Fields
  <2>3. QED
    BY <2>1, <2>2, GoesQuietly
<1>7. CASE Wait(c)
  <2>1. PICK n, h : n = [call[c] EXCEPT !.pc = "waiting", !.held = h] /\ Goes(c, n)
    BY <1>7 DEF Wait
  <2>2. n.out = call[c].out
    BY <1>1, <2>1 DEF Fields
  <2>3. QED
    BY <2>1, <2>2, GoesQuietly
<1>8. QED
  BY <1>2, <1>3, <1>4, <1>5, <1>6, <1>7

(* The commits, one by one.                                                *)
LEMMA Finishing ==
    ASSUME Inv, NEW c \in Call, NEW out, Ends(c, out), Locked(call[c])
    PROVE  /\ c \notin past /\ plan[c] # None
           /\ \A op : plan[c].op = op => Finishes(c, op)
<1>1. PICK n : n.pc = "done" /\ call' = [call EXCEPT ![c] = n]
  BY Ending
<1>2. call[c].pc # "done"
  BY DEF Locked
<1>3. call'[c].pc = "done"
  BY <1>1 DEF Inv, CallsInv
<1>4. c \notin past /\ plan[c] # None /\ call[c].pc # "done"
  BY DEF Inv, CallsInv, CallOK, Locked
<1>5. QED
  BY <1>3, <1>4 DEF Finishes

(* One entry is written; its key is the one it had, unless it is moved.    *)
LEMMA OneWritten ==
    ASSUME Inv, NEW c \in Call, NEW out, Ends(c, out), Locked(call[c]),
           UNCHANGED <<plan, keys>>, NEW e \in Entry, NEW new, new # None,
           Stores([rows EXCEPT ![e] = new]),
           rows[e] # None => new.key = rows[e].key \/ plan[c].op = "reKey",
           new.text = c \/ (rows[e] # None /\ new.text = rows[e].text),
           plan[c].op \in Conditional =>
              rows[plan[c].e] # None /\ rows[plan[c].e].hlc = call[c].seen
    PROVE  Writes(c)
<1>1. /\ c \notin past /\ plan[c] # None
      /\ \A op : plan[c].op = op => Finishes(c, op)
  BY Finishing
<1>2. rows' = [rows EXCEPT ![e] = new]
  BY DEF Stores
<1>3. rows'[e] = new /\ \A f \in Entry : f # e => rows'[f] = rows[f]
  BY <1>2 DEF Inv, DbInv, Types
<1>4. past' = past \cup {rows'[f].text : f \in {f \in Entry : rows'[f] # None}}
  BY DEF Stores
<1>5. QED
  BY <1>1, <1>3, <1>4 DEF Writes

(* No entry is written.                                                    *)
LEMMA NoneWritten ==
    ASSUME Inv, NEW c \in Call, NEW out, Ends(c, out), Locked(call[c]),
           past' = past, \A e \in Entry : rows'[e] = rows[e] \/ rows'[e] = None,
           plan[c].op \notin Conditional,
           \A k \in Key : keys[k] # None /\ keys'[k] # None =>
               keys'[k].state = keys[k].state \/ plan[c].op = "setState"
    PROVE  Writes(c)
<1>1. /\ c \notin past /\ plan[c] # None
      /\ \A op : plan[c].op = op => Finishes(c, op)
  BY Finishing
<1>2. \A e \in Entry : rows[e] # None => rows[e].text \in past
  BY DEF Inv, DbInv
<1>3. \A e \in Entry : rows'[e] # None => rows'[e].text \in past
  BY <1>2
<1>4. past' = past \cup {rows'[e].text : e \in {e \in Entry : rows'[e] # None}}
  BY <1>3
<1>5. QED
  BY <1>1, <1>4 DEF Writes

LEMMA CommitEntryWrites ==
    ASSUME Inv, NEW c \in Call, CommitEntry(c) PROVE Quiet(c) \/ Writes(c)
<1> DEFINE a == plan[c]
           k == IF a.op = "put" THEN a.k ELSE call[c].row.key
           v == call[c].open
           kv == IF a.op = "put" THEN call[c].ver ELSE v
           new == Sealed(k, kv, v, c, c)
<1>1. call[c].pc = "opened" /\ a.op \in {"put", "update", "updateIf"} /\ Locked(call[c])
  BY DEF CommitEntry, Locked
<1>2. CASE Stops(c, "conflict")
  BY <1>2, StopsQuietly
<1>3. CASE /\ ~Taken(a.e, k) /\ Ends(c, "updated")
           /\ UNCHANGED <<plan, keys, wraps, gone, skipped>>
           /\ Stores([rows EXCEPT ![a.e] = new])
  <2>1. Knows(c, call[c]) /\ a.e \in Entry
    BY <1>1, LocksHeld
  <2>2. /\ k \in Key /\ kv \in Version /\ v \in Version
    <3>1. Opens(c, call[c])
      BY <1>1 DEF Inv, CallsInv, CallOK
    <3>2. k \in Key
      BY <1>1, LocksHeld DEF Direct, Entries, Conditional
    <3>3. keys[k] # None /\ v = keys[k].ver /\ (a.op = "put" => call[c].ver = keys[k].ver)
      BY <1>1, <2>1, <3>1 DEF Opens, Knows, Conditional
    <3>4. QED
      BY <3>2, <3>3 DEF Inv, DbInv, Types, KeyRow
  <2>3. new \in EntryRow /\ new.key = k /\ new.text = c
    BY <2>2 DEF Sealed, EntryRow, Stamp
  <2>4. new # None
    BY <2>3, NoneIsNoRow
  <2>5. rows[a.e] # None => k = rows[a.e].key
    BY <1>3 DEF Taken
  <2>6. a.op \in Conditional => rows[a.e] # None /\ rows[a.e].hlc = call[c].seen
    BY <2>1 DEF Knows, Entries
  <2> HIDE DEF new, k
  <2>7. QED
    BY <1>1, <1>3, <2>1, <2>3, <2>4, <2>5, <2>6, OneWritten
<1>4. QED
  BY <1>2, <1>3 DEF CommitEntry

LEMMA CommitRefreshWrites ==
    ASSUME Inv, NEW c \in Call, CommitRefresh(c) PROVE Quiet(c) \/ Writes(c)
<1> DEFINE a == plan[c]
           old == call[c].row
           v == call[c].open
           new == Sealed(old.key, v, v, c, old.text)
<1>1. call[c].pc = "opened" /\ a.op = "refresh" /\ Locked(call[c])
  BY DEF CommitRefresh, Locked
<1>2. CASE Stops(c, "conflict")
  BY <1>2, StopsQuietly
<1>3. CASE /\ Ends(c, "updated") /\ UNCHANGED <<plan, keys, wraps, gone, skipped>>
           /\ Stores([rows EXCEPT ![a.e] = new])
  <2>1. Knows(c, call[c]) /\ a.e \in Entry
    BY <1>1, LocksHeld
  <2>2. /\ old # None /\ old = rows[a.e] /\ RowOK(old)
    BY <1>1, RowHeld DEF Entries, Conditional
  <2>3. Opens(c, call[c])
    BY <1>1 DEF Inv, CallsInv, CallOK
  <2>4. old.key \in Key /\ old.text \in Stamp /\ v \in Version
    <3>1. old.key \in Key /\ old.text \in Stamp
      BY <2>2 DEF RowOK, EntryRow
    <3>2. keys[old.key] # None /\ v = keys[old.key].ver
      BY <1>1, <2>3 DEF Opens, Conditional
    <3>3. QED
      BY <3>1, <3>2 DEF Inv, DbInv, Types, KeyRow
  <2>5. new \in EntryRow /\ new.key = old.key /\ new.text = old.text
    BY <2>4 DEF Sealed, EntryRow, Stamp
  <2>6. new # None
    BY <2>5, NoneIsNoRow
  <2>7. rows[a.e].hlc = call[c].seen
    BY <1>1, <2>1, <2>2 DEF Knows, Conditional
  <2> HIDE DEF new, old
  <2>8. QED
    BY <1>1, <1>3, <2>1, <2>2, <2>5, <2>6, <2>7, OneWritten
<1>4. QED
  BY <1>2, <1>3 DEF CommitRefresh

LEMMA CommitReKeyWrites ==
    ASSUME Inv, NEW c \in Call, CommitReKey(c) PROVE Writes(c)
<1> DEFINE a == plan[c]
           old == call[c].row
           v == call[c].open
           new == Sealed(a.k, v, v, c, old.text)
<1>1. call[c].pc = "opened" /\ a.op = "reKey" /\ Locked(call[c])
  BY DEF CommitReKey, Locked
<1>2. a.e \in Entry /\ a.k \in Key
  BY <1>1, LocksHeld
<1>3. old # None /\ old = rows[a.e] /\ RowOK(old)
  BY <1>1, RowHeld DEF Entries
<1>4. Opens(c, call[c])
  BY <1>1 DEF Inv, CallsInv, CallOK
<1>5. keys[a.k] # None /\ v = keys[a.k].ver
  BY <1>1, <1>4 DEF Opens
<1>6. v \in Version /\ old.text \in Stamp
  BY <1>2, <1>3, <1>5 DEF Inv, DbInv, Types, KeyRow, RowOK, EntryRow
<1>7. new \in EntryRow /\ new.text = old.text
  BY <1>2, <1>6 DEF Sealed, EntryRow, Stamp
<1>8. new # None /\ a.op \notin Conditional
  BY <1>1, <1>7, NoneIsNoRow DEF Conditional
<1>9. /\ Stores([rows EXCEPT ![a.e] = new]) /\ Ends(c, "moved")
      /\ UNCHANGED <<plan, keys, wraps, gone, skipped>>
  BY <1>3 DEF CommitReKey
<1> HIDE DEF new, old
<1>10. QED
  BY <1>1, <1>2, <1>3, <1>7, <1>8, <1>9, OneWritten

LEMMA CommitKeyWrites ==
    ASSUME Inv, NEW c \in Call,
           \/ CommitDelete(c) \/ CommitCreate(c) \/ CommitGrant(c) \/ CommitRewrap(c)
           \/ CommitState(c) \/ CommitDeleteKey(c)
    PROVE  Writes(c)
<1>1. Locked(call[c]) /\ plan[c].op \notin Conditional
  BY DEF CommitDelete, CommitCreate, CommitGrant, CommitRewrap, CommitState,
         CommitDeleteKey, Locked, Conditional
<1>2. Knows(c, call[c]) /\ plan[c].k \in Key /\ plan[c].e \in Entry
  BY <1>1, LocksHeld
<1>3. /\ keys \in [Key -> KeyRow \cup {None}] /\ rows \in [Entry -> EntryRow \cup {None}]
  BY DEF Inv, DbInv, Types
<1>4. CASE CommitDelete(c)
  <2>1. \A e \in Entry : rows'[e] = rows[e] \/ rows'[e] = None
    BY <1>2, <1>3, <1>4 DEF CommitDelete
  <2>2. Ends(c, "deleted") /\ past' = past /\ keys' = keys
    BY <1>4 DEF CommitDelete
  <2>3. QED
    BY <1>1, <2>1, <2>2, NoneWritten
<1>5. CASE CommitCreate(c)
  <2>1. Ends(c, "created") /\ past' = past /\ rows' = rows
    BY <1>5 DEF CommitCreate
  <2>2. keys[plan[c].k] = None
    BY <1>2, <1>5 DEF CommitCreate, Knows
  <2>3. \A k \in Key : keys[k] # None => keys'[k] = keys[k]
    BY <1>2, <1>3, <1>5, <2>2 DEF CommitCreate, PutKey
  <2>4. QED
    BY <1>1, <2>1, <2>3, NoneWritten
<1>6. CASE CommitGrant(c)
  <2>1. Ends(c, "granted") /\ past' = past /\ rows' = rows /\ keys' = keys
    BY <1>6 DEF CommitGrant
  <2>2. QED
    BY <1>1, <2>1, NoneWritten
<1>7. CASE CommitRewrap(c)
  <2>1. Ends(c, "rewrapped") /\ past' = past /\ rows' = rows /\ keys' = keys
    BY <1>7 DEF CommitRewrap
  <2>2. QED
    BY <1>1, <2>1, NoneWritten
<1>8. CASE CommitState(c)
  <2>1. Ends(c, "set") /\ past' = past /\ rows' = rows /\ plan[c].op = "setState"
    BY <1>8 DEF CommitState
  <2>2. QED
    BY <1>1, <2>1, NoneWritten
<1>9. CASE CommitDeleteKey(c)
  <2>1. Ends(c, "deleted") /\ past' = past /\ rows' = rows
    BY <1>9 DEF CommitDeleteKey
  <2>2. \A k \in Key : keys'[k] = keys[k] \/ keys'[k] = None
    BY <1>2, <1>3, <1>9 DEF CommitDeleteKey
  <2>3. QED
    BY <1>1, <2>1, <2>2, NoneWritten
<1>10. QED
  BY <1>4, <1>5, <1>6, <1>7, <1>8, <1>9

LEMMA RotatesWrites == ASSUME Inv, NEW c \in Call, Rotates(c) PROVE Writes(c)
<1> DEFINE a == plan[c]
           k == a.k
<1>1. /\ Locked(call[c]) /\ k \in Key /\ keys[k] \in KeyRow
      /\ call[c].list.state = keys[k].state
      /\ DOMAIN call[c].list.rows = RowsOfKey(k)
      /\ \A e \in RowsOfKey(k) : call[c].list.rows[e] = rows[e]
  BY RotationListed DEF Rotates
<1>2. /\ c \notin past /\ a # None /\ a.op \notin Conditional
  BY <1>1, Finishing DEF Rotates, Conditional
<1>3. keys \in [Key -> KeyRow \cup {None}]
  BY DEF Inv, DbInv, Types
<1>4. \A j \in Key : keys[j] # None => keys'[j].state = keys[j].state
  BY <1>1, <1>3 DEF Rotates
<1>5. \A e \in Entry : rows'[e] # None =>
        /\ rows'[e].text = c \/ (rows[e] # None /\ rows'[e].text = rows[e].text)
        /\ rows[e] # None => rows'[e].key = rows[e].key
  <2>1. SUFFICES ASSUME NEW e \in Entry, rows'[e] # None
                 PROVE  /\ \/ rows'[e].text = c
                           \/ rows[e] # None /\ rows'[e].text = rows[e].text
                        /\ rows[e] # None => rows'[e].key = rows[e].key
    OBVIOUS
  <2>2. \/ rows'[e] = rows[e]
        \/ /\ e \in RowsOfKey(k)
           /\ rows'[e] = Sealed(k, call[c].open, call[c].open, c,
                                IF a.re[e] = "replace" THEN c
                                ELSE call[c].list.rows[e].text)
    BY <1>1, <2>1 DEF Rotates, Stores, Reissued
  <2>3. QED
    BY <1>1, <2>1, <2>2 DEF Sealed, RowsOfKey
<1>6. past' = past \cup {rows'[e].text : e \in {e \in Entry : rows'[e] # None}}
  BY DEF Rotates, Stores
<1>7. Ends(c, "rotated")
  BY DEF Rotates
<1>8. QED
  BY <1>2, <1>4, <1>5, <1>6, <1>7 DEF Writes

LEMMA Effects ==
    ASSUME Inv, Next PROVE \E c \in Call : Quiet(c) \/ Writes(c)
<1>1. PICK c \in Call : Look(c) \/ ObserveKey(c) \/ ReadRow(c) \/ Step(c) \/ Fail(c)
  BY DEF Next
<1>2. CASE Look(c) \/ ObserveKey(c) \/ ReadRow(c) \/ Observe(c) \/ Wait(c)
  BY <1>2, BeforeQuietly
<1>3. CASE Enter(c)
  BY <1>3, EnterQuietly
<1>4. CASE Open(c)
  BY <1>4, OpenQuietly
<1>5. CASE Decrypt(c) \/ Fail(c)
  BY <1>5, StopsQuietly DEF Decrypt, Fail
<1>6. CASE CommitEntry(c) \/ CommitRefresh(c) \/ CommitReKey(c)
  BY <1>6, CommitEntryWrites, CommitRefreshWrites, CommitReKeyWrites
<1>7. CASE \/ CommitDelete(c) \/ CommitCreate(c) \/ CommitGrant(c) \/ CommitRewrap(c)
           \/ CommitState(c) \/ CommitDeleteKey(c)
  BY <1>7, CommitKeyWrites
<1>8. CASE CommitRotate(c)
  BY <1>8, CommitRotateIs, RotatesWrites
<1>9. QED
  BY <1>1, <1>2, <1>3, <1>4, <1>5, <1>6, <1>7, <1>8 DEF Step, Commit

-----------------------------------------------------------------------------
(* No write of a row that was read earlier undoes another.                 *)
LEMMA StepNotStale ==
    ASSUME Inv, [Next]_vars
    PROVE  /\ \A c \in Call :
                /\ plan[c] # None /\ plan[c].op \in Conditional
                /\ call[c].out # "updated" /\ call'[c].out = "updated"
                => rows[plan[c].e] # None /\ rows[plan[c].e].hlc = call[c].seen
           /\ \A e \in Entry :
                rows[e] # None /\ rows'[e] # None /\ rows[e].key # rows'[e].key
                => \E c \in Call : Finishes(c, "reKey")
           /\ \A k \in Key :
                keys[k] # None /\ keys'[k] # None /\ keys[k].state # keys'[k].state
                => \E c \in Call : Finishes(c, "setState")
<1>1. CASE UNCHANGED vars
  BY <1>1 DEF vars
<1>2. call = [c \in Call |-> call[c]]
  BY DEF Inv, CallsInv
<1>3. ASSUME NEW c \in Call, Quiet(c)
      PROVE  /\ \A d \in Call : call'[d].out = "updated" => call[d].out = "updated"
             /\ rows' = rows /\ keys' = keys
  <2>1. PICK n : /\ call' = [call EXCEPT ![c] = n]
                 /\ n.out = "updated" => call[c].out = "updated"
    BY <1>3 DEF Quiet
  <2>2. call'[c] = n /\ \A d \in Call : d # c => call'[d] = call[d]
    BY <1>2, <2>1
  <2>3. QED
    BY <1>3, <2>1, <2>2 DEF Quiet, database
<1>4. ASSUME NEW c \in Call, Writes(c)
      PROVE  /\ plan[c].op \in Conditional =>
                    rows[plan[c].e] # None /\ rows[plan[c].e].hlc = call[c].seen
             /\ \A d \in Call : d # c => call'[d] = call[d]
  <2>1. PICK n : call' = [call EXCEPT ![c] = n]
    BY <1>4 DEF Writes, Ends
  <2>2. \A d \in Call : d # c => call'[d] = call[d]
    BY <1>2, <2>1
  <2>3. QED
    BY <1>4, <2>2 DEF Writes
<1>5. CASE Next
  <2>1. PICK c \in Call : Quiet(c) \/ Writes(c)
    BY <1>5, Effects
  <2>2. CASE Quiet(c)
    BY <1>3, <2>2
  <2>3. CASE Writes(c)
    <3>1. /\ \A e \in Entry : rows[e] # None /\ rows'[e] # None =>
                rows'[e].key = rows[e].key \/ Finishes(c, "reKey")
          /\ \A k \in Key : keys[k] # None /\ keys'[k] # None =>
                keys'[k].state = keys[k].state \/ Finishes(c, "setState")
      BY <2>3 DEF Writes
    <3>2. QED
      BY <1>4, <2>3, <3>1
  <2>4. QED
    BY <2>1, <2>2, <2>3
<1>6. QED
  BY <1>1, <1>5

THEOREM NoWriteIsStale == Spec => NoStaleWrite
<1>1. QED
  BY VaultInvariant, StepNotStale, PTL DEF Spec, NoStaleWrite

-----------------------------------------------------------------------------
(* The vault implements VaultText: seen through decryption, an entry has   *)
(* the last text that was written to it.                                   *)
Read == [e \in Entry |-> IF rows[e] = None THEN None
                         ELSE IF Authentic(rows[e]) THEN rows[e].text
                         ELSE Old]

LEMMA ReadIs ==
    ASSUME Inv
    PROVE  \A e \in Entry : /\ rows[e] = None => Read[e] = None
                            /\ rows[e] # None => /\ Read[e] = rows[e].text
                                                 /\ Read[e] \in Stamp /\ Read[e] # None
                                                 /\ Read[e] \in past
<1>1. \A e \in Entry : rows[e] # None =>
        Authentic(rows[e]) /\ rows[e].text \in past /\ rows[e].text \in Stamp
  BY DEF Inv, DbInv, Types, RowOK
<1>2. None \notin Stamp
  BY VaultConstants DEF Stamp
<1>3. QED
  BY <1>1, <1>2 DEF Read

LEMMA TextsInit == ASSUME Init, Inv PROVE Texts!Init
<1>1. past = {rows[e].text : e \in {e \in Entry : rows[e] # None}}
  BY DEF Init
<1>2. \A e \in Entry : /\ rows[e] = None => Read[e] = None
                       /\ rows[e] # None => /\ Read[e] = rows[e].text
                                            /\ Read[e] \in Stamp /\ Read[e] # None
  BY ReadIs
<1>3. Read \in [Entry -> Stamp \cup {None}]
  BY <1>2 DEF Read
<1>4. past = {Read[e] : e \in Entry} \ {None}
  BY <1>1, <1>2
<1>5. QED
  BY <1>3, <1>4 DEF Texts!Init, Read

LEMMA TextsStep ==
    ASSUME Inv, Inv', NEW c \in Call, Writes(c) PROVE Texts!Write
<1> DEFINE put == [e \in Entry |-> IF rows'[e] # None /\ rows'[e].text = c THEN c ELSE None]
           drop == {e \in Entry : rows'[e] = None}
<1>1. /\ c \notin past /\ c \in Stamp /\ c # None
      /\ past' = past \cup {rows'[e].text : e \in {e \in Entry : rows'[e] # None}}
      /\ \A e \in Entry :
            \/ rows'[e] = None
            \/ rows'[e].text = c
            \/ rows[e] # None /\ rows'[e].text = rows[e].text
  BY VaultConstants DEF Writes, Stamp
<1>2. \A e \in Entry : /\ rows[e] = None => Read[e] = None
                       /\ rows[e] # None => Read[e] = rows[e].text /\ Read[e] \in past
  BY ReadIs
<1>3. \A e \in Entry : /\ rows'[e] = None => Read'[e] = None
                       /\ rows'[e] # None => Read'[e] = rows'[e].text
  <2>1. \A e \in Entry : rows'[e] # None => Authentic(rows[e])'
    BY DEF Inv, DbInv, RowOK
  <2>2. QED
    BY <2>1 DEF Read
<1>4. put \in [Entry -> (Stamp \ past) \cup {None}] /\ drop \in SUBSET Entry
  BY <1>1
<1>5. Read' = [e \in Entry |-> IF e \in drop THEN None
                               ELSE IF put[e] # None THEN put[e] ELSE Read[e]]
  <2>1. \A e \in Entry : Read'[e] = IF e \in drop THEN None
                                    ELSE IF put[e] # None THEN put[e] ELSE Read[e]
    BY <1>1, <1>2, <1>3
  <2>2. Read' = [e \in Entry |-> Read'[e]]
    BY DEF Read
  <2>3. QED
    BY <2>1, <2>2
<1>6. past' = past \cup ({put[e] : e \in Entry} \ {None})
  <2>1. \A e \in Entry : rows'[e] # None => rows'[e].text \in past \cup {c}
    BY <1>1, <1>2
  <2>2. \A e \in Entry : put[e] # None => rows'[e] # None /\ put[e] = rows'[e].text
    OBVIOUS
  <2>3. \A e \in Entry : rows'[e] # None /\ rows'[e].text \notin past =>
            put[e] = rows'[e].text
    BY <2>1
  <2>4. \A t : t \in past' <=> t \in past \cup ({put[e] : e \in Entry} \ {None})
    BY <1>1, <2>1, <2>2, <2>3
  <2>5. QED
    BY <2>4
<1>7. QED
  BY <1>4, <1>5, <1>6 DEF Texts!Write, Read

LEMMA TextsNext == ASSUME Inv, Inv', [Next]_vars PROVE [Texts!Write]_(Texts!vars)
<1>1. CASE UNCHANGED rows /\ UNCHANGED past
  BY <1>1 DEF Texts!vars, Authentic
<1>2. CASE Next
  <2>1. PICK c \in Call : Quiet(c) \/ Writes(c)
    BY <1>2, Effects
  <2>2. QED
    BY <1>1, <2>1, TextsStep DEF Quiet, database
<1>3. QED
  BY <1>1, <1>2 DEF vars

THEOREM VaultKeepsTexts == Spec => TextKept
<1>1. Init => Texts!Init
  BY InvInit, TextsInit
<1>2. Inv /\ Inv' /\ [Next]_vars => [Texts!Write]_(Texts!vars)
  BY TextsNext
<1>3. QED
  BY <1>1, <1>2, VaultInvariant, PTL DEF Spec, TextKept, Texts!Spec
=============================================================================
