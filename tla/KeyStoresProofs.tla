-------------------------- MODULE KeyStoresProofs ---------------------------
(***************************************************************************)
(* What provideAsync of every key store promises, for every set of         *)
(* processes and key IDs, every way the stores were opened, every failure  *)
(* and crash: one key, that nothing generated replaces.                    *)
(***************************************************************************)
EXTENDS KeyStores, FiniteSetTheorems, TLAPS

Entry == [known : BOOLEAN, key : Nat, encoded : Text]

Progress == {"idle", "done", "failed", "queued", "waiting", "reading", "read", "minting",
             "writing", "written", "copying", "copied"}

(* A call as it is kept, by those of its fields a step looks at.           *)
Calls == [op : Op \cup {"none"}, proc : Proc \cup {"none"}, id : KeyID \cup {"none"},
          pc : Progress, inside : BOOLEAN, got : [KeyID -> Text], put : Text,
          quiet : BOOLEAN, fresh : BOOLEAN, ret : Nat]

Store == [state : {"none", "open", "broken"}, lock : Lock \cup {NoLock},
          crypto : {"noble", "other"}, insecure : {"unset", "no", "yes"}]

Typed ==
    /\ world \in World
    /\ keyring \in [KeyID -> Text]
    /\ store \in [Proc -> Store]
    /\ entry \in [Proc -> [KeyID -> Entry]]
    /\ chain \in [Proc -> [KeyID -> Seq(Call)]]
    /\ holder \in [Lock -> Nat]
    /\ call \in [Call -> Calls]
    /\ minted \in Nat
    /\ served \in [KeyID -> SUBSET (Nat \ {NoKey})]

-----------------------------------------------------------------------------
(* Where a call is.                                                        *)

Ending == {"idle", "done", "failed"}

Provision == {"provide", "identity", "signing"}

(* The places of a call x under way: behind #provideLock or the lock file; *)
(* alone with the entry; at a read; in a browser's provideAsync; at a      *)
(* write that takes no lock.                                               *)
Lined(x) == /\ x.pc \in {"queued", "waiting"} /\ ~x.inside
            /\ x.op \in Provision /\ ~Is("browser")

Alone(x) == /\ x.inside /\ x.op \in Provision /\ ~Is("browser")
            /\ IF Is("electron") THEN x.pc \in {"reading", "copying", "copied"}
               ELSE x.pc \in {"reading", "read", "minting", "writing", "written"}

Reads(x) == /\ x.pc \in {"reading", "read"} /\ ~x.inside /\ ~Is("electron")
            /\ x.op \in {"get", "identity", "list"}
            /\ x.op = "identity" => ~Is("browser")

Records(x) == /\ x.pc \in {"minting", "writing", "written"} /\ ~x.inside
              /\ x.op \in Provision /\ Is("browser")

Alters(x) == /\ x.op \in {"set", "remove"} /\ ~x.inside
             /\ x.pc \in (IF Is("electron") THEN {"copying", "copied"} ELSE {"writing", "written"})

(* What a provideAsync is about to store, or has stored, is a key.         *)
Carries(x) ==
    x.op \in Provision /\ x.pc \in {"writing", "written", "copying", "copied"} => x.put # Absent

Placed(x) ==
    \/ x.pc \in Ending /\ ~x.inside
    \/ /\ x.proc \in world.procs /\ x.id \in world.ids /\ ~Is("hd") /\ Carries(x)
       /\ Lined(x) \/ Alone(x) \/ Reads(x) \/ Records(x) \/ Alters(x)

-----------------------------------------------------------------------------
(* The locks.                                                              *)

(* A call under way has a store, opened with the lock path that all calls  *)
(* ask for.                                                                *)
Opened(x) ==
    x.pc \notin Ending =>
        /\ store[x.proc] # Unopened
        /\ Is("node") \/ Is("electron") =>
               \A l \in Lock : OneLock(l) => store[x.proc].lock = l

(* A call that waits for the lock file or is alone with the entry is the   *)
(* first behind #provideLock; alone, it holds the lock file if there is    *)
(* one.                                                                    *)
HasTurn(c) ==
    /\ call[c].pc = "waiting" \/ call[c].inside => IsHead(chain[call[c].proc][call[c].id], c)
    /\ call[c].inside /\ LockPath(c) # NoLock => holder[LockPath(c)] = c

(* One of a process's calls is in a synchronous body of electron's.        *)
BusyPc == {"reading", "copying", "copied"}

BusyAlone(c) ==
    Is("electron") /\ call[c].pc \in BusyPc =>
        \A d \in Call : call[d].pc \in BusyPc /\ call[d].proc = call[c].proc => d = c

InOrder(c) == Placed(call[c]) /\ Opened(call[c]) /\ HasTurn(c) /\ BusyAlone(c)

Ordered == \A c \in Call : InOrder(c)

-----------------------------------------------------------------------------
(* The key.                                                                *)

(* What was served is what is stored, or derived.                          *)
Served ==
    \A k \in KeyID : IF Is("hd") THEN served[k] \subseteq {world.path[k]}
                     ELSE served[k] \subseteq {keyring[k].key}

Derived ==
    Is("hd") => \A p \in Proc, k \in KeyID : entry[p][k].key \in {NoKey, world.path[k]}

(* Another writer got between, and nothing was served since.               *)
Overtaken(x, k) == ~x.fresh /\ served[k] = {}

(* What a call has in hand when it is about to answer or to write is what  *)
(* is stored, unless it was overtaken.                                     *)
Missing(x) == keyring[x.id] = Absent \/ Overtaken(x, x.id)

Informed(x) ==
    /\ x.inside /\ x.pc = "read" =>
           x.got[x.id] = keyring[x.id] \/ Overtaken(x, x.id)
    /\ x.inside /\ x.pc \in {"minting", "writing", "copying", "copied"} => Missing(x)
    /\ x.inside /\ x.pc = "copied" => \A k \in KeyID : x.got[k] = keyring[k] \/ Overtaken(x, k)
    /\ x.op \in Provision /\ x.pc = "written" => x.put = keyring[x.id] \/ ~x.fresh

Coherent == Served /\ Derived /\ \A c \in Call : Informed(call[c])

KeyInv == Typed /\ Ordered /\ (Guarded => Coherent)

-----------------------------------------------------------------------------
(* Types.                                                                  *)

LEMMA TextTypes ==
    /\ Absent \in Text /\ Blank \in [KeyID -> Text]
    /\ \A t \in Text : t.key \in Nat /\ (t.key = NoKey <=> t = Absent)
BY DEF Text, Absent, Blank, Form, NoKey

LEMMA EncodeType ==
    ASSUME NEW key \in Nat \ {NoKey}
    PROVE  encode(key) \in Text /\ encode(key).key = key /\ encode(key) # Absent
BY DEF encode, encryptKey, generateKeyRecord, Text, Form, Absent, NoKey

LEMMA IdleType == Idle \in Calls
BY TextTypes DEF Idle, Calls, Progress, NoKey

LEMMA RecordTypes ==
    /\ \A pc \in Progress : At(pc) \in Calls /\ At(pc).pc = pc /\ ~At(pc).inside
    /\ \A pc \in Progress, text \in Text :
           /\ Writing(pc, text) \in Calls /\ Writing(pc, text).pc = pc
           /\ ~Writing(pc, text).inside /\ Writing(pc, text).put = text
    /\ \A op \in Op, key \in Nat :
           /\ Returning(op, key) \in Calls /\ Returning(op, key).pc = "done"
           /\ ~Returning(op, key).inside
<1> DEFINE i == Idle
<1>1. i \in Calls /\ i.inside = FALSE
  BY IdleType DEF Idle
<1>2. /\ \A pc : At(pc) = [i EXCEPT !.pc = pc]
      /\ \A pc, text : Writing(pc, text) = [i EXCEPT !.pc = pc, !.put = text]
      /\ \A op, key : Returning(op, key) =
             [i EXCEPT !.pc = "done", !.ret = IF op = "get" THEN key ELSE NoKey]
  BY DEF At, Writing, Returning
<1> HIDE DEF i
<1>3. "done" \in Progress /\ NoKey \in Nat
  BY DEF Progress, NoKey
<1>4. ASSUME NEW pc \in Progress
      PROVE  At(pc) \in Calls /\ At(pc).pc = pc /\ ~At(pc).inside
  BY <1>1, <1>2 DEF Calls
<1>5. ASSUME NEW pc \in Progress, NEW text \in Text
      PROVE  /\ Writing(pc, text) \in Calls /\ Writing(pc, text).pc = pc
             /\ ~Writing(pc, text).inside /\ Writing(pc, text).put = text
  BY <1>1, <1>2 DEF Calls
<1>6. ASSUME NEW op \in Op, NEW key \in Nat
      PROVE  /\ Returning(op, key) \in Calls /\ Returning(op, key).pc = "done"
             /\ ~Returning(op, key).inside
  BY <1>1, <1>2, <1>3 DEF Calls
<1> QED BY <1>4, <1>5, <1>6

LEMMA EndedType ==
    ASSUME Typed, NEW c \in Call, NEW pc \in Ending, NEW key \in Nat
    PROVE  /\ Ended(c, pc, key) \in Calls /\ Ended(c, pc, key).pc = pc
           /\ ~Ended(c, pc, key).inside
<1> DEFINE i == Idle
           r == IF call[c].op = "get" THEN key ELSE NoKey
<1>1. i \in Calls /\ i.inside = FALSE
  BY IdleType DEF Idle
<1>2. Ended(c, pc, key) = [i EXCEPT !.pc = pc, !.op = call[c].op, !.id = call[c].id,
                                    !.quiet = call[c].quiet, !.ret = r]
  BY DEF Ended
<1>3. call[c] \in Calls /\ pc \in Progress /\ r \in Nat
  BY DEF Typed, Ending, Progress, NoKey
<1>4. call[c].op \in Op \cup {"none"} /\ call[c].id \in KeyID \cup {"none"}
      /\ call[c].quiet \in BOOLEAN
  BY <1>3 DEF Calls
<1> HIDE DEF i, r
<1> QED BY <1>1, <1>2, <1>3, <1>4 DEF Calls

(* Changing what one process knows of one key ID.                          *)
LEMMA EntryUpdates ==
    ASSUME NEW f \in [Proc -> [KeyID -> Entry]], NEW p \in Proc, NEW k \in KeyID
    PROVE  /\ \A v \in Entry : [f EXCEPT ![p][k] = v] \in [Proc -> [KeyID -> Entry]]
           /\ \A v \in Nat : [f EXCEPT ![p][k].key = v] \in [Proc -> [KeyID -> Entry]]
           /\ [f EXCEPT ![p][k].known = TRUE] \in [Proc -> [KeyID -> Entry]]
<1>1. f[p][k] \in Entry
  OBVIOUS
<1>2. ASSUME NEW v \in Nat
      PROVE  [f[p][k] EXCEPT !.key = v] \in Entry
  BY <1>1 DEF Entry
<1>3. [f[p][k] EXCEPT !.known = TRUE] \in Entry
  BY <1>1 DEF Entry
<1>4. \A v \in Entry : [f EXCEPT ![p][k] = v] \in [Proc -> [KeyID -> Entry]]
  OBVIOUS
<1> QED BY <1>2, <1>3, <1>4

LEMMA CachedType ==
    ASSUME Typed, NEW p \in Proc, NEW k \in KeyID, NEW key \in Nat
    PROVE  Cached(p, k, key) \in [Proc -> [KeyID -> Entry]]
BY EntryUpdates DEF Cached, Typed

LEMMA TouchType ==
    ASSUME Typed, NEW p \in Proc, NEW k \in KeyID
    PROVE  Touch(p, k) \in [Proc -> [KeyID -> Entry]]
BY EntryUpdates DEF Touch, Typed

LEMMA EntryTypes ==
    ASSUME NEW e \in Entry
    PROVE  /\ recall(e) \in Entry /\ dropCache(e) \in Entry
           /\ known(e) \in Nat /\ known(dropCache(e)) = NoKey
           /\ recall(e).key = e.key \/ recall(e).key = e.encoded.key
<1>1. /\ e.encoded \in Text /\ e.encoded.key \in Nat /\ e.key \in Nat
      /\ Absent \in Text /\ Absent.key = NoKey /\ NoKey \in Nat
  BY TextTypes DEF Entry, NoKey
<1>2. \A v \in Nat : [e EXCEPT !.key = v, !.encoded = Absent] \in Entry
                     /\ [e EXCEPT !.key = v, !.encoded = Absent].key = v
                     /\ [e EXCEPT !.key = v, !.encoded = Absent].encoded = Absent
  BY <1>1 DEF Entry
<1>3. dropCache(e) \in Entry /\ dropCache(e).key = NoKey /\ dropCache(e).encoded = Absent
  BY <1>1, <1>2 DEF dropCache
<1>4. recall(e) \in Entry /\ (recall(e).key = e.key \/ recall(e).key = e.encoded.key)
  BY <1>1, <1>2 DEF recall
<1> QED BY <1>1, <1>3, <1>4 DEF known

-----------------------------------------------------------------------------
(* A step of one call.                                                     *)

(* Another call is only told that it is not alone, or that another wrote.  *)
Near(x, y) ==
    /\ y.op = x.op /\ y.proc = x.proc /\ y.id = x.id /\ y.pc = x.pc
    /\ y.inside = x.inside /\ y.got = x.got /\ y.put = x.put
    /\ y.fresh => x.fresh

Others(c) == \A d \in Call \ {c} : Near(call[d], call'[d])

(* No other call loses its place or its lock file.                         *)
LinesKept(c) ==
    \A d \in Call \ {c} :
        /\ \A p \in Proc, k \in KeyID : IsHead(chain[p][k], d) => IsHead(chain'[p][k], d)
        /\ \A l \in Lock : holder[l] = d => holder'[l] = d

LEMMA SameLines ==
    ASSUME NEW c \in Call, UNCHANGED <<chain, holder>>
    PROVE  LinesKept(c)
BY DEF LinesKept

LEMMA Queueing ==
    ASSUME Typed, NEW c \in Call, NEW p \in Proc, NEW k \in KeyID,
           chain' = [chain EXCEPT ![p][k] = Append(@, c)], holder' = holder
    PROVE  LinesKept(c) /\ chain' \in [Proc -> [KeyID -> Seq(Call)]]
<1>1. chain \in [Proc -> [KeyID -> Seq(Call)]]
  BY DEF Typed
<1>2. chain[p][k] \in Seq(Call) /\ Append(chain[p][k], c) \in Seq(Call)
  BY <1>1
<1>3. chain' \in [Proc -> [KeyID -> Seq(Call)]]
  BY <1>1, <1>2
<1>4. ASSUME NEW d \in Call, NEW q \in Proc, NEW j \in KeyID, IsHead(chain[q][j], d)
      PROVE  IsHead(chain'[q][j], d)
  <2>1. CASE q = p /\ j = k
    <3>1. chain'[q][j] = Append(chain[p][k], c)
      BY <1>1, <2>1
    <3>2. chain[p][k] # <<>> /\ Head(chain[p][k]) = d
      BY <1>4, <2>1 DEF IsHead
    <3> QED BY <1>2, <3>1, <3>2 DEF IsHead
  <2>2. CASE ~(q = p /\ j = k)
    BY <1>1, <1>4, <2>2
  <2> QED BY <2>1, <2>2
<1> QED BY <1>3, <1>4 DEF LinesKept

LEMMA Leaving ==
    ASSUME Typed, NEW c \in Call, NEW pc, Leave(c, pc),
           call[c].proc \in Proc, call[c].id \in KeyID
    PROVE  /\ LinesKept(c)
           /\ chain' \in [Proc -> [KeyID -> Seq(Call)]] /\ holder' \in [Lock -> Nat]
<1> DEFINE p == call[c].proc
           k == call[c].id
           line == IF IsHead(chain[p][k], c) THEN Tail(chain[p][k]) ELSE chain[p][k]
<1>1. /\ chain \in [Proc -> [KeyID -> Seq(Call)]] /\ holder \in [Lock -> Nat]
      /\ p \in Proc /\ k \in KeyID
  BY DEF Typed
<1>2. chain' = [chain EXCEPT ![p][k] = line]
  BY <1>1 DEF Leave
<1>3. holder' = [l \in Lock |-> IF holder[l] = c THEN NoCall ELSE holder[l]]
  BY DEF Leave
<1> HIDE DEF p, k
<1>4. chain[p][k] \in Seq(Call)
  BY <1>1
<1>5. line \in Seq(Call)
  BY <1>4 DEF IsHead
<1>6. chain' \in [Proc -> [KeyID -> Seq(Call)]]
  <2> HIDE DEF line
  <2> QED BY <1>1, <1>2, <1>5
<1>7. holder' \in [Lock -> Nat]
  BY <1>1, <1>3 DEF NoCall
<1>8. ASSUME NEW d \in Call \ {c}, NEW q \in Proc, NEW j \in KeyID, IsHead(chain[q][j], d)
      PROVE  IsHead(chain'[q][j], d)
  <2>1. CASE q = p /\ j = k
    <3>1. ~IsHead(chain[p][k], c)
      BY <1>8, <2>1 DEF IsHead
    <3>2. chain'[q][j] = chain[q][j]
      BY <1>1, <1>2, <2>1, <3>1
    <3> QED BY <1>8, <3>2
  <2>2. CASE ~(q = p /\ j = k)
    <3> HIDE DEF line
    <3>1. chain'[q][j] = chain[q][j]
      BY <1>1, <1>2, <2>2
    <3> QED BY <1>8, <3>1
  <2> QED BY <2>1, <2>2
<1>9. ASSUME NEW d \in Call \ {c}, NEW l \in Lock, holder[l] = d
      PROVE  holder'[l] = d
  BY <1>3, <1>9
<1> QED BY <1>6, <1>7, <1>8, <1>9 DEF LinesKept

(* A call that is inside is alone with its entry.                          *)
LEMMA InsideAlone ==
    ASSUME NEW x, Placed(x), x.inside
    PROVE  Alone(x) /\ x.pc \notin Ending
BY DEF Placed, Ending, Lined, Alone, Reads, Records, Alters

(* A call under way.                                                       *)
LEMMA Place ==
    ASSUME Typed, Ordered, NEW c \in Call, call[c].pc \notin Ending
    PROVE  /\ call[c].proc \in world.procs /\ call[c].proc \in Proc
           /\ call[c].id \in world.ids /\ call[c].id \in KeyID
           /\ ~Is("hd") /\ Carries(call[c]) /\ store[call[c].proc] # Unopened
           /\ \/ Lined(call[c]) \/ Alone(call[c]) \/ Reads(call[c])
              \/ Records(call[c]) \/ Alters(call[c])
<1>1. world \in World
  BY DEF Typed
<1>2. world.procs \subseteq Proc /\ world.ids \subseteq KeyID
  BY <1>1, StoresAssumption
<1>3. InOrder(c)
  BY DEF Ordered
<1> QED BY <1>2, <1>3 DEF InOrder, Placed, Opened

(* What the step of one call leaves of the order of the others.            *)
LEMMA OthersInOrder ==
    ASSUME Typed, Ordered, Typed', NEW c \in Call, world' = world, store' = store,
           Others(c), LinesKept(c), InOrder(c)'
    PROVE  Ordered'
<1> SUFFICES ASSUME NEW d \in Call, d # c
             PROVE  InOrder(d)'
  BY DEF Ordered
<1> DEFINE x == call[d]
           y == call'[d]
<1>1. InOrder(d) /\ Near(x, y)
  BY DEF Ordered, Others
<1>2. /\ y.op = x.op /\ y.proc = x.proc /\ y.id = x.id /\ y.pc = x.pc
      /\ y.inside = x.inside /\ y.put = x.put
  BY <1>1 DEF Near
<1>3. Placed(x) /\ Opened(x) /\ HasTurn(d) /\ BusyAlone(d)
  BY <1>1 DEF InOrder
<1>4. Placed(call[d])'
  <2>1. \A b : Is(b)' <=> Is(b)
    BY DEF Is
  <2>2. /\ Lined(call[d]) => Lined(call[d])'
        /\ Alone(call[d]) => Alone(call[d])'
        /\ Reads(call[d]) => Reads(call[d])'
        /\ Records(call[d]) => Records(call[d])'
        /\ Alters(call[d]) => Alters(call[d])'
        /\ Carries(call[d]) => Carries(call[d])'
    BY <1>2, <2>1 DEF Lined, Alone, Reads, Records, Alters, Carries
  <2> QED BY <1>2, <1>3, <2>1, <2>2 DEF Placed
<1>5. Opened(call[d])'
  BY <1>2, <1>3 DEF Opened, Is, OneLock
<1>6. HasTurn(d)'
  <2>1. CASE x.pc = "waiting" \/ x.inside
    <3>1. x.pc \notin Ending
      BY <1>3, <2>1, InsideAlone DEF Ending
    <3>2. x.proc \in Proc /\ x.id \in KeyID
      BY <3>1, Place
    <3>3. IsHead(chain'[y.proc][y.id], d)
      <4>1. IsHead(chain[x.proc][x.id], d)
        BY <1>3, <2>1 DEF HasTurn
      <4> QED BY <1>2, <3>2, <4>1 DEF LinesKept
    <3>4. ASSUME y.inside, LockPath(d)' # NoLock
          PROVE  holder'[LockPath(d)'] = d
      <4>1. LockPath(d)' = LockPath(d)
        BY <1>2 DEF LockPath
      <4>2. LockPath(d) \in Lock
        BY <3>2, <3>4, <4>1 DEF LockPath, Typed, Store
      <4>3. holder[LockPath(d)] = d
        BY <1>2, <1>3, <3>4, <4>1 DEF HasTurn
      <4> QED BY <4>1, <4>2, <4>3 DEF LinesKept
    <3> QED BY <3>3, <3>4 DEF HasTurn
  <2>2. CASE ~(x.pc = "waiting" \/ x.inside)
    BY <1>2, <2>2 DEF HasTurn
  <2> QED BY <2>1, <2>2
<1>7. BusyAlone(d)'
  <2> SUFFICES ASSUME Is("electron"), y.pc \in BusyPc, NEW e \in Call, call'[e].pc \in BusyPc,
                      call'[e].proc = y.proc
               PROVE  e = d
    BY DEF BusyAlone, Is
  <2>1. CASE e = c
    <3>1. BusyAlone(c)'
      BY DEF InOrder
    <3> QED BY <2>1, <3>1 DEF BusyAlone, Is
  <2>2. CASE e # c
    <3>1. Near(call[e], call'[e])
      BY <2>2 DEF Others
    <3>2. call[e].pc \in BusyPc /\ call[e].proc = x.proc
      BY <1>2, <3>1 DEF Near
    <3> QED BY <1>2, <1>3, <3>2 DEF BusyAlone
  <2> QED BY <2>1, <2>2
<1> QED BY <1>4, <1>5, <1>6, <1>7 DEF InOrder

(* The step of call c makes x of it.                                       *)
Moved(c, x) ==
    /\ x \in Calls /\ call' \in [Call -> Calls] /\ call'[c] = x /\ Others(c)
    /\ world' = world /\ store' = store /\ minted' \in Nat
    /\ entry' \in [Proc -> [KeyID -> Entry]]
    /\ chain' \in [Proc -> [KeyID -> Seq(Call)]] /\ holder' \in [Lock -> Nat]
    /\ LinesKept(c)

InPlace(c, x) == Placed(x) /\ Opened(x) /\ HasTurn(c)' /\ BusyAlone(c)'

LEMMA WorldKept ==
    ASSUME world' = world
    PROVE  /\ Guarded' <=> Guarded
           /\ \A b : Is(b)' <=> Is(b)
           /\ \A l \in Lock : OneLock(l)' <=> OneLock(l)
BY DEF Guarded, OneProcess, OneLock, Is

LEMMA StepInv ==
    ASSUME KeyInv, NEW c \in Call, NEW x, Moved(c, x), InPlace(c, x),
           keyring' \in [KeyID -> Text], served' \in [KeyID -> SUBSET (Nat \ {NoKey})],
           Guarded => Coherent'
    PROVE  KeyInv'
<1>1. Typed'
  BY DEF KeyInv, Typed, Moved
<1>2. InOrder(c)'
  <2>1. \A b : Is(b)' <=> Is(b)
    BY WorldKept DEF Moved
  <2>2. Placed(call[c])'
    BY <2>1 DEF Moved, InPlace, Placed, Lined, Alone, Reads, Records, Alters, Carries
  <2>3. Opened(call[c])'
    BY <2>1, WorldKept DEF Moved, InPlace, Opened
  <2> QED BY <2>2, <2>3 DEF InOrder, InPlace
<1>3. Ordered'
  BY <1>1, <1>2, OthersInOrder DEF KeyInv, Moved
<1>4. Guarded' <=> Guarded
  BY WorldKept DEF Moved
<1> QED BY <1>1, <1>3, <1>4 DEF KeyInv

LEMMA QuietStep ==
    ASSUME KeyInv, NEW c \in Call, NEW x, Moved(c, x), InPlace(c, x),
           UNCHANGED <<keyring, served>>, Is("hd") => entry' = entry,
           Guarded => Informed(x)
    PROVE  KeyInv'
<1>1. ASSUME Guarded PROVE Coherent'
  <2>1. Served' /\ Derived'
    BY <1>1 DEF KeyInv, Coherent, Served, Derived, Moved, Is
  <2>2. ASSUME NEW d \in Call
        PROVE  Informed(call[d])'
    <3>1. CASE d = c
      BY <1>1, <3>1 DEF Informed, Missing, Overtaken, Moved
    <3>2. CASE d # c
      <4>1. Informed(call[d]) /\ Near(call[d], call'[d])
        BY <1>1, <3>2 DEF KeyInv, Coherent, Moved, Others
      <4> QED BY <4>1 DEF Near, Informed, Missing, Overtaken
    <3> QED BY <3>1, <3>2
  <2> QED BY <2>1, <2>2 DEF Coherent
<1>2. keyring' \in [KeyID -> Text] /\ served' \in [KeyID -> SUBSET (Nat \ {NoKey})]
  BY DEF KeyInv, Typed
<1> QED BY <1>1, <1>2, StepInv

(* A call that ended needs nothing.                                        *)
LEMMA EndInPlace ==
    ASSUME NEW c \in Call, NEW x, Moved(c, x), x.pc \in Ending, ~x.inside
    PROVE  InPlace(c, x) /\ Informed(x)
BY DEF Moved, InPlace, Placed, Opened, HasTurn, BusyAlone, BusyPc, Ending, Informed

(* A call that goes on keeps its place.                                    *)
LEMMA StayInPlace ==
    ASSUME Typed, Ordered, NEW c \in Call, NEW x, Moved(c, x), call[c].pc \notin Ending,
           x.proc = call[c].proc, x.id = call[c].id, Placed(x), x.pc # "waiting",
           x.inside => call[c].inside /\ UNCHANGED <<chain, holder>>,
           Is("electron") /\ x.pc \in BusyPc => call[c].pc \in BusyPc
    PROVE  InPlace(c, x)
<1>1. InOrder(c)
  BY DEF Ordered
<1>2. Opened(x)
  BY <1>1 DEF InOrder, Opened
<1>3. HasTurn(c)'
  BY <1>1 DEF InOrder, HasTurn, LockPath, Moved
<1>4. BusyAlone(c)'
  <2> SUFFICES ASSUME Is("electron"), x.pc \in BusyPc, NEW d \in Call, call'[d].pc \in BusyPc,
                      call'[d].proc = x.proc, d # c
               PROVE  FALSE
    BY DEF BusyAlone, Is, Moved
  <2>1. Near(call[d], call'[d])
    BY DEF Moved, Others
  <2> QED BY <1>1, <2>1 DEF InOrder, BusyAlone, Near
<1> QED BY <1>2, <1>3, <1>4 DEF InPlace

(* A call that comes into a body of electron's finds none under way.       *)
LEMMA NotBusy ==
    ASSUME NEW c \in Call, NEW x, Moved(c, x), ~Busy(x.proc)
    PROVE  BusyAlone(c)'
<1> SUFFICES ASSUME Is("electron"), NEW d \in Call, call'[d].pc \in BusyPc,
                    call'[d].proc = x.proc, d # c
             PROVE  FALSE
  BY DEF BusyAlone, Is, Moved
<1>1. Near(call[d], call'[d])
  BY DEF Moved, Others
<1> QED BY <1>1 DEF Busy, BusyPc, Near

(* A call that is not inside, nor has stored a key, has nothing in hand.   *)
LEMMA OutsideInformed ==
    ASSUME NEW x, ~x.inside, x.op \notin Provision \/ x.pc # "written"
    PROVE  Informed(x)
BY DEF Informed

-----------------------------------------------------------------------------
(* The calls begin.                                                        *)

(* The store a call is made on is the one it asks for.                     *)
LEMMA GrantedStore ==
    ASSUME KeyInv, NEW c \in Call, NEW p \in world.procs, NEW op, NEW ask \in world.asks,
           Granted(c, p, op, ask)
    PROVE  /\ store[p] # Unopened /\ ~Busy(p) /\ p \in Proc
           /\ Is("node") \/ Is("electron") => \A l \in Lock : OneLock(l) => store[p].lock = l
<1>1. store[p] # Unopened /\ ~Busy(p) /\ ~conflicts(p, ask)
  BY DEF Granted, Begins
<1>2. world.procs \subseteq Proc /\ NoLock \notin Lock
  BY StoresAssumption DEF KeyInv, Typed
<1>3. ASSUME Is("node") \/ Is("electron"), NEW l \in Lock, OneLock(l)
      PROVE  store[p].lock = l
  <2>1. ask.lock = l /\ l # NoLock
    BY <1>2, <1>3 DEF OneLock
  <2> QED BY <1>1, <1>3, <2>1 DEF conflicts, conflictsNode, conflictsElectron
<1> QED BY <1>1, <1>2, <1>3

(* What a call is that begins as the record with.                          *)
Begun(x, p, op, k, with) ==
    /\ x.op = op /\ x.id = k /\ x.pc = with.pc /\ ~x.inside /\ x.put = with.put
    /\ x.pc \notin Ending => x.proc = p

LEMMA Starts ==
    ASSUME KeyInv, NEW c \in Call, NEW p \in world.procs, NEW op \in Op, NEW k \in world.ids,
           NEW with \in Calls, ~with.inside
    PROVE  LET f == Starting(c, p, op, k, with)
           IN  /\ f \in [Call -> Calls] /\ Begun(f[c], p, op, k, with)
               /\ \A d \in Call \ {c} : Near(call[d], f[d])
<1> DEFINE f == Starting(c, p, op, k, with)
           q == \A e \in Call : ~(Active(e) /\ call[e].id = k)
           proc == IF with.pc \in {"done", "failed"} THEN with.proc ELSE p
           x == [with EXCEPT !.op = op, !.id = k, !.proc = proc, !.quiet = q]
<1>1. /\ call \in [Call -> Calls] /\ p \in Proc /\ k \in KeyID
  BY StoresAssumption DEF KeyInv, Typed
<1>2. proc \in Proc \cup {"none"} /\ q \in BOOLEAN
  BY <1>1 DEF Calls
<1>3. f[c] = x
  BY DEF Starting
<1>4. x \in Calls /\ Begun(x, p, op, k, with)
  <2>1. proc = p \/ with.pc \in Ending
    BY DEF Ending
  <2> HIDE DEF proc, q
  <2> QED BY <1>1, <1>2, <2>1 DEF Calls, Begun
<1>5. ASSUME NEW d \in Call \ {c}
      PROVE  f[d] \in Calls /\ Near(call[d], f[d])
  <2>1. f[d] = IF Active(d) /\ call[d].id = k THEN [call[d] EXCEPT !.quiet = FALSE] ELSE call[d]
    BY DEF Starting
  <2>2. call[d] \in Calls
    BY <1>1
  <2>3. [call[d] EXCEPT !.quiet = FALSE] \in Calls
        /\ Near(call[d], [call[d] EXCEPT !.quiet = FALSE])
    BY <2>2 DEF Calls, Near
  <2>4. Near(call[d], call[d])
    BY DEF Near
  <2> HIDE DEF f
  <2> QED BY <2>1, <2>2, <2>3, <2>4
<1>6. f = [d \in Call |-> f[d]]
  BY DEF Starting
<1> HIDE DEF f, x
<1>7. f \in [Call -> Calls]
  BY <1>3, <1>4, <1>5, <1>6
<1> QED BY <1>3, <1>4, <1>5, <1>7 DEF f

LEMMA Beginning ==
    ASSUME KeyInv, NEW c \in Call, NEW p \in world.procs, NEW op \in Op, NEW k \in world.ids,
           NEW with \in Calls, ~with.inside,
           Begins(c, p, op), call' = Starting(c, p, op, k, with),
           chain' = chain \/ chain' = [chain EXCEPT ![p][k] = Append(@, c)],
           entry' \in [Proc -> [KeyID -> Entry]], minted' \in Nat
    PROVE  \E x : Moved(c, x) /\ Begun(x, p, op, k, with)
<1> DEFINE f == Starting(c, p, op, k, with)
<1>1. f \in [Call -> Calls] /\ Begun(f[c], p, op, k, with)
      /\ \A d \in Call \ {c} : Near(call[d], f[d])
  BY Starts
<1>2. p \in Proc /\ k \in KeyID /\ Typed
  BY StoresAssumption DEF KeyInv, Typed
<1>3. UNCHANGED <<world, store, holder>>
  BY DEF Begins
<1>4. LinesKept(c) /\ chain' \in [Proc -> [KeyID -> Seq(Call)]] /\ holder' \in [Lock -> Nat]
  BY <1>2, <1>3, SameLines, Queueing DEF Typed
<1> HIDE DEF f
<1>5. call' = f
  BY DEF f
<1>6. Moved(c, f[c])
  BY <1>1, <1>3, <1>4, <1>5 DEF Moved, Others
<1> QED BY <1>1, <1>6

(* A call that begins, and reads nothing at once that provideAsync answers.*)
LEMMA BeginStep ==
    ASSUME KeyInv, NEW c \in Call, NEW p \in world.procs, NEW op \in Op, NEW k \in world.ids,
           NEW ask \in world.asks, NEW with \in Calls, ~with.inside,
           Granted(c, p, op, ask), call' = Starting(c, p, op, k, with),
           chain' = chain \/ chain' = [chain EXCEPT ![p][k] = Append(@, c)],
           entry' \in [Proc -> [KeyID -> Entry]], minted' \in Nat,
           UNCHANGED <<keyring, served>>, Is("hd") => entry' = entry,
           with.pc \notin {"waiting", "written"},
           \A x : Begun(x, p, op, k, with) /\ x.pc \notin Ending => Placed(x)
    PROVE  KeyInv'
<1>1. Begins(c, p, op)
  BY DEF Granted
<1>2. PICK x : Moved(c, x) /\ Begun(x, p, op, k, with)
  BY <1>1, Beginning
<1>3. CASE x.pc \in Ending
  <2>1. InPlace(c, x) /\ Informed(x)
    BY <1>2, <1>3, EndInPlace DEF Begun
  <2> QED BY <1>2, <2>1, QuietStep
<1>4. CASE x.pc \notin Ending
  <2>1. Placed(x) /\ x.proc = p /\ ~x.inside /\ x.pc \notin {"waiting", "written"}
    BY <1>2, <1>4 DEF Begun
  <2>2. Opened(x)
    BY <2>1, GrantedStore DEF Opened
  <2>3. HasTurn(c)'
    BY <1>2, <2>1 DEF HasTurn, Moved
  <2>4. BusyAlone(c)'
    BY <1>2, <2>1, NotBusy, GrantedStore
  <2>5. InPlace(c, x)
    BY <2>1, <2>2, <2>3, <2>4 DEF InPlace
  <2>6. Informed(x)
    BY <2>1, OutsideInformed
  <2> QED BY <1>2, <2>5, <2>6, QuietStep
<1> QED BY <1>3, <1>4

(* What is asked for, and what is known of it.                             *)
LEMMA Asked ==
    ASSUME KeyInv, NEW p \in world.procs, NEW k \in world.ids
    PROVE  p \in Proc /\ k \in KeyID /\ entry[p][k] \in Entry /\ Typed
BY StoresAssumption DEF KeyInv, Typed

(* A call that is refused, or answers at once.                             *)
LEMMA AnswerStep ==
    ASSUME KeyInv, NEW c \in Call, NEW p \in world.procs, NEW op \in Op, NEW k \in world.ids,
           NEW with \in Calls, ~with.inside, with.pc \in Ending,
           Begins(c, p, op), call' = Starting(c, p, op, k, with), UNCHANGED chain,
           entry' \in [Proc -> [KeyID -> Entry]], minted' \in Nat,
           UNCHANGED <<keyring, served>>, Is("hd") => entry' = entry
    PROVE  KeyInv'
<1>1. PICK x : Moved(c, x) /\ Begun(x, p, op, k, with)
  BY Beginning
<1>2. InPlace(c, x) /\ Informed(x)
  BY <1>1, EndInPlace DEF Begun
<1> QED BY <1>1, <1>2, QuietStep

LEMMA RefusedStep ==
    ASSUME KeyInv, NEW c \in Call, NEW p \in world.procs, NEW op \in Op, NEW k \in world.ids,
           NEW ask \in world.asks, Refused(c, p, op, k, ask)
    PROVE  KeyInv'
<1> DEFINE with == At("failed")
<1>1. with \in Calls /\ ~with.inside /\ with.pc \in Ending
  BY RecordTypes DEF Progress, Ending
<1>2. /\ Begins(c, p, op) /\ call' = Starting(c, p, op, k, with)
      /\ UNCHANGED <<keyring, entry, chain, minted, served>>
  BY DEF Refused
<1>3. entry' \in [Proc -> [KeyID -> Entry]] /\ minted' \in Nat
  BY <1>2 DEF KeyInv, Typed
<1> HIDE DEF with
<1> QED BY <1>1, <1>2, <1>3, AnswerStep

LEMMA BeginGetNodeStep ==
    ASSUME KeyInv, NEW c \in Call, NEW p \in world.procs, NEW op \in Op, NEW k \in world.ids,
           NEW ask \in world.asks, BeginGetNode(c, p, op, k, ask)
    PROVE  KeyInv'
<1> DEFINE key == known(entry[p][k])
           with == IF key # NoKey THEN Returning(op, key) ELSE At("reading")
<1>1. p \in Proc /\ k \in KeyID /\ entry[p][k] \in Entry /\ Typed
  BY Asked
<1>2. key \in Nat
  BY <1>1, EntryTypes
<1>3. with \in Calls /\ ~with.inside /\ with.pc \in {"done", "reading"}
  BY <1>2, RecordTypes DEF Progress
<1>4. /\ Is("node") /\ op \in {"get", "identity"} /\ Granted(c, p, op, ask)
      /\ call' = Starting(c, p, op, k, with) /\ UNCHANGED <<keyring, chain, minted, served>>
      /\ entry' = [Touch(p, k) EXCEPT ![p][k] = recall(@)]
  BY DEF BeginGetNode
<1>5. entry' \in [Proc -> [KeyID -> Entry]]
  <2> DEFINE f == Touch(p, k)
  <2>1. f \in [Proc -> [KeyID -> Entry]]
    BY <1>1, TouchType
  <2>2. entry' = [f EXCEPT ![p][k] = recall(f[p][k])]
    BY <1>4, <2>1
  <2> HIDE DEF f
  <2>3. recall(f[p][k]) \in Entry
    BY <1>1, <2>1, EntryTypes
  <2> QED BY <1>1, <2>1, <2>2, <2>3
<1>6. minted' \in Nat /\ ~Is("hd")
  BY <1>4 DEF KeyInv, Typed, Is
<1> HIDE DEF with
<1>7. \A x : Begun(x, p, op, k, with) /\ x.pc \notin Ending => Placed(x)
  BY <1>3, <1>4 DEF Begun, Placed, Ending, Reads, Is, Carries
<1> QED BY <1>3, <1>4, <1>5, <1>6, <1>7, BeginStep

LEMMA BeginGetElectronStep ==
    ASSUME KeyInv, NEW c \in Call, NEW p \in world.procs, NEW op \in Op, NEW k \in world.ids,
           NEW ask \in world.asks, BeginGetElectron(c, p, op, k, ask)
    PROVE  KeyInv'
<1> DEFINE e == entry[p][k]
           key == IF e.key # NoKey THEN e.key ELSE keyring[k].key
           with == IF key # NoKey \/ op = "get" THEN Returning(op, key) ELSE At("queued")
<1>1. p \in Proc /\ k \in KeyID /\ e \in Entry /\ Typed
  BY Asked
<1>2. key \in Nat
  BY <1>1, TextTypes DEF Entry, Typed
<1>3. /\ with \in Calls /\ ~with.inside /\ with.pc \in {"done", "queued"}
      /\ with.pc = "queued" => op # "get"
  BY <1>2, RecordTypes DEF Progress
<1>4. /\ Is("electron") /\ op \in {"get", "identity"} /\ Granted(c, p, op, ask)
      /\ call' = Starting(c, p, op, k, with) /\ UNCHANGED <<keyring, minted, served>>
      /\ chain' = chain \/ chain' = [chain EXCEPT ![p][k] = Append(@, c)]
      /\ entry' = [Touch(p, k) EXCEPT ![p][k].key = key]
  BY DEF BeginGetElectron
<1>5. entry' \in [Proc -> [KeyID -> Entry]]
  <2>1. Touch(p, k) \in [Proc -> [KeyID -> Entry]]
    BY <1>1, TouchType
  <2> HIDE DEF key
  <2> QED BY <1>1, <1>2, <1>4, <2>1, EntryUpdates
<1>6. minted' \in Nat /\ ~Is("hd")
  BY <1>4 DEF KeyInv, Typed, Is
<1> HIDE DEF with
<1>7. \A x : Begun(x, p, op, k, with) /\ x.pc \notin Ending => Placed(x)
  BY <1>3, <1>4 DEF Begun, Placed, Ending, Lined, Provision, Is, Carries
<1> QED BY <1>3, <1>4, <1>5, <1>6, <1>7, BeginStep

(* The other calls that begin with a read, and those of provideAsync.      *)
LEMMA WaitStep ==
    ASSUME KeyInv, NEW c \in Call, NEW p \in world.procs, NEW op \in Op, NEW k \in world.ids,
           NEW ask \in world.asks,
           \/ BeginGetBrowser(c, p, op, k, ask) \/ BeginGetExpo(c, p, op, k, ask)
           \/ BeginList(c, p, op, k, ask)
           \/ BeginProvide(c, p, op, k, ask) \/ BeginProvideBrowser(c, p, op, k, ask)
    PROVE  KeyInv'
<1>1. p \in Proc /\ k \in KeyID /\ Typed
  BY Asked
<1>2. PICK pc \in {"reading", "queued", "minting"} :
        /\ Granted(c, p, op, ask) /\ call' = Starting(c, p, op, k, At(pc))
        /\ UNCHANGED <<keyring, minted, served>>
        /\ chain' = chain \/ chain' = [chain EXCEPT ![p][k] = Append(@, c)]
        /\ entry' = entry \/ entry' = Touch(p, k)
        /\ \/ pc = "reading" /\ op = "get" /\ (Is("browser") \/ Is("expo"))
           \/ pc = "reading" /\ op = "identity" /\ Is("expo")
           \/ pc = "reading" /\ op = "list" /\ Is("node")
           \/ pc = "queued" /\ op = "provide" /\ ~Is("browser") /\ ~Is("hd")
           \/ pc = "minting" /\ op \in Provision /\ Is("browser")
  <2>1. CASE BeginGetBrowser(c, p, op, k, ask)
    BY <2>1 DEF BeginGetBrowser
  <2>2. CASE BeginGetExpo(c, p, op, k, ask)
    BY <2>2 DEF BeginGetExpo
  <2>3. CASE BeginList(c, p, op, k, ask)
    BY <2>3 DEF BeginList
  <2>4. CASE BeginProvide(c, p, op, k, ask)
    BY <2>4 DEF BeginProvide
  <2>5. CASE BeginProvideBrowser(c, p, op, k, ask)
    BY <2>5 DEF BeginProvideBrowser, Provision
  <2> QED BY <2>1, <2>2, <2>3, <2>4, <2>5
<1> DEFINE with == At(pc)
<1>3. with \in Calls /\ ~with.inside /\ with.pc = pc
  BY RecordTypes DEF Progress
<1>4. entry' \in [Proc -> [KeyID -> Entry]] /\ minted' \in Nat
  BY <1>1, <1>2, TouchType DEF Typed
<1>5. ~Is("hd")
  BY <1>2 DEF Is
<1> HIDE DEF with
<1>6. \A x : Begun(x, p, op, k, with) /\ x.pc \notin Ending => Placed(x)
  BY <1>2, <1>3, <1>5 DEF Begun, Placed, Ending, Lined, Reads, Records, Provision, Is, Carries
<1>7. call' = Starting(c, p, op, k, with)
  BY <1>2 DEF with
<1> QED BY <1>2, <1>3, <1>4, <1>5, <1>6, <1>7, BeginStep

(* set and remove.                                                         *)
LEMMA AlterStep ==
    ASSUME KeyInv, NEW c \in Call, NEW p \in world.procs, NEW op \in Op, NEW k \in world.ids,
           NEW ask \in world.asks,
           \/ BeginSet(c, p, op, k, ask) \/ BeginSetElectron(c, p, op, k, ask)
           \/ BeginRemove(c, p, op, k, ask) \/ BeginRemoveElectron(c, p, op, k, ask)
    PROVE  KeyInv'
<1>1. p \in Proc /\ k \in KeyID /\ Typed
  BY Asked
<1>2. minted + 1 \in Nat \ {NoKey} /\ minted \in Nat
  BY <1>1 DEF Typed, NoKey
<1>3. encode(minted + 1) \in Text /\ Absent \in Text
  BY <1>2, EncodeType, TextTypes
<1>4. PICK with \in Calls :
        /\ Granted(c, p, op, ask) /\ call' = Starting(c, p, op, k, with)
        /\ ~with.inside /\ op \in {"set", "remove"} /\ ~Is("hd")
        /\ with.pc \in (IF Is("electron") THEN {"copying", "failed"} ELSE {"writing"})
        /\ UNCHANGED <<keyring, chain, served>> /\ entry' = Touch(p, k)
        /\ minted' \in {minted, minted + 1}
  <2> DEFINE fresh == encode(minted + 1)
  <2>1. /\ Writing("writing", fresh) \in Calls /\ Writing("copying", fresh) \in Calls
        /\ Writing("writing", fresh).pc = "writing" /\ Writing("copying", fresh).pc = "copying"
        /\ ~Writing("writing", fresh).inside /\ ~Writing("copying", fresh).inside
    BY <1>3, RecordTypes DEF Progress
  <2>2. /\ Writing("writing", Absent) \in Calls /\ Writing("copying", Absent) \in Calls
        /\ Writing("writing", Absent).pc = "writing" /\ Writing("copying", Absent).pc = "copying"
        /\ ~Writing("writing", Absent).inside /\ ~Writing("copying", Absent).inside
    BY <1>3, RecordTypes DEF Progress
  <2>3. At("failed") \in Calls /\ At("failed").pc = "failed" /\ ~At("failed").inside
    BY RecordTypes DEF Progress
  <2>4. Is("electron") => ~Is("hd")
    BY DEF Is
  <2>5. CASE BeginSet(c, p, op, k, ask)
    BY <2>1, <2>5 DEF BeginSet
  <2>6. CASE BeginSetElectron(c, p, op, k, ask)
    BY <2>1, <2>3, <2>4, <2>6 DEF BeginSetElectron
  <2>7. CASE BeginRemove(c, p, op, k, ask)
    BY <2>2, <2>7 DEF BeginRemove
  <2>8. CASE BeginRemoveElectron(c, p, op, k, ask)
    BY <2>2, <2>4, <2>8 DEF BeginRemoveElectron
  <2> QED BY <2>5, <2>6, <2>7, <2>8
<1>5. entry' \in [Proc -> [KeyID -> Entry]] /\ minted' \in Nat
  BY <1>1, <1>2, <1>4, TouchType
<1>6. \A x : Begun(x, p, op, k, with) /\ x.pc \notin Ending => Placed(x)
  BY <1>4 DEF Begun, Placed, Ending, Alters, Carries, Provision
<1>7. with.pc \notin {"waiting", "written"}
  BY <1>4
<1> QED BY <1>4, <1>5, <1>6, <1>7, BeginStep

(* A derived key.                                                          *)
LEMMA DeriveStep ==
    ASSUME KeyInv, NEW c \in Call, NEW p \in world.procs, NEW op \in Op, NEW k \in world.ids,
           NEW ask \in world.asks, Derive(c, p, op, k, ask)
    PROVE  KeyInv'
<1> DEFINE key == derive(entry[p][k], k)
<1>1. p \in Proc /\ k \in KeyID /\ entry[p][k] \in Entry /\ Typed
  BY Asked
<1>2. key \in Nat /\ (key = entry[p][k].key \/ key = world.path[k])
  <2>1. entry[p][k].key \in Nat /\ world.path[k] \in Nat
    BY <1>1, StoresAssumption DEF Entry, Typed
  <2> QED BY <2>1 DEF derive, resolveDerivationPath
<1>3. /\ Is("hd") /\ Granted(c, p, op, ask) /\ Begins(c, p, op)
      /\ UNCHANGED <<keyring, chain, minted>>
      /\ IF key = NoKey
         THEN call' = Starting(c, p, op, k, At("failed")) /\ UNCHANGED <<entry, served>>
         ELSE /\ call' = Starting(c, p, op, k, Returning(op, key))
              /\ entry' = [Touch(p, k) EXCEPT ![p][k].key = key]
              /\ served' = [served EXCEPT ![k] = @ \cup {key}]
  BY DEF Derive, Granted
<1>4. minted' \in Nat
  BY <1>1, <1>3 DEF Typed
<1> HIDE DEF key
<1>5. CASE key = NoKey
  <2> DEFINE with == At("failed")
  <2>1. with \in Calls /\ ~with.inside /\ with.pc \in Ending
    BY RecordTypes DEF Progress, Ending
  <2>2. call' = Starting(c, p, op, k, with) /\ UNCHANGED <<keyring, chain, entry, served>>
    BY <1>3, <1>5
  <2>3. entry' \in [Proc -> [KeyID -> Entry]]
    BY <1>1, <2>2 DEF Typed
  <2> HIDE DEF with
  <2> QED BY <1>3, <1>4, <2>1, <2>2, <2>3, AnswerStep
<1>6. CASE key # NoKey
  <2> DEFINE with == Returning(op, key)
             f == Touch(p, k)
  <2>1. with \in Calls /\ ~with.inside /\ with.pc \in Ending
    BY <1>2, RecordTypes DEF Ending
  <2>2. /\ f \in [Proc -> [KeyID -> Entry]]
        /\ \A q \in Proc, j \in KeyID : f[q][j].key = entry[q][j].key
    <3>1. entry \in [Proc -> [KeyID -> Entry]]
      BY <1>1 DEF Typed
    <3>2. [entry[p][k] EXCEPT !.known = TRUE].key = entry[p][k].key
      BY <1>1 DEF Entry
    <3>3. f = [entry EXCEPT ![p][k] = [entry[p][k] EXCEPT !.known = TRUE]]
      BY <1>1, <3>1 DEF Touch
    <3>4. f \in [Proc -> [KeyID -> Entry]]
      BY <1>1, TouchType
    <3> HIDE DEF f
    <3>5. ASSUME NEW q \in Proc, NEW j \in KeyID
          PROVE  f[q][j].key = entry[q][j].key
      <4>1. CASE q = p /\ j = k
        BY <1>1, <3>1, <3>2, <3>3, <4>1
      <4>2. CASE ~(q = p /\ j = k)
        BY <3>1, <3>3, <4>2
      <4> QED BY <4>1, <4>2
    <3> QED BY <3>4, <3>5
  <2>3. /\ call' = Starting(c, p, op, k, with) /\ entry' = [f EXCEPT ![p][k].key = key]
        /\ served' = [served EXCEPT ![k] = @ \cup {key}]
    BY <1>3, <1>6
  <2> HIDE DEF f
  <2>4. /\ entry' \in [Proc -> [KeyID -> Entry]]
        /\ \A q \in Proc, j \in KeyID :
             entry'[q][j].key = IF q = p /\ j = k THEN key ELSE entry[q][j].key
    <3>1. entry' \in [Proc -> [KeyID -> Entry]] /\ entry'[p][k].key = key
      <4>1. /\ [f EXCEPT ![p][k].key = key] \in [Proc -> [KeyID -> Entry]]
            /\ [f EXCEPT ![p][k].key = key][p][k].key = key
        <5> SUFFICES ASSUME NEW g \in [Proc -> [KeyID -> Entry]]
                     PROVE  /\ [g EXCEPT ![p][k].key = key] \in [Proc -> [KeyID -> Entry]]
                            /\ [g EXCEPT ![p][k].key = key][p][k].key = key
          BY <2>2
        <5>1. [g EXCEPT ![p][k].key = key] \in [Proc -> [KeyID -> Entry]]
          BY <1>1, <1>2, EntryUpdates
        <5>2. [g[p][k] EXCEPT !.key = key].key = key
          BY <1>1 DEF Entry
        <5> QED BY <1>1, <5>1, <5>2
      <4> QED BY <2>3, <4>1
    <3>2. ASSUME NEW q \in Proc, NEW j \in KeyID, ~(q = p /\ j = k)
          PROVE  entry'[q][j] = f[q][j]
      BY <1>1, <2>2, <2>3, <3>2
    <3> QED BY <2>2, <3>1, <3>2
  <2> HIDE DEF with
  <2>5. PICK x : Moved(c, x) /\ Begun(x, p, op, k, with)
    BY <1>3, <1>4, <2>1, <2>3, <2>4, Beginning
  <2>6. InPlace(c, x) /\ Informed(x)
    BY <2>1, <2>5, EndInPlace DEF Begun
  <2>7. keyring' \in [KeyID -> Text] /\ served' \in [KeyID -> SUBSET (Nat \ {NoKey})]
    <3>1. served \in [KeyID -> SUBSET (Nat \ {NoKey})] /\ keyring \in [KeyID -> Text]
      BY <1>1 DEF Typed
    <3>2. key \in Nat \ {NoKey}
      BY <1>2, <1>6
    <3> QED BY <1>1, <1>3, <2>3, <3>1, <3>2
  <2>8. ASSUME Guarded PROVE Coherent'
    <3>1. Coherent /\ Is("hd")'
      BY <1>3, <2>5, <2>8 DEF KeyInv, Moved, Is
    <3>2. key = world.path[k]
      BY <1>1, <1>2, <1>3, <1>6, <3>1 DEF Coherent, Derived
    <3>3. world' = world
      BY <2>5 DEF Moved
    <3>4. Served'
      <4>1. served \in [KeyID -> SUBSET (Nat \ {NoKey})]
        BY <1>1 DEF Typed
      <4>2. \A j \in KeyID : served[j] \subseteq {world.path[j]}
        BY <1>3, <3>1 DEF Coherent, Served
      <4> QED BY <1>1, <2>3, <3>1, <3>2, <3>3, <4>1, <4>2 DEF Served
    <3>5. Derived'
      BY <1>3, <2>4, <3>1, <3>2, <3>3 DEF Derived, Coherent
    <3>6. ASSUME NEW d \in Call
          PROVE  Informed(call[d])'
      <4>1. call'[d].pc \in Ending /\ ~call'[d].inside
        <5>1. CASE d = c
          BY <2>1, <2>5, <5>1 DEF Begun, Moved
        <5>2. CASE d # c
          <6>1. call[d].pc \in Ending
            BY <1>1, <1>3, Place DEF KeyInv
          <6>2. ~call[d].inside
            BY <6>1, InsideAlone DEF KeyInv, Ordered, InOrder
          <6> QED BY <2>5, <5>2, <6>1, <6>2 DEF Moved, Others, Near
        <5> QED BY <5>1, <5>2
      <4> QED BY <4>1 DEF Informed, Ending
    <3> QED BY <3>4, <3>5, <3>6 DEF Coherent
  <2> QED BY <2>5, <2>6, <2>7, <2>8, StepInv
<1> QED BY <1>5, <1>6

-----------------------------------------------------------------------------
(* What the locks are for: of the calls of one key ID one is inside, and   *)
(* of all calls one is in electron, whose writes concern every key ID.     *)
LEMMA OneLockFile ==
    ASSUME KeyInv, NEW l \in Lock, OneLock(l), NEW c \in Call, call[c].inside,
           Is("node") \/ Is("electron")
    PROVE  holder[l] = c
<1>1. InOrder(c) /\ call[c].pc \notin Ending
  BY InsideAlone DEF KeyInv, Ordered, InOrder
<1>2. LockPath(c) = l
  BY <1>1 DEF InOrder, Opened, LockPath
<1>3. LockPath(c) # NoLock
  BY <1>2, StoresAssumption
<1> QED BY <1>1, <1>2, <1>3 DEF InOrder, HasTurn

LEMMA Exclusive ==
    ASSUME KeyInv, Guarded, NEW c \in Call, NEW d \in Call, call[c].inside, call[d].inside,
           call[c].id = call[d].id \/ Is("electron")
    PROVE  c = d
<1>1. /\ InOrder(c) /\ InOrder(d) /\ Alone(call[c]) /\ Alone(call[d])
      /\ call[c].pc \notin Ending /\ call[d].pc \notin Ending
  BY InsideAlone DEF KeyInv, Ordered, InOrder
<1>2. /\ call[c].proc \in world.procs /\ call[d].proc \in world.procs
      /\ ~Is("browser") /\ ~Is("hd")
  BY <1>1, Place DEF KeyInv, Alone
<1>3. CASE OneProcess
  <2>1. call[c].proc = call[d].proc
    BY <1>2, <1>3 DEF OneProcess
  <2>2. CASE Is("electron")
    BY <1>1, <2>1, <2>2 DEF InOrder, BusyAlone, Alone, BusyPc
  <2>3. CASE call[c].id = call[d].id
    BY <1>1, <2>1, <2>3 DEF InOrder, HasTurn, IsHead
  <2> QED BY <2>2, <2>3
<1>4. CASE ~OneProcess
  <2>1. PICK l \in Lock : OneLock(l)
    BY <1>2, <1>4 DEF Guarded
  <2>2. Is("node") \/ Is("electron")
    <3>1. world \in World
      BY DEF KeyInv, Typed
    <3>2. world.backend \in Backend /\ ~Is("expo")
      BY <1>4, <3>1, StoresAssumption DEF OneProcess, Is
    <3> QED BY <1>2, <3>2 DEF Backend, Is
  <2> QED BY <2>1, <2>2, OneLockFile
<1> QED BY <1>3, <1>4

(* provide() of electron, which writes at once, runs in no one's body.     *)
LEMMA SyncAlone ==
    ASSUME KeyInv, Guarded, Is("electron"), NEW c \in Call, NEW p \in world.procs, NEW op,
           NEW ask \in world.asks, Granted(c, p, op, ask), store[p].lock = NoLock,
           NEW d \in Call, call[d].inside
    PROVE  FALSE
<1>1. /\ ~Busy(p) /\ \A l \in Lock : OneLock(l) => store[p].lock = l
  BY GrantedStore
<1>2. \A l \in Lock : ~OneLock(l)
  BY <1>1, StoresAssumption
<1>3. OneProcess
  BY <1>2 DEF Guarded, Is
<1>4. Alone(call[d]) /\ call[d].pc \notin Ending
  BY InsideAlone DEF KeyInv, Ordered, InOrder
<1>5. call[d].proc = p
  BY <1>3, <1>4, Place DEF OneProcess, KeyInv
<1> QED BY <1>1, <1>4, <1>5 DEF Busy, Alone

(* A key that provide() generated.                                         *)
LEMMA SyncGeneratesStep ==
    ASSUME KeyInv, NEW c \in Call, NEW p \in world.procs, NEW k \in world.ids,
           NEW ask \in world.asks, Granted(c, p, "provideSync", ask),
           ~Is("hd"), Is("electron") => store[p].lock = NoLock,
           SyncGenerates(c, p, k), UNCHANGED chain, entry' \in [Proc -> [KeyID -> Entry]]
    PROVE  KeyInv'
<1> DEFINE with == Returning("provideSync", NoKey)
           f == Starting(c, p, "provideSync", k, with)
           g == [d \in Call |-> IF d # c /\ Active(d) /\ f[d].id = k
                                THEN [f[d] EXCEPT !.fresh = FALSE] ELSE f[d]]
           x == f[c]
<1>1. p \in Proc /\ k \in KeyID /\ Typed /\ keyring \in [KeyID -> Text] /\ minted \in Nat
      /\ served \in [KeyID -> SUBSET (Nat \ {NoKey})]
  BY Asked DEF Typed
<1>2. with \in Calls /\ ~with.inside /\ with.pc \in Ending /\ "provideSync" \in Op
  BY RecordTypes DEF NoKey, Ending, Op
<1>3. /\ f \in [Call -> Calls] /\ Begun(x, p, "provideSync", k, with)
      /\ \A d \in Call \ {c} : Near(call[d], f[d])
  <2> HIDE DEF with
  <2> QED BY <1>2, Starts
<1>4. call' = g /\ UNCHANGED <<world, store, holder>>
  BY DEF SyncGenerates, Granted, Begins
<1> HIDE DEF with, f
<1>5. ASSUME NEW d \in Call
      PROVE  /\ g[d] \in Calls
             /\ d # c => Near(call[d], g[d])
             /\ d # c /\ Active(d) /\ f[d].id = k => ~g[d].fresh
  <2>1. f[d] \in Calls /\ (d # c => Near(call[d], f[d]))
    BY <1>3
  <2>2. [f[d] EXCEPT !.fresh = FALSE] \in Calls /\ ~[f[d] EXCEPT !.fresh = FALSE].fresh
        /\ (d # c => Near(call[d], [f[d] EXCEPT !.fresh = FALSE]))
    BY <2>1 DEF Calls, Near
  <2>3. g[d] = IF d # c /\ Active(d) /\ f[d].id = k
               THEN [f[d] EXCEPT !.fresh = FALSE] ELSE f[d]
    OBVIOUS
  <2> HIDE DEF g
  <2> QED BY <2>1, <2>2, <2>3
<1>6. g[c] = x /\ g = [d \in Call |-> g[d]]
  OBVIOUS
<1> HIDE DEF g, x
<1>7. Moved(c, x)
  <2>1. LinesKept(c) /\ chain' \in [Proc -> [KeyID -> Seq(Call)]] /\ holder' \in [Lock -> Nat]
    BY <1>1, <1>4, SameLines DEF Typed
  <2>2. minted' \in Nat
    BY <1>1 DEF SyncGenerates
  <2>3. g \in [Call -> Calls] /\ \A d \in Call \ {c} : Near(call[d], g[d])
    BY <1>5, <1>6
  <2> QED BY <1>4, <1>5, <1>6, <2>1, <2>2, <2>3 DEF Moved, Others
<1>8. InPlace(c, x) /\ Informed(x)
  BY <1>2, <1>3, <1>7, EndInPlace DEF Begun
<1>9. /\ keyring' = [keyring EXCEPT ![k] = encode(minted + 1)]
      /\ served' = [served EXCEPT ![k] = {}]
      /\ encode(minted + 1) \in Text
  <2>1. minted + 1 \in Nat \ {NoKey}
    BY <1>1 DEF NoKey
  <2> QED BY <2>1, EncodeType DEF SyncGenerates
<1>10. keyring' \in [KeyID -> Text] /\ served' \in [KeyID -> SUBSET (Nat \ {NoKey})]
  BY <1>1, <1>9
<1>11. ASSUME Guarded PROVE Coherent'
  <2>1. Coherent /\ ~Is("hd")'
    BY <1>4, <1>11 DEF KeyInv, Is
  <2>2. Served'
    BY <1>1, <1>9, <2>1 DEF Served, Coherent, Is
  <2>3. Derived'
    BY <2>1 DEF Derived
  <2>4. ASSUME NEW d \in Call
        PROVE  Informed(call[d])'
    <3>1. CASE d = c
      <4>1. call'[d].pc \in Ending /\ ~call'[d].inside
        BY <1>2, <1>3, <1>7, <3>1 DEF Moved, Begun
      <4> QED BY <4>1 DEF Informed, Ending
    <3>2. CASE d # c /\ call[d].pc \in Ending
      <4>1. ~call[d].inside
        BY <3>2, InsideAlone DEF KeyInv, Ordered, InOrder
      <4>2. call'[d].pc \in Ending /\ ~call'[d].inside
        BY <1>5, <1>4, <3>2, <4>1 DEF Near
      <4> QED BY <4>2 DEF Informed, Ending
    <3>3. CASE d # c /\ call[d].pc \notin Ending
      <4>1. Near(call[d], call'[d]) /\ Informed(call[d]) /\ Active(d)
        BY <1>4, <1>5, <2>1, <3>3 DEF Coherent, Active, Ending
      <4>2. call[d].id \in KeyID
        BY <3>3, Place DEF KeyInv
      <4>3. call[d].inside => call[d].pc # "copied"
        <5>1. SUFFICES ASSUME call[d].inside, call[d].pc = "copied"
                       PROVE  FALSE
          OBVIOUS
        <5>2. Is("electron")
          BY <5>1, InsideAlone DEF KeyInv, Ordered, InOrder, Alone
        <5> QED BY <1>11, <5>1, <5>2, SyncAlone
      <4>4. CASE call[d].id = k
        <5>1. ~call'[d].fresh
          <6>1. f[d].id = k
            BY <1>3, <3>3, <4>4 DEF Near
          <6> QED BY <1>4, <1>5, <3>3, <4>1, <6>1
        <5>2. served'[k] = {}
          BY <1>1, <1>9
        <5> QED BY <4>1, <4>3, <4>4, <5>1, <5>2 DEF Informed, Missing, Overtaken, Near
      <4>5. CASE call[d].id # k
        <5>1. keyring'[call[d].id] = keyring[call[d].id] /\ served'[call[d].id] = served[call[d].id]
          BY <1>1, <1>9, <4>2, <4>5
        <5> QED BY <4>1, <4>3, <5>1 DEF Informed, Missing, Overtaken, Near
      <4> QED BY <4>4, <4>5
    <3> QED BY <3>1, <3>2, <3>3
  <2> QED BY <2>2, <2>3, <2>4 DEF Coherent
<1> QED BY <1>7, <1>8, <1>10, <1>11, StepInv

(* provide() finds a key, or refuses.                                      *)
LEMMA SyncAnswers ==
    ASSUME KeyInv, NEW c \in Call, NEW p \in world.procs, NEW k \in world.ids, NEW key \in Nat,
           NEW ask, Granted(c, p, "provideSync", ask), ~Is("hd"),
           SyncFound(c, p, k, key) \/ SyncRefused(c, p, k),
           UNCHANGED chain, entry' \in [Proc -> [KeyID -> Entry]]
    PROVE  KeyInv'
<1>1. "provideSync" \in Op
  BY DEF Op
<1>2. PICK with \in {Returning("provideSync", key), At("failed")} :
          call' = Starting(c, p, "provideSync", k, with) /\ UNCHANGED <<keyring, minted, served>>
  BY DEF SyncFound, SyncRefused
<1>3. with \in Calls /\ ~with.inside /\ with.pc \in Ending
  BY <1>1, <1>2, RecordTypes DEF Progress, Ending
<1>4. Begins(c, p, "provideSync") /\ minted' \in Nat
  BY <1>2 DEF Granted, KeyInv, Typed
<1> QED BY <1>1, <1>2, <1>3, <1>4, AnswerStep

LEMMA ProvideSyncStep ==
    ASSUME KeyInv, NEW c \in Call, NEW p \in world.procs, NEW op \in Op, NEW k \in world.ids,
           NEW ask \in world.asks,
           \/ ProvideSyncNode(c, p, op, k, ask) \/ ProvideSyncElectron(c, p, op, k, ask)
           \/ ProvideSyncExpo(c, p, op, k, ask)
    PROVE  KeyInv'
<1> DEFINE f == Touch(p, k)
<1>1. /\ p \in Proc /\ k \in KeyID /\ Typed /\ minted \in Nat /\ keyring[k].key \in Nat
      /\ f \in [Proc -> [KeyID -> Entry]] /\ entry \in [Proc -> [KeyID -> Entry]]
  BY Asked, TextTypes, TouchType DEF Typed
<1> HIDE DEF f
<1>2. \A key \in Nat : [f EXCEPT ![p][k].key = key] \in [Proc -> [KeyID -> Entry]]
  BY <1>1, EntryUpdates
<1>3. Granted(c, p, "provideSync", ask) /\ UNCHANGED chain /\ ~Is("hd")
  BY DEF ProvideSyncNode, ProvideSyncElectron, ProvideSyncExpo, Is
<1>4. PICK key \in Nat :
        /\ \/ SyncFound(c, p, k, key) \/ SyncRefused(c, p, k)
           \/ SyncGenerates(c, p, k) /\ (Is("electron") => store[p].lock = NoLock)
        /\ entry' \in [Proc -> [KeyID -> Entry]]
  <2>1. NoKey \in Nat /\ minted + 1 \in Nat
    BY <1>1 DEF NoKey
  <2>2. CASE ProvideSyncNode(c, p, op, k, ask)
    <3> DEFINE e == recall(f[p][k])
               key == IF e.key # NoKey THEN e.key ELSE keyring[k].key
    <3>1. e \in Entry /\ e.key \in Nat
      BY <1>1, EntryTypes DEF Entry
    <3>2. key \in Nat
      BY <1>1, <3>1
    <3>3. \A v \in Nat : [entry EXCEPT ![p][k] = [e EXCEPT !.key = v]] \in [Proc -> [KeyID -> Entry]]
      <4>1. \A v \in Nat : [e EXCEPT !.key = v] \in Entry
        BY <3>1 DEF Entry
      <4> HIDE DEF e
      <4> QED BY <1>1, <4>1, EntryUpdates
    <3>4. ~Is("electron")
      BY <2>2 DEF ProvideSyncNode, Is
    <3>5. IF store[p].lock # NoLock THEN SyncRefused(c, p, k) /\ entry' = f
          ELSE IF key # NoKey
          THEN SyncFound(c, p, k, key) /\ entry' = [entry EXCEPT ![p][k] = [e EXCEPT !.key = key]]
          ELSE /\ SyncGenerates(c, p, k)
               /\ entry' = [entry EXCEPT ![p][k] = [e EXCEPT !.key = minted + 1]]
      BY <2>2 DEF ProvideSyncNode, f
    <3> HIDE DEF e, key
    <3> QED BY <1>1, <2>1, <3>2, <3>3, <3>4, <3>5
  <2>3. CASE ProvideSyncElectron(c, p, op, k, ask)
    <3> DEFINE at(v) == [f EXCEPT ![p][k].key = v]
    <3>1. IF store[p].lock # NoLock THEN SyncRefused(c, p, k) /\ entry' = f
          ELSE IF keyring[k] = Absent /\ ~mayPersist(p)
          THEN SyncRefused(c, p, k) /\ entry' = at(NoKey)
          ELSE IF keyring[k] # Absent
          THEN SyncFound(c, p, k, keyring[k].key) /\ entry' = at(keyring[k].key)
          ELSE SyncGenerates(c, p, k) /\ entry' = at(minted + 1)
      BY <2>3 DEF ProvideSyncElectron, f
    <3>2. \A v \in Nat : at(v) \in [Proc -> [KeyID -> Entry]]
      BY <1>2
    <3> HIDE DEF at
    <3> QED BY <1>1, <2>1, <3>1, <3>2
  <2>4. CASE ProvideSyncExpo(c, p, op, k, ask)
    <3>1. ~Is("electron")
      BY <2>4 DEF ProvideSyncExpo, Is
    <3> QED BY <1>1, <2>4, <3>1 DEF ProvideSyncExpo, f
  <2> QED BY <2>2, <2>3, <2>4
<1>5. CASE SyncFound(c, p, k, key) \/ SyncRefused(c, p, k)
  BY <1>3, <1>4, <1>5, SyncAnswers
<1>6. CASE SyncGenerates(c, p, k) /\ (Is("electron") => store[p].lock = NoLock)
  BY <1>3, <1>4, <1>6, SyncGeneratesStep
<1> QED BY <1>4, <1>5, <1>6

LEMMA BeginInv ==
    ASSUME KeyInv, NEW c \in Call, NEW p \in world.procs, NEW op \in Op, NEW k \in world.ids,
           NEW ask \in world.asks, Begin(c, p, op, k, ask)
    PROVE  KeyInv'
<1>1. CASE Refused(c, p, op, k, ask)
  BY <1>1, RefusedStep
<1>2. CASE BeginGetNode(c, p, op, k, ask)
  BY <1>2, BeginGetNodeStep
<1>3. CASE BeginGetElectron(c, p, op, k, ask)
  BY <1>3, BeginGetElectronStep
<1>4. CASE Derive(c, p, op, k, ask)
  BY <1>4, DeriveStep
<1>5. CASE \/ BeginGetBrowser(c, p, op, k, ask) \/ BeginGetExpo(c, p, op, k, ask)
           \/ BeginList(c, p, op, k, ask)
           \/ BeginProvide(c, p, op, k, ask) \/ BeginProvideBrowser(c, p, op, k, ask)
  BY <1>5, WaitStep
<1>6. CASE \/ BeginSet(c, p, op, k, ask) \/ BeginSetElectron(c, p, op, k, ask)
           \/ BeginRemove(c, p, op, k, ask) \/ BeginRemoveElectron(c, p, op, k, ask)
  BY <1>6, AlterStep
<1>7. CASE \/ ProvideSyncNode(c, p, op, k, ask) \/ ProvideSyncElectron(c, p, op, k, ask)
           \/ ProvideSyncExpo(c, p, op, k, ask)
  BY <1>7, ProvideSyncStep
<1> QED BY <1>1, <1>2, <1>3, <1>4, <1>5, <1>6, <1>7 DEF Begin

-----------------------------------------------------------------------------
(* The calls go on.                                                        *)

LEMMA Update ==
    ASSUME Typed, NEW c \in Call, NEW x \in Calls, call' = [call EXCEPT ![c] = x],
           UNCHANGED <<world, store>>, minted' \in Nat,
           entry' \in [Proc -> [KeyID -> Entry]],
           chain' \in [Proc -> [KeyID -> Seq(Call)]], holder' \in [Lock -> Nat], LinesKept(c)
    PROVE  Moved(c, x)
<1>1. call \in [Call -> Calls]
  BY DEF Typed
<1>2. \A d \in Call \ {c} : Near(call[d], call'[d])
  BY <1>1 DEF Near
<1> QED BY <1>1, <1>2 DEF Moved, Others

(* A call ends with no key provided.                                       *)
LEMMA EndStep ==
    ASSUME KeyInv, NEW c \in Call, call[c].pc \notin Ending, NEW pc \in Ending, NEW key \in Nat,
           call' = [call EXCEPT ![c] = Ended(c, pc, key)],
           UNCHANGED <<world, keyring, store, served>>, minted' \in Nat,
           entry' \in [Proc -> [KeyID -> Entry]],
           UNCHANGED <<chain, holder>> \/ Leave(c, pc)
    PROVE  KeyInv'
<1> DEFINE x == Ended(c, pc, key)
<1>1. Typed /\ call[c].proc \in Proc /\ call[c].id \in KeyID /\ ~Is("hd")
  BY Place DEF KeyInv
<1>2. x \in Calls /\ x.pc \in Ending /\ ~x.inside
  BY <1>1, EndedType
<1>3. LinesKept(c) /\ chain' \in [Proc -> [KeyID -> Seq(Call)]] /\ holder' \in [Lock -> Nat]
  <2>1. CASE UNCHANGED <<chain, holder>>
    BY <1>1, <2>1, SameLines DEF Typed
  <2>2. CASE Leave(c, pc)
    BY <1>1, <2>2, Leaving
  <2> QED BY <2>1, <2>2
<1> HIDE DEF x
<1>4. call' = [call EXCEPT ![c] = x]
  BY DEF x
<1>5. Moved(c, x)
  BY <1>1, <1>2, <1>3, <1>4, Update
<1>6. InPlace(c, x) /\ Informed(x)
  BY <1>2, <1>5, EndInPlace
<1> QED BY <1>1, <1>5, <1>6, QuietStep

(* A call goes on to x, where it has its place.                            *)
LEMMA GoesStep ==
    ASSUME KeyInv, NEW c \in Call, call[c].pc \notin Ending,
           NEW x \in Calls, call' = [call EXCEPT ![c] = x],
           x.proc = call[c].proc, x.id = call[c].id, x.inside = call[c].inside,
           Placed(x), x.pc # "waiting",
           Is("electron") /\ x.pc \in BusyPc => call[c].pc \in BusyPc,
           UNCHANGED <<world, keyring, store, entry, holder, served>>, minted' \in Nat,
           \/ UNCHANGED chain
           \/ /\ ~x.inside
              /\ chain' = [chain EXCEPT ![call[c].proc][call[c].id] = Append(@, c)],
           Guarded => Informed(x)
    PROVE  KeyInv'
<1>1. Typed /\ Ordered /\ call[c].proc \in Proc /\ call[c].id \in KeyID
  BY Place DEF KeyInv
<1>2. LinesKept(c) /\ chain' \in [Proc -> [KeyID -> Seq(Call)]] /\ holder' \in [Lock -> Nat]
  <2>1. CASE UNCHANGED chain
    BY <1>1, <2>1, SameLines DEF Typed
  <2>2. CASE chain' = [chain EXCEPT ![call[c].proc][call[c].id] = Append(@, c)]
    BY <1>1, <2>2, Queueing DEF Typed
  <2> QED BY <2>1, <2>2
<1>3. Moved(c, x)
  BY <1>1, <1>2, Update DEF Typed
<1>4. InPlace(c, x)
  BY <1>1, <1>3, StayInPlace
<1> QED BY <1>3, <1>4, QuietStep

(* The turn, and the lock file.                                            *)
LEMMA AwaitStep ==
    ASSUME KeyInv, NEW c \in Call, Await(c)
    PROVE  KeyInv'
<1> DEFINE x == [call[c] EXCEPT !.pc = "waiting"]
<1>1. /\ call[c].pc = "queued" /\ IsHead(chain[call[c].proc][call[c].id], c)
      /\ call' = [call EXCEPT ![c] = x]
      /\ UNCHANGED <<world, keyring, store, entry, chain, holder, minted, served>>
  BY DEF Await, Turn
<1>2. Typed /\ Ordered /\ call[c] \in Calls /\ call[c].pc \notin Ending
  BY <1>1 DEF KeyInv, Typed, Ending
<1>3. /\ x \in Calls /\ x.pc = "waiting" /\ x.op = call[c].op /\ x.proc = call[c].proc
      /\ x.id = call[c].id /\ x.inside = call[c].inside /\ x.put = call[c].put
  BY <1>2 DEF Calls, Progress
<1> HIDE DEF x
<1>4. Moved(c, x)
  BY <1>1, <1>2, <1>3, SameLines, Update DEF Typed
<1>5. InOrder(c) /\ Lined(call[c])
  <2>1. InOrder(c)
    BY <1>2 DEF Ordered
  <2> QED BY <1>1, <2>1 DEF InOrder, Placed, Lined, Alone, Reads, Records, Alters, Ending
<1>6. Placed(x)
  BY <1>2, <1>3, <1>5, Place DEF Placed, Lined, Carries
<1>7. Opened(x)
  BY <1>2, <1>3, <1>5 DEF InOrder, Opened
<1>8. HasTurn(c)' /\ BusyAlone(c)'
  BY <1>1, <1>3, <1>4, <1>5 DEF HasTurn, BusyAlone, BusyPc, Lined, Moved
<1>9. InPlace(c, x) /\ Informed(x) /\ ~Is("hd")
  BY <1>2, <1>3, <1>5, <1>6, <1>7, <1>8, OutsideInformed, Place DEF InPlace, Lined
<1> QED BY <1>1, <1>4, <1>9, QuietStep

LEMMA EntersStep ==
    ASSUME KeyInv, NEW c \in Call, call[c].pc \in {"queued", "waiting"}, Enters(c),
           ~Busy(call[c].proc), IsHead(chain[call[c].proc][call[c].id], c),
           LinesKept(c), holder' \in [Lock -> Nat],
           LockPath(c) # NoLock => holder'[LockPath(c)] = c
    PROVE  KeyInv'
<1> DEFINE e == dropCache(entry[call[c].proc][call[c].id])
           x == [call[c] EXCEPT !.inside = TRUE, !.pc = "reading"]
<1>1. Typed /\ Ordered /\ call[c] \in Calls /\ call[c].pc \notin Ending
  BY DEF KeyInv, Typed, Ending
<1>2. call[c].proc \in Proc /\ call[c].id \in KeyID /\ ~Is("hd")
  BY <1>1, Place
<1>3. e \in Entry /\ known(e) = NoKey
  BY <1>1, <1>2, EntryTypes DEF Typed
<1>4. /\ x \in Calls /\ x.pc = "reading" /\ x.op = call[c].op /\ x.proc = call[c].proc
      /\ x.id = call[c].id /\ x.inside /\ x.put = call[c].put
  BY <1>1 DEF Calls, Progress
<1>5. call' = [call EXCEPT ![c] = x]
  <2>1. call' = [call EXCEPT ![c].inside = TRUE,
                       ![c].pc = IF known(e) = NoKey THEN "reading" ELSE "read",
                       ![c].got[call[c].id] = IF known(e) = NoKey THEN @ ELSE encode(known(e))]
    BY DEF Enters
  <2>2. \A r \in Calls : [r EXCEPT !.inside = TRUE, !.pc = "reading", !.got[call[c].id] = @]
                         = [r EXCEPT !.inside = TRUE, !.pc = "reading"]
    <3>1. ASSUME NEW g \in [KeyID -> Text] PROVE [g EXCEPT ![call[c].id] = @] = g
      OBVIOUS
    <3> QED BY <3>1 DEF Calls
  <2>3. call \in [Call -> Calls]
    BY <1>1 DEF Typed
  <2> HIDE DEF e
  <2> QED BY <1>1, <1>3, <2>1, <2>2, <2>3
<1>6. entry' \in [Proc -> [KeyID -> Entry]] /\ UNCHANGED <<world, keyring, store, chain, minted, served>>
  <2>1. entry' = [entry EXCEPT ![call[c].proc][call[c].id] = e]
        /\ UNCHANGED <<world, keyring, store, chain, minted, served>>
    BY DEF Enters
  <2> HIDE DEF e
  <2> QED BY <1>1, <1>2, <1>3, <2>1, EntryUpdates DEF Typed
<1> HIDE DEF x
<1>7. Moved(c, x)
  BY <1>1, <1>4, <1>5, <1>6, Update DEF Typed
<1>8. InOrder(c) /\ Lined(call[c])
  <2>1. InOrder(c)
    BY <1>1 DEF Ordered
  <2> QED BY <2>1 DEF InOrder, Placed, Lined, Alone, Reads, Records, Alters, Ending
<1>9. Placed(x)
  BY <1>1, <1>4, <1>8, Place DEF Placed, Alone, Lined, Carries
<1>10. Opened(x)
  BY <1>1, <1>4, <1>8 DEF InOrder, Opened
<1>11. HasTurn(c)'
  BY <1>4, <1>6, <1>7 DEF HasTurn, LockPath, Moved
<1>12. BusyAlone(c)'
  BY <1>4, <1>7, NotBusy
<1>13. InPlace(c, x) /\ Informed(x)
  <2>1. Informed(x)
    BY <1>4 DEF Informed
  <2> QED BY <1>9, <1>10, <1>11, <1>12, <2>1 DEF InPlace
<1> QED BY <1>2, <1>6, <1>7, <1>13, QuietStep

LEMMA EnterStep ==
    ASSUME KeyInv, NEW c \in Call, Enter(c) \/ Acquire(c)
    PROVE  KeyInv'
<1>1. Typed /\ Ordered /\ holder \in [Lock -> Nat]
  BY DEF KeyInv, Typed
<1>2. CASE Enter(c)
  <2>1. /\ call[c].pc = "queued" /\ Enters(c) /\ ~Busy(call[c].proc)
        /\ IsHead(chain[call[c].proc][call[c].id], c)
        /\ LockPath(c) = NoLock /\ UNCHANGED <<chain, holder>>
    BY <1>2 DEF Enter, Turn, Enters
  <2> QED BY <1>1, <2>1, SameLines, EntersStep
<1>3. CASE Acquire(c)
  <2>1. /\ call[c].pc = "waiting" /\ Enters(c) /\ ~Busy(call[c].proc) /\ UNCHANGED chain
        /\ holder[LockPath(c)] = NoCall /\ holder' = [holder EXCEPT ![LockPath(c)] = c]
    BY <1>3 DEF Acquire, Enters
  <2>2. IsHead(chain[call[c].proc][call[c].id], c)
    BY <1>1, <2>1 DEF Ordered, InOrder, HasTurn
  <2>3. holder' \in [Lock -> Nat]
    <3>1. c \in Nat
      BY StoresAssumption DEF Call
    <3> QED BY <1>1, <2>1, <3>1
  <2>4. LinesKept(c)
    BY <1>1, <2>1 DEF LinesKept, Call, NoCall
  <2>5. LockPath(c) # NoLock => LockPath(c) \in Lock
    <3>1. call[c].proc \in Proc
      BY <1>1, <2>1, Place DEF Ending
    <3> QED BY <1>1, <3>1 DEF LockPath, Typed, Store
  <2>6. LockPath(c) # NoLock => holder'[LockPath(c)] = c
    BY <1>1, <2>1, <2>5
  <2> QED BY <2>1, <2>2, <2>3, <2>4, <2>6, EntersStep
<1> QED BY <1>2, <1>3

(* A call that answers a get, a list, a set or a removal, or fails.        *)
LEMMA EndsStep ==
    ASSUME KeyInv, NEW c \in Call,
           \/ Timeout(c) \/ GetGoesOn(c) \/ ListGoesOn(c) \/ WriteGoesOn(c)
           \/ RefuseLegacy(c) \/ StorageFails(c)
    PROVE  KeyInv'
<1>1. call[c].pc \notin Ending /\ Typed /\ Ordered
  BY DEF KeyInv, Ending, Timeout, GetGoesOn, ListGoesOn, WriteGoesOn, RefuseLegacy, StorageFails
<1>2. call[c].proc \in Proc /\ call[c].id \in KeyID /\ call[c] \in Calls
  BY <1>1, Place DEF Typed
<1>3. /\ call[c].got \in [KeyID -> Text] /\ call[c].put.key \in Nat /\ NoKey \in Nat
      /\ Answered(c) \in Text /\ Answered(c).key \in Nat
  BY <1>2, TextTypes DEF Calls, Answered, NoKey
<1>4. /\ "done" \in Ending /\ "failed" \in Ending /\ minted \in Nat
      /\ entry \in [Proc -> [KeyID -> Entry]]
  BY <1>1 DEF Ending, Typed
<1>5. CASE Timeout(c) \/ RefuseLegacy(c) \/ StorageFails(c)
  <2>1. /\ call' = [call EXCEPT ![c] = Ended(c, "failed", NoKey)] /\ Leave(c, "failed")
        /\ UNCHANGED <<world, keyring, store, entry, minted, served>>
    BY <1>5 DEF Timeout, RefuseLegacy, StorageFails, Fail
  <2> QED BY <1>1, <1>3, <1>4, <2>1, EndStep
<1>6. CASE GetGoesOn(c)
  <2>1. /\ call' = [call EXCEPT ![c] = Ended(c, "done", Answered(c).key)]
        /\ UNCHANGED <<world, keyring, store, chain, holder, minted, served>>
        /\ \/ entry' = entry
           \/ entry' = Cached(call[c].proc, call[c].id, Answered(c).key)
    BY <1>6 DEF GetGoesOn
  <2>2. entry' \in [Proc -> [KeyID -> Entry]]
    BY <1>1, <1>2, <1>3, <1>4, <2>1, CachedType
  <2> QED BY <1>1, <1>3, <1>4, <2>1, <2>2, EndStep
<1>7. CASE ListGoesOn(c)
  <2> DEFINE p == call[c].proc
             row == [k \in KeyID |->
                        IF entry[p][k].known \/ call[c].got[k] = Absent THEN entry[p][k]
                        ELSE [known |-> TRUE, key |-> NoKey, encoded |-> call[c].got[k]]]
  <2>1. /\ call' = [call EXCEPT ![c] = Ended(c, "done", NoKey)]
        /\ UNCHANGED <<world, keyring, store, chain, holder, minted, served>>
        /\ entry' = [entry EXCEPT ![p] = row]
    BY <1>2, <1>4, <1>7 DEF ListGoesOn
  <2>2. row \in [KeyID -> Entry]
    BY <1>2, <1>3, <1>4 DEF Entry
  <2>3. entry' \in [Proc -> [KeyID -> Entry]]
    <3> HIDE DEF row
    <3> QED BY <1>4, <2>1, <2>2
  <2> QED BY <1>1, <1>3, <1>4, <2>1, <2>3, EndStep
<1>8. CASE WriteGoesOn(c)
  <2>1. /\ call' = [call EXCEPT ![c] = Ended(c, "done", NoKey)]
        /\ UNCHANGED <<world, keyring, store, chain, holder, minted, served>>
        /\ entry' = Cached(call[c].proc, call[c].id, call[c].put.key)
    BY <1>8 DEF WriteGoesOn
  <2>2. entry' \in [Proc -> [KeyID -> Entry]]
    BY <1>1, <1>2, <1>3, <2>1, CachedType
  <2> QED BY <1>1, <1>3, <1>4, <2>1, <2>2, EndStep
<1> QED BY <1>5, <1>6, <1>7, <1>8

(* The storage answers a read.                                             *)
LEMMA ReadStep ==
    ASSUME KeyInv, NEW c \in Call, Read(c)
    PROVE  KeyInv'
<1> DEFINE got == [k \in KeyID |-> IF k = call[c].id \/ call[c].op = "list"
                                   THEN keyring[k] ELSE Absent]
           x == [call[c] EXCEPT !.pc = "read", !.got = got]
<1>1. /\ ~Is("electron") /\ call[c].pc = "reading" /\ call' = [call EXCEPT ![c] = x]
      /\ UNCHANGED <<world, keyring, store, entry, chain, holder, minted, served>>
  BY DEF Read
<1>2. Typed /\ Ordered /\ call[c] \in Calls /\ call[c].pc \notin Ending
  BY <1>1 DEF KeyInv, Typed, Ending
<1>3. call[c].id \in KeyID
  BY <1>2, Place
<1>4. got \in [KeyID -> Text] /\ got[call[c].id] = keyring[call[c].id]
  BY <1>2, <1>3, TextTypes DEF Typed
<1> HIDE DEF got
<1>5. /\ x \in Calls /\ x.pc = "read" /\ x.op = call[c].op /\ x.proc = call[c].proc
      /\ x.id = call[c].id /\ x.inside = call[c].inside /\ x.put = call[c].put /\ x.got = got
  BY <1>2, <1>4 DEF Calls, Progress
<1> HIDE DEF x
<1>6. Placed(x)
  BY <1>1, <1>2, <1>5, Place DEF Placed, Alone, Reads, Lined, Records, Alters, Carries
<1>7. Informed(x)
  BY <1>4, <1>5 DEF Informed
<1>8. minted' \in Nat
  BY <1>1, <1>2 DEF Typed
<1> QED BY <1>1, <1>2, <1>5, <1>6, <1>7, <1>8, GoesStep

(* provideIdentity queues.                                                 *)
LEMMA IdentityStep ==
    ASSUME KeyInv, NEW c \in Call, IdentityGoesOn(c)
    PROVE  KeyInv'
<1> DEFINE x == [call[c] EXCEPT !.pc = "queued"]
<1>1. /\ call[c].pc = "read" /\ ~call[c].inside /\ call[c].op = "identity"
      /\ call' = [call EXCEPT ![c] = x]
      /\ chain' = [chain EXCEPT ![call[c].proc][call[c].id] = Append(@, c)]
      /\ UNCHANGED <<world, keyring, store, entry, holder, minted, served>>
  BY DEF IdentityGoesOn
<1>2. Typed /\ Ordered /\ call[c] \in Calls /\ call[c].pc \notin Ending
  BY <1>1 DEF KeyInv, Typed, Ending
<1>3. /\ x \in Calls /\ x.pc = "queued" /\ x.op = call[c].op /\ x.proc = call[c].proc
      /\ x.id = call[c].id /\ x.inside = call[c].inside /\ x.put = call[c].put
  BY <1>2 DEF Calls, Progress
<1> HIDE DEF x
<1>4. Placed(x)
  BY <1>1, <1>2, <1>3, Place DEF Placed, Alone, Reads, Lined, Records, Alters, Carries, Provision
<1>5. Informed(x)
  BY <1>1, <1>3, OutsideInformed
<1>6. minted' \in Nat
  BY <1>1, <1>2 DEF Typed
<1> QED BY <1>1, <1>2, <1>3, <1>4, <1>5, <1>6, GoesStep DEF BusyPc

(* A call that found its key missing generates one.                        *)
LEMMA GenerateStep ==
    ASSUME KeyInv, NEW c \in Call, GenerateNode(c) \/ Generate(c)
    PROVE  KeyInv'
<1> DEFINE text == encode(minted + 1)
           x == [call[c] EXCEPT !.pc = "writing", !.put = text, !.got = Blank]
<1>1. /\ call' = [call EXCEPT ![c] = x] /\ minted' = minted + 1
      /\ UNCHANGED <<world, keyring, store, entry, chain, holder, served>>
      /\ \/ call[c].pc = "minting"
         \/ call[c].pc = "read" /\ call[c].inside /\ Answered(c) = Absent
  BY DEF GenerateNode, Generate, Generates
<1>2. Typed /\ Ordered /\ call[c] \in Calls /\ call[c].pc \notin Ending
  BY <1>1 DEF KeyInv, Typed, Ending
<1>3. minted + 1 \in Nat \ {NoKey} /\ text \in Text /\ text # Absent /\ Blank \in [KeyID -> Text]
  <2>1. minted + 1 \in Nat \ {NoKey}
    BY <1>2 DEF Typed, NoKey
  <2> QED BY <2>1, EncodeType, TextTypes
<1> HIDE DEF text
<1>4. /\ x \in Calls /\ x.pc = "writing" /\ x.op = call[c].op /\ x.proc = call[c].proc
      /\ x.id = call[c].id /\ x.inside = call[c].inside /\ x.put = text
      /\ x.fresh = call[c].fresh
  BY <1>2, <1>3 DEF Calls, Progress
<1> HIDE DEF x
<1>5. Placed(x)
  BY <1>1, <1>2, <1>3, <1>4, Place DEF Placed, Alone, Reads, Lined, Records, Alters, Carries
<1>6. ASSUME Guarded PROVE Informed(x)
  BY <1>1, <1>4, <1>6 DEF KeyInv, Coherent, Informed, Answered, Missing, Overtaken
<1>7. minted' \in Nat
  BY <1>1, <1>3
<1> QED BY <1>1, <1>2, <1>4, <1>5, <1>6, <1>7, GoesStep DEF BusyPc

LEMMA AwaitRandomStep ==
    ASSUME KeyInv, NEW c \in Call, AwaitRandom(c)
    PROVE  KeyInv'
<1> DEFINE x == [call[c] EXCEPT !.pc = "minting", !.got = Blank]
<1>1. /\ call' = [call EXCEPT ![c] = x] /\ Is("expo")
      /\ UNCHANGED <<world, keyring, store, entry, chain, holder, minted, served>>
      /\ call[c].pc = "read" /\ call[c].inside /\ Answered(c) = Absent
  BY DEF AwaitRandom
<1>2. Typed /\ Ordered /\ call[c] \in Calls /\ call[c].pc \notin Ending
  BY <1>1 DEF KeyInv, Typed, Ending
<1>3. /\ x \in Calls /\ x.pc = "minting" /\ x.op = call[c].op /\ x.proc = call[c].proc
      /\ x.id = call[c].id /\ x.inside = call[c].inside /\ x.put = call[c].put
      /\ x.fresh = call[c].fresh
  BY <1>2, TextTypes DEF Calls, Progress
<1> HIDE DEF x
<1>4. Placed(x)
  BY <1>1, <1>2, <1>3, Place DEF Placed, Alone, Reads, Lined, Records, Alters, Carries
<1>5. ASSUME Guarded PROVE Informed(x)
  BY <1>1, <1>3, <1>5 DEF KeyInv, Coherent, Informed, Answered, Missing, Overtaken
<1>6. minted' \in Nat
  BY <1>1, <1>2 DEF Typed
<1> QED BY <1>1, <1>2, <1>3, <1>4, <1>5, <1>6, GoesStep DEF BusyPc

(* Electron's set and remove copy the map.                                 *)
LEMMA CopyStep ==
    ASSUME KeyInv, NEW c \in Call, Copy(c)
    PROVE  KeyInv'
<1> DEFINE x == [call[c] EXCEPT !.pc = "copied", !.got = keyring]
<1>1. /\ call' = [call EXCEPT ![c] = x] /\ call[c].pc = "copying"
      /\ UNCHANGED <<world, keyring, store, entry, chain, holder, minted, served>>
  BY DEF Copy
<1>2. Typed /\ Ordered /\ call[c] \in Calls /\ call[c].pc \notin Ending
  BY <1>1 DEF KeyInv, Typed, Ending
<1>3. /\ x \in Calls /\ x.pc = "copied" /\ x.op = call[c].op /\ x.proc = call[c].proc
      /\ x.id = call[c].id /\ x.inside = call[c].inside /\ x.put = call[c].put
      /\ x.fresh = call[c].fresh /\ x.got = keyring
  BY <1>2 DEF Calls, Progress, Typed
<1> HIDE DEF x
<1>4. Placed(x)
  BY <1>1, <1>2, <1>3, Place DEF Placed, Alone, Reads, Lined, Records, Alters, Carries
<1>5. ASSUME Guarded PROVE Informed(x)
  BY <1>1, <1>3, <1>5 DEF KeyInv, Coherent, Informed, Missing, Overtaken
<1>6. minted' \in Nat
  BY <1>1, <1>2 DEF Typed
<1> QED BY <1>1, <1>2, <1>3, <1>4, <1>5, <1>6, GoesStep DEF BusyPc

-----------------------------------------------------------------------------
(* The key is provided.                                                    *)

(* Who provides a key is inside, or in a browser.                          *)
LEMMA Provides ==
    ASSUME Typed, Ordered, NEW c \in Call, call[c].op \in Provision,
           call[c].pc \in {"written", "copying", "copied"}
    PROVE  call[c].inside \/ Is("browser")
BY Place DEF Ending, Lined, Alone, Reads, Records, Alters, Provision

(* Of the others none is at the key, and in electron none is inside.       *)
LEMMA OthersApart ==
    ASSUME KeyInv, Guarded, NEW c \in Call, call[c].inside \/ Is("browser"),
           NEW d \in Call, d # c, call[d].inside
    PROVE  /\ call[d].id # call[c].id /\ ~Is("electron") /\ call[d].pc # "copied"
           /\ call[d].pc # "written" \/ ~Is("browser")
<1>1. Alone(call[d])
  BY InsideAlone DEF KeyInv, Ordered, InOrder
<1>2. call[c].inside
  BY <1>1 DEF Alone
<1> QED BY <1>1, <1>2, Exclusive DEF Alone

LEMMA ProvideStep ==
    ASSUME KeyInv, NEW c \in Call, call[c].pc \notin Ending, call[c].inside \/ Is("browser"),
           NEW key \in Nat \ {NoKey}, Provide(c, key), UNCHANGED <<world, keyring, store>>,
           entry' \in [Proc -> [KeyID -> Entry]], minted' \in Nat,
           Guarded /\ call[c].fresh => key = keyring[call[c].id].key
    PROVE  KeyInv'
<1> DEFINE x == Ended(c, "done", key)
           k == call[c].id
<1>1. Typed /\ Ordered /\ call[c].proc \in Proc /\ k \in KeyID /\ ~Is("hd") /\ "done" \in Ending
      /\ served \in [KeyID -> SUBSET (Nat \ {NoKey})]
  BY Place DEF KeyInv, Ending, Typed
<1>2. x \in Calls /\ x.pc \in Ending /\ ~x.inside
  BY <1>1, EndedType
<1>3. Leave(c, "done") /\ call' = [call EXCEPT ![c] = x]
      /\ served' = IF call[c].fresh THEN [served EXCEPT ![k] = @ \cup {key}] ELSE served
  BY DEF Provide
<1>4. LinesKept(c) /\ chain' \in [Proc -> [KeyID -> Seq(Call)]] /\ holder' \in [Lock -> Nat]
  BY <1>1, <1>3, Leaving
<1> HIDE DEF x, k
<1>5. Moved(c, x)
  BY <1>1, <1>2, <1>3, <1>4, Update
<1>6. InPlace(c, x) /\ Informed(x)
  BY <1>2, <1>5, EndInPlace
<1>7. served' \in [KeyID -> SUBSET (Nat \ {NoKey})] /\ keyring' \in [KeyID -> Text]
  BY <1>1, <1>3 DEF Typed
<1>8. ASSUME Guarded PROVE Coherent'
  <2>1. Coherent /\ ~Is("hd")'
    BY <1>1, <1>8 DEF KeyInv, Is
  <2>2. Served'
    <3>1. \A j \in KeyID : served[j] \subseteq {keyring[j].key}
      BY <1>1, <2>1 DEF Coherent, Served
    <3>2. call[c].fresh => key = keyring[k].key
      BY <1>8 DEF k
    <3>3. \A j \in KeyID : served'[j] \subseteq {keyring[j].key}
      BY <1>1, <1>3, <3>1, <3>2
    <3> QED BY <2>1, <3>3 DEF Served
  <2>3. Derived'
    BY <2>1 DEF Derived
  <2>4. ASSUME NEW d \in Call
        PROVE  Informed(call[d])'
    <3>1. CASE d = c
      <4>1. call'[d].pc \in Ending /\ ~call'[d].inside
        BY <1>2, <1>5, <3>1 DEF Moved
      <4> QED BY <4>1 DEF Informed, Ending
    <3>2. CASE d # c /\ ~call[d].inside
      <4>1. Near(call[d], call'[d]) /\ Informed(call[d])
        BY <1>5, <2>1, <3>2 DEF Moved, Others, Coherent
      <4> QED BY <3>2, <4>1 DEF Informed, Near
    <3>3. CASE d # c /\ call[d].inside
      <4>1. Near(call[d], call'[d]) /\ Informed(call[d])
        BY <1>5, <2>1, <3>3 DEF Moved, Others, Coherent
      <4>2. call[d].id # k /\ call[d].pc # "copied"
        BY <1>8, <3>3, OthersApart DEF k
      <4>3. call[d].id \in KeyID
        BY <1>1, <3>3, Place, InsideAlone DEF Ordered, InOrder
      <4>4. served'[call[d].id] = served[call[d].id]
        BY <1>1, <1>3, <4>2, <4>3
      <4> QED BY <4>1, <4>2, <4>4 DEF Informed, Missing, Overtaken, Near
    <3> QED BY <3>1, <3>2, <3>3
  <2> QED BY <2>2, <2>3, <2>4 DEF Coherent
<1> QED BY <1>5, <1>6, <1>7, <1>8, StepInv

LEMMA FoundStep ==
    ASSUME KeyInv, NEW c \in Call, Found(c)
    PROVE  KeyInv'
<1> DEFINE key == Answered(c).key
<1>1. /\ call[c].pc = "read" /\ call[c].inside /\ Answered(c) # Absent
      /\ entry' = Cached(call[c].proc, call[c].id, key) /\ Provide(c, key)
      /\ UNCHANGED <<world, keyring, store, minted>>
  BY DEF Found
<1>2. Typed /\ Ordered /\ call[c] \in Calls /\ call[c].pc \notin Ending /\ minted' \in Nat
  BY <1>1 DEF KeyInv, Typed, Ending
<1>3. call[c].proc \in Proc /\ call[c].id \in KeyID
  BY <1>2, Place
<1>4. key \in Nat \ {NoKey}
  <2>1. Answered(c) \in Text
    BY <1>2, <1>3 DEF Calls, Answered
  <2> QED BY <1>1, <2>1, TextTypes
<1>5. entry' \in [Proc -> [KeyID -> Entry]]
  BY <1>1, <1>2, <1>3, <1>4, CachedType
<1>6. ASSUME Guarded, call[c].fresh PROVE key = keyring[call[c].id].key
  BY <1>1, <1>6 DEF KeyInv, Coherent, Informed, Overtaken, Answered
<1> HIDE DEF key
<1> QED BY <1>1, <1>2, <1>4, <1>5, <1>6, ProvideStep

LEMMA ProvidedStep ==
    ASSUME KeyInv, NEW c \in Call, Provided(c)
    PROVE  KeyInv'
<1> DEFINE key == call[c].put.key
<1>1. /\ call[c].pc = "written" /\ ~Foreign(c)
      /\ entry' = Cached(call[c].proc, call[c].id, key) /\ Provide(c, key)
      /\ UNCHANGED <<world, keyring, store, minted>>
  BY DEF Provided
<1>2. Typed /\ Ordered /\ call[c] \in Calls /\ call[c].pc \notin Ending /\ minted' \in Nat
  BY <1>1 DEF KeyInv, Typed, Ending
<1>3. /\ call[c].proc \in Proc /\ call[c].id \in KeyID /\ call[c].op \in Provision
      /\ call[c].put # Absent
  BY <1>1, <1>2, Place DEF Lined, Alone, Reads, Records, Alters, Foreign, Carries
<1>4. key \in Nat \ {NoKey}
  <2>1. call[c].put \in Text
    BY <1>2 DEF Calls
  <2> QED BY <1>3, <2>1, TextTypes
<1>5. entry' \in [Proc -> [KeyID -> Entry]]
  BY <1>1, <1>2, <1>3, <1>4, CachedType
<1>6. ASSUME Guarded, call[c].fresh PROVE key = keyring[call[c].id].key
  BY <1>1, <1>3, <1>6 DEF KeyInv, Coherent, Informed
<1>7. call[c].inside \/ Is("browser")
  BY <1>1, <1>2, <1>3, Provides
<1> HIDE DEF key
<1> QED BY <1>1, <1>2, <1>4, <1>5, <1>6, <1>7, ProvideStep

LEMMA BodyStep ==
    ASSUME KeyInv, NEW c \in Call, Body(c)
    PROVE  KeyInv'
<1> DEFINE p == call[c].proc
           k == call[c].id
           key == keyring[k].key
           text == encode(minted + 1)
           x == [call[c] EXCEPT !.pc = "copying", !.put = text]
<1>1. /\ Is("electron") /\ call[c].pc = "reading" /\ UNCHANGED <<world, keyring, store>>
      /\ IF keyring[k] # Absent
         THEN Provide(c, key) /\ entry' = Cached(p, k, key) /\ UNCHANGED minted
         ELSE /\ \/ call' = [call EXCEPT ![c] = x] /\ UNCHANGED <<chain, holder>>
                 \/ Fail(c)
              /\ minted' = minted + 1 /\ UNCHANGED <<entry, served>>
  BY DEF Body
<1>2. /\ Typed /\ Ordered /\ call[c] \in Calls /\ call[c].pc \notin Ending
      /\ minted \in Nat /\ entry \in [Proc -> [KeyID -> Entry]]
  BY <1>1 DEF KeyInv, Typed, Ending
<1>3. p \in Proc /\ k \in KeyID /\ Alone(call[c]) /\ call[c].inside
  BY <1>1, <1>2, Place DEF Lined, Alone, Reads, Records, Alters, Is
<1>4. minted + 1 \in Nat \ {NoKey} /\ text \in Text /\ text # Absent
  <2>1. minted + 1 \in Nat \ {NoKey}
    BY <1>2 DEF NoKey
  <2> QED BY <2>1, EncodeType
<1>5. CASE keyring[k] # Absent
  <2>1. key \in Nat \ {NoKey}
    BY <1>2, <1>3, <1>5, TextTypes DEF Typed
  <2>2. entry' \in [Proc -> [KeyID -> Entry]]
    BY <1>1, <1>2, <1>3, <1>5, <2>1, CachedType
  <2> QED BY <1>1, <1>2, <1>3, <1>5, <2>1, <2>2, ProvideStep
<1>6. CASE keyring[k] = Absent /\ Fail(c)
  <2>1. /\ call' = [call EXCEPT ![c] = Ended(c, "failed", NoKey)] /\ Leave(c, "failed")
        /\ UNCHANGED <<world, keyring, store, entry, served>> /\ minted' = minted + 1
    BY <1>1, <1>6 DEF Fail
  <2>2. NoKey \in Nat /\ "failed" \in Ending
    BY DEF NoKey, Ending
  <2> QED BY <1>2, <1>4, <2>1, <2>2, EndStep
<1>7. CASE keyring[k] = Absent /\ call' = [call EXCEPT ![c] = x] /\ UNCHANGED <<chain, holder>>
  <2> HIDE DEF text
  <2>1. /\ x \in Calls /\ x.pc = "copying" /\ x.op = call[c].op /\ x.proc = call[c].proc
        /\ x.id = call[c].id /\ x.inside = call[c].inside /\ x.put = text
        /\ x.fresh = call[c].fresh
    BY <1>2, <1>4 DEF Calls, Progress
  <2> HIDE DEF x
  <2>2. Placed(x)
    BY <1>1, <1>2, <1>3, <1>4, <2>1, Place DEF Placed, Alone, Carries
  <2>3. Informed(x)
    BY <1>7, <2>1 DEF Informed, Missing
  <2>4. minted' \in Nat
    BY <1>1, <1>4, <1>7
  <2> QED BY <1>1, <1>2, <1>7, <2>1, <2>2, <2>3, <2>4, GoesStep DEF BusyPc
<1> QED BY <1>1, <1>5, <1>6, <1>7

-----------------------------------------------------------------------------
(* The key is stored.                                                      *)

(* What the writer tells the others.                                       *)
LEMMA StaleFields ==
    ASSUME Typed, Ordered, NEW c \in Call
    PROVE  /\ Stale(c) \in [Call -> Calls] /\ Stale(c)[c] = call[c]
           /\ \A d \in Call \ {c} : Near(call[d], Stale(c)[d])
           /\ \A d \in Call \ {c} : call[d].pc \notin Ending /\ call[d].id \in Rewritten(c)
                                        => ~Stale(c)[d].fresh
<1> DEFINE f == Stale(c)
<1>1. call \in [Call -> Calls]
  BY DEF Typed
<1>2. ASSUME NEW d \in Call
      PROVE  /\ f[d] \in Calls
             /\ d # c => Near(call[d], f[d])
             /\ d = c => f[d] = call[d]
             /\ d # c /\ Active(d) /\ call[d].id \in Rewritten(c) => ~f[d].fresh
  <2>1. f[d] = IF d # c /\ Active(d) /\ call[d].id \in Rewritten(c)
               THEN [call[d] EXCEPT !.fresh = FALSE] ELSE call[d]
    BY DEF Stale
  <2>2. call[d] \in Calls /\ Near(call[d], call[d])
    BY <1>1 DEF Near
  <2>3. [call[d] EXCEPT !.fresh = FALSE] \in Calls /\ ~[call[d] EXCEPT !.fresh = FALSE].fresh
        /\ Near(call[d], [call[d] EXCEPT !.fresh = FALSE])
    BY <2>2 DEF Calls, Near
  <2> HIDE DEF f
  <2> QED BY <2>1, <2>2, <2>3
<1>3. f = [d \in Call |-> f[d]]
  BY DEF Stale
<1> HIDE DEF f
<1>4. f \in [Call -> Calls]
  BY <1>2, <1>3
<1>5. \A d \in Call : call[d].pc \notin Ending => Active(d)
  BY DEF Active, Ending
<1> QED BY <1>2, <1>4, <1>5 DEF f

(* A write: in place, and, where the locks let it, coherent.               *)
LEMMA WritesStep ==
    ASSUME KeyInv, NEW c \in Call, call[c].pc = "writing", NEW text \in Text, Writes(c, text),
           ~Foreign(c) =>
               /\ text # Absent
               /\ Guarded => \/ call[c].inside /\ Missing(call[c])
                             \/ /\ Is("browser")
                                /\ \/ keyring[call[c].id] = Absent
                                   \/ text = keyring[call[c].id]
    PROVE  KeyInv'
<1> DEFINE k == call[c].id
           x == [call[c] EXCEPT !.pc = "written", !.put = text]
           f == Stale(c)
<1>1. /\ Typed /\ Ordered /\ call[c] \in Calls /\ call[c].pc \notin Ending
      /\ keyring \in [KeyID -> Text] /\ served \in [KeyID -> SUBSET (Nat \ {NoKey})]
  BY DEF KeyInv, Typed, Ending
<1>2. call[c].proc \in Proc /\ k \in KeyID /\ ~Is("hd") /\ ~Is("electron")
      /\ (Foreign(c) \/ call[c].op \in Provision)
  BY <1>1, Place DEF Lined, Alone, Reads, Records, Alters, Foreign, Is
<1>3. /\ keyring' = [keyring EXCEPT ![k] = text] /\ served' = Kept(c)
      /\ call' = [f EXCEPT ![c].pc = "written", ![c].put = text]
      /\ UNCHANGED <<world, store, entry, chain, holder, minted>>
  BY DEF Writes
<1>4. /\ f \in [Call -> Calls] /\ f[c] = call[c]
      /\ \A d \in Call \ {c} : Near(call[d], f[d])
      /\ \A d \in Call \ {c} : call[d].pc \notin Ending /\ call[d].id \in Rewritten(c) => ~f[d].fresh
  BY <1>1, StaleFields
<1>5. /\ x \in Calls /\ x.pc = "written" /\ x.op = call[c].op /\ x.proc = call[c].proc
      /\ x.id = k /\ x.inside = call[c].inside /\ x.put = text /\ x.fresh = call[c].fresh
  BY <1>1 DEF Calls, Progress
<1> HIDE DEF f
<1>6. call' = [f EXCEPT ![c] = x]
  BY <1>3, <1>4
<1> HIDE DEF x
<1>7. call' \in [Call -> Calls] /\ call'[c] = x /\ \A d \in Call \ {c} : call'[d] = f[d]
  BY <1>4, <1>5, <1>6
<1>8. Moved(c, x)
  <2>1. LinesKept(c) /\ chain' \in [Proc -> [KeyID -> Seq(Call)]] /\ holder' \in [Lock -> Nat]
    BY <1>1, <1>3, SameLines DEF Typed
  <2> QED BY <1>1, <1>3, <1>4, <1>5, <1>7, <2>1 DEF Moved, Others, Typed
<1>9. Placed(x)
  BY <1>1, <1>2, <1>5, Place
     DEF Placed, Lined, Alone, Reads, Records, Alters, Carries, Foreign, Provision, k
<1>10. InPlace(c, x)
  BY <1>1, <1>2, <1>3, <1>5, <1>8, <1>9, StayInPlace DEF k
<1>11. \A j \in KeyID : served'[j] = IF Foreign(c) /\ j = k THEN {} ELSE served[j]
  BY <1>2, <1>3 DEF Kept, Rewritten, k
<1>12. keyring' \in [KeyID -> Text] /\ served' \in [KeyID -> SUBSET (Nat \ {NoKey})]
  <2>1. served' = [j \in KeyID |-> served'[j]]
    BY <1>3 DEF Kept
  <2> QED BY <1>1, <1>2, <1>3, <1>11, <2>1
<1>13. ASSUME Guarded PROVE Coherent'
  <2>1. Coherent /\ ~Is("hd")'
    BY <1>2, <1>3, <1>13 DEF KeyInv, Is
  <2>2. Served'
    <3>1. \A j \in KeyID : served[j] \subseteq {keyring[j].key}
      BY <1>2, <2>1 DEF Coherent, Served
    <3>2. keyring[k] = Absent => served[k] = {}
      BY <1>1, <1>2, <3>1, TextTypes
    <3>3. served'[k] \subseteq {keyring'[k].key}
      <4>1. CASE Foreign(c)
        BY <1>2, <1>11, <4>1
      <4>2. CASE ~Foreign(c)
        <5>1. served[k] = {} \/ text = keyring[k]
          BY <1>13, <3>2, <4>2 DEF Missing, Overtaken, k
        <5> QED BY <1>1, <1>2, <1>3, <1>11, <3>1, <4>2, <5>1
      <4> QED BY <4>1, <4>2
    <3>4. \A j \in KeyID \ {k} : served'[j] \subseteq {keyring'[j].key}
      BY <1>1, <1>2, <1>3, <1>11, <3>1
    <3> QED BY <2>1, <3>3, <3>4 DEF Served
  <2>3. Derived'
    BY <2>1 DEF Derived
  <2>4. ASSUME NEW d \in Call
        PROVE  Informed(call[d])'
    <3>1. CASE d = c
      <4>1. x.put = keyring'[k]
        BY <1>1, <1>2, <1>3, <1>5
      <4> QED BY <1>5, <1>7, <3>1, <4>1 DEF Informed
    <3>2. CASE d # c /\ call[d].pc \in Ending
      <4>1. ~call[d].inside
        BY <3>2, InsideAlone DEF KeyInv, Ordered, InOrder
      <4>2. call'[d].pc \in Ending /\ ~call'[d].inside
        BY <1>4, <1>7, <3>2, <4>1 DEF Near
      <4> QED BY <4>2 DEF Informed, Ending
    <3>3. CASE d # c /\ call[d].pc \notin Ending
      <4>1. /\ Near(call[d], call'[d]) /\ Informed(call[d]) /\ call[d].id \in KeyID
            /\ Carries(call[d])
        BY <1>1, <1>4, <1>7, <2>1, <3>3, Place DEF Coherent
      <4>2. call[d].inside => call[d].pc # "copied"
        BY <1>2, InsideAlone DEF KeyInv, Ordered, InOrder, Alone
      <4>3. CASE call[d].id # k
        <5>1. keyring'[call[d].id] = keyring[call[d].id] /\ served'[call[d].id] = served[call[d].id]
          BY <1>1, <1>2, <1>3, <1>11, <4>1, <4>3
        <5> QED BY <4>1, <4>2, <5>1 DEF Informed, Missing, Overtaken, Near
      <4>4. CASE call[d].id = k /\ Foreign(c)
        <5>1. ~call'[d].fresh
          <6>1. call[d].id \in Rewritten(c)
            BY <1>2, <4>4 DEF Rewritten, k
          <6> QED BY <1>4, <1>7, <3>3, <6>1
        <5>2. served'[k] = {}
          BY <1>2, <1>11, <4>4
        <5> QED BY <4>1, <4>2, <4>4, <5>1, <5>2 DEF Informed, Missing, Overtaken, Near
      <4>5. CASE call[d].id = k /\ ~Foreign(c)
        <5>1. call[c].inside \/ Is("browser")
          BY <1>13, <4>5
        <5>2. ~call[d].inside
          BY <1>13, <3>3, <4>5, <5>1, OthersApart DEF k
        <5>3. SUFFICES ASSUME call[d].op \in Provision, call[d].pc = "written"
                       PROVE  call'[d].put = keyring'[k] \/ ~call'[d].fresh
          BY <4>1, <4>5, <5>2 DEF Informed, Near
        <5>4. Is("browser")
          BY <1>1, <3>3, <5>2, <5>3, Provides
        <5>5. ~call[c].inside
          BY <5>4, InsideAlone DEF KeyInv, Ordered, InOrder, Alone
        <5>6. keyring[k] = Absent \/ text = keyring[k]
          BY <1>13, <4>5, <5>5 DEF k
        <5>7. call[d].put = keyring[k] \/ ~call[d].fresh
          BY <4>1, <4>5, <5>3 DEF Informed
        <5>8. call[d].put # Absent
          BY <4>1, <5>3 DEF Carries
        <5>9. keyring'[k] = text
          BY <1>1, <1>2, <1>3
        <5> QED BY <4>1, <5>6, <5>7, <5>8, <5>9 DEF Near
      <4> QED BY <4>3, <4>4, <4>5
    <3> QED BY <3>1, <3>2, <3>3
  <2> QED BY <2>2, <2>3, <2>4 DEF Coherent
<1> QED BY <1>8, <1>10, <1>12, <1>13, StepInv

LEMMA WriteStep ==
    ASSUME KeyInv, NEW c \in Call, Write(c) \/ Transact(c)
    PROVE  KeyInv'
<1>1. call[c].pc = "writing"
  BY DEF Write, Transact
<1>2. /\ Typed /\ Ordered /\ call[c] \in Calls /\ call[c].pc \notin Ending
      /\ keyring \in [KeyID -> Text]
  BY <1>1 DEF KeyInv, Typed, Ending
<1>3. /\ call[c].id \in KeyID /\ call[c].put \in Text /\ Carries(call[c])
      /\ (Foreign(c) \/ call[c].op \in Provision)
  BY <1>1, <1>2, Place DEF Lined, Alone, Reads, Records, Alters, Foreign, Calls
<1>4. ~Foreign(c) => call[c].put # Absent
  BY <1>1, <1>3 DEF Carries
<1>5. CASE Write(c)
  <2>1. Writes(c, call[c].put) /\ (Is("browser") => Foreign(c))
    BY <1>5 DEF Write
  <2>2. ASSUME ~Foreign(c) PROVE call[c].inside
    BY <1>1, <1>2, <2>1, <2>2, Place DEF Lined, Alone, Reads, Records, Alters, Foreign
  <2>3. ASSUME ~Foreign(c), Guarded PROVE Missing(call[c])
    BY <1>1, <2>2, <2>3 DEF KeyInv, Coherent, Informed
  <2> QED BY <1>1, <1>3, <1>4, <2>1, <2>2, <2>3, WritesStep
<1>6. CASE Transact(c)
  <2> DEFINE k == call[c].id
             text == IF wins(keyring[k]) THEN keyring[k] ELSE call[c].put
  <2>1. Writes(c, text) /\ Is("browser") /\ ~Foreign(c)
    BY <1>6 DEF Transact
  <2>2. text \in Text /\ text # Absent /\ (keyring[k] = Absent \/ text = keyring[k])
    BY <1>2, <1>3, <1>4, <2>1 DEF wins
  <2> HIDE DEF text
  <2> QED BY <1>1, <2>1, <2>2, WritesStep
<1> QED BY <1>5, <1>6

(* Electron writes the map back, with the key changed.                     *)
LEMMA PutStep ==
    ASSUME KeyInv, NEW c \in Call, Put(c)
    PROVE  KeyInv'
<1> DEFINE p == call[c].proc
           k == call[c].id
           key == call[c].put.key
           got == call[c].got
           x == Ended(c, "done", IF Foreign(c) THEN NoKey ELSE key)
           f == Stale(c)
<1>1. /\ call[c].pc = "copied" /\ keyring' = [got EXCEPT ![k] = call[c].put]
      /\ entry' = Cached(p, k, key) /\ UNCHANGED <<world, store, minted>>
      /\ IF Foreign(c)
         THEN call' = [f EXCEPT ![c] = x] /\ served' = Kept(c) /\ UNCHANGED <<chain, holder>>
         ELSE /\ call' = [call EXCEPT ![c] = x] /\ Leave(c, "done")
              /\ served' = IF call[c].fresh THEN [served EXCEPT ![k] = @ \cup {key}] ELSE served
  BY DEF Put, Provide
<1>2. /\ Typed /\ Ordered /\ call[c] \in Calls /\ call[c].pc \notin Ending /\ "done" \in Ending
      /\ keyring \in [KeyID -> Text] /\ served \in [KeyID -> SUBSET (Nat \ {NoKey})]
  BY <1>1 DEF KeyInv, Typed, Ending
<1>3. /\ p \in Proc /\ k \in KeyID /\ Is("electron") /\ ~Is("hd") /\ Carries(call[c])
      /\ Foreign(c) \/ (call[c].op \in Provision /\ call[c].inside)
  BY <1>1, <1>2, Place DEF Lined, Alone, Reads, Records, Alters, Foreign, Is
<1>4. /\ got \in [KeyID -> Text] /\ call[c].put \in Text /\ key \in Nat
      /\ ~Foreign(c) => call[c].put # Absent /\ key # NoKey
  BY <1>1, <1>2, <1>3, TextTypes DEF Calls, Carries
<1>5. x \in Calls /\ x.pc \in Ending /\ ~x.inside
  <2>1. (IF Foreign(c) THEN NoKey ELSE key) \in Nat
    BY <1>4 DEF NoKey
  <2> QED BY <1>2, <2>1, EndedType
<1>6. /\ f \in [Call -> Calls]
      /\ \A d \in Call \ {c} : Near(call[d], f[d])
      /\ \A d \in Call \ {c} : call[d].pc \notin Ending /\ call[d].id \in Rewritten(c) => ~f[d].fresh
  BY <1>2, StaleFields
<1> HIDE DEF x, f, got, key
<1>7. Moved(c, x)
  <2>1. minted' \in Nat /\ entry' \in [Proc -> [KeyID -> Entry]]
    BY <1>1, <1>2, <1>3, <1>4, CachedType DEF Typed
  <2>2. CASE Foreign(c)
    <3>1. LinesKept(c) /\ chain' \in [Proc -> [KeyID -> Seq(Call)]] /\ holder' \in [Lock -> Nat]
      BY <1>1, <1>2, <2>2, SameLines DEF Typed
    <3>2. call' \in [Call -> Calls] /\ call'[c] = x /\ Others(c)
      BY <1>1, <1>5, <1>6, <2>2 DEF Others
    <3> QED BY <1>1, <1>5, <2>1, <3>1, <3>2 DEF Moved
  <2>3. CASE ~Foreign(c)
    <3>1. LinesKept(c) /\ chain' \in [Proc -> [KeyID -> Seq(Call)]] /\ holder' \in [Lock -> Nat]
      BY <1>1, <1>2, <1>3, <2>3, Leaving
    <3> QED BY <1>1, <1>2, <1>5, <2>1, <2>3, <3>1, Update
  <2> QED BY <2>2, <2>3
<1>8. InPlace(c, x) /\ Informed(x)
  BY <1>5, <1>7, EndInPlace
<1>9. keyring' \in [KeyID -> Text]
  BY <1>1, <1>3, <1>4
<1>10. Foreign(c) => served' = [j \in KeyID |-> {}]
  BY <1>1, <1>3 DEF Kept, Rewritten
<1>11. served' \in [KeyID -> SUBSET (Nat \ {NoKey})]
  <2>1. CASE Foreign(c)
    BY <1>10, <2>1
  <2>2. CASE ~Foreign(c)
    BY <1>1, <1>2, <1>3, <1>4, <2>2
  <2> QED BY <2>1, <2>2
<1>12. ASSUME Guarded PROVE Coherent'
  <2>1. Coherent /\ ~Is("hd")'
    BY <1>1, <1>3, <1>12 DEF KeyInv, Is
  <2>2. Derived'
    BY <2>1 DEF Derived
  <2>3. Informed(call[c])'
    <3>1. call'[c].pc \in Ending /\ ~call'[c].inside
      BY <1>5, <1>7 DEF Moved
    <3> QED BY <3>1 DEF Informed, Ending
  <2>4. CASE Foreign(c)
    <3>1. Served'
      BY <1>10, <2>1, <2>4 DEF Served
    <3>2. ASSUME NEW d \in Call, d # c
          PROVE  Informed(call[d])'
      <4>1. CASE call[d].pc \in Ending
        <5>1. ~call[d].inside
          BY <1>2, <4>1, InsideAlone DEF Ordered, InOrder
        <5>2. call'[d].pc \in Ending /\ ~call'[d].inside
          BY <1>7, <3>2, <4>1, <5>1 DEF Moved, Others, Near
        <5> QED BY <5>2 DEF Informed, Ending
      <4>2. CASE call[d].pc \notin Ending
        <5>1. call[d].id \in KeyID
          BY <1>2, <4>2, Place
        <5>2. ~f[d].fresh
          BY <1>3, <1>6, <2>4, <3>2, <4>2, <5>1 DEF Rewritten
        <5>3. ~call'[d].fresh /\ call'[d].id \in KeyID
          BY <1>1, <1>6, <1>7, <2>4, <3>2, <5>1, <5>2 DEF Moved, Others, Near
        <5> QED BY <1>10, <2>4, <5>3 DEF Informed, Missing, Overtaken
      <4> QED BY <4>1, <4>2
    <3> QED BY <2>2, <2>3, <3>1, <3>2 DEF Coherent
  <2>5. CASE ~Foreign(c)
    <3>1. Informed(call[c]) /\ call[c].inside
      BY <1>3, <2>1, <2>5 DEF Coherent
    <3>2. \A j \in KeyID : served[j] \subseteq {keyring[j].key}
      BY <1>3, <2>1 DEF Coherent, Served
    <3>3. served[k] = {}
      <4>1. keyring[k] = Absent \/ served[k] = {}
        BY <1>1, <3>1 DEF Informed, Missing, Overtaken
      <4> QED BY <1>2, <1>3, <3>2, <4>1, TextTypes
    <3>4. \A j \in KeyID : got[j] = keyring[j] \/ served[j] = {}
      BY <1>1, <3>1 DEF Informed, Overtaken, got
    <3>5. Served'
      <4>1. served'[k] \subseteq {key} /\ keyring'[k].key = key
        BY <1>1, <1>2, <1>3, <1>4, <2>5, <3>3 DEF key
      <4>2. ASSUME NEW j \in KeyID, j # k
            PROVE  served'[j] \subseteq {keyring'[j].key}
        <5>1. served'[j] = served[j] /\ keyring'[j] = got[j]
          BY <1>1, <1>2, <1>3, <1>4, <2>5, <4>2
        <5> QED BY <3>2, <3>4, <5>1
      <4> QED BY <2>1, <4>1, <4>2 DEF Served
    <3>6. ASSUME NEW d \in Call, d # c
          PROVE  Informed(call[d])'
      <4>1. ~call[d].inside
        BY <1>3, <1>12, <3>1, <3>6, Exclusive
      <4>2. call[d].op \in Provision => call[d].pc # "written"
        BY <1>2, <1>3, <4>1, Provides DEF Is
      <4>3. Near(call[d], call'[d])
        BY <1>7, <3>6 DEF Moved, Others
      <4> QED BY <4>1, <4>2, <4>3 DEF Informed, Near
    <3> QED BY <2>2, <2>3, <3>5, <3>6 DEF Coherent
  <2> QED BY <2>4, <2>5
<1> QED BY <1>7, <1>8, <1>9, <1>11, <1>12, StepInv

LEMMA StepKeeps ==
    ASSUME KeyInv, NEW c \in Call, Step(c) \/ StorageFails(c)
    PROVE  KeyInv'
<1>1. CASE Enter(c) \/ Acquire(c)
  BY <1>1, EnterStep
<1>2. CASE Await(c)
  BY <1>2, AwaitStep
<1>3. CASE \/ Timeout(c) \/ GetGoesOn(c) \/ ListGoesOn(c) \/ WriteGoesOn(c)
           \/ RefuseLegacy(c) \/ StorageFails(c)
  BY <1>3, EndsStep
<1>4. CASE Read(c)
  BY <1>4, ReadStep
<1>5. CASE IdentityGoesOn(c)
  BY <1>5, IdentityStep
<1>6. CASE Found(c)
  BY <1>6, FoundStep
<1>7. CASE GenerateNode(c) \/ Generate(c)
  BY <1>7, GenerateStep
<1>8. CASE AwaitRandom(c)
  BY <1>8, AwaitRandomStep
<1>9. CASE Body(c)
  BY <1>9, BodyStep
<1>10. CASE Copy(c)
  BY <1>10, CopyStep
<1>11. CASE Put(c)
  BY <1>11, PutStep
<1>12. CASE Write(c) \/ Transact(c)
  BY <1>12, WriteStep
<1>13. CASE Provided(c)
  BY <1>13, ProvidedStep
<1> QED BY <1>1, <1>2, <1>3, <1>4, <1>5, <1>6, <1>7, <1>8, <1>9, <1>10, <1>11, <1>12, <1>13
        DEF Step

-----------------------------------------------------------------------------
(* The stores.                                                             *)

LEMMA InitKeyInv == Init => KeyInv
<1> SUFFICES ASSUME Init PROVE KeyInv
  OBVIOUS
<1> DEFINE i == Idle
           u == Unopened
           e == NoEntry
<1>1. /\ world \in World /\ keyring = world.stored /\ store = [p \in Proc |-> u]
      /\ entry = [p \in Proc |-> [k \in KeyID |-> e]]
      /\ chain = [p \in Proc |-> [k \in KeyID |-> <<>>]]
      /\ holder = [l \in Lock |-> NoCall] /\ call = [c \in Call |-> i]
      /\ minted = 0 /\ served = [k \in KeyID |-> {}]
  BY DEF Init
<1>2. i \in Calls /\ i.pc = "idle" /\ ~i.inside
  BY IdleType DEF Idle
<1>3. u \in Store /\ e \in Entry /\ e.key = NoKey
  <2>1. u \in Store
    BY DEF Unopened, Store
  <2>2. e \in Entry /\ e.key = NoKey
    BY TextTypes DEF NoEntry, Entry, NoKey
  <2> QED BY <2>1, <2>2
<1>4. world.stored \in [KeyID -> Text] /\ NoCall \in Nat
  BY <1>1, StoresAssumption DEF NoCall
<1> HIDE DEF i, u, e
<1>5. Typed
  BY <1>1, <1>2, <1>3, <1>4 DEF Typed
<1>6. ASSUME NEW c \in Call PROVE InOrder(c)
  BY <1>1, <1>2 DEF InOrder, Placed, Opened, HasTurn, BusyAlone, BusyPc, Ending
<1>7. Coherent
  <2>1. Served
    BY <1>1 DEF Served
  <2>2. Derived
    BY <1>1, <1>3 DEF Derived
  <2>3. \A c \in Call : Informed(call[c])
    BY <1>1, <1>2 DEF Informed
  <2> QED BY <2>1, <2>2, <2>3 DEF Coherent
<1> QED BY <1>5, <1>6, <1>7 DEF KeyInv, Ordered

(* A store is opened where none was: nothing is under way there.           *)
LEMMA StoreStep ==
    ASSUME KeyInv, NEW p \in Proc, NEW s \in Store, store[p] = Unopened,
           store' = [store EXCEPT ![p] = s],
           UNCHANGED <<world, keyring, entry, chain, holder, call, minted, served>>
    PROVE  KeyInv'
<1>1. Typed /\ Ordered /\ store \in [Proc -> Store]
  BY DEF KeyInv, Typed
<1>2. Typed'
  BY <1>1 DEF Typed
<1>3. ASSUME NEW c \in Call PROVE InOrder(c)'
  <2>1. InOrder(c)
    BY <1>1 DEF Ordered
  <2>2. Placed(call[c])' /\ BusyAlone(c)'
    BY <2>1 DEF InOrder, Placed, Lined, Alone, Reads, Records, Alters, Carries, Is, BusyAlone
  <2>3. CASE call[c].pc \in Ending
    <3>1. ~call[c].inside
      BY <2>1, <2>3, InsideAlone DEF InOrder
    <3> QED BY <2>2, <2>3, <3>1 DEF InOrder, Opened, HasTurn, Ending
  <2>4. CASE call[c].pc \notin Ending
    <3>1. call[c].proc \in Proc /\ call[c].proc # p
      BY <1>1, <2>4, Place
    <3>2. store'[call[c].proc] = store[call[c].proc]
      BY <1>1, <3>1
    <3> QED BY <2>1, <2>2, <3>2 DEF InOrder, Opened, HasTurn, LockPath, Is, OneLock
  <2> QED BY <2>3, <2>4
<1>4. (Guarded => Coherent)'
  BY WorldKept DEF KeyInv, Coherent, Served, Derived, Informed, Missing, Overtaken, Is
<1> QED BY <1>2, <1>3, <1>4 DEF KeyInv, Ordered

(* The calls of a process that ends are given up, with all they hold.      *)
LEMMA CrashStep ==
    ASSUME KeyInv, NEW p \in Proc, Crash(p)
    PROVE  KeyInv'
<1> DEFINE u == Unopened
           e == NoEntry
<1>1. /\ Typed /\ Ordered /\ store \in [Proc -> Store] /\ call \in [Call -> Calls]
      /\ entry \in [Proc -> [KeyID -> Entry]] /\ chain \in [Proc -> [KeyID -> Seq(Call)]]
      /\ holder \in [Lock -> Nat]
  BY DEF KeyInv, Typed
<1>2. /\ store' = [store EXCEPT ![p] = u]
      /\ entry' = [entry EXCEPT ![p] = [k \in KeyID |-> e]]
      /\ chain' = [chain EXCEPT ![p] = [k \in KeyID |-> <<>>]]
      /\ holder' = [l \in Lock |-> IF \E c \in Call : holder[l] = c /\ call[c].proc = p
                                   THEN NoCall ELSE holder[l]]
      /\ call' = [c \in Call |-> IF Active(c) /\ call[c].proc = p
                                 THEN Ended(c, "failed", NoKey) ELSE call[c]]
      /\ UNCHANGED <<world, keyring, minted, served>>
  BY DEF Crash
<1>3. u \in Store /\ e \in Entry /\ e.key = NoKey
  <2>1. u \in Store
    BY DEF Unopened, Store
  <2>2. e \in Entry /\ e.key = NoKey
    BY TextTypes DEF NoEntry, Entry, NoKey
  <2> QED BY <2>1, <2>2
<1> HIDE DEF u, e
<1>4. ASSUME NEW c \in Call
      PROVE  /\ call'[c] \in Calls
             /\ \/ call'[c].pc \in Ending /\ ~call'[c].inside
                \/ call'[c] = call[c] /\ call[c].pc \notin Ending /\ call[c].proc # p
  <2> DEFINE x == Ended(c, "failed", NoKey)
  <2>1. x \in Calls /\ x.pc \in Ending /\ ~x.inside
    BY <1>1, EndedType DEF Ending, NoKey
  <2>2. call[c].pc \in Ending => ~call[c].inside
    BY <1>1, InsideAlone DEF Ordered, InOrder
  <2>3. Active(c) <=> call[c].pc \notin Ending
    BY DEF Active, Ending
  <2>4. call'[c] = IF Active(c) /\ call[c].proc = p THEN x ELSE call[c]
    BY <1>2
  <2> HIDE DEF x
  <2> QED BY <1>1, <2>1, <2>2, <2>3, <2>4
<1>5. Typed'
  <2>1. call' \in [Call -> Calls]
    <3>1. call' = [c \in Call |-> call'[c]]
      BY <1>2
    <3> QED BY <1>4, <3>1
  <2>2. chain' \in [Proc -> [KeyID -> Seq(Call)]]
    BY <1>1, <1>2
  <2>3. holder' \in [Lock -> Nat]
    BY <1>1, <1>2 DEF NoCall
  <2>4. entry' \in [Proc -> [KeyID -> Entry]] /\ store' \in [Proc -> Store]
    BY <1>1, <1>2, <1>3
  <2> QED BY <1>1, <1>2, <2>1, <2>2, <2>3, <2>4 DEF Typed
<1>6. ASSUME NEW c \in Call PROVE InOrder(c)'
  <2>1. CASE call'[c].pc \in Ending /\ ~call'[c].inside
    BY <2>1 DEF InOrder, Placed, Opened, HasTurn, BusyAlone, BusyPc, Ending
  <2>2. CASE call'[c] = call[c] /\ call[c].pc \notin Ending /\ call[c].proc # p
    <3>1. InOrder(c) /\ call[c].proc \in Proc /\ call[c].id \in KeyID
      BY <1>1, <2>2, Place DEF Ordered
    <3>2. Placed(call[c])'
      BY <1>2, <2>2, <3>1 DEF InOrder, Placed, Lined, Alone, Reads, Records, Alters, Carries, Is
    <3>3. /\ store'[call[c].proc] = store[call[c].proc]
          /\ chain'[call[c].proc][call[c].id] = chain[call[c].proc][call[c].id]
      BY <1>1, <1>2, <2>2, <3>1
    <3>4. Opened(call[c])'
      BY <1>2, <2>2, <3>1, <3>3 DEF InOrder, Opened, Is, OneLock
    <3>5. HasTurn(c)'
      <4>1. LockPath(c)' = LockPath(c) /\ LockPath(c) \in Lock \cup {NoLock}
        BY <1>1, <2>2, <3>1, <3>3 DEF LockPath, Store
      <4>2. ASSUME call[c].inside, LockPath(c) # NoLock
            PROVE  holder'[LockPath(c)] = c
        <5>1. holder[LockPath(c)] = c
          BY <3>1, <4>2 DEF InOrder, HasTurn
        <5> QED BY <1>2, <2>2, <4>1, <4>2, <5>1
      <4> QED BY <2>2, <3>1, <3>3, <4>1, <4>2 DEF InOrder, HasTurn
    <3>6. BusyAlone(c)'
      <4> SUFFICES ASSUME Is("electron"), call[c].pc \in BusyPc, NEW d \in Call,
                          call'[d].pc \in BusyPc, call'[d].proc = call[c].proc
                   PROVE  d = c
        BY <1>2, <2>2 DEF BusyAlone, Is
      <4>1. call'[d] = call[d]
        BY <1>4 DEF BusyPc, Ending
      <4> QED BY <3>1, <4>1 DEF InOrder, BusyAlone
    <3> QED BY <3>2, <3>4, <3>5, <3>6 DEF InOrder
  <2> QED BY <1>4, <2>1, <2>2
<1>7. ASSUME Guarded PROVE Coherent'
  <2>1. Coherent
    BY <1>7 DEF KeyInv
  <2>2. Served'
    BY <1>2, <2>1 DEF Coherent, Served, Is
  <2>3. Derived'
    BY <1>1, <1>2, <1>3, <2>1 DEF Coherent, Derived, Is
  <2>4. ASSUME NEW c \in Call PROVE Informed(call[c])'
    <3>1. CASE call'[c].pc \in Ending /\ ~call'[c].inside
      BY <3>1 DEF Informed, Ending
    <3>2. CASE call'[c] = call[c]
      BY <1>2, <2>1, <3>2 DEF Coherent, Informed, Missing, Overtaken
    <3> QED BY <1>4, <3>1, <3>2
  <2> QED BY <2>2, <2>3, <2>4 DEF Coherent
<1>8. Guarded' <=> Guarded
  BY <1>2, WorldKept
<1> QED BY <1>5, <1>6, <1>7, <1>8 DEF KeyInv, Ordered

LEMMA NextKeyInv == KeyInv /\ [Next]_vars => KeyInv'
<1> SUFFICES ASSUME KeyInv, [Next]_vars PROVE KeyInv'
  OBVIOUS
<1>1. world \in World /\ world.procs \subseteq Proc /\ world.opens \subseteq Ask
  BY StoresAssumption DEF KeyInv, Typed
<1>2. ASSUME NEW p \in world.procs, NEW ask \in world.opens, Open(p, ask)
      PROVE  KeyInv'
  <2> DEFINE s == [state |-> "open", lock |-> ask.lock, crypto |-> ask.crypto,
                   insecure |-> IF ask.insecure = "yes" THEN "yes" ELSE "no"]
  <2>1. s \in Store
    BY <1>1 DEF Ask, Store
  <2>2. /\ store[p] = Unopened /\ store' = [store EXCEPT ![p] = s]
        /\ UNCHANGED <<world, keyring, entry, chain, holder, call, minted, served>>
    BY <1>2 DEF Open
  <2> HIDE DEF s
  <2> QED BY <1>1, <2>1, <2>2, StoreStep
<1>3. ASSUME NEW p \in world.procs, OpenFails(p)
      PROVE  KeyInv'
  <2>1. Broken \in Store
    BY DEF Broken, Unopened, Store
  <2>2. /\ store[p] = Unopened /\ store' = [store EXCEPT ![p] = Broken]
        /\ UNCHANGED <<world, keyring, entry, chain, holder, call, minted, served>>
    BY <1>3 DEF OpenFails
  <2> QED BY <1>1, <2>1, <2>2, StoreStep
<1>4. ASSUME NEW p \in world.procs, Crash(p)
      PROVE  KeyInv'
  BY <1>1, <1>4, CrashStep
<1>5. ASSUME NEW c \in Call, NEW p \in world.procs, NEW op \in Op, NEW k \in world.ids,
             NEW ask \in world.asks, Begin(c, p, op, k, ask)
      PROVE  KeyInv'
  BY <1>5, BeginInv
<1>6. ASSUME NEW c \in Call, Step(c) \/ StorageFails(c)
      PROVE  KeyInv'
  BY <1>6, StepKeeps
<1>7. CASE UNCHANGED vars
  <2>1. UNCHANGED <<world, keyring, store, entry, chain, holder, call, minted, served>>
    BY <1>7 DEF vars
  <2>2. Typed'
    BY <2>1 DEF KeyInv, Typed
  <2>3. Ordered'
    BY <2>1 DEF KeyInv, Ordered, InOrder, Placed, Lined, Alone, Reads, Records, Alters, Carries,
                Opened, HasTurn, LockPath, BusyAlone, Is, OneLock
  <2>4. (Guarded => Coherent)'
    BY <2>1, WorldKept DEF KeyInv, Coherent, Served, Derived, Informed, Missing, Overtaken, Is
  <2> QED BY <2>2, <2>3, <2>4 DEF KeyInv
<1> QED BY <1>2, <1>3, <1>4, <1>5, <1>6, <1>7 DEF Next

-----------------------------------------------------------------------------
(* keystore.ts, "Never two keys; never a key that is generated, returned   *)
(* to a caller, and then overwritten by a racer": of one process, in a     *)
(* browser, and of processes that share a lock path, provideAsync answers  *)
(* with one key, the one that is stored, whatever fails or crashes.        *)
THEOREM OneKeyServed == Spec => []OneKey
<1>1. KeyInv => OneKey
  <2> SUFFICES ASSUME KeyInv, Guarded, NEW k \in KeyID
               PROVE  /\ Cardinality(served[k]) <= 1
                      /\ ~Is("hd") => served[k] \subseteq {keyring[k].key}
    BY DEF OneKey
  <2>1. Served
    BY DEF KeyInv, Coherent
  <2>2. PICK key : served[k] \subseteq {key} /\ (~Is("hd") => key = keyring[k].key)
    BY <2>1 DEF Served
  <2>3. IsFiniteSet({key}) /\ Cardinality({key}) = 1
    BY FS_Singleton
  <2>4. IsFiniteSet(served[k]) /\ Cardinality(served[k]) <= 1
    BY <2>2, <2>3, FS_Subset
  <2> QED BY <2>2, <2>4
<1> QED BY <1>1, InitKeyInv, NextKeyInv, PTL DEF Spec

-----------------------------------------------------------------------------
(* A stored key is kept.                                                   *)

(* A call that begins stores a key only where there was none.              *)
LEMMA BeginKeeps ==
    ASSUME KeyInv, NEW c \in Call, NEW p \in world.procs, NEW op \in Op, NEW k \in world.ids,
           NEW ask \in world.asks, Begin(c, p, op, k, ask), NEW j \in KeyID, keyring[j] # Absent
    PROVE  keyring'[j] = keyring[j]
<1>1. k \in KeyID /\ keyring \in [KeyID -> Text]
  BY Asked DEF Typed
<1>2. CASE ProvideSyncNode(c, p, op, k, ask)
  <2>1. keyring' = keyring \/ (keyring[k].key = NoKey /\ SyncGenerates(c, p, k))
    BY <1>2 DEF ProvideSyncNode, SyncFound, SyncRefused
  <2>2. keyring[k].key = NoKey => keyring[k] = Absent
    BY <1>1, TextTypes
  <2> QED BY <1>1, <2>1, <2>2 DEF SyncGenerates
<1>3. CASE ProvideSyncElectron(c, p, op, k, ask)
  <2>1. keyring' = keyring \/ (keyring[k] = Absent /\ SyncGenerates(c, p, k))
    BY <1>3 DEF ProvideSyncElectron, SyncFound, SyncRefused
  <2> QED BY <1>1, <2>1 DEF SyncGenerates
<1>4. CASE ProvideSyncExpo(c, p, op, k, ask)
  <2>1. keyring' = keyring \/ (keyring[k] = Absent /\ SyncGenerates(c, p, k))
    BY <1>4 DEF ProvideSyncExpo, SyncFound
  <2> QED BY <1>1, <2>1 DEF SyncGenerates
<1>5. CASE ~(\/ ProvideSyncNode(c, p, op, k, ask) \/ ProvideSyncElectron(c, p, op, k, ask)
             \/ ProvideSyncExpo(c, p, op, k, ask))
  <2>1. UNCHANGED keyring
    BY <1>5 DEF Begin, Refused, BeginGetNode, BeginGetElectron, BeginGetBrowser, BeginGetExpo,
                BeginList, Derive, BeginSet, BeginSetElectron, BeginRemove, BeginRemoveElectron,
                BeginProvide, BeginProvideBrowser
  <2> QED BY <2>1
<1> QED BY <1>2, <1>3, <1>4, <1>5

(* The writer of a key that was there is a set or a remove, or was         *)
(* overtaken by one.                                                       *)
Overwrites(c) ==
    /\ call[c].pc \in {"writing", "copied"} /\ call'[c].pc # call[c].pc
    /\ Foreign(c) \/ ~call[c].fresh

LEMMA StepOverwrites ==
    ASSUME KeyInv, Guarded, NEW c \in Call, Step(c) \/ StorageFails(c),
           NEW j \in KeyID, keyring[j] # Absent, keyring'[j] # keyring[j]
    PROVE  Overwrites(c)
<1>1. Typed /\ Ordered /\ keyring \in [KeyID -> Text] /\ call \in [Call -> Calls]
      /\ Informed(call[c]) /\ "done" \in Ending /\ NoKey \in Nat
  BY DEF KeyInv, Typed, Coherent, Ending, NoKey
<1>2. Write(c) \/ Transact(c) \/ Put(c)
  BY DEF Step, StorageFails, Enter, Await, Acquire, Enters, Timeout, Read, GetGoesOn,
         IdentityGoesOn, ListGoesOn, Found, GenerateNode, AwaitRandom, Generate, Generates,
         Body, Copy, WriteGoesOn, Provided, RefuseLegacy
<1>3. ASSUME NEW text, Writes(c, text), call[c].pc = "writing"
      PROVE  call'[c].pc = "written" /\ j = call[c].id
  <2>1. j = call[c].id
    BY <1>1, <1>3 DEF Writes
  <2>2. Stale(c) \in [Call -> Calls] /\ call' = [Stale(c) EXCEPT ![c].pc = "written", ![c].put = text]
    BY <1>1, <1>3, StaleFields DEF Writes
  <2>3. \A r \in Calls : [r EXCEPT !.pc = "written", !.put = text].pc = "written"
    BY DEF Calls
  <2> QED BY <2>1, <2>2, <2>3
<1>4. CASE Write(c)
  <2>1. Writes(c, call[c].put) /\ call[c].pc = "writing" /\ (Is("browser") => Foreign(c))
    BY <1>4 DEF Write
  <2>2. SUFFICES ASSUME ~Foreign(c), call[c].fresh
                 PROVE  FALSE
    BY <1>3, <2>1 DEF Overwrites
  <2>3. call[c].inside
    BY <1>1, <2>1, <2>2, Place DEF Lined, Alone, Reads, Records, Alters, Foreign, Ending
  <2>4. keyring[call[c].id] = Absent
    BY <1>1, <2>1, <2>2, <2>3 DEF Informed, Missing, Overtaken
  <2> QED BY <1>3, <2>1, <2>4
<1>5. CASE Transact(c)
  <2>1. /\ call[c].pc = "writing"
        /\ Writes(c, IF wins(keyring[call[c].id]) THEN keyring[call[c].id] ELSE call[c].put)
    BY <1>5 DEF Transact
  <2>2. j = call[c].id
    BY <1>3, <2>1
  <2>3. keyring'[j] = keyring[j]
    BY <1>1, <2>1, <2>2 DEF Writes, wins
  <2> QED BY <2>3
<1>6. CASE Put(c)
  <2> DEFINE x == Ended(c, "done", IF Foreign(c) THEN NoKey ELSE call[c].put.key)
  <2>1. /\ call[c].pc = "copied" /\ keyring' = [call[c].got EXCEPT ![call[c].id] = call[c].put]
        /\ call' = [Stale(c) EXCEPT ![c] = x] \/ call' = [call EXCEPT ![c] = x]
    BY <1>6 DEF Put, Provide
  <2>2. x.pc = "done"
    <3>1. call[c].put.key \in Nat
      BY <1>1, TextTypes DEF Calls
    <3> QED BY <1>1, <3>1, EndedType
  <2> HIDE DEF x
  <2>3. call'[c].pc = "done"
    BY <1>1, <2>1, <2>2, StaleFields
  <2>4. SUFFICES ASSUME ~Foreign(c), call[c].fresh
                 PROVE  FALSE
    BY <2>1, <2>3 DEF Overwrites
  <2>5. call[c].inside
    BY <1>1, <2>1, <2>4, Place DEF Lined, Alone, Reads, Records, Alters, Foreign, Ending
  <2>6. /\ keyring[call[c].id] = Absent /\ call[c].got[j] = keyring[j]
    BY <1>1, <2>1, <2>4, <2>5 DEF Informed, Missing, Overtaken
  <2>7. call[c].got \in [KeyID -> Text]
    BY <1>1 DEF Calls
  <2> QED BY <2>1, <2>6, <2>7
<1> QED BY <1>2, <1>4, <1>5, <1>6

(* keystore.ts, "NEVER silently re-keyed": a key that is there, a legacy   *)
(* record included, is replaced by no key provideAsync or provide          *)
(* generated, unless a set or a remove worked on the key ID meanwhile.     *)
THEOREM StoredKeyIsKept == Spec => ProvideKeeps
<1> DEFINE Keeps == Guarded => \A k \in KeyID : keyring[k] # Absent /\ keyring'[k] # keyring[k] =>
                        \E c \in Call : Overwrites(c)
<1>1. KeyInv /\ Next => Keeps
  <2> SUFFICES ASSUME KeyInv, Next, Guarded, NEW k \in KeyID, keyring[k] # Absent,
                      keyring'[k] # keyring[k]
               PROVE  \E c \in Call : Overwrites(c)
    OBVIOUS
  <2>1. CASE \E p \in world.procs : OpenFails(p) \/ Crash(p) \/ \E ask \in world.opens : Open(p, ask)
    <3>1. UNCHANGED keyring
      BY <2>1 DEF OpenFails, Crash, Open
    <3> QED BY <3>1
  <2>2. CASE \E c \in Call, p \in world.procs, op \in Op, j \in world.ids, ask \in world.asks :
                 Begin(c, p, op, j, ask)
    BY <2>2, BeginKeeps
  <2>3. CASE \E c \in Call : Step(c) \/ StorageFails(c)
    BY <2>3, StepOverwrites
  <2> QED BY <2>1, <2>2, <2>3 DEF Next
<1>2. KeyInv /\ [Next]_vars => [Keeps]_vars
  BY <1>1
<1>3. [][Keeps]_vars => ProvideKeeps
  <2>1. ProvideKeeps <=> [][Keeps]_vars
    BY DEF ProvideKeeps, Overwrites
  <2> QED BY <2>1
<1> QED BY <1>2, <1>3, InitKeyInv, NextKeyInv, PTL DEF Spec

-----------------------------------------------------------------------------
(* Reads.                                                                  *)

(* The worlds QuietReads is about, and the runs: no two calls of one key   *)
(* ID overlapped, and none listed.                                         *)
Coupled == ~Is("hd") /\ (Is("browser") \/ OneProcess)

Hushed == \A c \in Call : call[c].quiet /\ call[c].op # "list"

Unbegun == \A c \in Call : call[c].pc = "idle" => call[c].quiet /\ call[c].op # "list"

Lone == \A c, d \in Call :
            call[c].pc \notin Ending /\ call[d].pc \notin Ending /\ call[c].id = call[d].id => c = d

(* What the entry of a process knows is what is stored, until the set or   *)
(* the remove that just wrote goes on.                                     *)
Caches == Is("node") \/ Is("electron")

Altering(k) == \E c \in Call : call[c].pc = "written" /\ Foreign(c) /\ call[c].id = k

Recalls(e, k) ==
    /\ e.encoded = Absent
    /\ e.key # NoKey => Caches /\ (e.key = keyring[k].key \/ Altering(k))

(* What a call read, wrote or copied is what is stored.                    *)
Holds(x) ==
    /\ x.pc = "read" => x.got[x.id] = keyring[x.id]
    /\ x.pc = "written" => x.put = keyring[x.id]
    /\ x.pc = "copied" => x.got = keyring
    /\ x.inside => entry[x.proc][x.id].key = NoKey

Still ==
    /\ Lone
    /\ \A p \in world.procs, k \in KeyID : Recalls(entry[p][k], k)
    /\ \A c \in Call : Holds(call[c])

QuietInv == Unbegun /\ (Coupled /\ Hushed => Still)

(* The step of call c at key ID k of process p: text is what is stored     *)
(* then, and e what the entry knows.                                       *)
Puts(p, k, text, e) ==
    keyring' = [keyring EXCEPT ![k] = text] /\ entry' = [entry EXCEPT ![p][k] = e]

Turns(c, p, k, text, e) ==
    /\ Puts(p, k, text, e)
    /\ \A d \in Call \ {c} : /\ Near(call[d], call'[d])
                             /\ call[d].pc \notin Ending => call[d].id # k
    /\ call[c].pc \notin Ending => call[c].id = k
    /\ call'[c].pc \notin Ending => call'[c].id = k

LEMMA OfProcs ==
    ASSUME Typed
    PROVE  world.procs \subseteq Proc /\ world.ids \subseteq KeyID
BY StoresAssumption DEF Typed

(* Nothing else changes, so all stays still if it does there.              *)
LEMMA TurnsStill ==
    ASSUME KeyInv, Coupled, Still, world' = world, NEW c \in Call, NEW p \in world.procs,
           NEW k \in KeyID, NEW text, NEW e, Turns(c, p, k, text, e),
           keyring' = keyring \/ \A d \in Call \ {c} : call[d].pc # "copied",
           Recalls(e, k)', Holds(call[c])'
    PROVE  Still'
<1>1. /\ Typed /\ Ordered /\ p \in Proc /\ keyring \in [KeyID -> Text]
      /\ entry \in [Proc -> [KeyID -> Entry]] /\ world.procs \subseteq Proc
  BY OfProcs DEF KeyInv, Typed
<1>2. (Caches' <=> Caches) /\ (Foreign(c)' <=> call'[c].op \in {"set", "remove"})
  BY WorldKept DEF Caches, Foreign
<1>3. /\ keyring'[k] = text /\ \A j \in KeyID \ {k} : keyring'[j] = keyring[j]
      /\ entry'[p][k] = e
      /\ \A q \in Proc, j \in KeyID : <<q, j>> # <<p, k>> => entry'[q][j] = entry[q][j]
  BY <1>1 DEF Turns, Puts
<1>4. ASSUME NEW d \in Call \ {c}
      PROVE  Near(call[d], call'[d]) /\ (call[d].pc \notin Ending => call[d].id # k)
  BY DEF Turns
<1>5. Lone'
  <2> SUFFICES ASSUME NEW a \in Call, NEW b \in Call, call'[a].pc \notin Ending,
                      call'[b].pc \notin Ending, call'[a].id = call'[b].id, a # b
               PROVE  FALSE
    BY DEF Lone
  <2>1. ASSUME NEW d \in Call \ {c}, call'[d].pc \notin Ending
        PROVE  call[d].pc \notin Ending /\ call[d].id = call'[d].id /\ call[d].id # k
    BY <1>4, <2>1 DEF Near
  <2>2. call'[c].pc \notin Ending => call'[c].id = k
    BY DEF Turns
  <2> QED BY <2>1, <2>2 DEF Still, Lone
<1>6. ASSUME NEW j \in KeyID \ {k}, Altering(j)
      PROVE  Altering(j)'
  <2>1. PICK d \in Call : call[d].pc = "written" /\ Foreign(d) /\ call[d].id = j
    BY <1>6 DEF Altering
  <2>2. d # c
    BY <2>1 DEF Turns, Ending
  <2> QED BY <1>4, <2>1, <2>2 DEF Altering, Near, Foreign
<1>7. ASSUME NEW q \in world.procs, NEW j \in KeyID
      PROVE  Recalls(entry[q][j], j)'
  <2>1. Recalls(entry[q][j], j)
    BY DEF Still
  <2>2. CASE q = p /\ j = k
    BY <1>3, <2>2 DEF Recalls, Altering, Foreign
  <2>3. CASE j # k
    <3>1. entry'[q][j] = entry[q][j] /\ keyring'[j] = keyring[j]
      BY <1>1, <1>3, <2>3
    <3>2. Altering(j) => Altering(j)'
      BY <1>6, <2>3
    <3> QED BY <1>2, <2>1, <3>1, <3>2 DEF Recalls
  <2>4. CASE q # p /\ j = k
    <3>1. ~Caches
      BY <2>4 DEF Coupled, OneProcess, Caches, Is
    <3>2. entry'[q][j] = entry[q][j]
      BY <1>1, <1>3, <2>4
    <3> QED BY <1>2, <2>1, <3>1, <3>2 DEF Recalls
  <2> QED BY <2>2, <2>3, <2>4
<1>8. ASSUME NEW d \in Call \ {c}
      PROVE  Holds(call[d])'
  <2>1. Holds(call[d])
    BY DEF Still
  <2>2. CASE call[d].pc \in Ending
    <3>1. ~call[d].inside
      BY <1>1, <2>2, InsideAlone DEF Ordered, InOrder
    <3> QED BY <1>4, <2>2, <3>1 DEF Holds, Near, Ending
  <2>3. CASE call[d].pc \notin Ending
    <3>1. call[d].id \in KeyID \ {k} /\ call[d].proc \in Proc
      BY <1>1, <1>4, <2>3, Place
    <3>2. /\ keyring'[call[d].id] = keyring[call[d].id]
          /\ entry'[call[d].proc][call[d].id] = entry[call[d].proc][call[d].id]
      BY <1>3, <3>1
    <3> QED BY <1>4, <2>1, <3>2 DEF Holds, Near
  <2> QED BY <2>2, <2>3
<1> QED BY <1>5, <1>7, <1>8 DEF Still

(* The step of call c makes no other call quiet again.                     *)
Calm(c) ==
    /\ \A d \in Call \ {c} : /\ Near(call[d], call'[d])
                             /\ call'[d].quiet => call[d].quiet
                             /\ call[d].pc = "idle" => call'[d].quiet = call[d].quiet
    /\ call'[c].pc # "idle"
    /\ call[c].pc # "idle" => call'[c].op = call[c].op /\ call'[c].quiet = call[c].quiet

LEMMA CalmHushed ==
    ASSUME Unbegun, NEW c \in Call, Calm(c)
    PROVE  Unbegun' /\ (Hushed' => Hushed)
<1>1. Unbegun'
  BY DEF Unbegun, Calm, Near
<1>2. ASSUME Hushed', NEW d \in Call
      PROVE  call[d].quiet /\ call[d].op # "list"
  <2>1. call'[d].quiet /\ call'[d].op # "list"
    BY <1>2 DEF Hushed
  <2>2. CASE d # c
    BY <2>1, <2>2 DEF Calm, Near
  <2>3. CASE d = c
    BY <2>1, <2>3 DEF Calm, Unbegun
  <2> QED BY <2>2, <2>3
<1> QED BY <1>1, <1>2 DEF Hushed

(* A get that ends with this step returns what is stored.                  *)
Answers(c) ==
    call'[c].pc = "done" /\ call'[c].op = "get" => call'[c].ret = keyring'[call'[c].id].key

(* How a call begins: quiet only if no other call of its key ID is under   *)
(* way.                                                                    *)
Enrolled(c, p, op, k, with) ==
    /\ Calm(c) /\ call[c].pc = "idle"
    /\ Begun(call'[c], p, op, k, with) /\ call'[c].ret = with.ret
    /\ call'[c].quiet => \A d \in Call : call[d].pc \notin Ending => call[d].id # k

LEMMA Enrolling ==
    ASSUME KeyInv, NEW c \in Call, NEW p \in world.procs, NEW op \in Op, NEW k \in world.ids,
           NEW with \in Calls, ~with.inside, call[c].pc = "idle", with.pc # "idle",
           call' \in [Call -> Calls],
           \A d \in Call : LET f == Starting(c, p, op, k, with)
                           IN  call'[d] = f[d] \/ (d # c /\ call'[d] = [f[d] EXCEPT !.fresh = FALSE])
    PROVE  Enrolled(c, p, op, k, with)
<1> DEFINE f == Starting(c, p, op, k, with)
           q == \A e \in Call : ~(Active(e) /\ call[e].id = k)
           proc == IF with.pc \in {"done", "failed"} THEN with.proc ELSE p
           x == [with EXCEPT !.op = op, !.id = k, !.proc = proc, !.quiet = q]
<1>1. /\ f \in [Call -> Calls] /\ Begun(f[c], p, op, k, with)
      /\ \A d \in Call \ {c} : Near(call[d], f[d])
  BY Starts
<1>2. call \in [Call -> Calls] /\ q \in BOOLEAN
  BY DEF KeyInv, Typed
<1>3. f[c] = x
  BY DEF Starting
<1>4. x.ret = with.ret /\ x.quiet = q
  <2> HIDE DEF proc, q
  <2> QED BY <1>2 DEF Calls
<1>5. ASSUME NEW d \in Call \ {c}
      PROVE  /\ f[d].quiet => call[d].quiet
             /\ call[d].pc = "idle" => f[d].quiet = call[d].quiet
  <2>1. f[d] = IF Active(d) /\ call[d].id = k THEN [call[d] EXCEPT !.quiet = FALSE] ELSE call[d]
    BY DEF Starting
  <2>2. call[d] \in Calls /\ ~[call[d] EXCEPT !.quiet = FALSE].quiet
    BY <1>2 DEF Calls
  <2>3. call[d].pc = "idle" => ~Active(d)
    BY DEF Active
  <2> HIDE DEF f
  <2> QED BY <2>1, <2>2, <2>3
<1>6. call'[c] = f[c]
  OBVIOUS
<1>7. ASSUME NEW d \in Call \ {c}
      PROVE  Near(f[d], call'[d]) /\ call'[d].quiet = f[d].quiet
  <2>1. f[d] \in Calls /\ (call'[d] = f[d] \/ call'[d] = [f[d] EXCEPT !.fresh = FALSE])
    BY <1>1
  <2> HIDE DEF f
  <2> QED BY <2>1 DEF Calls, Near
<1> HIDE DEF f, x
<1>8. ASSUME NEW d \in Call \ {c}
      PROVE  /\ Near(call[d], call'[d]) /\ (call'[d].quiet => call[d].quiet)
             /\ call[d].pc = "idle" => call'[d].quiet = call[d].quiet
  <2>1. Near(call[d], f[d]) /\ Near(f[d], call'[d])
    BY <1>1, <1>7
  <2>2. Near(call[d], call'[d])
    BY <2>1 DEF Near
  <2> QED BY <1>5, <1>7, <2>2
<1>9. call'[c].pc # "idle"
  BY <1>1, <1>6 DEF Begun
<1>10. Calm(c)
  BY <1>8, <1>9 DEF Calm
<1>11. call'[c].quiet => \A d \in Call : call[d].pc \notin Ending => call[d].id # k
  BY <1>3, <1>4, <1>6 DEF Active, Ending
<1> QED BY <1>1, <1>3, <1>4, <1>6, <1>10, <1>11 DEF Enrolled

(* What a call that begins alone finds in its entry.                       *)
LEMMA FindsStill ==
    ASSUME Still, NEW p \in world.procs, NEW k \in KeyID,
           \A d \in Call : call[d].pc \notin Ending => call[d].id # k
    PROVE  /\ entry[p][k].encoded = Absent
           /\ entry[p][k].key # NoKey => Caches /\ entry[p][k].key = keyring[k].key
<1>1. Recalls(entry[p][k], k) /\ ~Altering(k)
  BY DEF Still, Altering, Ending
<1> QED BY <1>1 DEF Recalls

(* It leaves stillness behind if what it keeps is what is stored.          *)
LEMMA BeginStill ==
    ASSUME KeyInv, Coupled, Still, Hushed', world' = world,
           NEW c \in Call, NEW p \in world.procs, NEW op \in Op, NEW k \in world.ids,
           NEW with, Enrolled(c, p, op, k, with), NEW text, NEW e, Puts(p, k, text, e),
           keyring' = keyring \/ ~Busy(p),
           e.encoded = Absent, e.key # NoKey => Caches /\ e.key = text.key,
           with.pc \notin {"read", "written", "copied"},
           with.pc = "done" /\ op = "get" => with.ret = text.key
    PROVE  Still' /\ Answers(c)
<1>1. /\ Typed /\ Ordered /\ k \in KeyID /\ keyring \in [KeyID -> Text]
  BY OfProcs DEF KeyInv, Typed
<1>2. call'[c].quiet
  BY DEF Hushed
<1>3. /\ Calm(c) /\ call[c].pc = "idle" /\ Begun(call'[c], p, op, k, with)
      /\ call'[c].ret = with.ret
      /\ \A d \in Call : call[d].pc \notin Ending => call[d].id # k
  BY <1>2 DEF Enrolled
<1>4. Turns(c, p, k, text, e)
  BY <1>3 DEF Turns, Calm, Begun, Ending
<1>5. keyring'[k] = text
  BY <1>1 DEF Puts
<1>6. Recalls(e, k)'
  <2>1. Caches' <=> Caches
    BY WorldKept DEF Caches
  <2> QED BY <1>5, <2>1 DEF Recalls
<1>7. Holds(call[c])'
  BY <1>3 DEF Holds, Begun
<1>8. ASSUME ~Busy(p), NEW d \in Call \ {c}, call[d].pc = "copied"
      PROVE  FALSE
  <2>1. call[d].pc \notin Ending
    BY <1>8 DEF Ending
  <2>2. call[d].proc \in world.procs /\ Is("electron")
    BY <1>1, <1>8, <2>1, Place DEF Lined, Alone, Reads, Records, Alters
  <2>3. call[d].proc = p
    BY <2>2 DEF Coupled, OneProcess, Is
  <2> QED BY <1>8, <2>2, <2>3 DEF Busy
<1>9. Still'
  BY <1>1, <1>4, <1>6, <1>7, <1>8, TurnsStill
<1>10. Answers(c)
  BY <1>3, <1>5 DEF Answers, Begun
<1> QED BY <1>9, <1>10

(* What changes of one entry.                                              *)
LEMMA Unset ==
    ASSUME Typed, NEW p \in Proc, NEW k \in KeyID, UNCHANGED <<keyring, entry>>
    PROVE  Puts(p, k, keyring[k], entry[p][k])
BY DEF Typed, Puts

LEMMA TouchSets ==
    ASSUME Typed, NEW p \in Proc, NEW k \in KeyID
    PROVE  \E e \in Entry : /\ Touch(p, k) = [entry EXCEPT ![p][k] = e] /\ Touch(p, k)[p][k] = e
                            /\ e.key = entry[p][k].key /\ e.encoded = entry[p][k].encoded
<1> DEFINE r == entry[p][k]
           t == [r EXCEPT !.known = TRUE]
<1>1. entry \in [Proc -> [KeyID -> Entry]] /\ r \in Entry
  BY DEF Typed
<1>2. t \in Entry /\ t.key = r.key /\ t.encoded = r.encoded
  <2> HIDE DEF r
  <2> QED BY <1>1 DEF Entry
<1> HIDE DEF t
<1>3. Touch(p, k) = [entry EXCEPT ![p][k] = t] /\ Touch(p, k)[p][k] = t
  BY <1>1 DEF Touch, t
<1> QED BY <1>2, <1>3

(* The entry keeps a key.                                                  *)
Keeping(f, p, k, key) == [f EXCEPT ![p][k].key = key]

LEMMA CachedSets ==
    ASSUME Typed, NEW p \in Proc, NEW k \in KeyID, NEW key \in Nat
    PROVE  \E e \in Entry : /\ Cached(p, k, key) = [entry EXCEPT ![p][k] = e]
                            /\ e.encoded = entry[p][k].encoded
                            /\ e.key = IF Caches THEN key ELSE entry[p][k].key
<1> DEFINE r == entry[p][k]
           t == [r EXCEPT !.key = key]
<1>1. r \in Entry /\ entry \in [Proc -> [KeyID -> Entry]]
  BY DEF Typed
<1>2. t \in Entry /\ t.key = key /\ t.encoded = r.encoded
  <2> HIDE DEF r
  <2> QED BY <1>1 DEF Entry
<1>3. /\ Caches => Cached(p, k, key) = [entry EXCEPT ![p][k] = t]
      /\ ~Caches => Cached(p, k, key) = [entry EXCEPT ![p][k] = r]
  BY <1>1 DEF Cached, Caches
<1> HIDE DEF t, r
<1>4. CASE Caches
  BY <1>2, <1>3, <1>4 DEF r
<1>5. CASE ~Caches
  BY <1>1, <1>3, <1>5 DEF r
<1> QED BY <1>4, <1>5

LEMMA TouchKeySets ==
    ASSUME Typed, NEW p \in Proc, NEW k \in KeyID, NEW key \in Nat
    PROVE  \E e \in Entry : /\ Keeping(Touch(p, k), p, k, key) = [entry EXCEPT ![p][k] = e]
                            /\ e.key = key /\ e.encoded = entry[p][k].encoded
<1> DEFINE f == Touch(p, k)
<1>1. PICK t \in Entry : /\ f = [entry EXCEPT ![p][k] = t] /\ f[p][k] = t
                         /\ t.encoded = entry[p][k].encoded
  BY TouchSets
<1>2. f \in [Proc -> [KeyID -> Entry]] /\ entry \in [Proc -> [KeyID -> Entry]]
  BY TouchType DEF Typed
<1> HIDE DEF f
<1> DEFINE e == [t EXCEPT !.key = key]
<1>3. e \in Entry /\ e.key = key /\ e.encoded = t.encoded
  BY DEF Entry
<1>4. Keeping(f, p, k, key) = [entry EXCEPT ![p][k] = e]
  BY <1>1, <1>2 DEF Keeping
<1> HIDE DEF e
<1> QED BY <1>1, <1>3, <1>4 DEF f

(* The calls that answer nothing at once.                                  *)
LEMMA WaitStill ==
    ASSUME KeyInv, Coupled, Still, Hushed', world' = world,
           NEW c \in Call, NEW p \in world.procs, NEW op \in Op, NEW k \in world.ids,
           NEW with, Enrolled(c, p, op, k, with), keyring' = keyring,
           entry' = entry \/ entry' = Touch(p, k),
           with.pc \notin {"read", "written", "copied"}, with.pc = "done" => op # "get"
    PROVE  Still' /\ Answers(c)
<1>1. Typed /\ p \in Proc /\ k \in KeyID
  BY OfProcs DEF KeyInv
<1>2. PICK e : /\ Puts(p, k, keyring[k], e) /\ e.key = entry[p][k].key
               /\ e.encoded = entry[p][k].encoded
  <2>1. keyring = [keyring EXCEPT ![k] = keyring[k]]
    BY <1>1 DEF Typed
  <2>2. CASE entry' = entry
    BY <1>1, <2>2, Unset
  <2>3. CASE entry' = Touch(p, k)
    <3>1. PICK t \in Entry : /\ Touch(p, k) = [entry EXCEPT ![p][k] = t]
                             /\ t.key = entry[p][k].key /\ t.encoded = entry[p][k].encoded
      BY <1>1, TouchSets
    <3> QED BY <2>1, <2>3, <3>1 DEF Puts
  <2> QED BY <2>2, <2>3
<1>4. \A d \in Call : call[d].pc \notin Ending => call[d].id # k
  BY DEF Enrolled, Hushed
<1>5. e.encoded = Absent /\ (e.key # NoKey => Caches /\ e.key = keyring[k].key)
  BY <1>1, <1>2, <1>4, FindsStill
<1> DEFINE text == keyring[k]
<1>6. Puts(p, k, text, e) /\ (e.key # NoKey => Caches /\ e.key = text.key)
  BY <1>2, <1>5
<1> HIDE DEF text
<1> QED BY <1>5, <1>6, BeginStill

LEMMA WaitsEnroll ==
    ASSUME KeyInv, NEW c \in Call, NEW p \in world.procs, NEW op \in Op, NEW k \in world.ids,
           NEW ask \in world.asks,
           \/ Refused(c, p, op, k, ask)
           \/ BeginGetBrowser(c, p, op, k, ask) \/ BeginGetExpo(c, p, op, k, ask)
           \/ BeginList(c, p, op, k, ask)
           \/ BeginProvide(c, p, op, k, ask) \/ BeginProvideBrowser(c, p, op, k, ask)
           \/ BeginSet(c, p, op, k, ask) \/ BeginSetElectron(c, p, op, k, ask)
           \/ BeginRemove(c, p, op, k, ask) \/ BeginRemoveElectron(c, p, op, k, ask)
    PROVE  \E with : /\ Enrolled(c, p, op, k, with)
                     /\ with.pc \in {"failed", "reading", "queued", "minting", "writing", "copying"}
                     /\ UNCHANGED <<world, keyring>> /\ (entry' = entry \/ entry' = Touch(p, k))
<1>1. Typed /\ minted + 1 \in Nat \ {NoKey}
  BY DEF KeyInv, Typed, NoKey
<1>2. encode(minted + 1) \in Text /\ Absent \in Text
  BY <1>1, EncodeType, TextTypes
<1> DEFINE Starters == {"failed", "reading", "queued", "minting", "writing", "copying"}
           Plans == {At(pc) : pc \in Starters}
                    \cup {Writing(pc, t) : pc \in Starters, t \in {encode(minted + 1), Absent}}
<1>3. \A with \in Plans : with \in Calls /\ ~with.inside /\ with.pc \in Starters
  BY <1>2, RecordTypes DEF Progress
<1>4. PICK with \in Plans : /\ call' = Starting(c, p, op, k, with) /\ Begins(c, p, op)
                            /\ UNCHANGED <<world, keyring>> /\ (entry' = entry \/ entry' = Touch(p, k))
  <2>1. CASE Refused(c, p, op, k, ask)
    BY <2>1 DEF Refused, Begins
  <2>2. CASE BeginGetBrowser(c, p, op, k, ask)
    BY <2>2 DEF BeginGetBrowser, Granted, Begins
  <2>3. CASE BeginGetExpo(c, p, op, k, ask)
    BY <2>3 DEF BeginGetExpo, Granted, Begins
  <2>4. CASE BeginList(c, p, op, k, ask)
    BY <2>4 DEF BeginList, Granted, Begins
  <2>5. CASE BeginProvide(c, p, op, k, ask)
    BY <2>5 DEF BeginProvide, Granted, Begins
  <2>6. CASE BeginProvideBrowser(c, p, op, k, ask)
    BY <2>6 DEF BeginProvideBrowser, Granted, Begins
  <2>7. CASE BeginSet(c, p, op, k, ask)
    BY <2>7 DEF BeginSet, Granted, Begins
  <2>8. CASE BeginSetElectron(c, p, op, k, ask)
    BY <2>8 DEF BeginSetElectron, Granted, Begins
  <2>9. CASE BeginRemove(c, p, op, k, ask)
    BY <2>9 DEF BeginRemove, Granted, Begins
  <2>10. CASE BeginRemoveElectron(c, p, op, k, ask)
    BY <2>10 DEF BeginRemoveElectron, Granted, Begins
  <2> QED BY <2>1, <2>2, <2>3, <2>4, <2>5, <2>6, <2>7, <2>8, <2>9, <2>10
<1>5. with \in Calls /\ ~with.inside /\ with.pc \in Starters
  BY <1>3
<1> HIDE DEF Plans
<1>6. Starting(c, p, op, k, with) \in [Call -> Calls]
  BY <1>5, Starts
<1>7. call[c].pc = "idle"
  BY <1>4 DEF Begins
<1>8. Enrolled(c, p, op, k, with)
  BY <1>4, <1>5, <1>6, <1>7, Enrolling
<1> QED BY <1>4, <1>5, <1>8

(* A get of node's or electron's that its entry answers, and one that      *)
(* electron reads.                                                         *)
LEMMA GetNodeStill ==
    ASSUME KeyInv, NEW c \in Call, NEW p \in world.procs, NEW op \in Op, NEW k \in world.ids,
           NEW ask \in world.asks, BeginGetNode(c, p, op, k, ask)
    PROVE  Calm(c) /\ (Coupled /\ Still /\ Hushed' => Still' /\ Answers(c))
<1> DEFINE r == entry[p][k]
           key == known(r)
           with == IF key # NoKey THEN Returning(op, key) ELSE At("reading")
           f == Touch(p, k)
           e == recall(f[p][k])
<1>1. Typed /\ p \in Proc /\ k \in KeyID /\ r \in Entry /\ op \in {"get", "identity"}
  BY Asked DEF BeginGetNode
<1>2. /\ with \in Calls /\ ~with.inside /\ with.pc \in {"done", "reading"}
      /\ with.pc = "done" => key # NoKey /\ with.ret = (IF op = "get" THEN key ELSE NoKey)
  <2>1. key \in Nat
    BY <1>1, EntryTypes
  <2>2. Returning(op, key).ret = (IF op = "get" THEN key ELSE NoKey)
    BY DEF Returning, Idle
  <2> HIDE DEF key
  <2> QED BY <2>1, <2>2, RecordTypes DEF Progress
<1>3. /\ call' = Starting(c, p, op, k, with) /\ call[c].pc = "idle"
      /\ UNCHANGED <<world, keyring>> /\ entry' = [f EXCEPT ![p][k] = recall(@)] /\ Is("node")
  BY DEF BeginGetNode, Granted, Begins
<1>4. /\ f \in [Proc -> [KeyID -> Entry]] /\ f[p][k].key = r.key /\ f[p][k].encoded = r.encoded
      /\ entry' = [entry EXCEPT ![p][k] = e]
  <2>1. PICK t \in Entry : f = [entry EXCEPT ![p][k] = t] /\ t.key = r.key /\ t.encoded = r.encoded
    BY <1>1, TouchSets
  <2>2. f[p][k] = t /\ entry \in [Proc -> [KeyID -> Entry]]
    BY <1>1, <2>1 DEF Typed
  <2> HIDE DEF f, r
  <2>3. [f EXCEPT ![p][k] = recall(@)] = [entry EXCEPT ![p][k] = recall(t)]
    BY <1>1, <2>1, <2>2
  <2> QED BY <1>3, <2>1, <2>2, <2>3
<1>5. Enrolled(c, p, op, k, with)
  <2> HIDE DEF with
  <2>1. Starting(c, p, op, k, with) \in [Call -> Calls]
    BY <1>2, Starts
  <2> QED BY <1>2, <1>3, <2>1, Enrolling
<1>6. ASSUME Coupled, Still, Hushed'
      PROVE  Still' /\ Answers(c)
  <2>1. \A d \in Call : call[d].pc \notin Ending => call[d].id # k
    BY <1>5, <1>6 DEF Enrolled, Hushed
  <2>2. r.encoded = Absent /\ (r.key # NoKey => Caches /\ r.key = keyring[k].key)
    BY <1>1, <1>6, <2>1, FindsStill
  <2>3. Absent.key = NoKey
    BY DEF Absent, NoKey
  <2>4. e.encoded = Absent /\ e.key = r.key
    <3>1. f[p][k] \in Entry
      BY <1>1, <1>4
    <3>2. \A u \in Entry : [u EXCEPT !.key = u.encoded.key, !.encoded = Absent].encoded = Absent
                           /\ [u EXCEPT !.key = u.encoded.key, !.encoded = Absent].key = u.encoded.key
      BY DEF Entry
    <3> HIDE DEF f, r
    <3> QED BY <1>4, <2>2, <2>3, <3>1, <3>2 DEF recall
  <2>5. key = r.key
    BY <2>2, <2>3 DEF known
  <2> DEFINE text == keyring[k]
  <2>6. Puts(p, k, text, e)
    BY <1>1, <1>3, <1>4 DEF Puts, Typed
  <2> HIDE DEF text, with, e, key, r
  <2>7. e.key # NoKey => Caches /\ e.key = text.key
    BY <2>2, <2>4 DEF text
  <2>8. with.pc = "done" /\ op = "get" => with.ret = text.key
    BY <1>2, <2>2, <2>5 DEF text
  <2>9. with.pc \notin {"read", "written", "copied"} /\ e.encoded = Absent
    BY <1>2, <2>4
  <2> QED BY <1>3, <1>5, <1>6, <2>6, <2>7, <2>8, <2>9, BeginStill
<1> QED BY <1>5, <1>6 DEF Enrolled

LEMMA GetElectronStill ==
    ASSUME KeyInv, NEW c \in Call, NEW p \in world.procs, NEW op \in Op, NEW k \in world.ids,
           NEW ask \in world.asks, BeginGetElectron(c, p, op, k, ask)
    PROVE  Calm(c) /\ (Coupled /\ Still /\ Hushed' => Still' /\ Answers(c))
<1> DEFINE r == entry[p][k]
           key == IF r.key # NoKey THEN r.key ELSE keyring[k].key
           with == IF key # NoKey \/ op = "get" THEN Returning(op, key) ELSE At("queued")
<1>1. Typed /\ p \in Proc /\ k \in KeyID /\ r \in Entry /\ op \in {"get", "identity"}
  BY Asked DEF BeginGetElectron
<1>2. key \in Nat
  BY <1>1, TextTypes DEF Entry, Typed
<1>3. /\ with \in Calls /\ ~with.inside /\ with.pc \in {"done", "queued"}
      /\ with.pc = "done" => with.ret = (IF op = "get" THEN key ELSE NoKey)
  <2>1. Returning(op, key).ret = (IF op = "get" THEN key ELSE NoKey)
    BY DEF Returning, Idle
  <2> HIDE DEF key
  <2> QED BY <1>2, <2>1, RecordTypes DEF Progress
<1>4. /\ call' = Starting(c, p, op, k, with) /\ call[c].pc = "idle"
      /\ UNCHANGED <<world, keyring>> /\ entry' = [Touch(p, k) EXCEPT ![p][k].key = key]
      /\ Is("electron")
  BY DEF BeginGetElectron, Granted, Begins
<1>5. Enrolled(c, p, op, k, with)
  <2> HIDE DEF with
  <2>1. Starting(c, p, op, k, with) \in [Call -> Calls]
    BY <1>3, Starts
  <2> QED BY <1>3, <1>4, <2>1, Enrolling
<1>6. ASSUME Coupled, Still, Hushed'
      PROVE  Still' /\ Answers(c)
  <2>1. \A d \in Call : call[d].pc \notin Ending => call[d].id # k
    BY <1>5, <1>6 DEF Enrolled, Hushed
  <2>2. r.encoded = Absent /\ (r.key # NoKey => Caches /\ r.key = keyring[k].key)
    BY <1>1, <1>6, <2>1, FindsStill
  <2>3. key = keyring[k].key
    BY <2>2
  <2> HIDE DEF key, r
  <2>4. PICK e \in Entry : entry' = [entry EXCEPT ![p][k] = e] /\ e.key = key /\ e.encoded = r.encoded
    <3>1. entry' = Keeping(Touch(p, k), p, k, key)
      BY <1>4 DEF Keeping
    <3> QED BY <1>1, <1>2, <3>1, TouchKeySets DEF r
  <2> DEFINE text == keyring[k]
  <2>5. Puts(p, k, text, e)
    BY <1>1, <1>4, <2>4 DEF Puts, Typed
  <2> HIDE DEF text, with
  <2>6. /\ e.key # NoKey => Caches /\ e.key = text.key
        /\ e.encoded = Absent
    BY <1>4, <2>2, <2>3, <2>4 DEF text, Caches
  <2>7. with.pc = "done" /\ op = "get" => with.ret = text.key
    BY <1>3, <2>3 DEF text
  <2>8. with.pc \notin {"read", "written", "copied"}
    BY <1>3
  <2> QED BY <1>4, <1>5, <1>6, <2>5, <2>6, <2>7, <2>8, BeginStill
<1> QED BY <1>5, <1>6 DEF Enrolled

(* provide(), which answers no get, keeps the key that is stored.          *)
LEMMA SyncEnrolls ==
    ASSUME KeyInv, NEW c \in Call, NEW p \in world.procs, NEW k \in world.ids,
           NEW ask \in world.asks, Granted(c, p, "provideSync", ask),
           NEW found \in Nat,
           SyncFound(c, p, k, found) \/ SyncGenerates(c, p, k) \/ SyncRefused(c, p, k)
    PROVE  \E with : /\ Enrolled(c, p, "provideSync", k, with) /\ with.pc \in {"done", "failed"}
                     /\ world' = world
<1> DEFINE op == "provideSync"
           Plans == {Returning(op, found), Returning(op, NoKey), At("failed")}
<1>1. \A with \in Plans : with \in Calls /\ ~with.inside /\ with.pc \in {"done", "failed"}
  BY RecordTypes DEF Progress, Op, NoKey
<1>2. call[c].pc = "idle" /\ world' = world /\ op \in Op
  BY DEF Granted, Begins, Op
<1>3. PICK with \in Plans :
        \/ call' = Starting(c, p, op, k, with)
        \/ call' = [d \in Call |-> LET now == Starting(c, p, op, k, with)[d]
                                   IN  IF d # c /\ Active(d) /\ now.id = k
                                       THEN [now EXCEPT !.fresh = FALSE] ELSE now]
  <2>1. CASE SyncFound(c, p, k, found)
    BY <2>1 DEF SyncFound
  <2>2. CASE SyncGenerates(c, p, k)
    BY <2>2 DEF SyncGenerates
  <2>3. CASE SyncRefused(c, p, k)
    BY <2>3 DEF SyncRefused
  <2> QED BY <2>1, <2>2, <2>3
<1> DEFINE f == Starting(c, p, op, k, with)
<1>4. with \in Calls /\ ~with.inside /\ with.pc \in {"done", "failed"}
  BY <1>1
<1> HIDE DEF op, Plans
<1>5. f \in [Call -> Calls]
  BY <1>2, <1>4, Starts
<1> HIDE DEF f
<1>6. \A d \in Call : call'[d] = f[d] \/ (d # c /\ call'[d] = [f[d] EXCEPT !.fresh = FALSE])
  BY <1>3, <1>5 DEF f
<1>7. call' \in [Call -> Calls]
  <2>1. \A r \in Calls : [r EXCEPT !.fresh = FALSE] \in Calls
    BY DEF Calls
  <2>2. \A d \in Call : call'[d] \in Calls
    BY <1>5, <1>6, <2>1
  <2>3. call' = [d \in Call |-> call'[d]]
    BY <1>3, <1>5 DEF f
  <2> QED BY <2>2, <2>3
<1>8. Enrolled(c, p, op, k, with)
  BY <1>2, <1>4, <1>6, <1>7, Enrolling DEF f
<1> QED BY <1>2, <1>4, <1>8 DEF op

LEMMA SyncStill ==
    ASSUME KeyInv, NEW c \in Call, NEW p \in world.procs, NEW k \in world.ids,
           NEW ask \in world.asks, Granted(c, p, "provideSync", ask), NEW found \in Nat,
           SyncFound(c, p, k, found) \/ SyncGenerates(c, p, k) \/ SyncRefused(c, p, k),
           NEW text, NEW e, Puts(p, k, text, e), Coupled, Still, Hushed',
           e.encoded \in {Absent, entry[p][k].encoded},
           \/ e.key \in {NoKey, text.key} /\ Caches
           \/ e.key = entry[p][k].key /\ (~Caches \/ text = keyring[k])
    PROVE  Still' /\ Answers(c)
<1> DEFINE op == "provideSync"
<1>1. PICK with : /\ Enrolled(c, p, op, k, with) /\ with.pc \in {"done", "failed"}
                  /\ world' = world
  BY SyncEnrolls
<1>2. op \in Op /\ op # "get" /\ ~Busy(p) /\ k \in KeyID
  BY OfProcs DEF Op, Granted, Begins, KeyInv
<1> HIDE DEF op
<1>3. \A d \in Call : call[d].pc \notin Ending => call[d].id # k
  BY <1>1 DEF Enrolled, Hushed
<1>4. /\ entry[p][k].encoded = Absent
      /\ entry[p][k].key # NoKey => Caches /\ entry[p][k].key = keyring[k].key
  BY <1>2, <1>3, FindsStill
<1>5. e.encoded = Absent /\ (e.key # NoKey => Caches /\ e.key = text.key)
  BY <1>4
<1> QED BY <1>1, <1>2, <1>5, BeginStill

LEMMA ProvideSyncStill ==
    ASSUME KeyInv, NEW c \in Call, NEW p \in world.procs, NEW op \in Op, NEW k \in world.ids,
           NEW ask \in world.asks,
           \/ ProvideSyncNode(c, p, op, k, ask) \/ ProvideSyncElectron(c, p, op, k, ask)
           \/ ProvideSyncExpo(c, p, op, k, ask)
    PROVE  Calm(c) /\ (Coupled /\ Still /\ Hushed' => Still' /\ Answers(c))
<1> DEFINE r == entry[p][k]
           stored == keyring[k]
           new == encode(minted + 1)
           f == Touch(p, k)
<1>1. /\ Typed /\ p \in Proc /\ k \in KeyID /\ r \in Entry /\ minted \in Nat
      /\ op = "provideSync" /\ Granted(c, p, "provideSync", ask)
  BY Asked DEF Typed, ProvideSyncNode, ProvideSyncElectron, ProvideSyncExpo
<1>2. stored.key \in Nat /\ (stored.key = NoKey <=> stored = Absent)
  BY <1>1, TextTypes DEF Typed
<1>3. new.key = minted + 1 /\ minted + 1 \in Nat \ {NoKey} /\ NoKey \in Nat
  <2>1. minted + 1 \in Nat \ {NoKey} /\ NoKey \in Nat
    BY <1>1 DEF NoKey
  <2> QED BY <2>1, EncodeType
<1>4. keyring = [keyring EXCEPT ![k] = stored] /\ entry \in [Proc -> [KeyID -> Entry]]
  BY <1>1 DEF Typed
<1>5. PICK t \in Entry : /\ f = [entry EXCEPT ![p][k] = t] /\ f[p][k] = t
                         /\ t.key = r.key /\ t.encoded = r.encoded
  BY <1>1, TouchSets
<1>6. f \in [Proc -> [KeyID -> Entry]]
  BY <1>1, TouchType
<1> HIDE DEF r, stored, new, f
<1>7. ASSUME Coupled, Still, Hushed', NEW found \in Nat, NEW text, NEW e,
             SyncFound(c, p, k, found) \/ SyncGenerates(c, p, k) \/ SyncRefused(c, p, k),
             Puts(p, k, text, e), e.encoded \in {Absent, r.encoded},
             \/ e.key \in {NoKey, text.key} /\ Caches
             \/ e.key = r.key /\ (~Caches \/ text = stored)
      PROVE  Still' /\ Answers(c)
  BY <1>1, <1>7, SyncStill DEF r, stored
<1>8. CASE ProvideSyncExpo(c, p, op, k, ask)
  <2>1. ~Caches
    BY <1>8 DEF ProvideSyncExpo, Caches, Is
  <2>2. CASE stored # Absent
    <3>1. SyncFound(c, p, k, stored.key) /\ Puts(p, k, stored, t)
      BY <1>4, <1>5, <1>8, <2>2 DEF ProvideSyncExpo, SyncFound, Puts, f, stored
    <3> QED BY <1>1, <1>2, <1>5, <1>7, <2>1, <3>1, SyncEnrolls DEF Enrolled
  <2>3. CASE stored = Absent
    <3>1. SyncGenerates(c, p, k) /\ Puts(p, k, new, t)
      BY <1>5, <1>8, <2>3 DEF ProvideSyncExpo, SyncGenerates, Puts, f, stored, new
    <3> QED BY <1>1, <1>3, <1>5, <1>7, <2>1, <3>1, SyncEnrolls DEF Enrolled
  <2> QED BY <2>2, <2>3
<1>9. CASE ProvideSyncNode(c, p, op, k, ask)
  <2> DEFINE u == recall(t)
             key == IF u.key # NoKey THEN u.key ELSE stored.key
             v == [u EXCEPT !.key = key]
             w == [u EXCEPT !.key = minted + 1]
  <2>1. Caches
    BY <1>9 DEF ProvideSyncNode, Caches
  <2>2. u \in Entry /\ u.key \in Nat
    BY <1>5, EntryTypes DEF Entry
  <2>3. u.encoded \in {Absent, r.encoded} /\ u.key \in {r.key, r.encoded.key}
    <3>1. [t EXCEPT !.key = t.encoded.key, !.encoded = Absent].encoded = Absent
          /\ [t EXCEPT !.key = t.encoded.key, !.encoded = Absent].key = t.encoded.key
      BY <1>5 DEF Entry
    <3> QED BY <1>5, <3>1 DEF recall
  <2>4. key \in Nat
    BY <1>2, <2>2
  <2>5. u = recall(f[p][k])
    BY <1>5
  <2> HIDE DEF u, key
  <2>6. /\ v \in Entry /\ v.key = key /\ v.encoded = u.encoded
        /\ w \in Entry /\ w.key = minted + 1 /\ w.encoded = u.encoded
    BY <1>3, <2>2, <2>4 DEF Entry
  <2> HIDE DEF v, w
  <2>7. CASE store[p].lock # NoLock
    <3>1. SyncRefused(c, p, k) /\ Puts(p, k, stored, t)
      BY <1>4, <1>5, <1>9, <2>7 DEF ProvideSyncNode, SyncRefused, Puts, f
    <3> QED BY <1>1, <1>3, <1>5, <1>7, <3>1, SyncEnrolls DEF Enrolled
  <2>8. CASE store[p].lock = NoLock /\ key # NoKey
    <3>1. SyncFound(c, p, k, key) /\ Puts(p, k, stored, v)
      BY <1>4, <1>9, <2>5, <2>8 DEF ProvideSyncNode, SyncFound, Puts, f, v, key, stored
    <3>2. Calm(c)
      BY <1>1, <2>4, <3>1, SyncEnrolls DEF Enrolled
    <3>3. ASSUME Coupled, Still, Hushed'
          PROVE  key = stored.key
      <4>1. \A d \in Call : call[d].pc \notin Ending => call[d].id # k
        BY <1>1, <2>4, <3>1, <3>3, SyncEnrolls DEF Enrolled, Hushed
      <4>2. r.encoded = Absent /\ (r.key # NoKey => r.key = stored.key)
        BY <1>1, <3>3, <4>1, FindsStill DEF r, stored
      <4> QED BY <2>3, <2>8, <4>2 DEF key, Absent
    <3> QED BY <1>7, <2>1, <2>3, <2>4, <2>6, <3>1, <3>2, <3>3
  <2>9. CASE store[p].lock = NoLock /\ key = NoKey
    <3>1. SyncGenerates(c, p, k) /\ Puts(p, k, new, w)
      BY <1>4, <1>9, <2>5, <2>9 DEF ProvideSyncNode, SyncGenerates, Puts, f, w, key, stored, new
    <3> QED BY <1>1, <1>3, <1>7, <2>1, <2>3, <2>6, <3>1, SyncEnrolls DEF Enrolled
  <2> QED BY <2>7, <2>8, <2>9
<1>10. CASE ProvideSyncElectron(c, p, op, k, ask)
  <2>1. Caches
    BY <1>10 DEF ProvideSyncElectron, Caches
  <2>2. ASSUME NEW key \in Nat
        PROVE  \E e \in Entry : /\ Keeping(f, p, k, key) = [entry EXCEPT ![p][k] = e]
                                /\ e.key = key /\ e.encoded = r.encoded
    BY <1>1, TouchKeySets DEF f, r
  <2>3. CASE store[p].lock # NoLock
    <3>1. SyncRefused(c, p, k) /\ Puts(p, k, stored, t)
      BY <1>4, <1>5, <1>10, <2>3 DEF ProvideSyncElectron, SyncRefused, Puts, f
    <3> QED BY <1>1, <1>3, <1>5, <1>7, <3>1, SyncEnrolls DEF Enrolled
  <2>4. CASE store[p].lock = NoLock /\ stored = Absent /\ ~mayPersist(p)
    <3>1. SyncRefused(c, p, k) /\ keyring' = keyring /\ entry' = Keeping(f, p, k, NoKey)
      BY <1>10, <2>4 DEF ProvideSyncElectron, SyncRefused, Keeping, f, stored
    <3>2. PICK e \in Entry : /\ entry' = [entry EXCEPT ![p][k] = e]
                             /\ e.key = NoKey /\ e.encoded = r.encoded
      BY <1>3, <2>2, <3>1
    <3>3. Puts(p, k, stored, e)
      BY <1>4, <3>1, <3>2 DEF Puts
    <3> QED BY <1>1, <1>3, <1>7, <2>1, <3>1, <3>2, <3>3, SyncEnrolls DEF Enrolled
  <2>5. CASE store[p].lock = NoLock /\ stored # Absent
    <3>1. SyncFound(c, p, k, stored.key) /\ keyring' = keyring /\ entry' = Keeping(f, p, k, stored.key)
      BY <1>10, <2>5 DEF ProvideSyncElectron, SyncFound, Keeping, f, stored
    <3>2. PICK e \in Entry : /\ entry' = [entry EXCEPT ![p][k] = e]
                             /\ e.key = stored.key /\ e.encoded = r.encoded
      BY <1>2, <2>2, <3>1
    <3>3. Puts(p, k, stored, e)
      BY <1>4, <3>1, <3>2 DEF Puts
    <3> QED BY <1>1, <1>2, <1>7, <2>1, <3>1, <3>2, <3>3, SyncEnrolls DEF Enrolled
  <2>6. CASE store[p].lock = NoLock /\ stored = Absent /\ mayPersist(p)
    <3>1. SyncGenerates(c, p, k) /\ keyring' = [keyring EXCEPT ![k] = new]
          /\ entry' = Keeping(f, p, k, minted + 1)
      BY <1>10, <2>6 DEF ProvideSyncElectron, SyncGenerates, Keeping, f, stored, new
    <3>2. PICK e \in Entry : /\ entry' = [entry EXCEPT ![p][k] = e]
                             /\ e.key = minted + 1 /\ e.encoded = r.encoded
      BY <1>3, <2>2, <3>1
    <3>3. Puts(p, k, new, e)
      BY <3>1, <3>2 DEF Puts
    <3> QED BY <1>1, <1>3, <1>7, <2>1, <3>1, <3>2, <3>3, SyncEnrolls DEF Enrolled
  <2> QED BY <2>3, <2>4, <2>5, <2>6
<1> QED BY <1>1, <1>8, <1>9, <1>10

LEMMA DeriveCalm ==
    ASSUME KeyInv, NEW c \in Call, NEW p \in world.procs, NEW op \in Op, NEW k \in world.ids,
           NEW ask \in world.asks, Derive(c, p, op, k, ask)
    PROVE  Calm(c)
<1> DEFINE key == derive(entry[p][k], k)
           with == IF key = NoKey THEN At("failed") ELSE Returning(op, key)
<1>1. k \in KeyID /\ entry[p][k] \in Entry /\ world \in World
  BY Asked DEF KeyInv, Typed
<1>2. key \in Nat
  <2>1. world.path \in [KeyID -> Nat]
    BY <1>1, StoresAssumption
  <2> QED BY <1>1, <2>1 DEF derive, resolveDerivationPath, Entry
<1>3. with \in Calls /\ ~with.inside /\ with.pc \in {"failed", "done"}
  <2> HIDE DEF key
  <2> QED BY <1>2, RecordTypes DEF Progress
<1>4. call' = Starting(c, p, op, k, with) /\ call[c].pc = "idle"
  BY DEF Derive, Granted, Begins
<1> HIDE DEF with
<1>5. Starting(c, p, op, k, with) \in [Call -> Calls]
  BY <1>3, Starts
<1>6. Enrolled(c, p, op, k, with)
  BY <1>3, <1>4, <1>5, Enrolling
<1> QED BY <1>6 DEF Enrolled

LEMMA BeginQuiet ==
    ASSUME KeyInv, NEW c \in Call, NEW p \in world.procs, NEW op \in Op, NEW k \in world.ids,
           NEW ask \in world.asks, Begin(c, p, op, k, ask)
    PROVE  Calm(c) /\ (Coupled /\ Still /\ Hushed' => Still' /\ Answers(c))
<1>1. CASE BeginGetNode(c, p, op, k, ask)
  BY <1>1, GetNodeStill
<1>2. CASE BeginGetElectron(c, p, op, k, ask)
  BY <1>2, GetElectronStill
<1>3. CASE Derive(c, p, op, k, ask)
  <2>1. ~Coupled
    BY <1>3 DEF Derive, Coupled
  <2> QED BY <1>3, <2>1, DeriveCalm
<1>4. CASE \/ ProvideSyncNode(c, p, op, k, ask) \/ ProvideSyncElectron(c, p, op, k, ask)
           \/ ProvideSyncExpo(c, p, op, k, ask)
  BY <1>4, ProvideSyncStill
<1>5. CASE \/ Refused(c, p, op, k, ask)
           \/ BeginGetBrowser(c, p, op, k, ask) \/ BeginGetExpo(c, p, op, k, ask)
           \/ BeginList(c, p, op, k, ask)
           \/ BeginProvide(c, p, op, k, ask) \/ BeginProvideBrowser(c, p, op, k, ask)
           \/ BeginSet(c, p, op, k, ask) \/ BeginSetElectron(c, p, op, k, ask)
           \/ BeginRemove(c, p, op, k, ask) \/ BeginRemoveElectron(c, p, op, k, ask)
  <2>1. PICK with : /\ Enrolled(c, p, op, k, with)
                    /\ with.pc \in {"failed", "reading", "queued", "minting", "writing", "copying"}
                    /\ UNCHANGED <<world, keyring>> /\ (entry' = entry \/ entry' = Touch(p, k))
    BY <1>5, WaitsEnroll
  <2>2. with.pc \notin {"read", "written", "copied", "done"}
    BY <2>1
  <2>3. Calm(c)
    BY <2>1 DEF Enrolled
  <2> QED BY <2>1, <2>2, <2>3, WaitStill
<1> QED BY <1>1, <1>2, <1>3, <1>4, <1>5 DEF Begin

(* A call goes on: as x, by a step that tells the others at most that they *)
(* were overtaken.                                                         *)
Goes(c, x) ==
    /\ x \in Calls /\ x.pc # "idle" /\ x.op = call[c].op /\ x.id = call[c].id
    /\ x.quiet = call[c].quiet
    /\ call' = [call EXCEPT ![c] = x] \/ call' = [Stale(c) EXCEPT ![c] = x]

LEMMA GoesCalm ==
    ASSUME Typed, Ordered, NEW c \in Call, call[c].pc \notin Ending, NEW x, Goes(c, x)
    PROVE  Calm(c) /\ call'[c] = x
<1>1. call \in [Call -> Calls] /\ Stale(c) \in [Call -> Calls]
  BY StaleFields DEF Typed
<1>2. call'[c] = x /\ \A d \in Call \ {c} : call'[d] = call[d] \/ call'[d] = Stale(c)[d]
  BY <1>1 DEF Goes
<1>3. ASSUME NEW d \in Call \ {c}
      PROVE  Near(call[d], call'[d]) /\ call'[d].quiet = call[d].quiet
  <2>1. Near(call[d], Stale(c)[d]) /\ Near(call[d], call[d])
    BY <1>1, StaleFields DEF Near
  <2>2. Stale(c)[d].quiet = call[d].quiet
    <3>1. Stale(c)[d] = call[d] \/ Stale(c)[d] = [call[d] EXCEPT !.fresh = FALSE]
      BY DEF Stale
    <3>2. call[d] \in Calls
      BY <1>1
    <3> HIDE DEF Stale
    <3> QED BY <3>1, <3>2 DEF Calls
  <2> QED BY <1>2, <2>1, <2>2
<1> QED BY <1>2, <1>3 DEF Calm, Goes

(* What the entry of a call under way knows.                               *)
LEMMA FindsOwn ==
    ASSUME Typed, Ordered, Still, NEW c \in Call, call[c].pc \notin Ending
    PROVE  LET r == entry[call[c].proc][call[c].id]
           IN  /\ r.encoded = Absent
               /\ r.key # NoKey => /\ Caches
                                   /\ \/ r.key = keyring[call[c].id].key
                                      \/ call[c].pc = "written" /\ Foreign(c)
<1> DEFINE p == call[c].proc
           k == call[c].id
<1>1. p \in world.procs /\ k \in KeyID
  BY Place
<1>2. Recalls(entry[p][k], k)
  BY <1>1 DEF Still
<1>3. Altering(k) => call[c].pc = "written" /\ Foreign(c)
  BY DEF Altering, Still, Lone, Ending
<1> QED BY <1>2, <1>3 DEF Recalls

LEMMA StepStill ==
    ASSUME KeyInv, Coupled, Still, world' = world, NEW c \in Call, call[c].pc \notin Ending,
           NEW x, Goes(c, x), NEW text, NEW e, Puts(call[c].proc, call[c].id, text, e),
           keyring' = keyring \/ \A d \in Call \ {c} : call[d].pc # "copied",
           e.encoded = Absent,
           e.key # NoKey => /\ Caches
                            /\ e.key = text.key \/ (x.pc = "written" /\ Foreign(c)),
           x.pc = "read" => x.got[x.id] = text, x.pc = "written" => x.put = text,
           x.pc = "copied" => x.got = keyring',
           x.inside => x.proc = call[c].proc /\ e.key = NoKey,
           x.pc = "done" /\ x.op = "get" => x.ret = text.key
    PROVE  Still' /\ Answers(c)
<1>0. PICK p, k : p = call[c].proc /\ k = call[c].id
  OBVIOUS
<1>1. /\ Typed /\ Ordered /\ keyring \in [KeyID -> Text]
      /\ entry \in [Proc -> [KeyID -> Entry]]
  BY DEF KeyInv, Typed
<1>2. p \in world.procs /\ p \in Proc /\ k \in KeyID
  BY <1>0, <1>1, Place
<1>3. call'[c] = x /\ Calm(c) /\ x.id = k /\ x.op = call[c].op
  BY <1>0, <1>1, GoesCalm DEF Goes
<1>4. keyring'[k] = text /\ entry'[p][k] = e
  BY <1>0, <1>1, <1>2 DEF Puts
<1>5. \A d \in Call \ {c} : call[d].pc \notin Ending => call[d].id # k
  BY <1>0 DEF Still, Lone
<1>6. Turns(c, p, k, text, e)
  BY <1>0, <1>3, <1>5 DEF Turns, Calm
<1>7. Recalls(e, k)'
  <2>1. Caches' <=> Caches
    BY WorldKept DEF Caches
  <2>2. x.pc = "written" /\ Foreign(c) => Altering(k)'
    BY <1>3 DEF Altering, Foreign
  <2> QED BY <1>4, <2>1, <2>2 DEF Recalls
<1>8. Holds(call[c])'
  BY <1>0, <1>3, <1>4 DEF Holds
<1>9. Still'
  BY <1>2, <1>6, <1>7, <1>8, TurnsStill
<1>10. Answers(c)
  BY <1>3, <1>4 DEF Answers
<1> QED BY <1>9, <1>10

(* What a step of call c keeps: the others', and stillness.                *)
Keeps(c) == Calm(c) /\ (Coupled /\ Still /\ Hushed' => Still' /\ Answers(c))

(* A call goes on with nothing stored or learned.                          *)
LEMMA PassStill ==
    ASSUME KeyInv, NEW c \in Call, call[c].pc \notin Ending, NEW x, Goes(c, x),
           UNCHANGED <<world, keyring, entry>>,
           call[c].pc = "written" => ~Foreign(c),
           x.pc = "read" => x.got[x.id] = keyring[x.id], x.pc = "copied" => x.got = keyring,
           x.pc # "written", x.pc # "done",
           x.inside => call[c].inside /\ x.proc = call[c].proc
    PROVE  Keeps(c)
<1>1. Typed /\ Ordered /\ call[c].proc \in Proc /\ call[c].id \in KeyID /\ x.id = call[c].id
  BY Place DEF KeyInv, Goes
<1>2. Calm(c)
  BY <1>1, GoesCalm
<1>3. ASSUME Coupled, Still, Hushed'
      PROVE  Still' /\ Answers(c)
  <2> DEFINE r == entry[call[c].proc][call[c].id]
             text == keyring[call[c].id]
  <2>1. Puts(call[c].proc, call[c].id, text, r)
    BY <1>1, Unset
  <2>2. r.encoded = Absent /\ (r.key # NoKey => Caches /\ r.key = text.key)
    BY <1>1, <1>3, FindsOwn
  <2>3. x.inside => x.proc = call[c].proc /\ r.key = NoKey
    BY <1>3 DEF Still, Holds
  <2>4. x.pc = "read" => x.got[x.id] = text
    BY <1>1
  <2> HIDE DEF r, text
  <2> QED BY <1>3, <2>1, <2>2, <2>3, <2>4, StepStill
<1> QED BY <1>2, <1>3 DEF Keeps

(* A call that ends, with the key that is stored.                          *)
LEMMA EndedGoes ==
    ASSUME KeyInv, NEW c \in Call, call[c].pc \notin Ending, NEW pc \in {"done", "failed"},
           NEW key \in Nat,
           \/ call' = [call EXCEPT ![c] = Ended(c, pc, key)]
           \/ call' = [Stale(c) EXCEPT ![c] = Ended(c, pc, key)]
    PROVE  \E x : /\ Goes(c, x) /\ x.pc = pc /\ ~x.inside
                  /\ x.op = "get" => x.ret = key
<1> DEFINE x == Ended(c, pc, key)
<1>1. Typed /\ pc \in Ending /\ call[c] \in Calls
  BY DEF KeyInv, Typed, Ending
<1>2. x \in Calls /\ x.pc = pc /\ ~x.inside
  BY <1>1, EndedType
<1>3. /\ x.op = call[c].op /\ x.id = call[c].id /\ x.quiet = call[c].quiet
      /\ x.op = "get" => x.ret = key
  BY DEF Ended, Idle
<1> HIDE DEF x
<1>4. Goes(c, x)
  BY <1>2, <1>3 DEF Goes, x
<1> QED BY <1>2, <1>3, <1>4

LEMMA EndStill ==
    ASSUME KeyInv, NEW c \in Call, call[c].pc \notin Ending, NEW key \in Nat, NEW text,
           \/ call' = [call EXCEPT ![c] = Ended(c, "done", key)]
           \/ call' = [Stale(c) EXCEPT ![c] = Ended(c, "done", key)],
           world' = world,
           entry' = Cached(call[c].proc, call[c].id, key)
               \/ (entry' = entry /\ call[c].pc # "written" /\ text = keyring[call[c].id]),
           Coupled /\ Still =>
               /\ key = text.key /\ keyring' = [keyring EXCEPT ![call[c].id] = text]
               /\ text = keyring[call[c].id] \/ \A d \in Call \ {c} : call[d].pc # "copied"
    PROVE  Keeps(c)
<1>1. /\ Typed /\ Ordered /\ call[c].proc \in Proc /\ call[c].id \in KeyID
      /\ keyring \in [KeyID -> Text]
  BY Place DEF KeyInv, Typed
<1>2. PICK x : Goes(c, x) /\ x.pc = "done" /\ ~x.inside /\ (x.op = "get" => x.ret = key)
  BY EndedGoes
<1>3. Calm(c)
  BY <1>1, <1>2, GoesCalm
<1>4. ASSUME Coupled, Still, Hushed'
      PROVE  Still' /\ Answers(c)
  <2>0. PICK p \in Proc, k \in KeyID : p = call[c].proc /\ k = call[c].id
    BY <1>1
  <2> DEFINE r == entry[p][k]
  <2>1. /\ r.encoded = Absent
        /\ r.key # NoKey => Caches /\ (r.key = keyring[k].key \/ call[c].pc = "written")
    BY <1>1, <1>4, <2>0, FindsOwn
  <2>3. keyring' = keyring \/ \A d \in Call \ {c} : call[d].pc # "copied"
    BY <1>1, <1>4
  <2>4. CASE entry' = Cached(p, k, key)
    <3>1. PICK e \in Entry : /\ Cached(p, k, key) = [entry EXCEPT ![p][k] = e]
                             /\ e.encoded = r.encoded
                             /\ e.key = IF Caches THEN key ELSE r.key
      BY <1>1, CachedSets
    <3>2. Puts(call[c].proc, call[c].id, text, e)
      BY <1>4, <2>0, <2>4, <3>1 DEF Puts
    <3>3. e.encoded = Absent /\ (e.key # NoKey => Caches /\ e.key = text.key)
      BY <1>4, <2>1, <3>1
    <3>4. x.pc = "done" /\ x.op = "get" => x.ret = text.key
      BY <1>2, <1>4
    <3> HIDE DEF r
    <3> QED BY <1>2, <1>4, <2>3, <3>2, <3>3, <3>4, StepStill
  <2>5. CASE entry' = entry /\ call[c].pc # "written" /\ text = keyring[k]
    <3>1. entry = [entry EXCEPT ![p][k] = r]
      BY <1>1 DEF Typed
    <3>2. Puts(call[c].proc, call[c].id, text, r)
      BY <1>4, <2>0, <2>5, <3>1 DEF Puts
    <3>3. r.encoded = Absent /\ (r.key # NoKey => Caches /\ r.key = text.key)
      BY <2>1, <2>5
    <3>4. x.pc = "done" /\ x.op = "get" => x.ret = text.key
      BY <1>2, <1>4
    <3> HIDE DEF r
    <3> QED BY <1>2, <1>4, <2>3, <3>2, <3>3, <3>4, StepStill
  <2> QED BY <2>0, <2>4, <2>5
<1> QED BY <1>3, <1>4 DEF Keeps

(* The steps of reads, and the others that store nothing.                  *)
LEMMA FailKeeps ==
    ASSUME KeyInv, NEW c \in Call, Timeout(c) \/ RefuseLegacy(c) \/ StorageFails(c)
    PROVE  Keeps(c)
<1>1. /\ call[c].pc \notin Ending /\ call' = [call EXCEPT ![c] = Ended(c, "failed", NoKey)]
      /\ UNCHANGED <<world, keyring, entry>> /\ (call[c].pc = "written" => ~Foreign(c))
  BY DEF Timeout, RefuseLegacy, StorageFails, Fail, Foreign, Ending
<1>2. PICK x : Goes(c, x) /\ x.pc = "failed" /\ ~x.inside
  BY <1>1, EndedGoes DEF NoKey
<1> QED BY <1>1, <1>2, PassStill

LEMMA GetKeeps ==
    ASSUME KeyInv, NEW c \in Call, GetGoesOn(c)
    PROVE  Keeps(c)
<1> DEFINE key == Answered(c).key
           text == keyring[call[c].id]
<1>1. /\ call[c].pc = "read" /\ call' = [call EXCEPT ![c] = Ended(c, "done", key)]
      /\ UNCHANGED <<world, keyring>> /\ call[c].pc \notin Ending
      /\ entry' = entry \/ entry' = Cached(call[c].proc, call[c].id, key)
  BY DEF GetGoesOn, Ending
<1>2. Typed /\ Ordered /\ call[c].id \in KeyID /\ call[c] \in Calls
  BY <1>1, Place DEF KeyInv, Typed
<1>3. key \in Nat
  BY <1>2, TextTypes DEF Calls, Answered
<1>4. keyring' = [keyring EXCEPT ![call[c].id] = text]
  BY <1>1, <1>2 DEF Typed
<1>5. Still => key = text.key
  BY <1>1 DEF Still, Holds, Answered
<1> HIDE DEF key
<1> QED BY <1>1, <1>3, <1>4, <1>5, EndStill

LEMMA FoundKeeps ==
    ASSUME KeyInv, NEW c \in Call, Found(c)
    PROVE  Keeps(c)
<1> DEFINE key == Answered(c).key
           text == keyring[call[c].id]
<1>1. /\ call[c].pc = "read" /\ call' = [call EXCEPT ![c] = Ended(c, "done", key)]
      /\ UNCHANGED <<world, keyring>> /\ call[c].pc \notin Ending
      /\ entry' = Cached(call[c].proc, call[c].id, key)
  BY DEF Found, Provide, Ending
<1>2. Typed /\ Ordered /\ call[c].id \in KeyID /\ call[c] \in Calls
  BY <1>1, Place DEF KeyInv, Typed
<1>3. key \in Nat
  BY <1>2, TextTypes DEF Calls, Answered
<1>4. keyring' = [keyring EXCEPT ![call[c].id] = text]
  BY <1>1, <1>2 DEF Typed
<1>5. Still => key = text.key
  BY <1>1 DEF Still, Holds, Answered
<1> HIDE DEF key
<1> QED BY <1>1, <1>3, <1>4, <1>5, EndStill

LEMMA WrittenKeeps ==
    ASSUME KeyInv, NEW c \in Call, WriteGoesOn(c) \/ Provided(c)
    PROVE  Keeps(c)
<1> DEFINE key == call[c].put.key
           text == keyring[call[c].id]
<1>1. /\ call[c].pc = "written" /\ UNCHANGED <<world, keyring>> /\ call[c].pc \notin Ending
      /\ entry' = Cached(call[c].proc, call[c].id, key)
      /\ \/ call' = [call EXCEPT ![c] = Ended(c, "done", NoKey)]
         \/ call' = [call EXCEPT ![c] = Ended(c, "done", key)]
  BY DEF WriteGoesOn, Provided, Provide, Ending
<1>2. Typed /\ Ordered /\ call[c].id \in KeyID /\ call[c] \in Calls
  BY <1>1, Place DEF KeyInv, Typed
<1>3. key \in Nat /\ NoKey \in Nat
  BY <1>2, TextTypes DEF Calls, NoKey
<1>4. keyring' = [keyring EXCEPT ![call[c].id] = text]
  BY <1>1, <1>2 DEF Typed
<1>5. Still => key = text.key
  BY <1>1 DEF Still, Holds
<1>6. call[c].op # "get"
  BY <1>1, <1>2, Place DEF Lined, Alone, Reads, Records, Alters, Provision
<1>7. \A v \in Nat : Ended(c, "done", v) = Ended(c, "done", key)
  BY <1>6 DEF Ended
<1>8. call' = [call EXCEPT ![c] = Ended(c, "done", key)]
  BY <1>1, <1>3, <1>7
<1> HIDE DEF key
<1> QED BY <1>1, <1>3, <1>4, <1>5, <1>8, EndStill

(* Changes of a call that is under way.                                    *)
Onto(r, pc, put, got) == [r EXCEPT !.pc = pc, !.put = put, !.got = got]

LEMMA Advanced ==
    ASSUME NEW r \in Calls, NEW pc \in Progress \ {"idle"}, NEW put \in Text,
           NEW got \in [KeyID -> Text]
    PROVE  LET x == Onto(r, pc, put, got)
           IN  /\ x \in Calls /\ x.pc = pc /\ x.op = r.op /\ x.id = r.id /\ x.proc = r.proc
               /\ x.quiet = r.quiet /\ x.inside = r.inside /\ x.got = got /\ x.put = put
BY DEF Calls, Onto

LEMMA PassKeeps ==
    ASSUME KeyInv, NEW c \in Call,
           \/ Await(c) \/ Read(c) \/ IdentityGoesOn(c) \/ GenerateNode(c) \/ Generate(c)
           \/ AwaitRandom(c) \/ Copy(c)
    PROVE  Keeps(c)
<1> DEFINE r == call[c]
           seen == [k \in KeyID |-> IF k = r.id \/ r.op = "list" THEN keyring[k] ELSE Absent]
           new == encode(minted + 1)
<1>1. /\ Typed /\ Ordered /\ r \in Calls /\ call \in [Call -> Calls]
      /\ keyring \in [KeyID -> Text] /\ minted \in Nat
  BY DEF KeyInv, Typed
<1>2. r.put \in Text /\ r.got \in [KeyID -> Text] /\ Blank \in [KeyID -> Text] /\ new \in Text
      /\ seen \in [KeyID -> Text]
  <2>1. minted + 1 \in Nat \ {NoKey}
    BY <1>1 DEF NoKey
  <2> QED BY <1>1, <2>1, TextTypes, EncodeType DEF Calls
<1>4. PICK pc \in {"waiting", "read", "queued", "writing", "minting", "copied"},
           put \in {r.put, new}, got \in {r.got, Blank, seen, keyring} :
        /\ call' = [call EXCEPT ![c] = Onto(r, pc, put, got)]
        /\ UNCHANGED <<world, keyring, entry>>
        /\ pc = "read" => got = seen
        /\ pc = "copied" => got = keyring
        /\ r.pc \in {"queued", "reading", "read", "minting", "copying"}
  <2> HIDE DEF r, seen, new
  <2>1. CASE Await(c)
    <3>1. call' = [call EXCEPT ![c] = [r EXCEPT !.pc = "waiting"]] /\ r.pc = "queued"
          /\ UNCHANGED <<world, keyring, entry>>
      BY <2>1 DEF Await, Turn, r
    <3>2. [r EXCEPT !.pc = "waiting"] = Onto(r, "waiting", r.put, r.got)
      BY <1>1 DEF Calls, Onto
    <3> QED BY <3>1, <3>2
  <2>2. CASE Read(c)
    <3>1. call' = [call EXCEPT ![c] = [r EXCEPT !.pc = "read", !.got = seen]] /\ r.pc = "reading"
          /\ UNCHANGED <<world, keyring, entry>>
      BY <2>2 DEF Read, r, seen
    <3>2. [r EXCEPT !.pc = "read", !.got = seen] = Onto(r, "read", r.put, seen)
      BY <1>1 DEF Calls, Onto
    <3> QED BY <3>1, <3>2
  <2>3. CASE IdentityGoesOn(c)
    <3>1. call' = [call EXCEPT ![c] = [r EXCEPT !.pc = "queued"]] /\ r.pc = "read"
          /\ UNCHANGED <<world, keyring, entry>>
      BY <2>3 DEF IdentityGoesOn, r
    <3>2. [r EXCEPT !.pc = "queued"] = Onto(r, "queued", r.put, r.got)
      BY <1>1 DEF Calls, Onto
    <3> QED BY <3>1, <3>2
  <2>4. CASE GenerateNode(c) \/ Generate(c)
    <3>1. /\ call' = [call EXCEPT ![c] = [r EXCEPT !.pc = "writing", !.put = new, !.got = Blank]]
          /\ r.pc \in {"read", "minting"} /\ UNCHANGED <<world, keyring, entry>>
      BY <2>4 DEF GenerateNode, Generate, Generates, r, new
    <3>2. [r EXCEPT !.pc = "writing", !.put = new, !.got = Blank] = Onto(r, "writing", new, Blank)
      BY <1>1 DEF Calls, Onto
    <3> QED BY <3>1, <3>2
  <2>5. CASE AwaitRandom(c)
    <3>1. call' = [call EXCEPT ![c] = [r EXCEPT !.pc = "minting", !.got = Blank]] /\ r.pc = "read"
          /\ UNCHANGED <<world, keyring, entry>>
      BY <2>5 DEF AwaitRandom, r
    <3>2. [r EXCEPT !.pc = "minting", !.got = Blank] = Onto(r, "minting", r.put, Blank)
      BY <1>1 DEF Calls, Onto
    <3> QED BY <3>1, <3>2
  <2>6. CASE Copy(c)
    <3>1. call' = [call EXCEPT ![c] = [r EXCEPT !.pc = "copied", !.got = keyring]] /\ r.pc = "copying"
          /\ UNCHANGED <<world, keyring, entry>>
      BY <2>6 DEF Copy, r
    <3>2. [r EXCEPT !.pc = "copied", !.got = keyring] = Onto(r, "copied", r.put, keyring)
      BY <1>1 DEF Calls, Onto
    <3> QED BY <3>1, <3>2
  <2> QED BY <2>1, <2>2, <2>3, <2>4, <2>5, <2>6
<1> DEFINE x == Onto(r, pc, put, got)
<1>5. /\ x \in Calls /\ x.pc = pc /\ x.op = r.op /\ x.id = r.id /\ x.proc = r.proc
      /\ x.quiet = r.quiet /\ x.inside = r.inside /\ x.got = got
  <2>1. pc \in Progress \ {"idle"} /\ put \in Text /\ got \in [KeyID -> Text]
    BY <1>1, <1>2 DEF Progress
  <2> HIDE DEF r, seen, new
  <2> QED BY <1>1, <2>1, Advanced
<1>6. call[c].pc \notin Ending
  BY <1>4 DEF Ending
<1>7. x.pc = "read" => x.got[x.id] = keyring[x.id]
  <2>1. r.id \in KeyID
    BY <1>1, <1>6, Place
  <2> QED BY <1>4, <1>5, <2>1
<1> HIDE DEF x
<1>8. Goes(c, x)
  BY <1>4, <1>5 DEF Goes, x
<1> HIDE DEF seen, new
<1> QED BY <1>4, <1>5, <1>6, <1>7, <1>8, PassStill

LEMMA ListKeeps ==
    ASSUME KeyInv, NEW c \in Call, ListGoesOn(c)
    PROVE  Keeps(c)
<1>1. /\ call[c].op = "list" /\ call[c].pc \notin Ending
      /\ call' = [call EXCEPT ![c] = Ended(c, "done", NoKey)]
  BY DEF ListGoesOn, Ending
<1>2. PICK x : Goes(c, x)
  BY <1>1, EndedGoes DEF NoKey
<1>3. Calm(c) /\ call'[c] = x
  BY <1>1, <1>2, GoesCalm DEF KeyInv
<1>4. ~Hushed'
  BY <1>1, <1>2, <1>3 DEF Hushed, Goes
<1> QED BY <1>3, <1>4 DEF Keeps

LEMMA BodyKeeps ==
    ASSUME KeyInv, NEW c \in Call, Body(c)
    PROVE  Keeps(c)
<1> DEFINE r == call[c]
           text == keyring[call[c].id]
           key == text.key
           new == encode(minted + 1)
           x == Onto(r, "copying", new, r.got)
<1>1. /\ Typed /\ Ordered /\ r \in Calls /\ r.pc = "reading" /\ r.pc \notin Ending
      /\ keyring \in [KeyID -> Text] /\ minted \in Nat
  BY DEF KeyInv, Typed, Body, Ending
<1>2. call[c].id \in KeyID
  BY <1>1, Place
<1>3. key \in Nat /\ keyring = [keyring EXCEPT ![call[c].id] = text]
  BY <1>1, <1>2, TextTypes
<1>4. UNCHANGED <<world, keyring>>
  BY DEF Body
<1>5. CASE /\ call' = [call EXCEPT ![c] = Ended(c, "done", key)]
           /\ entry' = Cached(call[c].proc, call[c].id, key)
  <2> HIDE DEF key
  <2> QED BY <1>1, <1>3, <1>4, <1>5, EndStill DEF key
<1>6. CASE call' = [call EXCEPT ![c] = Ended(c, "failed", NoKey)] /\ entry' = entry
  <2>1. PICK y : Goes(c, y) /\ y.pc = "failed" /\ ~y.inside
    BY <1>1, <1>6, EndedGoes DEF NoKey
  <2> QED BY <1>1, <1>4, <1>6, <2>1, PassStill
<1>7. CASE call' = [call EXCEPT ![c] = x] /\ entry' = entry
  <2>1. new \in Text /\ r.got \in [KeyID -> Text] /\ "copying" \in Progress \ {"idle"}
    <3>1. minted + 1 \in Nat \ {NoKey}
      BY <1>1 DEF NoKey
    <3> QED BY <1>1, <3>1, EncodeType DEF Calls, Progress
  <2> HIDE DEF new
  <2>2. /\ x \in Calls /\ x.pc = "copying" /\ x.op = r.op /\ x.id = r.id /\ x.proc = r.proc
        /\ x.quiet = r.quiet /\ x.inside = r.inside
    BY <1>1, <2>1, Advanced
  <2> HIDE DEF x
  <2>3. Goes(c, x)
    BY <1>7, <2>2 DEF Goes
  <2> QED BY <1>1, <1>4, <1>7, <2>2, <2>3, PassStill
<1>8. \/ /\ call' = [call EXCEPT ![c] = Ended(c, "done", key)]
         /\ entry' = Cached(call[c].proc, call[c].id, key)
      \/ call' = [call EXCEPT ![c] = Ended(c, "failed", NoKey)] /\ entry' = entry
      \/ /\ call' = [call EXCEPT ![c] = [r EXCEPT !.pc = "copying", !.put = new]]
         /\ entry' = entry
  BY DEF Body, Provide, Fail
<1>9. [r EXCEPT !.pc = "copying", !.put = new] = x
  BY <1>1 DEF Calls, Onto
<1> HIDE DEF x, new, r
<1> QED BY <1>5, <1>6, <1>7, <1>8, <1>9

LEMMA PutKeeps ==
    ASSUME KeyInv, NEW c \in Call, Put(c)
    PROVE  Keeps(c)
<1> DEFINE text == call[c].put
           key == text.key
<1>1. /\ Typed /\ Ordered /\ call[c] \in Calls /\ call[c].pc = "copied" /\ call[c].pc \notin Ending
      /\ world' = world /\ keyring' = [call[c].got EXCEPT ![call[c].id] = text]
      /\ entry' = Cached(call[c].proc, call[c].id, key)
      /\ \/ call' = [Stale(c) EXCEPT ![c] = Ended(c, "done", NoKey)]
         \/ call' = [call EXCEPT ![c] = Ended(c, "done", key)]
  BY DEF KeyInv, Typed, Put, Provide, Ending
<1>2. Is("electron") /\ call[c].op # "get" /\ call[c].proc \in world.procs
  BY <1>1, Place DEF Lined, Alone, Reads, Records, Alters, Provision
<1>3. key \in Nat
  BY <1>1, TextTypes DEF Calls
<1>4. Ended(c, "done", NoKey) = Ended(c, "done", key)
  BY <1>2 DEF Ended
<1>5. ASSUME Coupled, Still
      PROVE  /\ keyring' = [keyring EXCEPT ![call[c].id] = text]
             /\ \A d \in Call \ {c} : call[d].pc # "copied"
  <2>1. call[c].got = keyring
    BY <1>1, <1>5 DEF Still, Holds
  <2>2. ASSUME NEW d \in Call \ {c}, call[d].pc = "copied"
        PROVE  FALSE
    <3>1. call[d].proc \in world.procs
      BY <1>1, <2>2, Place DEF Ending
    <3>2. call[d].proc = call[c].proc
      BY <1>2, <1>5, <3>1 DEF Coupled, OneProcess, Is
    <3>3. BusyAlone(c)
      BY <1>1 DEF Ordered, InOrder
    <3> QED BY <1>1, <1>2, <2>2, <3>2, <3>3 DEF BusyAlone, BusyPc
  <2> QED BY <1>1, <2>1, <2>2
<1>6. \/ call' = [call EXCEPT ![c] = Ended(c, "done", key)]
      \/ call' = [Stale(c) EXCEPT ![c] = Ended(c, "done", key)]
  BY <1>1, <1>4
<1>7. Coupled /\ Still =>
          /\ key = text.key /\ keyring' = [keyring EXCEPT ![call[c].id] = text]
          /\ text = keyring[call[c].id] \/ \A d \in Call \ {c} : call[d].pc # "copied"
  BY <1>5
<1> HIDE DEF key, text
<1> QED BY <1>1, <1>3, <1>6, <1>7, EndStill

LEMMA WritesKeeps ==
    ASSUME KeyInv, NEW c \in Call, Write(c) \/ Transact(c)
    PROVE  Keeps(c)
<1> DEFINE r == call[c]
           stored == keyring[call[c].id]
<1>1. /\ Typed /\ Ordered /\ r \in Calls /\ r.pc = "writing" /\ r.pc \notin Ending
      /\ keyring \in [KeyID -> Text] /\ call \in [Call -> Calls]
      /\ entry \in [Proc -> [KeyID -> Entry]]
  BY DEF KeyInv, Typed, Write, Transact, Ending
<1>2. /\ r.proc \in Proc /\ r.id \in KeyID /\ ~Is("electron")
      /\ Foreign(c) \/ r.inside \/ Is("browser")
  BY <1>1, Place DEF Lined, Alone, Reads, Records, Alters, Foreign, Is
<1>3. PICK text \in Text : Writes(c, text)
  <2>1. r.put \in Text /\ stored \in Text
    BY <1>1, <1>2 DEF Calls
  <2> QED BY <2>1 DEF Write, Transact
<1> DEFINE x == Onto(r, "written", text, r.got)
<1>4. /\ x \in Calls /\ x.pc = "written" /\ x.op = r.op /\ x.id = r.id /\ x.proc = r.proc
      /\ x.quiet = r.quiet /\ x.inside = r.inside /\ x.put = text
  <2>1. r.got \in [KeyID -> Text] /\ "written" \in Progress \ {"idle"}
    BY <1>1 DEF Calls, Progress
  <2> HIDE DEF r
  <2> QED BY <1>1, <2>1, Advanced
<1>5. /\ call' = [Stale(c) EXCEPT ![c] = x] /\ UNCHANGED <<world, entry>>
      /\ keyring' = [keyring EXCEPT ![call[c].id] = text]
  <2>1. [r EXCEPT !.pc = "written", !.put = text] = x
    BY <1>1 DEF Calls, Onto
  <2>2. Stale(c) \in [Call -> Calls] /\ Stale(c)[c] = r
    BY <1>1, StaleFields
  <2>3. /\ call' = [Stale(c) EXCEPT ![c].pc = "written", ![c].put = text]
        /\ UNCHANGED <<world, entry>> /\ keyring' = [keyring EXCEPT ![call[c].id] = text]
    BY <1>3 DEF Writes
  <2> HIDE DEF x
  <2>4. [Stale(c) EXCEPT ![c].pc = "written", ![c].put = text] = [Stale(c) EXCEPT ![c] = x]
    BY <2>1, <2>2
  <2> QED BY <2>3, <2>4
<1> HIDE DEF x
<1>6. Goes(c, x)
  BY <1>4, <1>5 DEF Goes
<1>7. Calm(c)
  BY <1>1, <1>6, GoesCalm
<1>8. ASSUME Coupled, Still, Hushed'
      PROVE  Still' /\ Answers(c)
  <2> DEFINE e == entry[call[c].proc][call[c].id]
  <2>1. Puts(call[c].proc, call[c].id, text, e)
    BY <1>1, <1>2, <1>5 DEF Puts
  <2>2. \A d \in Call \ {c} : call[d].pc # "copied"
    BY <1>1, <1>2, Place DEF Lined, Alone, Reads, Records, Alters, Ending
  <2>3. e.encoded = Absent /\ (e.key # NoKey => Caches)
    BY <1>1, <1>8, FindsOwn
  <2>4. r.inside => e.key = NoKey
    BY <1>8 DEF Still, Holds
  <2>5. Is("browser") => ~Caches
    BY DEF Caches, Is
  <2> HIDE DEF e
  <2>6. e.key # NoKey => Caches /\ (e.key = text.key \/ (x.pc = "written" /\ Foreign(c)))
    BY <1>2, <1>4, <2>3, <2>4, <2>5
  <2> QED BY <1>1, <1>4, <1>5, <1>6, <1>8, <2>1, <2>2, <2>3, <2>4, <2>6, StepStill
<1> QED BY <1>7, <1>8 DEF Keeps

LEMMA EntersKeeps ==
    ASSUME KeyInv, NEW c \in Call, Enter(c) \/ Acquire(c)
    PROVE  Keeps(c)
<1> DEFINE r == call[c]
           e == dropCache(entry[call[c].proc][call[c].id])
           x == [call[c] EXCEPT !.inside = TRUE, !.pc = "reading"]
<1>1. /\ Typed /\ Ordered /\ r \in Calls /\ r.pc \in {"queued", "waiting"} /\ r.pc \notin Ending
      /\ keyring \in [KeyID -> Text] /\ call \in [Call -> Calls] /\ Enters(c)
  BY DEF KeyInv, Typed, Enter, Acquire, Turn, Ending
<1>2. r.proc \in Proc /\ r.id \in KeyID
  BY <1>1, Place
<1>3. e \in Entry /\ known(e) = NoKey /\ e.key = NoKey /\ e.encoded = Absent
  <2> DEFINE f == entry[call[c].proc][call[c].id]
  <2>1. f \in Entry
    BY <1>1, <1>2 DEF Typed
  <2>2. [f EXCEPT !.key = NoKey, !.encoded = Absent].key = NoKey
        /\ [f EXCEPT !.key = NoKey, !.encoded = Absent].encoded = Absent
    <3> HIDE DEF f
    <3> QED BY <2>1 DEF Entry
  <2> QED BY <2>1, <2>2, EntryTypes DEF dropCache
<1>4. /\ x \in Calls /\ x.pc = "reading" /\ x.op = r.op /\ x.proc = r.proc
      /\ x.id = r.id /\ x.inside /\ x.quiet = r.quiet
  BY <1>1 DEF Calls, Progress
<1>5. call' = [call EXCEPT ![c] = x]
  <2>1. call' = [call EXCEPT ![c].inside = TRUE,
                       ![c].pc = IF known(e) = NoKey THEN "reading" ELSE "read",
                       ![c].got[call[c].id] = IF known(e) = NoKey THEN @ ELSE encode(known(e))]
    BY <1>1 DEF Enters
  <2>2. [r EXCEPT !.inside = TRUE, !.pc = "reading", !.got[call[c].id] = @] = x
    <3>1. ASSUME NEW g \in [KeyID -> Text] PROVE [g EXCEPT ![call[c].id] = @] = g
      OBVIOUS
    <3> QED BY <1>1, <3>1 DEF Calls
  <2> HIDE DEF e
  <2> QED BY <1>1, <1>3, <2>1, <2>2
<1>6. Puts(call[c].proc, call[c].id, keyring[call[c].id], e) /\ UNCHANGED <<world, keyring>>
  <2>1. entry' = [entry EXCEPT ![call[c].proc][call[c].id] = e] /\ UNCHANGED <<world, keyring>>
    BY <1>1 DEF Enters
  <2> HIDE DEF e
  <2> QED BY <1>1, <1>2, <2>1 DEF Puts
<1> HIDE DEF x, e
<1>7. Goes(c, x)
  BY <1>4, <1>5 DEF Goes
<1>8. Calm(c)
  BY <1>1, <1>7, GoesCalm
<1>9. ASSUME Coupled, Still, Hushed'
      PROVE  Still' /\ Answers(c)
  <2> DEFINE text == keyring[call[c].id]
  <2>1. Puts(call[c].proc, call[c].id, text, e)
    BY <1>6
  <2> HIDE DEF text
  <2> QED BY <1>1, <1>3, <1>4, <1>6, <1>7, <1>9, <2>1, StepStill
<1> QED BY <1>8, <1>9 DEF Keeps

LEMMA StepQuiet ==
    ASSUME KeyInv, NEW c \in Call, Step(c) \/ StorageFails(c)
    PROVE  Keeps(c)
<1>1. CASE Enter(c) \/ Acquire(c)
  BY <1>1, EntersKeeps
<1>2. CASE Timeout(c) \/ RefuseLegacy(c) \/ StorageFails(c)
  BY <1>2, FailKeeps
<1>3. CASE \/ Await(c) \/ Read(c) \/ IdentityGoesOn(c)
           \/ GenerateNode(c) \/ Generate(c) \/ AwaitRandom(c) \/ Copy(c)
  BY <1>3, PassKeeps
<1>4. CASE GetGoesOn(c)
  BY <1>4, GetKeeps
<1>5. CASE ListGoesOn(c)
  BY <1>5, ListKeeps
<1>6. CASE Found(c)
  BY <1>6, FoundKeeps
<1>7. CASE Body(c)
  BY <1>7, BodyKeeps
<1>8. CASE Put(c)
  BY <1>8, PutKeeps
<1>9. CASE Write(c) \/ Transact(c)
  BY <1>9, WritesKeeps
<1>10. CASE WriteGoesOn(c) \/ Provided(c)
  BY <1>10, WrittenKeeps
<1> QED BY <1>1, <1>2, <1>3, <1>4, <1>5, <1>6, <1>7, <1>8, <1>9, <1>10 DEF Step

(* The step of a call keeps QuietInv, and only that call ends in it.       *)
LEMMA KeepsQuiet ==
    ASSUME QuietInv, NEW c \in Call, Calm(c), world' = world,
           Coupled /\ Still /\ Hushed' => Still' /\ Answers(c)
    PROVE  /\ QuietInv'
           /\ \A d \in Call \ {c} : call'[d].pc = call[d].pc
           /\ Coupled /\ Hushed' => Answers(c)
<1>1. Unbegun' /\ (Hushed' => Hushed)
  BY CalmHushed DEF QuietInv
<1>2. Coupled' <=> Coupled
  BY WorldKept DEF Coupled, OneProcess, Is
<1>3. \A d \in Call \ {c} : call'[d].pc = call[d].pc
  BY DEF Calm, Near
<1> QED BY <1>1, <1>2, <1>3 DEF QuietInv

(* A crash empties the entries and fails the calls of its process.         *)
LEMMA CrashQuiet ==
    ASSUME KeyInv, QuietInv, NEW p \in world.procs, Crash(p)
    PROVE  QuietInv' /\ \A c \in Call : call'[c].pc = "done" => call[c].pc = "done"
<1> DEFINE e == NoEntry
<1>1. /\ Typed /\ Ordered /\ p \in Proc /\ entry \in [Proc -> [KeyID -> Entry]]
      /\ UNCHANGED <<world, keyring>> /\ entry' = [entry EXCEPT ![p] = [k \in KeyID |-> e]]
      /\ call' = [c \in Call |-> IF Active(c) /\ call[c].proc = p
                                 THEN Ended(c, "failed", NoKey) ELSE call[c]]
  BY OfProcs DEF KeyInv, Typed, Crash
<1>2. e.encoded = Absent /\ e.key = NoKey
  BY DEF NoEntry
<1> HIDE DEF e
<1>3. ASSUME NEW c \in Call
      PROVE  \/ /\ call'[c].pc = "failed" /\ ~call'[c].inside /\ call[c].pc \notin Ending
                /\ call'[c].op = call[c].op /\ call'[c].quiet = call[c].quiet
             \/ /\ call'[c] = call[c]
                /\ call[c].pc \notin Ending => call[c].proc \in Proc \ {p}
  <2> DEFINE x == Ended(c, "failed", NoKey)
  <2>1. x.pc = "failed" /\ ~x.inside /\ x.op = call[c].op /\ x.quiet = call[c].quiet
    BY DEF Ended, Idle
  <2>2. Active(c) <=> call[c].pc \notin Ending
    BY DEF Active, Ending
  <2>3. call'[c] = IF Active(c) /\ call[c].proc = p THEN x ELSE call[c]
    BY <1>1
  <2>4. call[c].pc \notin Ending => call[c].proc \in Proc
    BY <1>1, Place
  <2> HIDE DEF x
  <2> QED BY <2>1, <2>2, <2>3, <2>4
<1>4. Unbegun' /\ (Hushed' => Hushed)
  BY <1>3 DEF QuietInv, Unbegun, Hushed
<1>5. (Coupled' <=> Coupled) /\ (Caches' <=> Caches)
  BY <1>1, WorldKept DEF Coupled, OneProcess, Caches, Is
<1>6. ASSUME Coupled, Still PROVE Still'
  <2>1. Lone'
    BY <1>3, <1>6 DEF Still, Lone, Ending
  <2>2. ASSUME NEW q \in world.procs, NEW k \in KeyID
        PROVE  Recalls(entry[q][k], k)'
    <3>1. CASE q = p
      <4>1. entry'[q][k] = e
        BY <1>1, <3>1
      <4> QED BY <1>2, <4>1 DEF Recalls
    <3>2. CASE q # p
      <4>1. Recalls(entry[q][k], k) /\ q \in Proc
        BY <1>1, <1>6, OfProcs DEF Still
      <4>2. ~Caches
        BY <1>6, <3>2 DEF Coupled, OneProcess, Caches, Is
      <4>3. entry'[q][k] = entry[q][k]
        BY <1>1, <3>2, <4>1
      <4> QED BY <1>5, <4>1, <4>2, <4>3 DEF Recalls
    <3> QED BY <3>1, <3>2
  <2>3. ASSUME NEW c \in Call PROVE Holds(call[c])'
    <3>1. CASE call'[c].pc \in Ending /\ ~call'[c].inside
      BY <3>1 DEF Holds, Ending
    <3>2. CASE call'[c] = call[c] /\ call[c].pc \in Ending
      <4>1. ~call[c].inside
        BY <1>1, <3>2, InsideAlone DEF Ordered, InOrder
      <4> QED BY <3>2, <4>1 DEF Holds, Ending
    <3>3. CASE call'[c] = call[c] /\ call[c].pc \notin Ending /\ call[c].proc \in Proc \ {p}
      <4>1. Holds(call[c])
        BY <1>6 DEF Still
      <4>2. entry'[call[c].proc] = entry[call[c].proc]
        BY <1>1, <3>3
      <4> QED BY <1>1, <3>3, <4>1, <4>2 DEF Holds
    <3> QED BY <1>3, <3>1, <3>2, <3>3 DEF Ending
  <2> QED BY <1>1, <2>1, <2>2, <2>3 DEF Still
<1> QED BY <1>3, <1>4, <1>5, <1>6 DEF QuietInv

LEMMA SameQuiet ==
    ASSUME QuietInv, UNCHANGED <<world, keyring, entry, call>>
    PROVE  QuietInv'
BY DEF QuietInv, Unbegun, Coupled, OneProcess, Hushed, Still, Lone, Recalls, Caches, Altering,
       Foreign, Holds, Is

LEMMA QuietInit == Init => QuietInv
<1> SUFFICES ASSUME Init PROVE QuietInv
  OBVIOUS
<1> DEFINE i == Idle
           e == NoEntry
<1>1. /\ world \in World /\ call = [c \in Call |-> i]
      /\ entry = [p \in Proc |-> [k \in KeyID |-> e]]
  BY DEF Init
<1>2. i.pc = "idle" /\ ~i.inside /\ i.quiet /\ i.op # "list"
  BY DEF Idle
<1>3. e.encoded = Absent /\ e.key = NoKey
  BY DEF NoEntry
<1>4. world.procs \subseteq Proc
  BY <1>1, StoresAssumption
<1> HIDE DEF i, e
<1>5. \A c \in Call : call[c].pc = "idle" /\ ~call[c].inside /\ call[c].quiet /\ call[c].op # "list"
  BY <1>1, <1>2
<1>6. \A p \in world.procs, k \in KeyID : entry[p][k].encoded = Absent /\ entry[p][k].key = NoKey
  BY <1>1, <1>3, <1>4
<1> QED BY <1>5, <1>6 DEF QuietInv, Unbegun, Still, Lone, Recalls, Holds, Ending

LEMMA WorldStays ==
    ASSUME NEW c \in Call
    PROVE  /\ Step(c) \/ StorageFails(c) => world' = world
           /\ \A p, op, k, ask : Begin(c, p, op, k, ask) => world' = world
<1>1. Step(c) \/ StorageFails(c) => world' = world
  BY DEF Step, StorageFails, Enter, Await, Acquire, Timeout, Read, GetGoesOn, IdentityGoesOn,
         ListGoesOn, Found, GenerateNode, AwaitRandom, Generate, Generates, Body, Copy, Put,
         Write, Transact, Writes, WriteGoesOn, Provided, RefuseLegacy, Enters
<1>2. ASSUME NEW p, NEW op, NEW k, NEW ask, Begin(c, p, op, k, ask)
      PROVE  world' = world
  BY <1>2 DEF Begin, Refused, BeginGetNode, BeginGetElectron, BeginGetBrowser, BeginGetExpo,
         BeginList, Derive, BeginSet, BeginSetElectron, BeginRemove, BeginRemoveElectron,
         ProvideSyncNode, ProvideSyncElectron, ProvideSyncExpo, BeginProvide,
         BeginProvideBrowser, Granted, Begins
<1> QED BY <1>1, <1>2

LEMMA NextQuiet ==
    ASSUME KeyInv, QuietInv, Next
    PROVE  /\ QuietInv'
           /\ \A c \in Call : /\ call[c].pc # "done" /\ call'[c].pc = "done"
                              /\ Coupled /\ Hushed'
                              => Answers(c)
<1>1. CASE \E p \in world.procs : OpenFails(p) \/ \E ask \in world.opens : Open(p, ask)
  <2>1. UNCHANGED <<world, keyring, entry, call>>
    BY <1>1 DEF Open, OpenFails
  <2> QED BY <2>1, SameQuiet
<1>2. CASE \E p \in world.procs : Crash(p)
  BY <1>2, CrashQuiet
<1>3. CASE \E c \in Call, p \in world.procs, op \in Op, k \in world.ids, ask \in world.asks :
               Begin(c, p, op, k, ask)
  <2>1. PICK c \in Call, p \in world.procs, op \in Op, k \in world.ids, ask \in world.asks :
               Begin(c, p, op, k, ask)
    BY <1>3
  <2>2. Calm(c) /\ (Coupled /\ Still /\ Hushed' => Still' /\ Answers(c))
    BY <2>1, BeginQuiet
  <2>3. world' = world
    BY <2>1, WorldStays
  <2> QED BY <2>2, <2>3, KeepsQuiet
<1>4. CASE \E c \in Call : Step(c) \/ StorageFails(c)
  <2>1. PICK c \in Call : Step(c) \/ StorageFails(c)
    BY <1>4
  <2>2. Calm(c) /\ (Coupled /\ Still /\ Hushed' => Still' /\ Answers(c))
    BY <2>1, StepQuiet DEF Keeps
  <2>3. world' = world
    BY <2>1, WorldStays
  <2> QED BY <2>2, <2>3, KeepsQuiet
<1> QED BY <1>1, <1>2, <1>3, <1>4 DEF Next

(* keystore.ts: where no two calls of one key ID overlapped and none       *)
(* listed, in a browser or in the one process that has the store open, a   *)
(* get answers with what is stored, whatever crashed, timed out or failed  *)
(* before it, and however often the entry's cache was filled and dropped.  *)
THEOREM GetsAnswerWhatIsStored == Spec => QuietReads
<1> DEFINE Gets == \A c \in Call :
               /\ call[c].pc # "done" /\ call'[c].pc = "done" /\ call'[c].op = "get"
               /\ Is("browser") \/ OneProcess
               /\ ~Is("hd")
               /\ \A d \in Call : call'[d].quiet /\ call'[d].op # "list"
               => call'[c].ret = keyring'[call'[c].id].key
<1>1. KeyInv /\ QuietInv /\ Next => Gets
  BY NextQuiet DEF Coupled, Hushed, Answers
<1>2. KeyInv /\ QuietInv /\ [Next]_vars => QuietInv'
  <2>1. UNCHANGED vars => UNCHANGED <<world, keyring, entry, call>>
    BY DEF vars
  <2> QED BY <2>1, NextQuiet, SameQuiet
<1>3. KeyInv /\ QuietInv /\ [Next]_vars => [Gets]_vars
  BY <1>1
<1>4. QuietReads <=> [][Gets]_vars
  BY DEF QuietReads
<1> QED BY <1>2, <1>3, <1>4, InitKeyInv, NextKeyInv, QuietInit, PTL DEF Spec
=============================================================================
