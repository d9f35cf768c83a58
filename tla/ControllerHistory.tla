------------------------- MODULE ControllerHistory --------------------------
(***************************************************************************)
(* Resolvers over log stores: @kokuin/controller resolver.ts, history.ts,  *)
(* fold-memo.ts and the SQL store of store-controller/api.ts, for one DID. *)
(*                                                                         *)
(* A flight is one resolution.  It loads a log, from a relay, from another *)
(* party that pruned what it holds, or merged by its caller with what its  *)
(* own store held a moment ago; waits its turn at the store; reads what    *)
(* was seen; settles the two; writes.  The memo of settled folds belongs   *)
(* to the process and is shared by all stores.  A party may also collect   *)
(* chains and resolve the branches itself.                                 *)
(***************************************************************************)
EXTENDS ControllerBranches

CONSTANTS
    Store, Flight,
    World,          \* what surrounds the resolvers, see HistoryAssumption
    FOLD_MEMO_SIZE,
    MaxLoads        \* bound on resolutions

ASSUME HistoryAssumption ==
    /\ \A w \in World :
         /\ w.home \in [Flight -> Store]     \* the store a flight's resolver is given
         /\ w.served \subseteq [chain : Seq(ChainEvent), events : SUBSET Copy]  \* by a relay
         /\ w.inserted \subseteq w.served    \* by a writer without the key lock
         /\ w.collected \subseteq Seq(ChainEvent)  \* chains presented to resolveBranches
    /\ FOLD_MEMO_SIZE \in Nat \ {0} /\ MaxLoads \in Nat

VARIABLES
    world,
    logs,       \* store -> the log it holds, or NoLog
    queue,      \* store -> the flights in its merge, the first one running
    flight,     \* flight -> [phase, loaded, seen, settled]
    memo,       \* settled folds, the least recently used first
    told,       \* store -> the last answer a resolver gave from it
    loads       \* resolutions so far

vars == <<world, presented, logs, queue, flight, memo, told, loads>>

Home(f) == world.home[f]

NoView == [chain |-> <<>>, applied |-> {}, saturated |-> FALSE, state |-> emptyState]
NotSettled == [log |-> NoLog, result |-> NoView]
Idle == [phase |-> "idle", loaded |-> NoLog, seen |-> NoLog, settled |-> NotSettled]

Init ==
    /\ world \in World
    /\ presented = <<>>
    /\ logs = [s \in Store |-> NoLog]
    /\ queue = [s \in Store |-> <<>>]
    /\ flight = [f \in Flight |-> Idle]
    /\ memo = <<>>
    /\ told = [s \in Store |-> NoView]
    /\ loads = 0

-----------------------------------------------------------------------------
(* loadLog answered: the flight queues up at its store.                    *)
Enqueue(f, log) ==
    /\ flight' = [flight EXCEPT ![f].phase = "wait", ![f].loaded = log]
    /\ queue' = [queue EXCEPT ![Home(f)] = Append(@, f)]

Load(f, log) ==
    /\ flight[f].phase = "idle" /\ loads < MaxLoads
    /\ loads' = loads + 1
    /\ Enqueue(f, log)
    /\ UNCHANGED <<world, presented, logs, memo, told>>

LoadServed(f) == \E log \in world.served : Load(f, log)

LoadForwarded(f) == \E s \in Store : logs[s] # NoLog /\ Load(f, pruneLog(logs[s]))

(* A caller that merges what it was handed into what it holds: get, and    *)
(* later mergeLogs.                                                        *)
Get(f) ==
    /\ flight[f].phase = "idle" /\ loads < MaxLoads
    /\ logs[Home(f)] # NoLog
    /\ loads' = loads + 1
    /\ flight' = [flight EXCEPT ![f].phase = "got", ![f].loaded = logs[Home(f)]]
    /\ UNCHANGED <<world, presented, logs, queue, memo, told>>

LoadMerged(f) ==
    /\ flight[f].phase = "got"
    /\ \E log \in world.served :
         LET merged == mergeLogs(flight[f].loaded, log)
         IN  IF merged = NoLog
             THEN flight' = [flight EXCEPT ![f] = Idle] /\ UNCHANGED queue
             ELSE Enqueue(f, merged)
    /\ UNCHANGED <<world, presented, logs, memo, told, loads>>

-----------------------------------------------------------------------------
(* LogStore.merge.                                                         *)

(* Mutant: a flight that ends keeps its place in the queue.                *)
LeaveWedged(f) ==
    /\ flight' = [flight EXCEPT ![f] = Idle]
    /\ UNCHANGED queue

(* The turn goes to the next flight, whether this one failed or not.       *)
Leave(f) ==
    /\ flight' = [flight EXCEPT ![f] = Idle]
    /\ queue' = [queue EXCEPT ![Home(f)] = Tail(@)]

Read(f) ==
    LET s == Home(f)
    IN  /\ flight[f].phase = "wait" /\ Head(queue[s]) = f
        /\ flight' = [flight EXCEPT ![f].phase = "fold", ![f].seen = logs[s]]
        /\ UNCHANGED <<world, presented, logs, queue, memo, told, loads>>

memoKey(f) == [loaded |-> flight[f].loaded, seen |-> flight[f].seen]

(* Mutant: the memo answers for a loaded log, whatever was seen.           *)
knownLoaded(f) == {i \in DOMAIN memo : memo[i].key.loaded = flight[f].loaded}

known(f) == {i \in DOMAIN memo : memo[i].key = memoKey(f)}

(* memoizedAuthoritativeLog on a hit: the entry becomes the latest used.   *)
Recall(f) ==
    /\ flight[f].phase = "fold"
    /\ \E i \in known(f) :
         /\ memo' = Append(RemoveAt(memo, i), memo[i])
         /\ flight' = [flight EXCEPT ![f].phase = "write", ![f].settled = memo[i].settled]
    /\ UNCHANGED <<world, presented, logs, queue, told, loads>>

Evicted(entries) == IF Len(entries) > FOLD_MEMO_SIZE THEN Tail(entries) ELSE entries

Settle(f) ==
    LET settled == authoritativeLog(flight[f].loaded, flight[f].seen)
    IN  /\ flight[f].phase = "fold" /\ known(f) = {}
        /\ verdict(flight[f].loaded, flight[f].seen) = "ok"
        /\ memo' = Evicted(Append(memo, [key |-> memoKey(f), settled |-> settled]))
        /\ flight' = [flight EXCEPT ![f].phase = "write", ![f].settled = settled]
        /\ UNCHANGED <<world, presented, logs, queue, told, loads>>

(* Only successes are remembered; a refusal writes nothing.                *)
Refuse(f) ==
    /\ flight[f].phase = "fold" /\ known(f) = {}
    /\ verdict(flight[f].loaded, flight[f].seen) # "ok"
    /\ Leave(f)
    /\ UNCHANGED <<world, presented, logs, memo, told, loads>>

(* Mutant: a first insert that lost is written all the same.               *)
insertLostNever(f) == FALSE

(* The row was absent when read and is there now.                          *)
insertLost(f) == flight[f].seen = NoLog /\ logs[Home(f)] # NoLog

Write(f) ==
    /\ flight[f].phase = "write" /\ ~insertLost(f)
    /\ logs' = [logs EXCEPT ![Home(f)] = flight[f].settled.log]
    /\ told' = [told EXCEPT ![Home(f)] = flight[f].settled.result]
    /\ Leave(f)
    /\ UNCHANGED <<world, presented, memo, loads>>

(* The insert did nothing: the row is read and the update runs again.      *)
ReadRaced(f) ==
    /\ flight[f].phase = "write" /\ insertLost(f)
    /\ flight' = [flight EXCEPT ![f].phase = "fold", ![f].seen = logs[Home(f)],
                                ![f].settled = NotSettled]
    /\ UNCHANGED <<world, presented, logs, queue, memo, told, loads>>

(* A first insert by a writer that does not hold the key lock.             *)
InsertUnlocked(s) ==
    /\ logs[s] = NoLog
    /\ \E log \in world.inserted :
         /\ verdict(log, NoLog) = "ok"
         /\ logs' = [logs EXCEPT ![s] = authoritativeLog(log, NoLog).log]
    /\ UNCHANGED <<world, presented, queue, flight, memo, told, loads>>

(* A provider or the database failed: the transaction rolls back.          *)
Fail(f) ==
    /\ flight[f].phase \in {"fold", "write"}
    /\ Leave(f)
    /\ UNCHANGED <<world, presented, logs, memo, told, loads>>

(* The process ends; the tables stay.                                      *)
Restart ==
    /\ \E f \in Flight : flight[f].phase # "idle"
    /\ flight' = [f \in Flight |-> Idle]
    /\ queue' = [s \in Store |-> <<>>]
    /\ memo' = <<>>
    /\ UNCHANGED <<world, presented, logs, told, loads>>

Collect ==
    /\ \E chain \in world.collected : Present(chain)
    /\ UNCHANGED <<world, logs, queue, flight, memo, told, loads>>

Resolve(f) == Read(f) \/ Recall(f) \/ Settle(f) \/ Refuse(f) \/ Write(f) \/ ReadRaced(f)

Next ==
    \/ \E f \in Flight :
         LoadServed(f) \/ LoadForwarded(f) \/ Get(f) \/ LoadMerged(f) \/ Resolve(f) \/ Fail(f)
    \/ \E s \in Range(world.home) : InsertUnlocked(s)
    \/ Restart
    \/ Collect

Spec == Init /\ [][Next]_vars

(* Resolve(f) is enabled: every flight past its load has a step to take,   *)
(* once it is its turn.                                                    *)
CanResolve(f) ==
    \/ flight[f].phase \in {"fold", "write"}
    \/ flight[f].phase = "wait" /\ Head(queue[Home(f)]) = f

(* Weak fairness of Resolve(f), spelt out: promises settle.                *)
FairSpec == Spec /\ \A f \in Flight : ([]<>(~CanResolve(f)) \/ []<><<Resolve(f)>>_vars)

-----------------------------------------------------------------------------
Log == [chain : Seq(ChainEvent), events : SUBSET Copy]
ViewType == [chain : Seq(ChainEvent), applied : SUBSET Event, saturated : BOOLEAN,
             state : EpochState]
Settled == [log : Log, result : ViewType]

(* The variables keep their types, and a flight is queued exactly while it *)
(* waits for the store or runs in its merge.                               *)
TypeOK ==
    /\ world \in World
    /\ presented \in Seq(world.collected)
    /\ logs \in [Store -> Log]
    /\ queue \in [Store -> Seq(Flight)]
    /\ flight \in [Flight -> [phase : {"idle", "got", "wait", "fold", "write"},
                              loaded : Log, seen : Log, settled : Settled]]
    /\ memo \in Seq([key : [loaded : Log, seen : Log], settled : Settled])
    /\ Len(memo) <= FOLD_MEMO_SIZE
    /\ told \in [Store -> ViewType]
    /\ loads \in 0..MaxLoads
    /\ \A s \in Store : IsInjective(queue[s])
    /\ \A f \in Flight : \A s \in Store :
         f \in Range(queue[s]) <=> s = Home(f) /\ flight[f].phase \in {"wait", "fold", "write"}

(* What a store holds folds, is remembered of one epoch, passes the        *)
(* request limit "when forwarded", and prunes to a log that folds to the   *)
(* same head and the same events: "the least of a log that still folds".   *)
StoresForwardable ==
    \A s \in Store : logs[s] # NoLog =>
        LET log == logs[s]
            pruned == pruneLog(log)
        IN  /\ Folds(log.chain) /\ verdict(pruned, NoLog) = "ok" /\ verdict(log, NoLog) = "ok"
            /\ authoritativeLog(log, NoLog).log = log
            /\ HeadEvent(pruned.chain) = HeadEvent(log.chain)
            /\ pruned.events = log.events
            /\ pruneLog(pruned) = pruned

(* "the store never moves backwards": a chain is replaced by one that goes *)
(* through its head, or by one of a higher generation; and on one head     *)
(* "the current epoch's events are never forgotten, only added to", unless *)
(* the epoch saturates, and then it stays so until a settlement.           *)
NoRollback ==
    [][\A s \in Store : logs[s] # NoLog =>
         /\ logs'[s] # NoLog
         /\ \/ HeadEvent(logs[s].chain) \in Range(Spine(logs'[s].chain))
            \/ GenOf[HeadEvent(logs'[s].chain)] > GenOf[HeadEvent(logs[s].chain)]
         /\ HeadEvent(logs'[s].chain) = HeadEvent(logs[s].chain) =>
             \/ Saturates(logs'[s].events)
             \/ logs[s].events \subseteq logs'[s].events /\ ~Saturates(logs[s].events)]_vars

(* An answer is that of the log the store holds when it is given, whichever *)
(* update ran last, and on one head no later answer lacks a denial, a       *)
(* removal or an event that an earlier one had.                             *)
AnswersStand ==
    [][\A s \in Store : told'[s] # told[s] =>
         LET now == told'[s]
             held == View(logs'[s].chain, logs'[s].events, {})
         IN  /\ now.chain = held.chain /\ now.saturated = held.saturated
             /\ ~now.saturated => now = held
             /\ told[s].chain # <<>> /\ Last(now.chain) = Last(told[s].chain) =>
                  \/ now.saturated
                  \/ /\ told[s].applied \subseteq now.applied /\ ~told[s].saturated
                     /\ told[s].state.deny \subseteq now.state.deny]_vars

(* LOG_FORKED is refused "outright" exactly when the two logs hold two     *)
(* sound events for one place of the highest generation either reaches;    *)
(* one reset on two different prefixes is not a fork.                      *)
ForksAreReal ==
    \A f \in Flight : flight[f].phase = "fold" =>
        LET seen == flight[f].seen
            loaded == flight[f].loaded
            top(chain) == {e \in Range(Spine(chain)) : GenOf[e] = GenOf[HeadEvent(chain)]}
        IN  seen # NoLog /\ Folds(loaded.chain) /\ ~(Cardinality(loaded.events) > MAX_LOG_EVENTS) =>
              (verdict(loaded, seen) = "forked" <=>
                 \E d \in top(seen.chain), e \in top(loaded.chain) :
                     d # e /\ GenOf[d] = GenOf[e] /\ NumOf[d] = NumOf[e])

(* A resolution that has loaded its log ends: a failed update does not     *)
(* wedge the queue, and a lost insert is retried once.                     *)
ResolutionsSettle ==
    \A f \in Flight : flight[f].phase \in {"wait", "fold", "write"} ~> flight[f].phase = "idle"
=============================================================================
