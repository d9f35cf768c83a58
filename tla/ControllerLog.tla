--------------------------- MODULE ControllerLog ----------------------------
(***************************************************************************)
(* A controller's log (@kokuin/controller fold.ts, supersede.ts, log.ts,   *)
(* history.ts): which chains fold, which of several chains is the          *)
(* authoritative one, and what a party makes of a presented log and the    *)
(* log it has seen.                                                        *)
(*                                                                         *)
(* A chain is a sequence of chain events, a log a chain with a set of      *)
(* copies of epoch events.  An event stands for its digest, which covers   *)
(* the whole history behind it, so what a rotate needs to be valid is a    *)
(* matter of the event: Sound.                                             *)
(***************************************************************************)
EXTENDS EpochRules, SequencesExt

CONSTANTS
    Inception,
    GenOf, NumOf,   \* ChainEvent -> the generation and the position it claims
    PrevOf,         \* ChainEvent -> the event it chains to
    Sound,          \* rotates and resets whose signatures and snapshot verify
    Ignorable,      \* events of unknown types that say crit: false
    MAX_SKIPPED_SLACK, MAX_LOG_EVENTS

ASSUME LogAssumption ==
    /\ ChainEvent \subseteq Nat /\ Inception \in ChainEvent
    /\ GenOf \in [ChainEvent -> Nat] /\ NumOf \in [ChainEvent -> Nat]
    /\ PrevOf \in [ChainEvent -> ChainEvent]
    /\ GenOf[Inception] = 0 /\ NumOf[Inception] = 0
    /\ Sound \subseteq ChainEvent \ {Inception}
    /\ Ignorable \subseteq ChainEvent \ (Sound \cup {Inception})
    /\ MAX_SKIPPED_SLACK \in Nat
    /\ MAX_LOG_EVENTS \in Nat /\ MAX_EPOCH_EVENTS < MAX_LOG_EVENTS

NoLog == [chain |-> <<>>, events |-> {}]

-----------------------------------------------------------------------------
(* A fold is the spine, the events that moved the state, and how many were *)
(* skipped.  The spine of a chain that does not fold is empty.             *)
failed == [spine |-> <<>>, skipped |-> 0]

initFold(e) == IF e = Inception THEN [spine |-> <<e>>, skipped |-> 0] ELSE failed

follows(e, prior) ==
    PrevOf[e] = prior /\ GenOf[e] = GenOf[prior] /\ NumOf[e] = NumOf[prior] + 1

(* A reset chains to the inception, whatever it is appended to.            *)
resets(e, prior) == PrevOf[e] = Inception /\ GenOf[e] > GenOf[prior] /\ NumOf[e] = 0

withinSkipBudget(f) == f.skipped + 1 <= Len(f.spine) + MAX_SKIPPED_SLACK

stepEvent(f, e) ==
    IF f = failed THEN failed
    ELSE CASE e \in Sound /\ (follows(e, Last(f.spine)) \/ resets(e, Last(f.spine))) ->
                [f EXCEPT !.spine = Append(f.spine, e)]
           [] e \in Ignorable /\ follows(e, Last(f.spine)) /\ withinSkipBudget(f) ->
                [f EXCEPT !.skipped = f.skipped + 1]
           [] OTHER -> failed

foldChain(chain) ==
    LET upTo[n \in 0..Len(chain)] ==
          CASE n = 0 -> failed
            [] n = 1 -> initFold(chain[1])
            [] OTHER -> stepEvent(upTo[n - 1], chain[n])
    IN  upTo[Len(chain)]

Spine(chain) == foldChain(chain).spine

Folds(chain) == Spine(chain) # <<>>

HeadEvent(chain) == Last(Spine(chain))

-----------------------------------------------------------------------------
(* resolveBranches.  A branch is a chain that folds, with its spine.       *)

(* What is at the given places of a sequence, in its order.                *)
filtered(s, places) ==
    LET upTo[n \in 0..Len(s)] ==
          IF n = 0 THEN <<>>
          ELSE IF n \in places THEN Append(upTo[n - 1], s[n]) ELSE upTo[n - 1]
    IN  upTo[Len(s)]

branchFrom(chain) == [chain |-> chain, spine |-> Spine(chain)]

validBranches(chains) ==
    filtered([i \in DOMAIN chains |-> branchFrom(chains[i])], {i \in DOMAIN chains : Folds(chains[i])})

headState(b) == Last(b.spine)

(* Which of two chains that fold to one head to keep.                      *)
preferred(candidate, incumbent) ==
    IF Len(candidate) # Len(incumbent) THEN Len(candidate) < Len(incumbent)
    ELSE Last(candidate) < Last(incumbent)

keepPreferred(kept, b) ==
    IF \A i \in DOMAIN kept : headState(kept[i]) # headState(b) THEN Append(kept, b)
    ELSE [i \in DOMAIN kept |->
            IF headState(kept[i]) = headState(b) /\ preferred(b.chain, kept[i].chain)
            THEN b ELSE kept[i]]

byHead(valid) ==
    LET kept[n \in 0..Len(valid)] ==
          IF n = 0 THEN <<>> ELSE keepPreferred(kept[n - 1], valid[n])
    IN  kept[Len(valid)]

topGen(branches) == Max({GenOf[headState(branches[i])] : i \in DOMAIN branches})

(* Mutant: spines are compared from the inception on.                      *)
trimmedNot(spine, gen) == spine

(* The spine from the generation's first event on.                         *)
trimmed(spine, gen) ==
    SubSeq(spine, Min({i \in DOMAIN spine : GenOf[spine[i]] = gen}), Len(spine))

(* The branches of one generation, each with the part that is compared.    *)
contestants(branches, gen) ==
    LET top == filtered(branches, {i \in DOMAIN branches : GenOf[headState(branches[i])] = gen})
    IN  [i \in DOMAIN top |-> [branch |-> top[i], line |-> trimmed(top[i].spine, gen)]]

commonSpine(a, b) ==
    Max({n \in 0..Len(a) : n <= Len(b) /\ SubSeq(a, 1, n) = SubSeq(b, 1, n)})

(* Mutant: only the first two of a group are compared.                     *)
divergencePairwise(group) ==
    commonSpine(group[1].line, group[IF Len(group) = 1 THEN 1 ELSE 2].line)

(* Where a group first disagrees, against the first of it.                 *)
divergence(group) ==
    Min({Len(group[1].line)} \cup {commonSpine(group[1].line, group[i].line) : i \in DOMAIN group})

beyond(group, point) == filtered(group, {i \in DOMAIN group : Len(group[i].line) > point})

narrowedTo(group, extended) == IF Len(group) = 1 \/ extended = <<>> THEN group ELSE extended

(* The loop of resolveContenders: drop what the others extend.             *)
resolveContenders(contenders) ==
    LET group[n \in 0..Len(contenders)] ==
          IF n = 0 THEN contenders
          ELSE narrowedTo(group[n - 1], beyond(group[n - 1], divergence(group[n - 1])))
    IN  group[Len(contenders)]

smallestTwo(events) == {e \in events : Cardinality({d \in events : d < e}) < 2}

conflicting(group, point) == smallestTwo({c.line[point + 1] : c \in Range(group)})

lost(loser, winner) == Cardinality(Range(loser.spine) \ Range(winner.spine))

concluded(group, distinct) ==
    IF Len(group) = 1
    THEN [winner |-> group[1].branch.chain, fork |-> {},
          superseded |-> MapThenSumSet(LAMBDA b : lost(b, group[1].branch), Range(distinct))]
    ELSE [winner |-> <<>>, fork |-> conflicting(group, divergence(group)), superseded |-> 0]

selectWinner(distinct) ==
    IF distinct = <<>> THEN [winner |-> <<>>, fork |-> {}, superseded |-> 0]
    ELSE concluded(resolveContenders(contestants(distinct, topGen(distinct))), distinct)

resolveBranches(chains) == selectWinner(byHead(validBranches(chains)))

-----------------------------------------------------------------------------
(* Logs.                                                                   *)

(* A fold of a log, as a resolver answers from it.                         *)
viewOf(spine, applied) ==
    [chain |-> spine, applied |-> applied, saturated |-> Saturates(applied),
     state |-> HeadOf(Last(spine), applied)]

View(chain, trusted, shown) == viewOf(Spine(chain), Applies(HeadEvent(chain), trusted, shown))

(* The loaded chain passes through the head of the one seen.               *)
passesThrough(chain, seen) == HeadEvent(seen) \in Range(Spine(chain))

(* Mutant: what was seen of the epoch is not folded in.                    *)
trustedNothing(seen) == {}

trusted(seen) == seen.events

(* What resolveBranches says of a chain against the one seen.              *)
authority(resolved, chain) ==
    CASE resolved.fork # {} -> "forked"
      [] resolved.fork = {} /\ HeadEvent(resolved.winner) # HeadEvent(chain) -> "not authoritative"
      [] OTHER -> "ok"

standing(loaded, seen) ==
    IF seen = NoLog \/ passesThrough(loaded.chain, seen.chain) THEN "ok"
    ELSE authority(resolveBranches(<<seen.chain, loaded.chain>>), loaded.chain)

(* authoritativeLog, without what it remembers.  A stored chain always     *)
(* folds here: the store is written only with what this returned.          *)
verdict(loaded, seen) ==
    CASE Cardinality(loaded.events) > MAX_LOG_EVENTS -> "too large"
      [] ~Folds(loaded.chain) -> "invalid"
      [] OTHER ->
           LET stands == standing(loaded, seen)
           IN  IF stands # "ok" THEN stands
               ELSE IF Failing(HeadEvent(loaded.chain), trusted(seen), loaded.events)
                          > MAX_FAILED_SIGNATURES THEN "too many failed" ELSE "ok"

authoritativeLog(loaded, seen) ==
    [log |-> [chain |-> loaded.chain,
              events |-> Remembered(HeadEvent(loaded.chain), trusted(seen), loaded.events)],
     result |-> View(loaded.chain, trusted(seen), loaded.events)]

(* Mutant: the whole of the last generation's chain is kept, skipped       *)
(* events too, but not the inception.                                      *)
prunedChainHeadless(chain) ==
    LET gen == GenOf[HeadEvent(chain)] IN SelectSeq(chain, LAMBDA e : GenOf[e] = gen)

prunedChain(chain) ==
    LET gen == GenOf[HeadEvent(chain)]
        rest == Tail(Spine(chain))
    IN  <<Inception>> \o filtered(rest, {i \in DOMAIN rest : GenOf[rest[i]] = gen})

(* pruneLog of a log that folds: nothing in it is trusted.                 *)
pruneLog(log) ==
    [chain |-> prunedChain(log.chain), events |-> Remembered(HeadEvent(log.chain), {}, log.events)]

(* mergeLogs: NoLog when it throws.                                        *)
settledChain(a, b) ==
    IF Folds(a) /\ Folds(b) /\ passesThrough(b, a) THEN b ELSE resolveBranches(<<a, b>>).winner

mergeLogs(left, right) ==
    LET chain == settledChain(left.chain, right.chain)
    IN  IF chain = <<>> THEN NoLog
        ELSE [chain |-> chain, events |-> left.events \cup right.events]
=============================================================================
