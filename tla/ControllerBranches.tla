------------------------- MODULE ControllerBranches -------------------------
(***************************************************************************)
(* resolveBranches of @kokuin/controller (supersede.ts) for a party that   *)
(* collects chains one after another, against what the branch rules say    *)
(* of a set of histories.                                                  *)
(***************************************************************************)
EXTENDS ControllerLog

CONSTANT MaxChains   \* bound on chains presented

ASSUME BranchesAssumption == MaxChains \in Nat

VARIABLE presented  \* the chains, in order of arrival

Present(chain) ==
    /\ Len(presented) < MaxChains
    /\ presented' = Append(presented, chain)

-----------------------------------------------------------------------------
Valid == {c \in Range(presented) : Folds(c)}

(* The spines of the highest generation any chain reaches, from that       *)
(* generation's first event on.                                            *)
TopSpines ==
    LET gen == Max({GenOf[HeadEvent(c)] : c \in Valid})
        fromGen(spine) == filtered(spine, {i \in DOMAIN spine : GenOf[spine[i]] = gen})
    IN  {fromGen(Spine(c)) : c \in {d \in Valid : GenOf[HeadEvent(d)] = gen}}

Conflict(s, t) == ~IsPrefix(s, t) /\ ~IsPrefix(t, s)

(* Rules 1 and 2 of resolveBranches: the highest generation wins, within   *)
(* it a history that every other one is a prefix of; two histories that    *)
(* contradict each other are duplicity, and nothing else is.               *)
WinnerByRules ==
    Valid # {} =>
        LET result == resolveBranches(presented)
        IN  IF \E s, t \in TopSpines : Conflict(s, t)
            THEN /\ result.winner = <<>>
                 /\ Cardinality(result.fork) = 2
                 /\ \A d, e \in result.fork :
                       NumOf[d] = NumOf[e] /\ GenOf[d] = GenOf[e] /\ PrevOf[d] = PrevOf[e]
            ELSE /\ result.winner \in Valid
                 /\ \A s \in TopSpines : \E n \in 0..Len(Spine(result.winner)) :
                       IsPrefix(s, SubSeq(Spine(result.winner), n + 1, Len(Spine(result.winner))))
=============================================================================
