------------------------------- MODULE MCPull -------------------------------
(* Instances of RecordPull: leaves of two grades and two signers, and the  *)
(* malformed messages a responder may send.                                *)
EXTENDS RecordPull

CONSTANTS t, ann, ben

Early == [grade |-> 1, signers |-> {ann}]
Late  == [grade |-> 2, signers |-> {ann}]
Other == [grade |-> 1, signers |-> {ben}]

MCSigners == {ann, ben}
MCType == {t}

At(p, leaf) == [key |-> <<t, p>>, leaf |-> leaf]

(* Summaries and lists over any bounds, lists that repeat a key or leave   *)
(* the range they state.                                                   *)
MCForged ==
    LET over == {b \in Stated : b.lower < 3 /\ b.upper \in {1, 2, End}}
        lists == {<<At(2, Late), At(2, Late)>>, <<At(1, Late), At(2, Late)>>,
                  <<At(1, Early), At(2, Late), At(1, Late)>>}
    IN  {[kind |-> "list", bounds |-> b, leaves |-> l] : b \in over, l \in lists}
        \cup {[kind |-> "summary", bounds |-> b, fingerprint |-> {At(2, Late)}, count |-> 1]
                 : b \in over}

(* A transport that reorders and repeats, and a responder that forges; one *)
(* that reorders while either store changes; one that keeps the order.     *)
MCWorld == {
    [mine |-> {Early}, theirs |-> {Late}, ordered |-> FALSE,
     forged |-> MCForged, changes |-> 0, faults |-> 1],
    [mine |-> {Early}, theirs |-> {NoLeaf}, ordered |-> FALSE,
     forged |-> MCForged, changes |-> 0, faults |-> 2],
    [mine |-> {NoLeaf, Early}, theirs |-> {NoLeaf, Late, Other}, ordered |-> FALSE,
     forged |-> {}, changes |-> 1, faults |-> 0],
    [mine |-> {NoLeaf, Late}, theirs |-> {NoLeaf, Early, Late}, ordered |-> TRUE,
     forged |-> {}, changes |-> 1, faults |-> 0] }

=============================================================================
