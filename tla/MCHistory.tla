------------------------------ MODULE MCHistory -----------------------------
(***************************************************************************)
(* What relays serve: prefixes, forks, one reset on two prefixes, padding; *)
(* the epoch of 31 in parts, whole (it then saturates) and with forgeries. *)
(***************************************************************************)
EXTENDS MCLog, ControllerHistory

CONSTANTS s1, s2, f1, f2

MCServed == {
    [chain |-> <<30>>, events |-> {Good(5)}],
    [chain |-> <<30, 31>>, events |-> {}],
    [chain |-> <<30, 31>>, events |-> {Good(1), Good(3)} \cup Forged],
    [chain |-> <<30, 37, 31>>, events |-> {Good(1), Good(5)}],
    [chain |-> <<30, 31>>, events |-> {Good(2), Good(3)}],
    [chain |-> <<30, 32>>, events |-> {}],
    [chain |-> <<30, 31, 34>>, events |-> {Good(2)}],
    [chain |-> <<30, 34, 35>>, events |-> {Good(4)}],
    [chain |-> <<30, 36>>, events |-> {}],
    [chain |-> <<30, 31, 39>>, events |-> {}],
    [chain |-> <<30, 31, 34>>, events |-> MCCopy] }

(* For two resolvers at one store: a reset, no rival, nothing unsigned.     *)
MCServedFew ==
    MCServed \ ({log \in MCServed : log.chain \in {<<30, 36>>, <<30, 31, 39>>}}
                  \cup {[chain |-> <<30, 31, 34>>, events |-> {Good(2)}]})

MCInserted == {log \in MCServed : log.chain \in {<<30>>, <<30, 37, 31>>, <<30, 34, 35>>}}

(* Prefixes, forks, one reset on several prefixes, padded and unsigned     *)
(* chains.                                                                 *)
MCChain == {
    <<30>>, <<30, 31>>, <<30, 31, 33>>, <<30, 32>>, <<30, 31, 39>>, <<31>>,
    <<30, 37>>, <<30, 38, 31>>, <<30, 37, 31>>, <<30, 37, 38>>,
    <<30, 34>>, <<30, 31, 34>>, <<30, 32, 34, 35>>, <<30, 31, 34, 35>>, <<30, 34, 41, 35>>,
    <<30, 36>>, <<30, 34, 40>>, <<30, 36, 35>> }

(* Two resolvers at one store, or one at each of two; and a party that     *)
(* collects chains.                                                        *)
MCWorld == {
    [home |-> [f \in Flight |-> s1], served |-> MCServedFew, inserted |-> MCInserted,
     collected |-> {}],
    [home |-> [f \in Flight |-> IF f = f1 THEN s1 ELSE s2], served |-> MCServed, inserted |-> {},
     collected |-> {}],
    [home |-> [f \in Flight |-> s1], served |-> {}, inserted |-> {}, collected |-> MCChain] }
=============================================================================
