----------------------------- MODULE MCSession ------------------------------
(***************************************************************************)
(* VaultSession for model checking: what the callers ask for.              *)
(***************************************************************************)
EXTENDS VaultSession, TLC

CONSTANTS c1, c2, c3

Plain(at) == [kind |-> "plain", at |-> at]
Of(kind) == [kind |-> kind, at |-> 0]

Asks(a, b, c) == c1 :> a @@ c2 :> b @@ c3 :> c

\* Two input-free opens among all that can happen to the key, one beside
\* each other kind of call, three that wait for each other, three PINs under
\* the throttle, and a PIN whose key others use until its time passes.
MCPlan ==
    [ask : {Asks(Plain(0), Plain(0), None), Asks(Plain(1), Plain(1), None)},
     events : {2}, time : {0}]
    \cup
    [ask : {Asks(Plain(0), x, None) :
                x \in {Of("tx"), Of("specific"), Of("status")}}
           \cup {Asks(Plain(0), Plain(0), Plain(0))},
     events : {1}, time : {0}]
    \cup
    [ask : {Asks(Of("wrong"), Of("wrong"), Of("wrong"))},
     events : {0}, time : {3}]
    \cup
    [ask : {Asks(Of("right"), x, None) :
                x \in {Plain(0), Of("wrong"), Of("status")}},
     events : {1}, time : {2}]
=============================================================================
