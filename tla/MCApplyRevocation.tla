------------------------- MODULE MCApplyRevocation --------------------------
(***************************************************************************)
(* One vault key K, a wrapping of it for dave and dave's revocation; a     *)
(* later wrapping under the same id, for nobody and from the future; an    *)
(* entry whose hook refuses its content, and one for version 2 of K.       *)
(***************************************************************************)
EXTENDS RecordApply, MCRows

CONSTANTS alice, bob

Revocation == <<
    Row("K", 1, <<1, 0>>, 1, alice, "K"),
    With(Needs(Row("w", 2, <<>>, 2, bob, "K"), AnyOf("K", {1, 7})), "recipients", {"dave"}),
    With(Needs(Row("r", 1, <<>>, 3, alice, "K"), AnyOf("K", {1, 7})), "revokes", {"dave"}),
    Needs(Row("w", 4, <<>>, 4, bob, "K"), AnyOf("K", {1, 7})),
    Flagged(Needs(Row("e", 1, <<1, 1>>, 5, bob, "K"), AnyOf("K", {1, 7})), "refused"),
    Needs(Row("e", 2, <<2, 2>>, 6, alice, "K"), AnyOf("K", {7})),
    Row("K", 2, <<2, 0>>, 7, alice, "K") >>

INSTANCE MCTable WITH Table <- Revocation

OnePeer == [x \in Session |-> CHOOSE p \in Peer : TRUE]
MCAuthorities == {{alice, bob}}
MCChunk == {<<1, 2>>, <<3, 1>>, <<4, 2>>, <<6, 5, 1>>, <<5, 5, 7>>, <<2, 3>>, <<6>>}

(* The instance is one of those the theorem on dependencies speaks of.     *)
ASSUME InstanceDependencies == DependenciesLast
=============================================================================
