-------------------------- MODULE MCApplyReplicas ---------------------------
(***************************************************************************)
(* Every policy's tie: two ops of one key version (a fork), two branches   *)
(* under one id, two wrappings with one stamp; a newer key version; bob's  *)
(* copy of the first fork; ops damaged, forged or without a version.       *)
(***************************************************************************)
EXTENDS RecordApply, MCRows

CONSTANTS alice, bob

Replicas == <<
    Row("K", 1, <<1, 0>>, 11, alice, "K"),
    Row("K", 2, <<1, 0>>, 12, bob, "K"),
    Needs(Row("b", 1, <<>>, 14, alice, "K"), AnyOf("K", {1, 2, 7, 8})),
    Needs(Row("b", 2, <<>>, 13, bob, "K"), AnyOf("K", {1, 2, 7, 8})),
    Needs(Row("w", 3, <<>>, 15, alice, "K"), AnyOf("K", {7})),
    Flagged(Needs(Row("w", 3, <<>>, 16, bob, "K"), AnyOf("K", {1, 2, 7, 8})), "deleted"),
    Row("K", 1, <<2, 0>>, 10, bob, "K"),
    Row("K", 1, <<1, 0>>, 11, bob, "K"),
    Flagged(Row("w", 4, <<>>, 17, bob, "K"), "damaged"),
    Flagged(Row("K", 4, <<3, 0>>, 18, bob, "K"), "forged"),
    Flagged(Row("K", 4, <<>>, 19, bob, "K"), "unversioned") >>

INSTANCE MCTable WITH Table <- Replicas

OwnPeer == CHOOSE f \in [Session -> Peer] : \A x, y \in Session : f[x] = f[y] => x = y
MCAuthorities == {{alice, bob}}
MCChunk == {<<2, 1>>, <<3, 8, 5>>, <<7, 4>>, <<5, 6, 10>>, <<9, 3, 11>>, <<4, 1, 6>>}

(* The instance is one of those the theorem on dependencies speaks of.     *)
ASSUME InstanceDependencies == DependenciesLast
=============================================================================
