---------------------------- MODULE MCApplyMoves ----------------------------
(***************************************************************************)
(* An entry held under vault key K (op 3), moved to L and back by others;  *)
(* bob re-signs alice's move with the same content, twice with one key and *)
(* once with another; an entry op a hook refuses (op 6), and one that      *)
(* needs a version of K nobody sends (op 7).                               *)
(***************************************************************************)
EXTENDS RecordApply, MCRows, TLC

CONSTANTS alice, bob

Moves == <<
    Row("e", 2, <<2, 1>>, 2, alice, "L"),
    Row("e", 3, <<3, 1>>, 3, alice, "K"),
    Flagged(Row("e", 1, <<1, 1>>, 1, alice, "K"), "seed"),
    Row("e", 2, <<2, 1>>, 2, bob, "L"),
    With(Row("e", 2, <<2, 1>>, 2, bob, "L"), "signer", "bob-2"),
    Flagged(Row("e", 4, <<4, 1>>, 4, alice, "K"), "refused"),
    Needs(Row("e", 5, <<5, 2>>, 5, alice, "K"), AnyOf("K", {})),
    Flagged(Row("K", 0, <<1, 0>>, 6, alice, "K"), "seed"),
    Row("e", 2, <<2, 1>>, 2, bob, "L") >>

INSTANCE MCTable WITH Table <- Moves

OnePeer == [x \in Session |-> CHOOSE p \in Peer : TRUE]
MCAuthorities == {{alice, bob}, {alice}}
MCChunk == {<<1>>, <<2>>, <<9, 5, 4>>, <<6, 6>>, <<7, 5>>}
Sessions == Permutations(Session)

(* The instance is one of those the theorem on dependencies speaks of.     *)
ASSUME InstanceDependencies == DependenciesLast
=============================================================================
