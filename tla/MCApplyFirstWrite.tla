------------------------- MODULE MCApplyFirstWrite --------------------------
(***************************************************************************)
(* A store holding vault keys K and L receives, in two calls, the op that  *)
(* created an entry under K and the op that moved it to L.                 *)
(***************************************************************************)
EXTENDS RecordApply, MCRows

CONSTANT alice

FirstWrites == <<
    Flagged(Row("K", 0, <<1, 0>>, 3, alice, "K"), "seed"),
    Flagged(Row("L", 0, <<1, 0>>, 4, alice, "L"), "seed"),
    Needs(Row("e", 2, <<2, 1>>, 2, alice, "L"), AnyOf("L", {2})),
    Needs(Row("e", 1, <<1, 1>>, 1, alice, "K"), AnyOf("K", {1})) >>

INSTANCE MCTable WITH Table <- FirstWrites

OnePeer == [x \in Session |-> CHOOSE p \in Peer : TRUE]
MCAuthorities == {{alice}}
MCChunk == {<<3>>, <<4>>}
=============================================================================
