------------------------------- MODULE MCRows -------------------------------
(***************************************************************************)
(* How the MC modules of RecordApply write an instance: a table of ops, an *)
(* op's name being its row, so that rows are listed in opHash order.       *)
(***************************************************************************)
EXTENDS Naturals

(* One op: where it goes, its order, its digest, its signer, its vault key.*)
Row(key, hlc, version, digest, issuer, lock) ==
    [key |-> key, hlc |-> hlc, version |-> version, digest |-> digest,
     issuer |-> issuer, signer |-> issuer, lock |-> lock, deps |-> {},
     recipients |-> {}, revokes |-> {}, flags |-> {}]

With(row, field, value) == [row EXCEPT ![field] = value]

(* A dependency on a copy of key among ops.                                *)
AnyOf(key, ops) == {[key |-> key, by |-> ops]}

Needs(row, deps) == With(row, "deps", deps)

Flagged(row, flag) == With(row, "flags", {flag})
=============================================================================
