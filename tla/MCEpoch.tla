------------------------------- MODULE MCEpoch ------------------------------
(***************************************************************************)
(* An epoch with two founders, ada and bea.  Root adds a device (5); ada   *)
(* renews it, bea removes it, it signs a revoke after either; ada denies   *)
(* its key without having seen the add; root adds the key again after the  *)
(* removal, and the new incarnation tries to renew the old.  Event 12 is   *)
(* of the epoch before, 13 pins a root key, 15 names another profile.      *)
(* Rows are in digest order: children often sort before their parents.     *)
(***************************************************************************)
EXTENDS EpochFold

ada == 21
bea == 22

Row(kind, by, parents, height, names, lease_, denies) ==
    [kind |-> kind, by |-> by, parents |-> parents, height |-> height,
     names |-> names, lease |-> lease_, denies |-> denies]

Table == <<
    Row("rev", 5, {2, 3}, 3, 5, 0, "did:eve"),
    Row("ren", ada, {5}, 2, 5, 7, "did:eve"),
    Row("rmv", bea, {5}, 2, 5, 0, "did:eve"),
    Row("rev", 5, {2}, 3, 5, 0, "did:fay"),
    Row("add", Root, {32}, 1, 5, 4, "did:eve"),
    Row("rev", ada, {32}, 1, ada, 0, "did:dev"),
    Row("add", Root, {3}, 3, 7, 4, "did:eve"),
    Row("ren", 7, {7, 4}, 4, 5, 9, "did:eve"),
    Row("rev", Root, {6, 7}, 4, 5, 0, "#root"),
    Row("rmv", ada, {12, 5}, 2, 5, 0, "did:eve"),
    Row("add", Root, {5}, 2, 11, 4, "did:eve"),
    Row("rev", Root, {31}, 1, 5, 0, "did:eve"),
    Row("add", Root, {32}, 1, 13, 4, "did:eve"),
    Row("rev", 13, {13, 2}, 3, 5, 0, "did:eve"),
    Row("rev", Root, {32}, 1, 5, 0, "did:eve") >>

MCEvent == DOMAIN Table
MCKind == [e \in MCEvent |-> Table[e].kind]
MCBy == [e \in MCEvent |-> Table[e].by]
MCEpochOf == [e \in MCEvent |-> IF e = 12 THEN 31 ELSE 32]
MCParents == [e \in MCEvent |-> Table[e].parents]
MCHeight == [e \in MCEvent |-> Table[e].height]
MCNames == [e \in MCEvent |-> Table[e].names]
MCDenies == [e \in MCEvent |-> Table[e].denies]
MCFounder == {ada, bea}
MCLeaseOf == [i \in Incarnation |-> IF i \in MCEvent THEN Table[i].lease ELSE 3]
MCPin == [i \in Incarnation |-> CASE i = ada -> "ada" [] i = bea -> "bea"
                                   [] i = 13 -> "root" [] OTHER -> "dev"]
MCDIDOf == [i \in Incarnation |-> CASE i = ada -> "did:ada" [] i = bea -> "did:bea"
                                     [] i = 13 -> "did:root" [] OTHER -> "did:dev:long"]
MCKeyTarget == [k \in Key |-> "#" \o k]
MCCanonical == [d \in DID |-> IF d = "did:dev:long" THEN "did:dev" ELSE d]
MCCarried == [d \in DID |-> CASE d = "did:ada" -> {"ada"} [] d = "did:bea" -> {"bea"}
                               [] d = "did:root" -> {"root"} [] d = "did:dev:long" -> {"dev"}
                               [] OTHER -> {}]
MCMembersAt == [c \in ChainEvent |-> IF c = 32 THEN {ada, bea} ELSE {}]
MCRootKey == [c \in ChainEvent |-> {"root"}]
MCPublished == [c \in ChainEvent |-> {"root"}]
MCDenyAt == [c \in ChainEvent |-> {}]

Good(e) == [event |-> e, rank |-> 2, charge |-> 1]
Bad(e, rank) == [event |-> e, rank |-> rank, charge |-> 1]

MCGenuine == {Good(e) : e \in MCEvent}
Forged == {Bad(5, 1), Bad(2, 3), Bad(6, 1), Bad(4, 1)}
MCCopy == MCGenuine \cup Forged

(* Small presentations, and those that withhold little.                    *)
MCPresentation ==
    {S \in SUBSET MCCopy : Cardinality(S) <= 2}
    \cup {MCGenuine \ {Good(e), Good(d)} : e, d \in MCEvent}
    \cup {MCCopy \ {Good(e)} : e \in MCEvent}
    \cup {Forged, MCCopy}
=============================================================================
