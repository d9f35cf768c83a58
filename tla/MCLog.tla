------------------------------- MODULE MCLog --------------------------------
(***************************************************************************)
(* One controller's events.  Generation 0: the inception 30, the rotate 31 *)
(* and after it 33, a rotate 32 that forks from 31, a rotate 39 nobody     *)
(* signed, and events 37 and 38 of types this version does not know.       *)
(* Generation 1: the reset 34, the rotate 35, a rival reset 36, and 41 of  *)
(* an unknown type.  Generation 2: the reset 40.                           *)
(*                                                                         *)
(* In the epoch of 31 root denies eve (1) and adds a device (2), which     *)
(* denies fay (3); in that of 35 root denies eve (4), in that of the       *)
(* inception fay (5).  Two copies of 1 are forged.                         *)
(***************************************************************************)
EXTENDS ControllerLog

ChainRow(e) ==
    CASE e = 30 -> <<0, 0, 30>> [] e = 31 -> <<0, 1, 30>> [] e = 32 -> <<0, 1, 30>>
      [] e = 33 -> <<0, 2, 31>> [] e = 34 -> <<1, 0, 30>> [] e = 35 -> <<1, 1, 34>>
      [] e = 36 -> <<1, 0, 30>> [] e = 37 -> <<0, 1, 30>> [] e = 38 -> <<0, 1, 30>>
      [] e = 39 -> <<0, 2, 31>> [] e = 40 -> <<2, 0, 30>> [] e = 41 -> <<1, 1, 34>>

MCChainEvent == 30..41
MCGenOf == [e \in MCChainEvent |-> ChainRow(e)[1]]
MCNumOf == [e \in MCChainEvent |-> ChainRow(e)[2]]
MCPrevOf == [e \in MCChainEvent |-> ChainRow(e)[3]]

MCEvent == 1..5
MCKind == [e \in MCEvent |-> IF e = 2 THEN "add" ELSE "rev"]
MCBy == [e \in MCEvent |-> IF e = 3 THEN 2 ELSE Root]
MCEpochOf == [e \in MCEvent |-> CASE e = 4 -> 35 [] e = 5 -> 30 [] OTHER -> 31]
MCParents == [e \in MCEvent |-> IF e = 3 THEN {1, 2} ELSE {MCEpochOf[e]}]
MCHeight == [e \in MCEvent |-> IF e = 3 THEN 2 ELSE 1]
MCNames == [e \in MCEvent |-> 2]
MCLeaseOf == [e \in MCEvent |-> 4]
MCDenies == [e \in MCEvent |-> IF e \in {3, 5} THEN "did:fay" ELSE "did:eve"]
MCPin == [e \in MCEvent |-> "dev"]
MCDIDOf == [e \in MCEvent |-> "did:dev"]
MCKeyTarget == [k \in Key |-> "#" \o k]
MCCanonical == [d \in DID |-> d]
MCCarried == [d \in DID |-> IF d = "did:dev" THEN {"dev"} ELSE {}]
MCRootKey == [c \in MCChainEvent |-> {"root"}]
MCPublished == [c \in MCChainEvent |-> {"root"}]
MCMembersAt == [c \in MCChainEvent |-> {}]
MCDenyAt == [c \in MCChainEvent |-> IF c \in {33, 35} THEN {"did:eve"} ELSE {}]

Good(e) == [event |-> e, rank |-> 2, charge |-> 1]
Forged == {[event |-> 1, rank |-> r, charge |-> 1] : r \in 0..1}
MCGenuine == {Good(e) : e \in MCEvent}
MCCopy == MCGenuine \cup Forged
=============================================================================
