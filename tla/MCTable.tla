------------------------------ MODULE MCTable -------------------------------
(***************************************************************************)
(* The constants of RecordApply read off a table of ops (see MCRows).      *)
(***************************************************************************)
EXTENDS Naturals

CONSTANT Table

MCOp == DOMAIN Table
MCKeyOf == [o \in MCOp |-> Table[o].key]
MCHlc == [o \in MCOp |-> Table[o].hlc]
MCVersion == [o \in MCOp |-> Table[o].version]
MCDigest == [o \in MCOp |-> Table[o].digest]
MCLock == {Table[o].lock : o \in MCOp}
MCLockOf == [o \in MCOp |-> Table[o].lock]
MCIssuer == {Table[o].issuer : o \in MCOp}
MCIssuerOf == [o \in MCOp |-> Table[o].issuer]
MCSignerOf == [o \in MCOp |-> Table[o].signer]
MCDeps == [o \in MCOp |-> Table[o].deps]
MCDid == UNION {Table[o].recipients \cup Table[o].revokes : o \in MCOp}
MCRecipients == [o \in MCOp |-> Table[o].recipients]
MCRevokes == [o \in MCOp |-> Table[o].revokes]

Marked(flag) == {o \in MCOp : flag \in Table[o].flags}
MCLive == MCOp \ Marked("deleted")
MCSigned == MCOp \ Marked("forged")
MCAdmissible == MCOp \ Marked("inadmissible")
MCRefused == Marked("refused")
MCIntact == MCOp \ Marked("damaged")
MCUnreadable == Marked("unversioned")
MCSeed == Marked("seed")

(* Record keys are named by their type: K and L vault keys, b a branch ... *)
MCKey == {Table[o].key : o \in MCOp}
MCTypeOf == [k \in MCKey |-> CASE k \in {"K", "L"} -> "key"
                               [] k = "b" -> "branch"
                               [] k = "w" -> "wrapping"
                               [] k = "e" -> "entry"
                               [] k = "r" -> "revocation"]
MCPolicy == [k \in MCKey |-> CASE k \in {"K", "L", "e"} -> "monotonic"
                               [] k = "b" -> "immutable"
                               [] k \in {"w", "r"} -> "lww"]
MCForks == MCKey \cap {"K", "L"}
MCRank == [key |-> 0, branch |-> 1, wrapping |-> 2, entry |-> 3, revocation |-> 4]
=============================================================================
