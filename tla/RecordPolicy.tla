---------------------------- MODULE RecordPolicy ----------------------------
(***************************************************************************)
(* The merge policies of @kokuin/records (packages/records/src/policy.ts): *)
(* which of two signed ops for one record replaces the other.              *)
(*                                                                         *)
(* An op is named by the rank of its opHash among the ops of the instance, *)
(* so `opHash < opHash` is < on names.  What a policy reads of an op is a  *)
(* function of its name: the key it addresses (type, owner and id), its    *)
(* HLC stamp and its content digest as ranks, its version as a tuple.      *)
(***************************************************************************)
EXTENDS Integers, Sequences

CONSTANTS
    Key,       \* record keys: (type, owner, id)
    Policy,    \* Key -> the merge policy kind of the key's type
    Forks,     \* the keys whose type answers 'fork' from onEqual
    Op,        \* the verified ops of the instance
    KeyOf,     \* Op -> Key
    Hlc,       \* Op -> rank of claim.hlc, NoStamp when it is not canonical
    Version,   \* Op -> the type's version tuple (for versionOrder 'hlc', the stamp's)
    Unreadable, \* the ops whose version hook throws or answers no numbers
    Digest     \* Op -> rank of contentDigest

NoStamp == -1

PolicyKind == {"lww", "monotonic", "immutable"}

ASSUME OpAssumption ==
    /\ Op \subseteq Nat
    /\ KeyOf \in [Op -> Key]
    /\ Policy \in [Key -> PolicyKind]
    /\ Forks \subseteq Key
    /\ Hlc \in [Op -> Nat \cup {NoStamp}]
    /\ Version \in [Op -> Seq(Int)]
    /\ Unreadable \subseteq Op
    /\ Digest \in [Op -> Nat]

(***************************************************************************)
(* The digest hashes the whole claim (type, owner, id, meta, payload       *)
(* digest, deletion flag and decision stamp), so two ops with one digest   *)
(* are ordered alike.  An lww type with a string meta.version escapes this *)
(* (record.ts hashes that version in place of hlc); no vault type is one.  *)
(***************************************************************************)
ASSUME DigestAssumption ==
    \A a, b \in Op :
        Digest[a] = Digest[b] => /\ KeyOf[a] = KeyOf[b]
                                 /\ Hlc[a] = Hlc[b]
                                 /\ Version[a] = Version[b]
                                 /\ a \in Unreadable <=> b \in Unreadable

-----------------------------------------------------------------------------
(* Lexicographic over numbers; a tuple extending an equal prefix is the    *)
(* greater.  The sign of the result is the order.                          *)

Differing(left, right) ==
    {i \in 1..Len(left) : i <= Len(right) /\ left[i] # right[i]}

compareTuples(left, right) ==
    LET differing == Differing(left, right)
        index     == CHOOSE i \in differing : \A j \in differing : i <= j
    IN  IF differing = {} THEN Len(left) - Len(right)
                          ELSE left[index] - right[index]

(* Can the policy order the op at all?  A first write must pass this.      *)
admitFirstWrite(op) ==
    CASE Policy[KeyOf[op]] = "lww"       -> Hlc[op] # NoStamp
      [] Policy[KeyOf[op]] = "monotonic" -> op \notin Unreadable
      [] Policy[KeyOf[op]] = "immutable" -> TRUE

(* Mutant: of two ops at one version the first to arrive stays.            *)
firstToArrive(incoming, stored) == "noop"

byContentDigest(incoming, stored) ==
    IF Digest[incoming] > Digest[stored] THEN "apply" ELSE "noop"

compareLWW(incoming, stored) ==
    CASE Hlc[incoming] = NoStamp -> "reject"
      [] Hlc[incoming] # NoStamp /\ Hlc[stored] = NoStamp -> "apply"
      [] OTHER -> IF Hlc[incoming] = Hlc[stored]
                  THEN byContentDigest(incoming, stored)
                  ELSE IF Hlc[incoming] > Hlc[stored] THEN "apply" ELSE "noop"

compareMonotonic(incoming, stored) ==
    LET order == compareTuples(Version[incoming], Version[stored])
    IN  CASE incoming \in Unreadable -> "reject"
          [] incoming \notin Unreadable /\ stored \in Unreadable -> "apply"
          [] OTHER -> IF order # 0
                      THEN IF order > 0 THEN "apply" ELSE "noop"
                      ELSE IF KeyOf[incoming] \in Forks
                           THEN "fork" ELSE byContentDigest(incoming, stored)

(* How an incoming op compares with a different stored op of its record.   *)
compareRecordOps(incoming, stored) ==
    CASE incoming = stored -> "noop"
      [] incoming # stored /\ Policy[KeyOf[incoming]] = "lww" -> compareLWW(incoming, stored)
      [] incoming # stored /\ Policy[KeyOf[incoming]] = "monotonic" -> compareMonotonic(incoming, stored)
      [] incoming # stored /\ Policy[KeyOf[incoming]] = "immutable" -> byContentDigest(incoming, stored)

(* Applying keeps one op of a fork too, the same one on every peer.        *)
Wins(incoming, stored) ==
    \/ compareRecordOps(incoming, stored) = "apply"
    \/ /\ compareRecordOps(incoming, stored) = "fork"
       /\ Digest[incoming] > Digest[stored]
=============================================================================
