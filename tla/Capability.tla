----------------------------- MODULE Capability -----------------------------
(***************************************************************************)
(* The rules a capability is minted and judged by: the patterns of its     *)
(* grant, its times, and what a parent lets a child say.  A pattern is the *)
(* sequence of its components; a grant has a set of actions and one of     *)
(* resources.                                                              *)
(***************************************************************************)
EXTENDS Integers, Sequences

CONSTANTS
    None,       \* an absent claim
    Canon       \* normalizeDID: the canonical spelling of each DID

Wild == "*"

\* A pattern's components before its first wildcard.
Stars(a) == {i \in DOMAIN a : a[i] = Wild}
Prefix(a, n) == \A i \in Stars(a) : n < i

(***************************************************************************)
(* The granted pattern covers the requested one: equal component by        *)
(* component, a wildcard standing for whatever is left.                    *)
(***************************************************************************)
hasPartsMatch(expected, actual) ==
    /\ \A i \in DOMAIN actual :
           Prefix(actual, i) => i \in DOMAIN expected /\ expected[i] = actual[i]
    /\ Stars(actual) = {} => Len(expected) = Len(actual)

isMatch(expected, actual) == expected = actual \/ actual = <<Wild>>

\* Mutant: one granted action and one granted resource are enough.
hasPermissionSome(expected, granted) ==
    /\ \E x \in expected.act, a \in granted.act : hasPartsMatch(x, a)
    /\ \E y \in expected.res, b \in granted.res : hasPartsMatch(y, b)

hasPermission(expected, granted) ==
    \A x \in expected.act, y \in expected.res :
        \E a \in granted.act, b \in granted.res :
            \/ isMatch(x, a) /\ isMatch(y, b)
            \/ hasPartsMatch(x, a) /\ hasPartsMatch(y, b)

\* A wildcard is a whole component, and the last.
assertValidPattern(a) == \A i \in Stars(a) : i = Len(a)

-----------------------------------------------------------------------------
nonExpired(c, t) == c.exp = None \/ c.exp >= t
validIssuedAt(c, t) == c.iat = None \/ c.iat <= t
validNotBefore(c, t) == c.nbf = None \/ c.nbf <= t
Timely(c, t) == nonExpired(c, t) /\ validNotBefore(c, t) /\ validIssuedAt(c, t)

SameDID(a, b) == Canon[a] = Canon[b]

expiryWithinParent(parent, child) ==
    parent.exp = None \/ (child.exp # None /\ child.exp <= parent.exp)

assertValidDelegation(from, to, t) ==
    /\ SameDID(to.iss, from.aud)
    /\ SameDID(to.sub, from.sub)
    /\ nonExpired(from, t)
    /\ validIssuedAt(from, t)
    /\ hasPermission(to, from)

(***************************************************************************)
(* What createCapability signs at time t: a root of the signer's own, a    *)
(* grant that names the signer's membership, or a part of a parent.        *)
(***************************************************************************)
createCapability(c, parent, t) ==
    /\ \A a \in c.act \cup c.res : assertValidPattern(a)
    /\ IF SameDID(c.sub, c.iss) THEN TRUE
       ELSE IF c.mbr # None
       THEN c.exp # None /\ c.iat # None /\ c.exp >= c.iat
       ELSE /\ parent # None
            /\ validNotBefore(parent, t)
            /\ SameDID(parent.aud, c.iss)
            /\ SameDID(parent.sub, c.sub)
            /\ nonExpired(parent, t)
            /\ expiryWithinParent(parent, c)
            /\ hasPermission(c, parent)
=============================================================================
