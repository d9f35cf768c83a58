------------------------- MODULE DelegationsProofs --------------------------
(***************************************************************************)
(* What an accepted capability check has established, proved for every     *)
(* set of capabilities, requests, denials and members, and for every order *)
(* in which the log changes between the questions a check asks it.         *)
(***************************************************************************)
EXTENDS Delegations, WellFoundedInduction, FiniteSetTheorems, TLAPS

-----------------------------------------------------------------------------
(* checkDelegationChain compares a capability with its parent only, never  *)
(* with the root of its chain.  That is enough because what one grant lets *)
(* another say is transitive, for every set of components.                 *)

(* hasPartsMatch composes: a pattern covered by a covered pattern is       *)
(* covered, wherever the wildcards stand.                                  *)
LEMMA PartsMatchTransitive ==
    ASSUME NEW S, NEW x \in Seq(S), NEW y \in Seq(S), NEW z \in Seq(S),
           hasPartsMatch(x, y), hasPartsMatch(y, z)
    PROVE  hasPartsMatch(x, z)
<1>1. ASSUME NEW i \in DOMAIN z, Prefix(z, i)
      PROVE  i \in DOMAIN y /\ y[i] = z[i] /\ Prefix(y, i)
  <2>1. i \in DOMAIN y /\ y[i] = z[i]
    BY <1>1 DEF hasPartsMatch
  <2>2. ASSUME NEW j \in Stars(y), j <= i  PROVE FALSE
    <3>1. j \in DOMAIN z /\ y[j] = Wild
      BY <1>1, <2>1, <2>2 DEF Stars
    <3>2. Prefix(z, j)
      BY <1>1, <2>2, <3>1 DEF Prefix, Stars
    <3>3. z[j] = Wild
      BY <3>1, <3>2 DEF hasPartsMatch
    <3>4. QED
      BY <1>1, <2>2, <3>1, <3>3 DEF Prefix, Stars
  <2>3. QED
    BY <2>1, <2>2, <1>1 DEF Prefix, Stars
<1>2. ASSUME NEW i \in DOMAIN z, Prefix(z, i)
      PROVE  i \in DOMAIN x /\ x[i] = z[i]
  BY <1>1, <1>2 DEF hasPartsMatch
<1>3. ASSUME Stars(z) = {}  PROVE Len(x) = Len(z)
  <2>1. Len(y) = Len(z)
    BY <1>3 DEF hasPartsMatch
  <2>2. \A i \in DOMAIN z : Prefix(z, i)
    BY <1>3 DEF Prefix
  <2>3. Stars(y) = {}
    BY <1>1, <1>3, <2>1, <2>2 DEF Stars
  <2>4. QED
    BY <2>1, <2>3 DEF hasPartsMatch
<1>4. QED
  BY <1>2, <1>3 DEF hasPartsMatch

(* isMatch, the comparison of whole patterns that hasPermission tries      *)
(* first, decides nothing that hasPartsMatch does not.                     *)
LEMMA MatchIsPartsMatch ==
    ASSUME NEW S, NEW x \in Seq(S), NEW a \in Seq(S), isMatch(x, a)
    PROVE  hasPartsMatch(x, a)
<1>1. CASE x = a
  BY <1>1 DEF hasPartsMatch
<1>2. CASE a = <<Wild>>
  <2>1. 1 \in Stars(a) /\ DOMAIN a = {1}
    BY <1>2 DEF Stars
  <2>2. \A i \in DOMAIN a : ~Prefix(a, i)
    BY <2>1 DEF Prefix
  <2>3. QED
    BY <2>1, <2>2 DEF hasPartsMatch
<1>3. QED
  BY <1>1, <1>2 DEF isMatch

(* The patterns of g, a request or a capability, are built of S.           *)
Grants(g, S) == g.act \subseteq Seq(S) /\ g.res \subseteq Seq(S)

(* hasPermission, by hasPartsMatch alone.                                  *)
LEMMA PermissionByParts ==
    ASSUME NEW S, NEW e, NEW g, Grants(e, S), Grants(g, S)
    PROVE  hasPermission(e, g) <=>
               \A x \in e.act, y \in e.res :
                   \E a \in g.act, b \in g.res : hasPartsMatch(x, a) /\ hasPartsMatch(y, b)
<1>1. \A x \in e.act, a \in g.act : isMatch(x, a) => hasPartsMatch(x, a)
  BY MatchIsPartsMatch DEF Grants
<1>2. \A y \in e.res, b \in g.res : isMatch(y, b) => hasPartsMatch(y, b)
  BY MatchIsPartsMatch DEF Grants
<1>3. QED
  BY <1>1, <1>2 DEF hasPermission

(* A chain never widens: what a capability grants within its parent, and   *)
(* the parent within the root, the capability grants within the root.      *)
THEOREM PermissionTransitive ==
    ASSUME NEW S, NEW e, NEW g, NEW p,
           Grants(e, S), Grants(g, S), Grants(p, S),
           hasPermission(e, g), hasPermission(g, p)
    PROVE  hasPermission(e, p)
<1>1. SUFFICES ASSUME NEW x \in e.act, NEW y \in e.res
               PROVE  \E a \in p.act, b \in p.res :
                          hasPartsMatch(x, a) /\ hasPartsMatch(y, b)
  BY PermissionByParts
<1>2. PICK a \in g.act, b \in g.res : hasPartsMatch(x, a) /\ hasPartsMatch(y, b)
  BY PermissionByParts
<1>3. PICK c \in p.act, d \in p.res : hasPartsMatch(a, c) /\ hasPartsMatch(b, d)
  BY PermissionByParts
<1>4. hasPartsMatch(x, c) /\ hasPartsMatch(y, d)
  BY <1>2, <1>3, PartsMatchTransitive DEF Grants
<1>5. QED
  BY <1>4

-----------------------------------------------------------------------------
(* Indices, and what a pattern denotes.                                    *)


(* A set of indices has a least one.                                       *)
LEMMA Least ==
    ASSUME NEW T \in SUBSET Nat, T # {}
    PROVE  \E n \in T : \A m \in T : n <= m
<1> DEFINE R == OpToRel(<, Nat)
<1>1. IsWellFoundedOn(R, Nat)
  BY NatLessThanWellFounded
<1>2. PICK n \in T : \A m \in T : <<m, n>> \notin R
  <2> HIDE DEF R
  <2> QED
    BY <1>1, WFMin
<1>3. \A m \in T : <<m, n>> \in R <=> m < n
  BY DEF OpToRel
<1>4. \A m \in T : ~(m < n)
  BY <1>2, <1>3
<1>5. QED
  <2> HIDE DEF R
  <2> QED
    BY <1>4

(* A pattern covered by another denotes no path the other does not.        *)
LEMMA DenotesShrinks ==
    ASSUME NEW x \in Pattern, NEW a \in Pattern, hasPartsMatch(x, a)
    PROVE  Denotes(x) \subseteq Denotes(a)
<1>1. CASE Stars(a) = {}
  <2>1. Len(x) = Len(a) /\ \A i \in DOMAIN a : x[i] = a[i]
    BY <1>1 DEF hasPartsMatch, Prefix
  <2>2. x = a
    BY <2>1 DEF Pattern
  <2>3. QED
    BY <2>2
<1>2. CASE Stars(a) # {}
  <2> Stars(a) \in SUBSET Nat
    BY DEF Stars, Pattern
  <2>1. PICK n \in Stars(a) : \A m \in Stars(a) : n <= m
    BY <1>2, Least
  <2>2. n \in 1..Len(a)
    BY <2>1 DEF Stars, Pattern
  <2>3. \A i \in 1..(n - 1) : i \in DOMAIN x /\ x[i] = a[i] /\ a[i] # Wild
    <3>1. ASSUME NEW i \in 1..(n - 1)
          PROVE  i \in DOMAIN a /\ Prefix(a, i) /\ i \notin Stars(a)
      BY <2>1, <2>2 DEF Prefix, Pattern, Stars
    <3>2. QED
      BY <3>1 DEF hasPartsMatch, Stars
  <2>4. n - 1 <= Len(x)
    BY <2>2, <2>3 DEF Pattern
  <2>5. SUFFICES ASSUME NEW p \in Denotes(x) PROVE p \in Denotes(a)
    OBVIOUS
  <2>6. p \in Path /\ p \in Seq(Component)
    BY ClaimsAssumption DEF Denotes, Pattern
  <2>7. n - 1 <= Len(p) /\ \A i \in 1..(n - 1) : p[i] = a[i]
    <3>1. CASE p = x
      BY <2>3, <2>4, <3>1
    <3>2. CASE p # x
      <4>1. PICK m \in Stars(x) : /\ m - 1 <= Len(p)
                                  /\ SubSeq(p, 1, m - 1) = SubSeq(x, 1, m - 1)
        BY <3>2 DEF Denotes
      <4>2. m \in 1..Len(x) /\ x[m] = Wild
        BY <4>1 DEF Stars, Pattern
      <4>3. n <= m
        BY <2>2, <2>3, <4>2
      <4>4. \A i \in 1..(m - 1) : p[i] = x[i]
        <5>1. ASSUME NEW i \in 1..(m - 1)
              PROVE  SubSeq(p, 1, m - 1)[i] = p[i] /\ SubSeq(x, 1, m - 1)[i] = x[i]
          BY <2>6, <4>1, <4>2 DEF Pattern
        <5>2. QED
          BY <4>1, <5>1
      <4>5. QED
        BY <2>2, <2>3, <4>1, <4>2, <4>3, <4>4, <2>6
    <3>3. QED
      BY <3>1, <3>2
  <2>8. SubSeq(p, 1, n - 1) = SubSeq(a, 1, n - 1)
    BY <2>2, <2>6, <2>7 DEF Pattern
  <2>9. QED
    BY <2>1, <2>6, <2>7, <2>8 DEF Denotes
<1>3. QED
  BY <1>1, <1>2

(* hasPermission(e, g): whatever e asks for or grants, g allows.           *)
LEMMA PermissionShrinks ==
    ASSUME NEW e, NEW g, Grants(e, Component), Grants(g, Component),
           hasPermission(e, g)
    PROVE  Allows(e) \subseteq Allows(g)
<1>1. ASSUME NEW x \in e.act, NEW y \in e.res, NEW p \in Denotes(x), NEW q \in Denotes(y)
      PROVE  <<p, q>> \in Allows(g)
  <2>1. PICK a \in g.act, b \in g.res : hasPartsMatch(x, a) /\ hasPartsMatch(y, b)
    BY PermissionByParts
  <2>2. p \in Denotes(a) /\ q \in Denotes(b)
    BY <2>1, DenotesShrinks DEF Grants, Pattern
  <2>3. QED
    BY <2>1, <2>2 DEF Allows
<1>2. QED
  BY <1>1 DEF Allows

-----------------------------------------------------------------------------
(* The fields of a check, without their types.                             *)
Fields(c) == [pc : {c.pc}, r : {c.r}, i : {c.i}, t : {c.t}, began : {c.began},
              view : {c.view}, start : {c.start}, row : {c.row}, out : {c.out},
              fault : {c.fault}, seen : {c.seen}, kept : {c.kept}]

(* d is c, further on.                                                     *)
Same(c, d) == /\ d \in Fields(d)
              /\ d.r = c.r /\ d.t = c.t /\ d.start = c.start /\ d.seen = c.seen
              /\ d.began = c.began /\ d.kept = c.kept

LEMMA AtFields ==
    ASSUME NEW c, c \in Fields(c), NEW pc, NEW i, NEW d, d = At(c, pc, i)
    PROVE  Same(c, d) /\ d.view = c.view /\ d.out = c.out /\ d.pc = pc /\ d.i = i
BY DEF At, Fields, Same

LEMMA JudgedFields ==
    ASSUME NEW c, c \in Fields(c), NEW ok \in BOOLEAN, NEW d, d = Judged(c, ok)
    PROVE  /\ Same(c, d) /\ d.view = c.view /\ d.pc = "idle"
           /\ d.out = IF ok THEN "accepted" ELSE "rejected"
BY DEF Judged, Accepted, Rejected, Fields, Same

LEMMA RejectedFields ==
    ASSUME NEW c, c \in Fields(c), NEW d, d = Rejected(c)
    PROVE  Same(c, d) /\ d.view = c.view /\ d.pc = "idle" /\ d.out = "rejected"
BY DEF Rejected, Fields, Same

-----------------------------------------------------------------------------
(* What RequestsAssumption says of a request.                              *)
RequestOK(r) ==
    /\ r.cap \in Seq(Cap)
    /\ r.permAct \subseteq Pattern /\ r.permRes \subseteq Pattern
    /\ r.act # None => r.act \subseteq Pattern /\ r.res \subseteq Pattern
    /\ Canon[r.iss] # Subject => r.kid = KeyOf[r.iss]

(* What has been found of link j, in the order a check finds it: its       *)
(* signature and times, that it delegates to the link below, and that its  *)
(* holder is not denied.                                                   *)
Verified(c, j) ==
    LET x == Link(c.r, j)
    IN  /\ x.sig
        /\ x.kid \notin resolveDenySet(c.start, x.iss)
        /\ Canon[x.iss] # Subject => x.kid = KeyOf[x.iss]
        /\ nonExpired(x, c.t) /\ validNotBefore(x, c.t)
Given(c, j) ==
    LET x == Link(c.r, j)
        y == Link(c.r, j - 1)
    IN  /\ SameDID(x.aud, y.iss) /\ SameDID(x.sub, c.r.sub)
        /\ validIssuedAt(x, c.t)
        /\ Allows(Request(c.r)) \subseteq Allows(x)
        /\ j > 1 \/ presentsGrant(c.r)
               => Allows(y) \subseteq Allows(x) /\ expiryWithinParent(x, y)
Holds(c, j) ==
    LET x == Link(c.r, j)
    IN  /\ Undenied(c.start, x)
        /\ c.r.frozen /\ Canon[c.r.sub] = Subject
               => c.view # None /\ Undenied(c.view, x)

(* The links found verified, delegated and held so far.                    *)
Facts(c, v, g, h) ==
    /\ \A j \in 1..v : Verified(c, j)
    /\ \A j \in 1..g : Given(c, j)
    /\ \A j \in First(c.r)..h : Holds(c, j)

(* The holders asked about when link i is verified: the one of a presented *)
(* grant is asked about only when its parent has been verified.            *)
Asked(i) == IF i = 1 THEN -1 ELSE i - 1

Chained(c) ==
    /\ ~SelfIssued(c.r)
    /\ Links(c.r) > 0 /\ Links(c.r) <= MaxDepth
    /\ presentsGrant(c.r) => /\ Allows(Request(c.r)) \subseteq Allows(c.r)
                             /\ Timely(c.r, c.t)

Direct(c) ==
    /\ ~SelfIssued(c.r) /\ Links(c.r) = 0 /\ presentsGrant(c.r)
    /\ Allows(Request(c.r)) \subseteq Allows(c.r)

MemberOf(c, members) ==
    LET x == Link(c.r, c.i)
    IN  /\ Canon[x.sub] = Subject /\ Timely(x, c.t)
        /\ \E m \in members :
               /\ m.did = Canon[x.iss] /\ m.add = x.mbr /\ m.key = KeyOf[x.iss]
               /\ x.exp <= m.lease /\ x.exp - x.iat <= MaxLifetime

(* Where a check is, and what it has found by then.                        *)
Walk(c) ==
    \/ /\ c.pc = "verify" /\ Chained(c) /\ c.i \in 1..Links(c.r)
       /\ Facts(c, c.i - 1, c.i - 1, Asked(c.i))
    \/ /\ c.pc \in {"hook", "record"} /\ Chained(c) /\ c.i \in 1..Links(c.r)
       /\ Facts(c, c.i, c.i - 1, Asked(c.i))
    \/ /\ c.pc = "aud" /\ Chained(c) /\ c.i \in 1..Links(c.r)
       /\ Facts(c, c.i, c.i, c.i - 1)
       /\ c.i = Links(c.r) => SelfIssued(Link(c.r, c.i))
    \/ /\ c.pc = "aud" /\ Chained(c) /\ c.i = 0
       /\ presentsGrant(c.r) /\ Facts(c, 1, 0, -1)
    \/ /\ c.pc = "aud" /\ c.i = 0
       /\ SelfIssued(c.r) /\ Timely(c.r, c.t)
    \/ /\ c.pc \in {"member", "memberAud"} /\ c.i = Links(c.r)
       /\ ~SelfIssued(Link(c.r, c.i))
       /\ \/ Chained(c) /\ Facts(c, c.i, c.i, c.i - 1)
          \/ Direct(c)
       /\ c.pc = "memberAud" =>
              /\ MemberOf(c, c.seen)
              /\ c.r.frozen => c.view # None
              /\ c.view # None => MemberOf(c, c.view.members)

(* The denials a check began with are in the log still, and in the view it *)
(* froze; the members it may have seen are on record.                      *)
Based(c) ==
    /\ c.start.denied \subseteq log.denied
    /\ log.members \subseteq c.seen
    /\ c.view # None => /\ c.r.frozen
                        /\ c.start.denied \subseteq c.view.denied
                        /\ c.view.members \subseteq c.seen

CheckInv ==
    /\ plan \in Plan
    /\ log \in Views
    /\ chk \in Fields(chk)
    /\ chk.out = "accepted" => Authorized(chk)
    /\ Running => /\ chk.out = "none" /\ RequestOK(chk.r)
                  /\ Based(chk) /\ Walk(chk)

-----------------------------------------------------------------------------
(* What was found stays found while the check moves on.                    *)
LEMMA FactsKept ==
    ASSUME NEW c, NEW d, Same(c, d), c.view # None => d.view = c.view,
           NEW v, NEW g, NEW h, Facts(c, v, g, h)
    PROVE  Facts(d, v, g, h)
BY DEF Facts, Verified, Given, Holds, Same

LEMMA ChainedKept ==
    ASSUME NEW c, NEW d, Same(c, d)
    PROVE  Chained(c) => Chained(d)
BY DEF Chained, Same

LEMMA LinkGrants ==
    ASSUME NEW r, RequestOK(r), NEW i \in 1..Links(r)
    PROVE  Grants(Link(r, i), Component)
<1>1. i # 0 /\ r.cap[i] \in Cap
  BY DEF RequestOK, Links
<1>2. QED
  BY <1>1, ClaimsAssumption DEF Link, Grants, Pattern

(* A chain that goes on is asked about its holder, or ends at its root.    *)
LEMMA EnterWalks ==
    ASSUME NEW c, c \in Fields(c), c.out = "none", RequestOK(c.r), Chained(c),
           NEW i \in 1..Links(c.r), Facts(c, i, i, i - 1),
           NEW d, d = Enter(c, i)
    PROVE  /\ Same(c, d) /\ d.view = c.view
           /\ \/ d.pc = "idle" /\ d.out = "rejected"
              \/ d.pc # "idle" /\ d.out = "none" /\ Walk(d)
<1>1. CASE i < Links(c.r) \/ SelfIssued(Link(c.r, i))
  <2>1. d = At(c, "aud", i)
    BY <1>1 DEF Enter
  <2>2. Same(c, d) /\ d.view = c.view /\ d.out = "none" /\ d.pc = "aud" /\ d.i = i
    BY <2>1, AtFields
  <2>3. Facts(d, d.i, d.i, d.i - 1) /\ Chained(d)
    BY <2>2, FactsKept, ChainedKept
  <2>4. Walk(d)
    BY <1>1, <2>2, <2>3 DEF Walk, Same, Links, RequestOK
  <2>5. QED
    BY <2>2, <2>4
<1>2. CASE ~(i < Links(c.r) \/ SelfIssued(Link(c.r, i))) /\ Link(c.r, i).mbr # None
  <2>1. d = At(c, "member", i)
    BY <1>2 DEF Enter
  <2>2. Same(c, d) /\ d.view = c.view /\ d.out = "none" /\ d.pc = "member" /\ d.i = i
    BY <2>1, AtFields
  <2>3. Facts(d, d.i, d.i, d.i - 1) /\ Chained(d)
    BY <2>2, FactsKept, ChainedKept
  <2>4. d.i = Links(d.r) /\ ~SelfIssued(Link(d.r, d.i))
    BY <1>2, <2>2 DEF Same, Links, RequestOK
  <2>5. Walk(d)
    BY <2>2, <2>3, <2>4 DEF Walk
  <2>6. QED
    BY <2>2, <2>5
<1>3. CASE ~(i < Links(c.r) \/ SelfIssued(Link(c.r, i))) /\ Link(c.r, i).mbr = None
  BY <1>3, RejectedFields DEF Enter
<1>4. QED
  BY <1>1, <1>2, <1>3

(* A link that delegates to the one below it carries the request up.       *)
LEMMA DelegatedGives ==
    ASSUME NEW c, RequestOK(c.r), Chained(c), NEW i \in 1..Links(c.r),
           \A j \in 1..(i - 1) : Given(c, j),
           NEW y, y = Link(c.r, i - 1),
           LET grants == i > 1 \/ presentsGrant(y)
               to == IF grants THEN y
                     ELSE [iss |-> y.iss, sub |-> y.sub,
                           act |-> y.permAct, res |-> y.permRes]
           IN  /\ assertValidDelegation(Link(c.r, i), to, c.t)
               /\ grants => expiryWithinParent(Link(c.r, i), y)
    PROVE  Given(c, i)
<1> DEFINE x == Link(c.r, i)
           grants == i > 1 \/ presentsGrant(y)
           bare == [iss |-> y.iss, sub |-> y.sub, act |-> y.permAct, res |-> y.permRes]
<1>1. Grants(x, Component)
  BY LinkGrants
<1>2. i = 1 => y = c.r
  BY DEF Link
<1>3. i > 1 => Given(c, i - 1)
  OBVIOUS
<1>4. CASE grants
  <2>1. assertValidDelegation(x, y, c.t) /\ expiryWithinParent(x, y)
    BY <1>4
  <2>2. SameDID(x.aud, y.iss) /\ SameDID(x.sub, y.sub) /\ validIssuedAt(x, c.t)
        /\ hasPermission(y, x)
    BY <2>1 DEF assertValidDelegation, SameDID
  <2>3. Grants(y, Component)
    <3>1. CASE i = 1
      BY <1>2, <1>4, <3>1 DEF RequestOK, Grants, Pattern, presentsGrant
    <3>2. CASE i > 1
      BY <3>2, LinkGrants DEF Links, RequestOK
    <3>3. QED
      BY <3>1, <3>2
  <2>4. Allows(y) \subseteq Allows(x)
    BY <1>1, <2>2, <2>3, PermissionShrinks
  <2>5. SameDID(x.sub, c.r.sub) /\ Allows(Request(c.r)) \subseteq Allows(y)
    <3>1. CASE i = 1
      BY <1>2, <1>4, <2>2, <3>1 DEF Chained, SameDID
    <3>2. CASE i > 1
      BY <1>3, <2>2, <3>2 DEF Given, SameDID
    <3>3. QED
      BY <3>1, <3>2
  <2>6. QED
    BY <2>1, <2>2, <2>4, <2>5 DEF Given
<1>5. CASE ~grants
  <2>1. i = 1 /\ y = c.r /\ ~presentsGrant(c.r)
    BY <1>2, <1>5
  <2>2. assertValidDelegation(x, bare, c.t)
    BY <1>5
  <2>3. SameDID(x.aud, y.iss) /\ SameDID(x.sub, y.sub) /\ validIssuedAt(x, c.t)
        /\ hasPermission(bare, x)
    BY <2>2 DEF assertValidDelegation, SameDID
  <2>4. Grants(bare, Component)
    BY <2>1 DEF Grants, RequestOK, Pattern
  <2>5. Allows(bare) \subseteq Allows(x)
    BY <1>1, <2>3, <2>4, PermissionShrinks
  <2>6. Allows(Request(c.r)) = Allows(bare)
    BY <2>1 DEF Allows, Request
  <2>7. QED
    BY <2>1, <2>3, <2>5, <2>6 DEF Given
<1>6. QED
  BY <1>4, <1>5

LEMMA DelegatedWalks ==
    ASSUME NEW c, c \in Fields(c), c.out = "none", RequestOK(c.r), Chained(c),
           NEW i \in 1..Links(c.r), Facts(c, i, i - 1, i - 1),
           NEW d, d = Delegated(c, i)
    PROVE  /\ Same(c, d) /\ d.view = c.view
           /\ \/ d.pc = "idle" /\ d.out = "rejected"
              \/ d.pc # "idle" /\ d.out = "none" /\ Walk(d)
<1> DEFINE y == Link(c.r, i - 1)
           grants == i > 1 \/ presentsGrant(y)
           to == IF grants THEN y
                 ELSE [iss |-> y.iss, sub |-> y.sub,
                       act |-> y.permAct, res |-> y.permRes]
           ok == /\ assertValidDelegation(Link(c.r, i), to, c.t)
                 /\ grants => expiryWithinParent(Link(c.r, i), y)
<1>1. CASE ok
  <2>1. d = Enter(c, i)
    BY <1>1 DEF Delegated
  <2>2. Given(c, i)
    BY <1>1, DelegatedGives DEF Facts
  <2>3. Facts(c, i, i, i - 1)
    BY <2>2 DEF Facts, Links, RequestOK
  <2>4. QED
    BY <2>1, <2>3, EnterWalks
<1>2. CASE ~ok
  <2>1. d = Rejected(c)
    BY <1>2 DEF Delegated
  <2>2. QED
    BY <2>1, RejectedFields
<1>3. QED
  BY <1>1, <1>2

-----------------------------------------------------------------------------
(* Holds, once a check's own view is known, covers the view as well: a     *)
(* subject whose log is not consulted denies no one.                       *)
LEMMA HoldsInView ==
    ASSUME NEW c, NEW j, Holds(c, j), SameDID(Link(c.r, j).sub, c.r.sub),
           c.view # None => c.r.frozen
    PROVE  c.view # None => Undenied(c.view, Link(c.r, j))
<1>1. CASE Canon[c.r.sub] = Subject
  BY <1>1 DEF Holds
<1>2. CASE Canon[c.r.sub] # Subject
  BY <1>2 DEF SameDID, Undenied, resolveDenySet
<1>3. QED
  BY <1>1, <1>2

(* The pinned key of a member is the key its grant is signed with.         *)
LEMMA MemberRooted ==
    ASSUME NEW c, NEW members, ~SelfIssued(c.r), c.i = Links(c.r),
           ~SelfIssued(Link(c.r, c.i)),
           Canon[Link(c.r, c.i).iss] # Subject
               => Link(c.r, c.i).kid = KeyOf[Link(c.r, c.i).iss],
           MemberOf(c, members)
    PROVE  Rooted(c.r, members)
<1> DEFINE x == Link(c.r, c.i)
<1>1. Root(c.r) = x
  BY DEF Root, Walked
<1>2. Canon[x.iss] # Subject /\ Canon[x.sub] = Subject
  BY DEF MemberOf, SelfIssued, SameDID
<1>3. \E m \in members : /\ m.did = Canon[x.iss] /\ m.add = x.mbr /\ m.key = x.kid
                         /\ x.exp <= m.lease /\ x.exp - x.iat <= MaxLifetime
  BY <1>2 DEF MemberOf
<1>4. QED
  BY <1>1, <1>2, <1>3 DEF Rooted

(* A check that walked its whole chain has established all of it.          *)
LEMMA ChainAuthorized ==
    ASSUME NEW c, RequestOK(c.r), Chained(c), c.view # None => c.r.frozen,
           Facts(c, Links(c.r), Links(c.r), Links(c.r)),
           Rooted(c.r, c.seen), c.view # None => Rooted(c.r, c.view.members)
    PROVE  Authorized(c)
<1> DEFINE r == c.r
           n == Links(r)
<1>1. Walked(r) = n /\ n \in Nat /\ n > 0 /\ n <= MaxDepth
  BY DEF Chained, Walked, Links, RequestOK
<1>2. First(r) \in {0, 1} /\ (First(r) = 0 <=> presentsGrant(r))
  BY DEF First
<1>3. ASSUME NEW i \in First(r)..n
      PROVE  /\ Allows(Request(r)) \subseteq Allows(Link(r, i))
             /\ Timely(Link(r, i), c.t)
             /\ Undenied(c.start, Link(r, i))
             /\ c.view # None => Undenied(c.view, Link(r, i))
  <2>1. Holds(c, i)
    BY DEF Facts
  <2>2. CASE i = 0
    <3>1. Link(r, i) = r /\ presentsGrant(r)
      BY <1>2, <2>2, <1>1 DEF Link
    <3>2. QED
      BY <2>1, <3>1, HoldsInView DEF Chained, Holds, SameDID
  <2>3. CASE i # 0
    <3>1. i \in 1..n
      BY <1>1, <1>2, <2>3
    <3>2. Verified(c, i) /\ Given(c, i)
      BY <3>1 DEF Facts
    <3>3. QED
      BY <2>1, <3>2, HoldsInView DEF Verified, Given, Timely, Holds
  <2>4. QED
    BY <2>2, <2>3
<1>4. ASSUME NEW i \in 1..n
      PROVE  /\ i > 1 \/ presentsGrant(r)
                => /\ Allows(Link(r, i - 1)) \subseteq Allows(Link(r, i))
                   /\ expiryWithinParent(Link(r, i), Link(r, i - 1))
             /\ SameDID(Link(r, i).aud, Link(r, i - 1).iss)
             /\ SameDID(Link(r, i).sub, r.sub)
             /\ Link(r, i).kid \notin resolveDenySet(c.start, Link(r, i).iss)
             /\ Link(r, i).sig
  BY DEF Facts, Verified, Given
<1>5. First(r) <= n
  BY <1>1, <1>2
<1>6. QED
  BY <1>1, <1>3, <1>4, <1>5 DEF Authorized

(* So has one of a request that is its own root: the subject's own token,  *)
(* or a member's grant presented by itself.                                *)
LEMMA RootAuthorized ==
    ASSUME NEW c, RequestOK(c.r), c.view # None => c.r.frozen,
           Walked(c.r) = 0, presentsGrant(c.r),
           Allows(Request(c.r)) \subseteq Allows(c.r), Timely(c.r, c.t),
           Holds(c, 0),
           Rooted(c.r, c.seen), c.view # None => Rooted(c.r, c.view.members)
    PROVE  Authorized(c)
<1>1. Link(c.r, 0) = c.r /\ First(c.r) = 0
  BY DEF Link, First
<1>2. c.view # None => Undenied(c.view, c.r)
  BY <1>1, HoldsInView DEF SameDID
<1>3. Undenied(c.start, c.r)
  BY <1>1 DEF Holds
<1>4. 0..0 = {0} /\ 1..0 = {}
  OBVIOUS
<1>5. QED
  BY <1>1, <1>2, <1>3, <1>4, ClaimsAssumption DEF Authorized

LEMMA AuthorizedKept ==
    ASSUME NEW c, NEW d, Same(c, d), d.view = c.view, Authorized(c)
    PROVE  Authorized(d)
BY DEF Authorized, Same

-----------------------------------------------------------------------------
(* A view frozen by a check keeps what the check may rely on.              *)
Frozen(c) == c.view # None => /\ c.r.frozen
                              /\ c.start.denied \subseteq c.view.denied
                              /\ c.view.members \subseteq c.seen

LEMMA ViewFields ==
    ASSUME NEW c, c \in Fields(c), NEW v, NEW d, d = [c EXCEPT !.view = v]
    PROVE  Same(c, d) /\ d.view = v /\ d.out = c.out /\ d.pc = c.pc /\ d.i = c.i
BY DEF Fields, Same

(* What the log answers a check, frozen or not.                            *)
LEMMA Viewed ==
    ASSUME CheckInv, Running
    PROVE  /\ View # None
           /\ chk.start.denied \subseteq View.denied
           /\ View.members \subseteq chk.seen
           /\ chk.r.frozen /\ chk.view # None => View = chk.view
<1>1. log # None
  BY NoneIsNoView DEF CheckInv
<1>2. QED
  BY <1>1 DEF CheckInv, Based, View

(* The check after a question to the log.                                  *)
LEMMA Questioned ==
    ASSUME CheckInv, Running, NEW d,
           d = Loaded \/ \E did \in DOMAIN Canon \cup {chk.r.sub, Link(chk.r, chk.i).iss} :
                             d = Consulted(did)
    PROVE  /\ Same(chk, d) /\ d.out = "none" /\ Frozen(d)
           /\ chk.view # None => d.view = chk.view
           /\ d = Loaded /\ chk.r.frozen => d.view = View /\ d.view # None
           /\ d = Loaded /\ ~chk.r.frozen => d.view = None
           /\ d.pc = chk.pc /\ d.i = chk.i
<1>1. chk \in Fields(chk) /\ chk.out = "none" /\ Based(chk)
  BY DEF CheckInv
<1>2. Same(chk, chk) /\ Frozen(chk)
  BY <1>1 DEF Same, Frozen, Based
<1>3. d = Loaded \/ d = chk
  BY DEF Consulted
<1>4. CASE d = Loaded /\ chk.r.frozen
  <2>1. d = [chk EXCEPT !.view = View]
    BY <1>4 DEF Loaded
  <2>2. Same(chk, d) /\ d.view = View /\ d.out = chk.out /\ d.pc = chk.pc /\ d.i = chk.i
    BY <1>1, <2>1, ViewFields
  <2>3. QED
    BY <1>1, <1>4, <2>2, Viewed DEF Frozen, Same
<1>5. CASE ~(d = Loaded /\ chk.r.frozen)
  <2>1. d = chk
    BY <1>3, <1>5 DEF Loaded
  <2>2. QED
    BY <1>1, <1>2, <1>5, <2>1 DEF Frozen
<1>6. QED
  BY <1>4, <1>5

(* A step of the check keeps the invariant when it moves on with what it   *)
(* found, refuses, or accepts what is authorized.                          *)
LEMMA Moved ==
    ASSUME CheckInv, Running, UNCHANGED <<plan, log>>,
           Same(chk, chk'), Frozen(chk'),
           \/ chk'.pc = "idle" /\ chk'.out = "rejected"
           \/ chk'.pc = "idle" /\ chk'.out = "accepted" /\ Authorized(chk')
           \/ chk'.pc # "idle" /\ chk'.out = "none" /\ Walk(chk')
    PROVE  CheckInv'
<1>1. chk' \in Fields(chk')
  BY DEF Same
<1>2. chk'.out = "accepted" => Authorized(chk')
  OBVIOUS
<1>3. ASSUME chk'.pc # "idle"
      PROVE  chk'.out = "none" /\ RequestOK(chk'.r) /\ Walk(chk') /\ Based(chk)'
  <2>1. Based(chk) /\ RequestOK(chk.r)
    BY DEF CheckInv
  <2>2. Based(chk)'
    BY <2>1 DEF Based, Same, Frozen
  <2>3. QED
    BY <1>3, <2>1, <2>2 DEF Same
<1>4. QED
  BY <1>1, <1>2, <1>3 DEF CheckInv, Running

-----------------------------------------------------------------------------
(* The steps of a check.                                                   *)
LEMMA VerifyLinkSound == ASSUME CheckInv, VerifyLink PROVE CheckInv'
<1> DEFINE x == Link(chk.r, chk.i)
           c == Consulted(x.iss)
<1>1. chk.pc = "verify" /\ Running /\ UNCHANGED <<plan, log>>
  BY DEF VerifyLink, Running
<1>2. /\ chk \in Fields(chk) /\ chk.out = "none" /\ Based(chk)
      /\ Chained(chk) /\ chk.i \in 1..Links(chk.r)
      /\ Facts(chk, chk.i - 1, chk.i - 1, Asked(chk.i))
  BY <1>1 DEF CheckInv, Walk
<1>3. CASE verifyLink(View, x, chk.t)
  <2>1. Verified(chk, chk.i)
    BY <1>1, <1>3, Viewed DEF verifyLink, Verified, historicKeys, resolveDenySet
  <2>2. Facts(chk, chk.i, chk.i - 1, Asked(chk.i))
    BY <1>2, <2>1 DEF Facts
  <2>3. chk' = At(c, "hook", chk.i)
    BY <1>3 DEF VerifyLink
  <2>4. /\ Same(chk, c) /\ c.out = "none" /\ Frozen(c)
        /\ chk.view # None => c.view = chk.view
    BY <1>1, Questioned
  <2>5. /\ Same(c, chk') /\ chk'.view = c.view /\ chk'.out = "none"
        /\ chk'.pc = "hook" /\ chk'.i = chk.i
    <3> HIDE DEF c
    <3> QED
      BY <2>3, <2>4, AtFields DEF Same
  <2>6. Same(chk, chk') /\ Frozen(chk') /\ (chk.view # None => chk'.view = chk.view)
    <3> HIDE DEF c
    <3> QED
      BY <2>4, <2>5 DEF Same, Frozen
  <2>7. Facts(chk', chk'.i, chk'.i - 1, Asked(chk'.i)) /\ Chained(chk')
    BY <1>2, <2>2, <2>5, <2>6, FactsKept, ChainedKept
  <2>8. Walk(chk')
    BY <1>2, <2>5, <2>6, <2>7 DEF Walk, Same
  <2>9. QED
    BY <1>1, <2>5, <2>6, <2>8, Moved
<1>4. CASE ~verifyLink(View, x, chk.t)
  <2>1. chk' = Rejected(chk)
    BY <1>4 DEF VerifyLink
  <2>2. QED
    BY <1>1, <1>2, <2>1, RejectedFields, Moved DEF Frozen, Based, Same
<1>5. QED
  BY <1>3, <1>4

LEMMA ReadRevocationSound == ASSUME CheckInv, ReadRevocation PROVE CheckInv'
<1>1. chk.pc = "hook" /\ Running /\ UNCHANGED <<plan, log>>
  BY DEF ReadRevocation, Running
<1>2. /\ chk \in Fields(chk) /\ chk.out = "none" /\ Based(chk)
      /\ Chained(chk) /\ chk.i \in 1..Links(chk.r)
      /\ Facts(chk, chk.i, chk.i - 1, Asked(chk.i))
  BY <1>1 DEF CheckInv, Walk
<1>3. /\ Same(chk, chk') /\ chk'.view = chk.view /\ chk'.out = "none"
      /\ chk'.pc = "record" /\ chk'.i = chk.i
  <2>1. PICK row : chk' = [chk EXCEPT !.pc = "record", !.row = row]
    BY DEF ReadRevocation
  <2>2. QED
    BY <1>2, <2>1 DEF Fields, Same
<1>4. Facts(chk', chk'.i, chk'.i - 1, Asked(chk'.i)) /\ Chained(chk')
  BY <1>2, <1>3, FactsKept, ChainedKept
<1>5. Walk(chk')
  BY <1>2, <1>3, <1>4 DEF Walk, Same
<1>6. QED
  BY <1>1, <1>2, <1>3, <1>5, Moved DEF Frozen, Based, Same

(* After the hook, the walk goes on from what was verified.                *)
LEMMA AfterHookSound ==
    ASSUME CheckInv, chk.pc = "record", chk' = AfterHook(chk), UNCHANGED <<plan, log>>
    PROVE  CheckInv'
<1>1. /\ chk \in Fields(chk) /\ chk.out = "none" /\ Based(chk) /\ RequestOK(chk.r)
      /\ Chained(chk) /\ chk.i \in 1..Links(chk.r)
      /\ Facts(chk, chk.i, chk.i - 1, Asked(chk.i)) /\ Running
  BY DEF CheckInv, Walk, Running
<1>2. CASE chk.i = 1 /\ presentsGrant(chk.r)
  <2>1. chk' = At(chk, "aud", 0)
    BY <1>2 DEF AfterHook
  <2>2. /\ Same(chk, chk') /\ chk'.view = chk.view /\ chk'.out = "none"
        /\ chk'.pc = "aud" /\ chk'.i = 0
    BY <1>1, <2>1, AtFields
  <2>3. Facts(chk', 1, 0, -1) /\ Chained(chk')
    BY <1>1, <1>2, <2>2, FactsKept, ChainedKept DEF Asked
  <2>4. Walk(chk')
    BY <1>2, <2>2, <2>3 DEF Walk, Same
  <2>5. QED
    BY <1>1, <2>2, <2>4, Moved DEF Frozen, Based, Same
<1>3. CASE ~(chk.i = 1 /\ presentsGrant(chk.r))
  <2>1. chk' = Delegated(chk, chk.i)
    BY <1>3 DEF AfterHook
  <2>2. Facts(chk, chk.i, chk.i - 1, chk.i - 1)
    BY <1>1, <1>3 DEF Facts, Asked, First, Links, RequestOK
  <2>3. /\ Same(chk, chk') /\ chk'.view = chk.view
        /\ \/ chk'.pc = "idle" /\ chk'.out = "rejected"
           \/ chk'.pc # "idle" /\ chk'.out = "none" /\ Walk(chk')
    BY <1>1, <2>1, <2>2, DelegatedWalks
  <2>4. QED
    BY <1>1, <2>3, Moved DEF Frozen, Based, Same
<1>4. QED
  BY <1>2, <1>3

LEMMA Refused ==
    ASSUME CheckInv, Running, UNCHANGED <<plan, log>>, chk' = Rejected(chk)
    PROVE  CheckInv'
BY RejectedFields, Moved DEF CheckInv, Frozen, Based, Same

LEMMA JudgeRecordSound == ASSUME CheckInv, JudgeRecord PROVE CheckInv'
BY AfterHookSound, Refused DEF JudgeRecord, Running

LEMMA FaultFields ==
    ASSUME CheckInv, chk' = [Rejected(chk) EXCEPT !.fault = TRUE]
    PROVE  /\ Same(chk, chk') /\ chk'.view = chk.view /\ chk'.pc = "idle"
           /\ chk'.out = "rejected" /\ chk'.fault
<1>1. PICK d : d = Rejected(chk)
  OBVIOUS
<1>2. Same(chk, d) /\ d.view = chk.view /\ d.pc = "idle" /\ d.out = "rejected"
  BY <1>1, RejectedFields DEF CheckInv
<1>3. chk' = [d EXCEPT !.fault = TRUE]
  BY <1>1
<1>4. QED
  BY <1>2, <1>3 DEF Fields, Same

LEMMA FaultSound == ASSUME CheckInv, Fault PROVE CheckInv'
<1>1. CASE chk.pc = "record" /\ chk' = AfterHook(chk)
  BY <1>1, AfterHookSound DEF Fault
<1>2. CASE chk' = [Rejected(chk) EXCEPT !.fault = TRUE]
  BY <1>2, FaultFields, Moved DEF Fault, CheckInv, Frozen, Based, Same
<1>3. QED
  BY <1>1, <1>2 DEF Fault

-----------------------------------------------------------------------------
(* Asking about a holder: the answer is good for the start of the check,   *)
(* and for the view it froze.                                              *)
LEMMA AudienceHolds ==
    ASSUME CheckInv, Running, ~audienceRevoked(View, Link(chk.r, chk.i)),
           NEW d, d = Consulted(chk.r.sub)
    PROVE  Holds(d, chk.i)
<1> DEFINE x == Link(chk.r, chk.i)
<1>1. Same(chk, d) /\ (chk.view # None => d.view = chk.view)
  BY Questioned
<1>2. Undenied(View, x)
  BY DEF audienceRevoked, Undenied
<1>3. Undenied(chk.start, x)
  BY <1>2, Viewed DEF Undenied, resolveDenySet
<1>4. ASSUME chk.r.frozen, Canon[chk.r.sub] = Subject
      PROVE  d.view # None /\ d.view = View
  BY <1>4, Questioned DEF Consulted
<1>5. QED
  BY <1>1, <1>2, <1>3, <1>4 DEF Holds, Same

LEMMA AskAudienceSound == ASSUME CheckInv, AskAudience PROVE CheckInv'
<1> DEFINE i == chk.i
           x == Link(chk.r, i)
           c == Consulted(chk.r.sub)
<1>1. chk.pc = "aud" /\ Running /\ UNCHANGED <<plan, log>>
  BY DEF AskAudience, Running
<1>2. /\ chk \in Fields(chk) /\ chk.out = "none" /\ Based(chk) /\ RequestOK(chk.r)
      /\ \/ /\ Chained(chk) /\ i \in 1..Links(chk.r) /\ Facts(chk, i, i, i - 1)
            /\ i = Links(chk.r) => SelfIssued(x)
         \/ Chained(chk) /\ i = 0 /\ presentsGrant(chk.r) /\ Facts(chk, 1, 0, -1)
         \/ i = 0 /\ SelfIssued(chk.r) /\ Timely(chk.r, chk.t)
  BY <1>1 DEF CheckInv, Walk
<1>3. CASE audienceRevoked(View, x)
  BY <1>1, <1>3, Refused DEF AskAudience
<1>4. CASE ~audienceRevoked(View, x)
  <2>1. chk' = AfterAudience(c)
    BY <1>4 DEF AskAudience
  <2>2. /\ Same(chk, c) /\ c.out = "none" /\ Frozen(c) /\ c.i = i
        /\ chk.view # None => c.view = chk.view
    BY <1>1, Questioned
  <2>3. Holds(c, i)
    BY <1>1, <1>4, AudienceHolds
  <2> HIDE DEF c
  <2>4. c \in Fields(c) /\ c.r = chk.r /\ c.t = chk.t /\ RequestOK(c.r)
    BY <1>2, <2>2 DEF Same
  <2>5. ASSUME /\ Same(c, chk') /\ chk'.view = c.view
               /\ \/ chk'.pc = "idle" /\ chk'.out = "rejected"
                  \/ chk'.pc = "idle" /\ chk'.out = "accepted" /\ Authorized(chk')
                  \/ chk'.pc # "idle" /\ chk'.out = "none" /\ Walk(chk')
        PROVE  CheckInv'
    BY <1>1, <2>2, <2>5, Moved DEF Same, Frozen
  <2>6. CASE SelfIssued(chk.r)
    <3> DEFINE ok == presentsGrant(c.r) /\ hasPermission(Request(c.r), c.r)
    <3>1. chk' = Judged(c, ok) /\ ok \in BOOLEAN
      BY <2>1, <2>4, <2>6 DEF AfterAudience, presentsGrant, hasPermission
    <3>2. i = 0 /\ Timely(c.r, c.t) /\ Walked(c.r) = 0
      BY <1>2, <2>4, <2>6 DEF Chained, Walked
    <3>3. ASSUME ok PROVE Authorized(c)
      <4>1. Grants(Request(c.r), Component) /\ Grants(c.r, Component)
        BY <2>4, <3>3 DEF RequestOK, Grants, Request, Pattern, presentsGrant
      <4>2. Allows(Request(c.r)) \subseteq Allows(c.r)
        BY <3>3, <4>1, PermissionShrinks
      <4>3. Root(c.r) = c.r
        BY <3>2 DEF Root, Link
      <4>4. Rooted(c.r, c.seen) /\ (c.view # None => Rooted(c.r, c.view.members))
        BY <2>4, <2>6, <4>3 DEF Rooted
      <4>5. QED
        BY <2>2, <2>3, <2>4, <3>2, <3>3, <4>2, <4>4, RootAuthorized DEF Frozen
    <3>4. /\ Same(c, chk') /\ chk'.view = c.view /\ chk'.pc = "idle"
          /\ chk'.out = IF ok THEN "accepted" ELSE "rejected"
      <4> HIDE DEF ok
      <4> QED
        BY <2>4, <3>1, JudgedFields
    <3>5. ok => Authorized(chk')
      <4> HIDE DEF ok
      <4> QED
        BY <3>3, <3>4, AuthorizedKept
    <3>6. QED
      <4> HIDE DEF ok
      <4> QED
        BY <2>5, <3>4, <3>5
  <2>7. CASE ~SelfIssued(chk.r) /\ i = 0
    <3>1. chk' = Delegated(c, 1)
      BY <2>1, <2>2, <2>4, <2>7 DEF AfterAudience
    <3>2. Chained(chk) /\ presentsGrant(chk.r) /\ Facts(chk, 1, 0, -1)
      BY <1>2, <2>7
    <3>3. Chained(c) /\ Facts(c, 1, 0, -1)
      BY <2>2, <3>2, FactsKept, ChainedKept
    <3>4. Facts(c, 1, 0, 0)
      BY <2>3, <2>4, <2>7, <3>2, <3>3 DEF Facts, First
    <3>5. 1 \in 1..Links(c.r)
      BY <2>4, <3>3 DEF Chained, Links, RequestOK
    <3>6. /\ Same(c, chk') /\ chk'.view = c.view
          /\ \/ chk'.pc = "idle" /\ chk'.out = "rejected"
             \/ chk'.pc # "idle" /\ chk'.out = "none" /\ Walk(chk')
      BY <2>2, <2>4, <3>1, <3>3, <3>4, <3>5, DelegatedWalks
    <3>7. QED
      BY <2>5, <3>6
  <2>8. CASE ~SelfIssued(chk.r) /\ i # 0
    <3>1. /\ Chained(chk) /\ i \in 1..Links(chk.r) /\ Facts(chk, i, i, i - 1)
          /\ i = Links(chk.r) => SelfIssued(x)
      BY <1>2, <2>8
    <3>2. Chained(c) /\ Facts(c, i, i, i - 1)
      BY <2>2, <3>1, FactsKept, ChainedKept
    <3>3. Facts(c, i, i, i)
      BY <2>3, <2>4, <3>1, <3>2 DEF Facts, First, Links, RequestOK
    <3>4. CASE i < Links(c.r)
      <4>1. chk' = At(c, "verify", i + 1)
        BY <2>1, <2>2, <2>4, <2>8, <3>4 DEF AfterAudience
      <4>2. /\ Same(c, chk') /\ chk'.view = c.view /\ chk'.out = "none"
            /\ chk'.pc = "verify" /\ chk'.i = i + 1
        BY <2>2, <2>4, <4>1, AtFields
      <4>3. Facts(chk', i, i, i) /\ Chained(chk')
        BY <3>2, <3>3, <4>2, FactsKept, ChainedKept
      <4>4. Walk(chk')
        BY <2>4, <3>1, <3>4, <4>2, <4>3 DEF Walk, Same, Asked, Links, RequestOK
      <4>5. QED
        BY <2>5, <4>2, <4>4
    <3>5. CASE i = Links(c.r)
      <4>1. chk' = Judged(c, Timely(x, c.t))
        <5>1. ~(i < Links(c.r)) /\ c.i = i /\ c.i # 0
          BY <2>2, <2>8, <3>1, <3>5
        <5>2. ~SelfIssued(c.r) /\ Link(c.r, c.i) = x
          BY <2>2, <2>4, <2>8
        <5>3. QED
          BY <2>1, <2>4, <5>1, <5>2 DEF AfterAudience
      <4>2. Rooted(c.r, c.seen) /\ (c.view # None => Rooted(c.r, c.view.members))
        BY <2>4, <2>8, <3>1, <3>5 DEF Rooted, Root, Walked
      <4>3. Authorized(c)
        BY <2>2, <2>4, <3>2, <3>3, <3>5, <4>2, ChainAuthorized DEF Frozen
      <4>4. /\ Same(c, chk') /\ chk'.view = c.view /\ chk'.pc = "idle"
            /\ chk'.out \in {"accepted", "rejected"}
        <5>1. Timely(x, c.t) \in BOOLEAN
          BY DEF Timely, nonExpired, validNotBefore, validIssuedAt
        <5>2. QED
          BY <2>4, <4>1, <5>1, JudgedFields
      <4>5. QED
        BY <2>5, <4>3, <4>4, AuthorizedKept
    <3>6. QED
      BY <2>4, <3>1, <3>4, <3>5 DEF Links, RequestOK
  <2>9. QED
    BY <2>6, <2>7, <2>8
<1>5. QED
  BY <1>3, <1>4

-----------------------------------------------------------------------------
(* A member's grant: membership and holder from one answer when frozen.    *)
LEMMA AskMemberSound == ASSUME CheckInv, AskMember PROVE CheckInv'
<1> DEFINE x == Link(chk.r, chk.i)
           c == Loaded
<1>1. chk.pc = "member" /\ Running /\ UNCHANGED <<plan, log>>
  BY DEF AskMember, Running
<1>2. /\ chk \in Fields(chk) /\ chk.out = "none" /\ RequestOK(chk.r)
      /\ chk.i = Links(chk.r) /\ ~SelfIssued(x)
      /\ (Chained(chk) /\ Facts(chk, chk.i, chk.i, chk.i - 1)) \/ Direct(chk)
  BY <1>1 DEF CheckInv, Walk
<1>3. CASE ~memberRoot(View, x, chk.t)
  BY <1>1, <1>3, Refused DEF AskMember
<1>4. CASE memberRoot(View, x, chk.t)
  <2>1. chk' = At(c, "memberAud", chk.i)
    BY <1>4 DEF AskMember
  <2>2. /\ Same(chk, c) /\ c.out = "none" /\ Frozen(c)
        /\ chk.view # None => c.view = chk.view
        /\ chk.r.frozen => c.view = View /\ c.view # None
        /\ ~chk.r.frozen => c.view = None
    BY <1>1, Questioned
  <2> HIDE DEF c
  <2>3. /\ Same(c, chk') /\ chk'.view = c.view /\ chk'.out = "none"
        /\ chk'.pc = "memberAud" /\ chk'.i = chk.i
    BY <2>1, <2>2, AtFields DEF Same
  <2>4. Same(chk, chk') /\ Frozen(chk') /\ (chk.view # None => chk'.view = chk.view)
    BY <2>2, <2>3 DEF Same, Frozen
  <2>5. (Chained(chk') /\ Facts(chk', chk'.i, chk'.i, chk'.i - 1)) \/ Direct(chk')
    <3>1. CASE Direct(chk)
      BY <2>4, <3>1 DEF Direct, Same
    <3>2. CASE Chained(chk) /\ Facts(chk, chk.i, chk.i, chk.i - 1)
      BY <2>3, <2>4, <3>2, FactsKept, ChainedKept
    <3>3. QED
      BY <1>2, <3>1, <3>2
  <2>6. MemberOf(chk, View.members) /\ MemberOf(chk, chk.seen)
    BY <1>1, <1>4, Viewed DEF memberRoot, MemberOf
  <2>7. MemberOf(chk', chk'.seen) /\ MemberOf(chk', View.members)
    BY <2>3, <2>4, <2>6 DEF MemberOf, Same
  <2>8. Walk(chk')
    BY <1>2, <2>2, <2>3, <2>4, <2>5, <2>7 DEF Walk, Same
  <2>9. QED
    BY <1>1, <2>3, <2>4, <2>8, Moved
<1>5. QED
  BY <1>3, <1>4

LEMMA AskMemberAudienceSound == ASSUME CheckInv, AskMemberAudience PROVE CheckInv'
<1> DEFINE n == chk.i
           x == Link(chk.r, n)
           ok == ~audienceRevoked(View, x)
<1>1. chk.pc = "memberAud" /\ Running /\ UNCHANGED <<plan, log>>
      /\ chk' = Judged(chk, ok)
  BY DEF AskMemberAudience, Running
<1>2. /\ chk \in Fields(chk) /\ RequestOK(chk.r) /\ Based(chk)
      /\ n = Links(chk.r) /\ ~SelfIssued(x)
      /\ (Chained(chk) /\ Facts(chk, n, n, n - 1)) \/ Direct(chk)
      /\ MemberOf(chk, chk.seen)
      /\ chk.r.frozen => chk.view # None
      /\ chk.view # None => MemberOf(chk, chk.view.members)
  BY <1>1 DEF CheckInv, Walk
<1>3. /\ Same(chk, chk') /\ chk'.view = chk.view /\ chk'.pc = "idle"
      /\ chk'.out = IF ok THEN "accepted" ELSE "rejected"
  <2>1. ok \in BOOLEAN
    OBVIOUS
  <2> HIDE DEF ok
  <2>2. QED
    BY <1>1, <1>2, <2>1, JudgedFields
<1>4. ASSUME ok PROVE Authorized(chk)
  <2>1. Undenied(View, x)
    BY <1>4 DEF audienceRevoked, Undenied
  <2>2. Holds(chk, n)
    BY <1>1, <1>2, <2>1, Viewed DEF Holds, Undenied, resolveDenySet
  <2>3. ~SelfIssued(chk.r)
    BY <1>2 DEF Chained, Direct
  <2>4. Canon[x.iss] # Subject => x.kid = KeyOf[x.iss]
    <3>1. CASE Direct(chk)
      BY <1>2, <3>1 DEF Direct, Link, RequestOK
    <3>2. CASE Chained(chk) /\ Facts(chk, n, n, n - 1)
      BY <1>2, <3>2 DEF Chained, Facts, Verified, Links, RequestOK
    <3>3. QED
      BY <1>2, <3>1, <3>2
  <2>5. Rooted(chk.r, chk.seen) /\ (chk.view # None => Rooted(chk.r, chk.view.members))
    BY <1>2, <2>3, <2>4, MemberRooted
  <2>6. CASE Direct(chk)
    <3>1. n = 0 /\ x = chk.r /\ Walked(chk.r) = 0
      BY <1>2, <2>3, <2>6 DEF Direct, Link, Walked
    <3>2. Timely(chk.r, chk.t)
      BY <1>2, <3>1 DEF MemberOf
    <3>3. QED
      BY <1>2, <2>2, <2>5, <2>6, <3>1, <3>2, RootAuthorized DEF Direct, Based
  <2>7. CASE Chained(chk) /\ Facts(chk, n, n, n - 1)
    <3>1. Facts(chk, n, n, n)
      BY <1>2, <2>2, <2>7 DEF Facts, First, Links, RequestOK
    <3>2. QED
      BY <1>2, <2>5, <2>7, <3>1, ChainAuthorized DEF Based
  <2>8. QED
    BY <1>2, <2>6, <2>7
<1>5. ok => Authorized(chk')
  <2> HIDE DEF ok
  <2> QED
    BY <1>3, <1>4, AuthorizedKept
<1>6. Frozen(chk')
  BY <1>2, <1>3 DEF Frozen, Based, Same
<1>7. QED
  <2> HIDE DEF ok
  <2> QED
    BY <1>1, <1>3, <1>5, <1>6, Moved

-----------------------------------------------------------------------------
(* A new check.                                                            *)
LEMMA StartWalks ==
    ASSUME NEW c, c \in Fields(c), c.out = "none", RequestOK(c.r),
           NEW d, d = Start(c, c.r)
    PROVE  /\ Same(c, d) /\ d.view = c.view
           /\ \/ d.pc = "idle" /\ d.out = "rejected"
              \/ d.pc # "idle" /\ d.out = "none" /\ Walk(d)
<1> DEFINE r == c.r
           fits == hasPermission(Request(r), r)
<1>1. Links(r) \in Nat /\ (Links(r) > 0 => 1 \in 1..Links(r))
  BY DEF Links, RequestOK
<1>2. presentsGrant(r) /\ fits => Allows(Request(r)) \subseteq Allows(r)
  <2>1. ASSUME presentsGrant(r)
        PROVE  Grants(r, Component) /\ Grants(Request(r), Component)
    BY <2>1 DEF RequestOK, Grants, Request, Pattern, presentsGrant
  <2>2. QED
    BY <2>1, PermissionShrinks
<1>3. CASE d = Rejected(c)
  BY <1>3, RejectedFields
<1>4. CASE SelfIssued(r) /\ Timely(r, c.t)
  <2>1. d = At(c, "aud", 0)
    BY <1>4 DEF Start
  <2>2. /\ Same(c, d) /\ d.view = c.view /\ d.out = "none" /\ d.pc = "aud" /\ d.i = 0
    BY <2>1, AtFields
  <2>3. QED
    BY <1>4, <2>2 DEF Walk, Same
<1>5. CASE /\ ~SelfIssued(r) /\ Links(r) = 0 /\ r.mbr # None
           /\ presentsGrant(r) /\ fits
  <2>1. d = At(c, "member", 0)
    BY <1>5 DEF Start
  <2>2. /\ Same(c, d) /\ d.view = c.view /\ d.out = "none" /\ d.pc = "member" /\ d.i = 0
    BY <2>1, AtFields
  <2>3. Direct(d) /\ Link(d.r, d.i) = d.r
    BY <1>2, <1>5, <2>2 DEF Direct, Same, Link
  <2>4. QED
    BY <1>5, <2>2, <2>3 DEF Walk, Same
<1>6. CASE /\ ~SelfIssued(r) /\ ~(Links(r) = 0 /\ r.mbr # None)
           /\ presentsGrant(r) => fits /\ Timely(r, c.t)
           /\ Links(r) > 0 /\ WithinDepth(r)
  <2>1. d = At(c, "verify", 1)
    BY <1>6 DEF Start
  <2>2. /\ Same(c, d) /\ d.view = c.view /\ d.out = "none" /\ d.pc = "verify" /\ d.i = 1
    BY <2>1, AtFields
  <2>3. Chained(d)
    BY <1>2, <1>6, <2>2 DEF Chained, Same, WithinDepth
  <2>4. Facts(d, 0, 0, -1)
    BY DEF Facts, First
  <2>5. QED
    BY <1>1, <1>6, <2>2, <2>3, <2>4 DEF Walk, Same, Asked
<1>7. QED
  BY <1>3, <1>4, <1>5, <1>6 DEF Start

LEMMA BeginSound ==
    ASSUME CheckInv, NEW r \in plan.requests, NEW t, Begin(r, t)
    PROVE  CheckInv'
<1> DEFINE c == [Idle EXCEPT !.r = r, !.t = t, !.began = now,
                             !.seen = log.members, !.kept = log.members]
<1>1. chk' = Start(c, r) /\ UNCHANGED <<plan, log>>
  BY DEF Begin
<1>2. /\ c \in Fields(c) /\ c.r = r /\ c.t = t /\ c.start = log /\ c.view = None
      /\ c.seen = log.members /\ c.out = "none"
  BY DEF Idle, Fields
<1> HIDE DEF c
<1>3. RequestOK(r)
  BY RequestsAssumption DEF CheckInv, RequestOK, presentsGrant
<1>4. /\ Same(c, chk') /\ chk'.view = c.view
      /\ \/ chk'.pc = "idle" /\ chk'.out = "rejected"
         \/ chk'.pc # "idle" /\ chk'.out = "none" /\ Walk(chk')
  BY <1>1, <1>2, <1>3, StartWalks
<1>5. Based(chk)'
  <2>1. chk'.view = None /\ chk'.start = log /\ chk'.seen = log.members /\ log' = log
    BY <1>1, <1>2, <1>4 DEF Same
  <2>2. QED
    BY <2>1 DEF Based
<1>6. chk' \in Fields(chk') /\ RequestOK(chk'.r)
  BY <1>2, <1>3, <1>4 DEF Same
<1>7. QED
  BY <1>1, <1>4, <1>5, <1>6 DEF CheckInv, Running

-----------------------------------------------------------------------------
(* What else happens: the log only ever denies more, keeps its keys, and   *)
(* what members it gains are on the record of the check under way.         *)
LEMMA SeenWalks ==
    ASSUME NEW c, NEW d, c.seen \subseteq d.seen, Walk(c),
           d.r = c.r, d.t = c.t, d.i = c.i, d.start = c.start, d.view = c.view,
           d.pc = c.pc
    PROVE  Walk(d)
<1>1. /\ \A v, g, h : Facts(c, v, g, h) => Facts(d, v, g, h)
      /\ Chained(c) => Chained(d)
      /\ Direct(c) => Direct(d)
  BY DEF Facts, Verified, Given, Holds, Chained, Direct
<1>2. /\ MemberOf(c, c.seen) => MemberOf(d, d.seen)
      /\ c.view # None /\ MemberOf(c, c.view.members) => MemberOf(d, d.view.members)
  BY DEF MemberOf
<1> HIDE DEF Facts
<1>3. Links(d.r) = Links(c.r)
  OBVIOUS
<1>4. CASE c.pc \in {"member", "memberAud"}
  BY <1>1, <1>2, <1>4 DEF Walk
<1>5. CASE c.pc \notin {"member", "memberAud"}
  BY <1>1, <1>5 DEF Walk
<1>6. QED
  BY <1>4, <1>5

LEMMA ChangeMemberSound ==
    ASSUME CheckInv, NEW m \in plan.changes, ChangeMember(m)
    PROVE  CheckInv'
<1> DEFINE ms == IF m \in log.members THEN log.members \ {m} ELSE log.members \cup {m}
<1>1. log' = [log EXCEPT !.members = ms] /\ plan' = plan
  BY DEF ChangeMember
<1>2. log \in Views /\ plan \in Plan
  BY DEF CheckInv
<1>3. /\ log'.members = ms /\ log'.denied = log.denied /\ log'.held = log.held
      /\ log' \in Views
  BY <1>1, <1>2 DEF Views
<1>4. CASE ~Running
  BY <1>1, <1>2, <1>3, <1>4 DEF ChangeMember, CheckInv, Running
<1>5. CASE Running
  <2>1. PICK s, k : /\ s = chk.seen \cup log'.members
                    /\ chk' = [chk EXCEPT !.seen = s, !.kept = k]
    BY <1>5 DEF ChangeMember
  <2>2. /\ chk' \in Fields(chk') /\ chk'.seen = chk.seen \cup log'.members
        /\ chk'.r = chk.r /\ chk'.t = chk.t /\ chk'.i = chk.i /\ chk'.pc = chk.pc
        /\ chk'.start = chk.start /\ chk'.view = chk.view /\ chk'.out = chk.out
    <3>1. chk \in Fields(chk)
      BY DEF CheckInv
    <3>2. QED
      BY <2>1, <3>1 DEF Fields
  <2>3. Walk(chk')
    BY <1>5, <2>2, SeenWalks DEF CheckInv
  <2>4. Based(chk)'
    BY <1>3, <1>5, <2>2 DEF CheckInv, Based
  <2>5. QED
    BY <1>1, <1>2, <1>3, <1>5, <2>2, <2>3, <2>4 DEF CheckInv, Running
<1>6. QED
  BY <1>4, <1>5

LEMMA LogSound ==
    ASSUME CheckInv, Rotate \/ \E x \in plan.denials : Deny(x)
    PROVE  CheckInv'
<1>1. log \in Views /\ plan \in Plan /\ UNCHANGED <<plan, chk>>
  BY DEF CheckInv, Rotate, Deny
<1>2. /\ log' \in Views /\ log.denied \subseteq log'.denied
      /\ log'.members = log.members
  <2>1. CASE Rotate
    BY <1>1, <2>1 DEF Rotate, Views
  <2>2. CASE \E x \in plan.denials : Deny(x)
    BY <1>1, <2>2 DEF Deny, Views
  <2>3. QED
    BY <2>1, <2>2
<1>3. Running => Based(chk)'
  BY <1>1, <1>2 DEF CheckInv, Based
<1>4. QED
  BY <1>1, <1>2, <1>3 DEF CheckInv, Running

LEMMA CheckInit == Init => CheckInv
<1> SUFFICES ASSUME Init PROVE CheckInv
  OBVIOUS
<1>1. plan \in Plan /\ log \in Views
  BY DEF Init, Views
<1>2. chk \in Fields(chk) /\ chk.out = "none" /\ chk.pc = "idle"
  BY DEF Init, Idle, Fields
<1>3. QED
  BY <1>1, <1>2 DEF CheckInv, Running

LEMMA CheckNext == CheckInv /\ [Next]_vars => CheckInv'
<1> SUFFICES ASSUME CheckInv, [Next]_vars PROVE CheckInv'
  OBVIOUS
<1>1. CASE UNCHANGED <<plan, log, chk>>
  BY <1>1 DEF CheckInv, Running, Based
<1>2. CASE \E r \in plan.requests, late \in 0..Tolerance : Begin(r, now - late)
  BY <1>2, BeginSound
<1>3. CASE Step
  BY <1>3, VerifyLinkSound, ReadRevocationSound, JudgeRecordSound, AskAudienceSound,
     AskMemberSound, AskMemberAudienceSound DEF Step
<1>4. CASE Fault
  BY <1>4, FaultSound
<1>5. CASE Rotate \/ \E x \in plan.denials : Deny(x)
  BY <1>5, LogSound
<1>6. CASE \E m \in plan.changes : ChangeMember(m)
  BY <1>6, ChangeMemberSound
<1>7. CASE UNCHANGED vars
  BY <1>1, <1>7 DEF vars
<1>8. CASE \/ \E a \in plan.arrivals : addRevocation(a)
           \/ \E c \in plan.settles : markRevocationVerified(Claims[c])
           \/ \E c \in plan.settles : deletePendingRevocationsFromOtherIssuers(Claims[c])
           \/ purgeExpiredRevocations \/ purgeDeadPendingRevocations
           \/ \E x \in plan.tokens : addDelegationToken(x)
           \/ \E x \in plan.tokens : removeDelegationToken(x.jti)
           \/ Tick
  BY <1>1, <1>8 DEF addRevocation, markRevocationVerified,
     deletePendingRevocationsFromOtherIssuers, purgeExpiredRevocations,
     purgeDeadPendingRevocations, addDelegationToken, removeDelegationToken, Tick
<1>9. QED
  BY <1>2, <1>3, <1>4, <1>5, <1>6, <1>7, <1>8 DEF Next

(* checkCapability accepts only what the whole chain allows, whatever the  *)
(* log does between its questions: for every set of tokens, requests,      *)
(* members and denials, every depth bound and every length of chain.       *)
THEOREM AcceptedIsAuthorized == Spec => []AcceptedAuthorized
<1>1. CheckInv => AcceptedAuthorized
  BY DEF CheckInv, AcceptedAuthorized
<1>2. QED
  BY <1>1, CheckInit, CheckNext, PTL DEF Spec

-----------------------------------------------------------------------------
(* The token store.                                                        *)

(* A stored row, under canonical DIDs.                                     *)
Stored(y) ==
    /\ y \in [grantor : {y.grantor}, aud : {y.aud}, res : {y.res}, jti : {y.jti},
              exp : {y.exp}, hlc : {y.hlc}, superseded : {y.superseded}]
    /\ Canon[y.grantor] = y.grantor /\ Canon[y.aud] = y.aud
    /\ y.exp \in Int /\ y.hlc \in Int /\ y.superseded \in BOOLEAN

(* One slot, one active token; what was added has its row still, and the   *)
(* active token of its slot is no older.                                   *)
Kept(x) ==
    /\ \E y \in toks : SameRow(x, y)
    /\ Active(Slot(x)) # {}
    /\ \A y \in Active(Slot(x)) : y.hlc >= x.hlc

StoreInv ==
    /\ plan \in Plan /\ now \in Int
    /\ \A y \in toks : Stored(y)
    /\ \A y \in added : Stored(y)
    /\ \A y, z \in toks : Slot(y) = Slot(z) /\ ~y.superseded /\ ~z.superseded => y = z
    /\ \A x \in added : Kept(x)

LEMMA RowStored ==
    ASSUME StoreInv, NEW x \in plan.tokens, NEW b \in BOOLEAN
    PROVE  /\ Stored(Row(x, b)) /\ Slot(Row(x, b)) = Slot(x)
           /\ Row(x, b).jti = x.jti /\ Row(x, b).hlc = x.hlc /\ Row(x, b).superseded = b
BY TokensAssumption DEF StoreInv, Stored, Row, Slot

LEMMA SupersededStored ==
    ASSUME NEW y, Stored(y), NEW z, z = [y EXCEPT !.superseded = TRUE]
    PROVE  Stored(z) /\ Slot(z) = Slot(y) /\ z.jti = y.jti /\ z.superseded
BY DEF Stored, Slot

LEMMA AddKeeps ==
    ASSUME StoreInv, NEW x \in plan.tokens, addDelegationToken(x)
    PROVE  StoreInv'
<1> DEFINE new == Row(x, FALSE)
           lost == Row(x, TRUE)
<1>1. /\ Stored(new) /\ Slot(new) = Slot(x) /\ new.jti = x.jti /\ new.hlc = x.hlc
      /\ ~new.superseded /\ added' = added \cup {new} /\ UNCHANGED <<plan, now>>
  BY RowStored DEF addDelegationToken
<1>2. /\ Stored(lost) /\ Slot(lost) = Slot(x) /\ lost.jti = x.jti /\ lost.superseded
  BY RowStored
<1>3. x.hlc \in Int /\ \A y \in toks \cup added : y.hlc \in Int
  BY TokensAssumption DEF StoreInv, Stored
<1>4. \A y \in added' : Stored(y)
  BY <1>1 DEF StoreInv
<1> HIDE DEF new, lost
<1>5. CASE \E y \in Active(Slot(x)) : x.hlc <= y.hlc
  <2>1. toks' = Loses(x)
    BY <1>5 DEF addDelegationToken
  <2>2. /\ toks \subseteq toks' /\ toks' \subseteq toks \cup {lost}
        /\ \E y \in toks' : SameRow(new, y)
    BY <1>1, <1>2, <2>1 DEF Loses, SameRow, lost
  <2>3. \A s : Active(s)' = Active(s)
    BY <1>2, <2>2 DEF Active
  <2>4. Kept(new)'
    <3>1. Active(Slot(x)) # {} /\ \A y \in Active(Slot(x)) : y.hlc >= x.hlc
      BY <1>3, <1>5 DEF Active, StoreInv
    <3>2. QED
      BY <1>1, <2>2, <2>3, <3>1 DEF Kept, SameRow
  <2>5. \A z \in added : Kept(z)'
    BY <2>2, <2>3 DEF StoreInv, Kept
  <2>6. \A y \in toks' : Stored(y)
    BY <1>2, <2>2 DEF StoreInv
  <2>7. \A y, z \in toks' :
            Slot(y) = Slot(z) /\ ~y.superseded /\ ~z.superseded => y = z
    BY <1>2, <2>2 DEF StoreInv
  <2>8. QED
    BY <1>1, <1>4, <2>4, <2>5, <2>6, <2>7 DEF StoreInv
<1>6. CASE ~\E y \in Active(Slot(x)) : x.hlc <= y.hlc
  <2> DEFINE after(y) == IF Slot(y) = Slot(x) THEN [y EXCEPT !.superseded = TRUE] ELSE y
  <2>1. toks' = {after(y) : y \in {z \in toks : ~SameRow(x, z)}} \cup {new}
    BY <1>6 DEF addDelegationToken, Wins, new
  <2>2. ASSUME NEW y \in toks
        PROVE  /\ Stored(after(y)) /\ Slot(after(y)) = Slot(y) /\ after(y).jti = y.jti
               /\ Slot(y) = Slot(x) => after(y).superseded
    BY SupersededStored DEF StoreInv
  <2>3. ASSUME NEW y \in toks, Slot(y) # Slot(x)
        PROVE  after(y) = y /\ y \in toks'
    BY <2>1, <2>3 DEF SameRow
  <2>4. ASSUME NEW y \in toks'
        PROVE  Stored(y) /\ (Slot(y) = Slot(x) /\ ~y.superseded => y = new)
               /\ (Slot(y) # Slot(x) => y \in toks)
    <3>1. CASE y = new
      BY <1>1, <3>1
    <3>2. CASE \E z \in toks : y = after(z)
      BY <2>2, <3>2
    <3>3. QED
      BY <2>1, <3>1, <3>2
  <2>5. ASSUME NEW y \in toks
        PROVE  \E z \in toks' : SameRow(y, z)
    <3>1. CASE SameRow(x, y)
      BY <1>1, <2>1, <3>1 DEF SameRow
    <3>2. CASE ~SameRow(x, y)
      BY <2>1, <2>2, <3>2 DEF SameRow
    <3>3. QED
      BY <3>1, <3>2
  <2> HIDE DEF after
  <2>6. Active(Slot(x))' = {new}
    BY <1>1, <2>1, <2>4 DEF Active
  <2>7. ASSUME NEW s, s # Slot(x) PROVE Active(s)' = Active(s)
    BY <2>3, <2>4, <2>7 DEF Active
  <2>8. Kept(new)'
    BY <1>1, <1>3, <2>1, <2>6 DEF Kept, SameRow
  <2>9. ASSUME NEW z \in added PROVE Kept(z)'
    <3>1. Kept(z)
      BY DEF StoreInv
    <3>2. \E y \in toks' : SameRow(z, y)
      BY <2>5, <3>1 DEF Kept, SameRow
    <3>3. CASE Slot(z) = Slot(x)
      <4>1. PICK y \in Active(Slot(x)) : y.hlc >= z.hlc
        BY <3>1, <3>3 DEF Kept
      <4>2. x.hlc >= z.hlc
        BY <1>3, <1>6, <4>1 DEF Active
      <4>3. QED
        BY <1>1, <2>6, <3>2, <3>3, <4>2 DEF Kept
    <3>4. CASE Slot(z) # Slot(x)
      BY <2>7, <3>1, <3>2, <3>4 DEF Kept
    <3>5. QED
      BY <3>3, <3>4
  <2>10. \A y, z \in toks' :
             Slot(y) = Slot(z) /\ ~y.superseded /\ ~z.superseded => y = z
    BY <2>4 DEF StoreInv
  <2>11. QED
    BY <1>1, <1>4, <2>4, <2>8, <2>9, <2>10 DEF StoreInv
<1>7. QED
  BY <1>5, <1>6

LEMMA RemoveKeeps ==
    ASSUME StoreInv, NEW jti, removeDelegationToken(jti)
    PROVE  StoreInv'
<1>1. /\ toks' = {x \in toks : x.jti # jti} /\ UNCHANGED <<plan, now>>
      /\ added' = {x \in added : Slot(x) \notin {Slot(y) : y \in toks \ toks'}}
  BY DEF removeDelegationToken
<1>2. ASSUME NEW x \in added' PROVE Kept(x)'
  <2>1. Kept(x) /\ \A y \in toks : Slot(y) = Slot(x) => y \in toks'
    BY <1>1 DEF StoreInv
  <2>2. Active(Slot(x))' = Active(Slot(x))
    BY <1>1, <2>1 DEF Active
  <2>3. \E y \in toks' : SameRow(x, y)
    BY <2>1 DEF Kept, SameRow
  <2>4. QED
    BY <2>1, <2>2, <2>3 DEF Kept
<1>3. QED
  BY <1>1, <1>2 DEF StoreInv

LEMMA StoreInit == Init => StoreInv
BY DEF Init, StoreInv

LEMMA StoreNext == StoreInv /\ [Next]_vars => StoreInv'
<1> SUFFICES ASSUME StoreInv, [Next]_vars PROVE StoreInv'
  OBVIOUS
<1>1. CASE UNCHANGED <<plan, toks, added>> /\ now' \in Int
  <2>1. \A x \in added : Kept(x)'
    BY <1>1 DEF StoreInv, Kept, Active
  <2>2. QED
    BY <1>1, <2>1 DEF StoreInv
<1>2. CASE \E x \in plan.tokens : addDelegationToken(x)
  BY <1>2, AddKeeps
<1>3. CASE \E x \in plan.tokens : removeDelegationToken(x.jti)
  BY <1>3, RemoveKeeps
<1>4. CASE Tick
  BY <1>1, <1>4 DEF Tick, StoreInv
<1>5. CASE (\E r \in plan.requests, late \in 0..Tolerance : Begin(r, now - late)) \/ Fault
  BY <1>1, <1>5 DEF Begin, Fault, StoreInv
<1>6. CASE Step
  BY <1>1, <1>6 DEF Step, VerifyLink, ReadRevocation, JudgeRecord, AskAudience,
     AskMember, AskMemberAudience, StoreInv
<1>7. CASE \/ \E a \in plan.arrivals : addRevocation(a)
           \/ \E c \in plan.settles : markRevocationVerified(Claims[c])
           \/ \E c \in plan.settles : deletePendingRevocationsFromOtherIssuers(Claims[c])
           \/ purgeExpiredRevocations \/ purgeDeadPendingRevocations
  BY <1>1, <1>7 DEF addRevocation, markRevocationVerified, StoreInv,
     deletePendingRevocationsFromOtherIssuers, purgeExpiredRevocations,
     purgeDeadPendingRevocations
<1>8. CASE Rotate \/ (\E x \in plan.denials : Deny(x))
           \/ \E m \in plan.changes : ChangeMember(m)
  BY <1>1, <1>8 DEF Rotate, Deny, ChangeMember, StoreInv
<1>9. CASE UNCHANGED vars
  BY <1>1, <1>9 DEF vars, StoreInv
<1>10. QED
  BY <1>2, <1>3, <1>4, <1>5, <1>6, <1>7, <1>8, <1>9 DEF Next

(* A delegation token is on record until it is removed, one per slot is    *)
(* active and no added one is newer, and a reader of the store finds it    *)
(* unless it expired or its grantor filed a revocation.                    *)
THEOREM TokensAccounted == Spec => []Accounted
<1>1. StoreInv => Accounted
  <2> SUFFICES ASSUME StoreInv, NEW x \in added
               PROVE  /\ Cardinality(Active(Slot(x))) = 1
                      /\ \A y \in Active(Slot(x)) : y.hlc >= x.hlc
                      /\ \E y \in toks :
                             /\ SameRow(x, y)
                             /\ \/ y.exp <= now
                                \/ RevokedBy(y) # None
                                \/ y \in getHeldTokens(x.aud, now)
                                \/ y \in listUnrevokedSupersededTokens(Slot(x), now)
    BY DEF Accounted
  <2>1. Kept(x) /\ Stored(x)
    BY DEF StoreInv
  <2>2. PICK z \in Active(Slot(x)) : TRUE
    BY <2>1 DEF Kept
  <2>3. Active(Slot(x)) = {z}
    BY <2>2 DEF StoreInv, Active
  <2>4. Cardinality(Active(Slot(x))) = 1
    BY <2>3, FS_Singleton
  <2>5. PICK y \in toks : SameRow(x, y)
    BY <2>1 DEF Kept
  <2>6. Stored(y)
    BY DEF StoreInv
  <2>7. ASSUME y.exp > now, RevokedBy(y) = None
        PROVE  \/ y \in getHeldTokens(x.aud, now)
               \/ y \in listUnrevokedSupersededTokens(Slot(x), now)
    <3>1. Slot(y) = Slot(x) /\ y.aud = Canon[x.aud]
      BY <2>1, <2>5, <2>6 DEF SameRow, Slot, Stored
    <3>2. QED
      BY <2>6, <2>7, <3>1 DEF getHeldTokens, listUnrevokedSupersededTokens, Stored
  <2>8. y.exp <= now \/ y.exp > now
    BY <2>6 DEF Stored, StoreInv
  <2>9. QED
    BY <2>1, <2>4, <2>5, <2>7, <2>8 DEF Kept
<1>2. QED
  BY <1>1, StoreInit, StoreNext, PTL DEF Spec

-----------------------------------------------------------------------------
(* Revocations.                                                            *)

(* The record in a row binds its revoker's capabilities of that jti.       *)
Good(row, k) ==
    /\ row.rec.decodes /\ row.rec.rev /\ row.rec.sig
    /\ row.rec.jti = k[1] /\ Canon[row.rec.iss] = k[2]
    /\ k[2] = Subject => row.rec.kid \in log.held
    /\ k[2] # Subject => row.rec.kid # None /\ row.rec.kid = KeyOf[row.rec.iss]

(* No check can accept the capability any more.                            *)
Gone(x) ==
    /\ Claims[x].exp \in Int \ {None}
    /\ Claims[x].exp < now - Grace + Drift

(* The row of a capability whose revocation is in force refuses it for as  *)
(* long as it may be accepted.                                             *)
Forced(rows, x) ==
    LET k == KeyFor(Claims[x])
    IN  /\ Claims[x].jti # None
        /\ \/ Gone(x)
           \/ k \in DOMAIN rows /\ Good(rows[k], k) /\ Outlasts(rows[k], Claims[x])

(* The links a check has found unrevoked, and what it read of the next.    *)
Clear(c, j) == c.r.cap[j] \notin binding
Cleared(c) ==
    /\ \A j \in 1..Links(c.r) :
           (\/ j < c.i
            \/ j = c.i /\ c.pc \in {"aud", "member", "memberAud"}
            \/ j = 1 /\ c.i = 0 /\ c.pc = "aud" /\ ~SelfIssued(c.r))
           => Clear(c, j)
    /\ c.pc = "record" /\ ~Clear(c, c.i)
       => c.row # None /\ Good(c.row, KeyFor(Link(c.r, c.i)))

RevInv ==
    /\ now \in Int
    /\ rev \in [DOMAIN rev -> RowsOf]
    /\ binding \subseteq inForce /\ inForce \subseteq Cap
    /\ \A x \in inForce : Forced(rev, x)
    /\ Running => /\ chk.began \in Int /\ chk.t \in Int
                  /\ now <= chk.began + Lag /\ chk.t >= chk.began - Tolerance
                  /\ Cleared(chk)
    /\ chk.out = "accepted" => \A j \in 1..Walked(chk.r) : Clear(chk, j)

(* A check moves on with what it has found unrevoked.                      *)
LEMMA RevMoved ==
    ASSUME RevInv, Running, UNCHANGED <<plan, now, log, rev, forces>>, Same(chk, chk'),
           \/ chk'.pc = "idle" /\ chk'.out = "rejected"
           \/ /\ chk'.pc = "idle"
              /\ \A j \in 1..Walked(chk.r) : Clear(chk, j)
           \/ chk'.pc # "idle" /\ chk'.out = "none" /\ Cleared(chk')
    PROVE  RevInv'
<1>1. ASSUME NEW row, NEW k, Good(row, k) PROVE Good(row, k)'
  BY <1>1 DEF Good
<1>2. inForce' = inForce /\ binding' = binding
  BY DEF forces
<1>3. \A x \in inForce' : Forced(rev, x)'
  BY <1>1, <1>2 DEF RevInv, Forced, Gone
<1>4. \A j : Clear(chk, j) => Clear(chk, j)'
  BY <1>2 DEF Clear, Same
<1>5. (chk.out = "accepted" => \A j \in 1..Walked(chk.r) : Clear(chk, j))'
  <2>1. \A j : Clear(chk', j) => Clear(chk, j)'
    BY <1>2 DEF Clear
  <2>2. QED
    BY <1>4, <2>1 DEF Same
<1>6. Running' => Cleared(chk)'
  <2>1. SUFFICES ASSUME Running' PROVE Cleared(chk)'
    OBVIOUS
  <2>2. Cleared(chk')
    BY <2>1 DEF Running
  <2>3. QED
    BY <1>1, <1>2, <2>2 DEF Cleared, Clear
<1>7. QED
  BY <1>2, <1>3, <1>5, <1>6 DEF RevInv, Same, Running

LEMMA DelegatedGoes ==
    ASSUME NEW c, c \in Fields(c), NEW i, NEW d, d = Delegated(c, i)
    PROVE  /\ Same(c, d)
           /\ \/ d.pc = "idle" /\ d.out = "rejected"
              \/ d.pc \in {"aud", "member"} /\ d.i = i /\ d.out = c.out
<1>1. d = Rejected(c) \/ d = At(c, "aud", i) \/ d = At(c, "member", i)
  BY DEF Delegated, Enter
<1>2. QED
  BY <1>1, RejectedFields, AtFields

(* Delegated(c, i), once link i is unrevoked.                              *)
LEMMA DelegatedClears ==
    ASSUME NEW c, c \in Fields(c), c.out = "none", NEW i \in 1..Links(c.r),
           RequestOK(c.r), \A j \in 1..i : Clear(c, j),
           NEW d, d = Delegated(c, i)
    PROVE  /\ Same(c, d)
           /\ \/ d.pc = "idle" /\ d.out = "rejected"
              \/ d.pc # "idle" /\ d.out = "none" /\ Cleared(d)
<1>1. /\ Same(c, d)
      /\ \/ d.pc = "idle" /\ d.out = "rejected"
         \/ d.pc \in {"aud", "member"} /\ d.i = i /\ d.out = c.out
  BY DelegatedGoes
<1>2. CASE d.pc \in {"aud", "member"} /\ d.i = i /\ d.out = c.out
  BY <1>1, <1>2 DEF Cleared, Clear, Same, Links, RequestOK
<1>3. QED
  BY <1>1, <1>2

(* The row a check reads binds its link, unless none is there: and then    *)
(* the link is past the time the check asks about.                         *)
LEMMA ReadBinds ==
    ASSUME CheckInv, RevInv, TimesAssumption, chk.pc = "hook", ~Clear(chk, chk.i)
    PROVE  LET c == Link(chk.r, chk.i)
               row == IF c.jti = None THEN None ELSE getRevocationByIssuer(c.jti, c.iss)
           IN  row # None /\ Good(row, KeyFor(c))
<1> DEFINE x == chk.r.cap[chk.i]
           c == Link(chk.r, chk.i)
           k == KeyFor(c)
<1>1. /\ RequestOK(chk.r) /\ chk.i \in 1..Links(chk.r)
      /\ nonExpired(c, chk.t) /\ Running
  BY DEF CheckInv, Walk, Facts, Verified, Running
<1>2. c = Claims[x]
  BY <1>1 DEF Link, Links, RequestOK
<1>3. Forced(rev, x)
  BY DEF RevInv, Clear
<1>4. c.jti # None
  BY <1>2, <1>3 DEF Forced
<1>5. ~Gone(x)
  <2>1. SUFFICES ASSUME Gone(x) PROVE FALSE
    OBVIOUS
  <2>2. c.exp \in Int \ {None} /\ c.exp < now - Grace + Drift
    BY <1>2, <2>1 DEF Gone
  <2>3. now <= chk.began + Lag /\ chk.t >= chk.began - Tolerance
        /\ chk.began \in Int /\ chk.t \in Int /\ now \in Int
    BY <1>1 DEF RevInv
  <2>4. {Lag, Grace, Drift, Tolerance} \subseteq Int /\ Grace >= Drift + Tolerance + Lag
    BY TimesAssumption
  <2>5. c.exp < chk.t
    BY <2>2, <2>3, <2>4
  <2>6. c.exp >= chk.t
    BY <1>1, <2>2 DEF nonExpired
  <2>7. QED
    BY <2>2, <2>3, <2>5, <2>6
<1>6. k \in DOMAIN rev /\ rev[k] \in RowsOf /\ Good(rev[k], k)
  BY <1>2, <1>3, <1>5 DEF RevInv, Forced
<1>7. getRevocationByIssuer(c.jti, c.iss) = rev[k] /\ rev[k] # None
  BY <1>6, NoneIsNoRow DEF getRevocationByIssuer, RowAt, KeyFor
<1>8. QED
  BY <1>4, <1>6, <1>7

(* What binds a link refuses it.                                           *)
LEMMA GoodRevokes ==
    ASSUME CheckInv, chk.pc = "record", NEW row, row # None,
           Good(row, KeyFor(Link(chk.r, chk.i)))
    PROVE  revoked(row, Link(chk.r, chk.i))
<1> DEFINE c == Link(chk.r, chk.i)
<1>1. KeyFor(c)[1] = c.jti /\ KeyFor(c)[2] = Canon[c.iss]
  BY DEF KeyFor
<1>2. Evidence(row, c) /\ row.rec.sig
  BY <1>1 DEF Good, Evidence, SameDID
<1>3. CASE Canon[c.iss] = Subject
  BY <1>1, <1>2, <1>3 DEF Good, revoked, historicKeys, resolveDenySet
<1>4. CASE Canon[c.iss] # Subject
  <2>1. row.rec.kid # None /\ row.rec.kid = KeyOf[row.rec.iss]
    BY <1>1, <1>4 DEF Good
  <2>2. QED
    BY <1>2, <1>4, <2>1 DEF revoked, historicKeys, Evidence, SameDID
<1>5. QED
  BY <1>3, <1>4

-----------------------------------------------------------------------------
(* The steps of a check, once more.                                        *)
LEMMA VerifyLinkClears == ASSUME CheckInv, RevInv, VerifyLink PROVE RevInv'
<1> DEFINE c == Consulted(Link(chk.r, chk.i).iss)
<1>1. chk.pc = "verify" /\ Running /\ UNCHANGED <<plan, now, log, rev, forces>>
  BY DEF VerifyLink, Running
<1>2. chk \in Fields(chk) /\ Cleared(chk)
  BY <1>1 DEF CheckInv, RevInv
<1>3. CASE chk' = Rejected(chk)
  BY <1>1, <1>2, <1>3, RejectedFields, RevMoved
<1>4. CASE chk' = At(c, "hook", chk.i)
  <2>1. Same(chk, c) /\ c.out = "none"
    BY <1>1, Questioned
  <2> HIDE DEF c
  <2>2. Same(chk, chk') /\ chk'.out = "none" /\ chk'.pc = "hook" /\ chk'.i = chk.i
    BY <1>4, <2>1, AtFields DEF Same
  <2>3. Cleared(chk')
    BY <1>1, <1>2, <2>2 DEF Cleared, Clear, Same
  <2>4. QED
    BY <1>1, <2>2, <2>3, RevMoved
<1>5. QED
  BY <1>3, <1>4 DEF VerifyLink

LEMMA ReadRevocationClears ==
    ASSUME CheckInv, RevInv, ReadRevocation PROVE RevInv'
<1> DEFINE c == Link(chk.r, chk.i)
<1>1. chk.pc = "hook" /\ Running /\ UNCHANGED <<plan, now, log, rev, forces>>
  BY DEF ReadRevocation, Running
<1>2. chk \in Fields(chk) /\ Cleared(chk) /\ chk.out = "none"
  BY <1>1 DEF CheckInv, RevInv
<1>3. PICK row : /\ row = IF c.jti = None THEN None ELSE getRevocationByIssuer(c.jti, c.iss)
                 /\ chk' = [chk EXCEPT !.pc = "record", !.row = row]
  BY DEF ReadRevocation
<1>4. /\ Same(chk, chk') /\ chk'.out = "none"
      /\ chk'.pc = "record" /\ chk'.i = chk.i /\ chk'.row = row
  BY <1>2, <1>3 DEF Fields, Same
<1>5. ~Clear(chk, chk.i) => row # None /\ Good(row, KeyFor(c))
  BY <1>1, <1>3, ReadBinds, TimesAssumption
<1>6. Cleared(chk')
  BY <1>1, <1>2, <1>4, <1>5 DEF Cleared, Clear, Same
<1>7. QED
  BY <1>1, <1>4, <1>6, RevMoved

LEMMA AfterHookClears ==
    ASSUME CheckInv, RevInv, chk.pc = "record", chk' = AfterHook(chk),
           Clear(chk, chk.i), UNCHANGED <<plan, now, log, rev, forces>>
    PROVE  RevInv'
<1>1. /\ chk \in Fields(chk) /\ chk.out = "none" /\ RequestOK(chk.r) /\ Running
      /\ chk.i \in 1..Links(chk.r) /\ Cleared(chk)
  BY DEF CheckInv, Walk, Running, RevInv
<1>2. \A j \in 1..chk.i : Clear(chk, j)
  BY <1>1 DEF Cleared, Links, RequestOK
<1>3. CASE chk.i = 1 /\ chk' = At(chk, "aud", 0)
  <2>1. /\ Same(chk, chk') /\ chk'.out = "none" /\ chk'.pc = "aud" /\ chk'.i = 0
    BY <1>1, <1>3, AtFields
  <2>2. Cleared(chk')
    BY <1>1, <1>2, <1>3, <2>1 DEF Cleared, Clear, Same, Links, RequestOK
  <2>3. QED
    BY <1>1, <2>1, <2>2, RevMoved
<1>4. CASE chk' = Delegated(chk, chk.i)
  BY <1>1, <1>2, <1>4, DelegatedClears, RevMoved
<1>5. QED
  BY <1>3, <1>4 DEF AfterHook

LEMMA RefusedClears ==
    ASSUME CheckInv, RevInv, Running, chk' = Rejected(chk),
           UNCHANGED <<plan, now, log, rev, forces>>
    PROVE  RevInv'
BY RejectedFields, RevMoved DEF CheckInv

LEMMA JudgeRecordClears == ASSUME CheckInv, RevInv, JudgeRecord PROVE RevInv'
<1> DEFINE c == Link(chk.r, chk.i)
<1>1. chk.pc = "record" /\ Running /\ UNCHANGED <<plan, now, log, rev, forces>>
  BY DEF JudgeRecord, Running
<1>2. CASE revoked(chk.row, c)
  BY <1>1, <1>2, RefusedClears DEF JudgeRecord
<1>3. CASE ~revoked(chk.row, c)
  <2>1. Clear(chk, chk.i)
    BY <1>1, <1>3, GoodRevokes DEF RevInv, Cleared
  <2>2. QED
    BY <1>1, <1>3, <2>1, AfterHookClears DEF JudgeRecord
<1>4. QED
  BY <1>2, <1>3

LEMMA FaultClears == ASSUME CheckInv, RevInv, Fault PROVE RevInv'
<1> DEFINE c == Link(chk.r, chk.i)
<1>1. Running /\ UNCHANGED <<plan, now, log, rev, forces>>
  BY DEF Fault
<1>2. CASE chk.pc = "record" /\ chk.row # None /\ ~SameDID(chk.row.rec.iss, c.iss)
  <2>1. Clear(chk, chk.i)
    BY <1>1, <1>2 DEF RevInv, Cleared, Good, KeyFor, SameDID
  <2>2. chk' = AfterHook(chk)
    BY <1>2 DEF Fault
  <2>3. QED
    BY <1>1, <1>2, <2>1, <2>2, AfterHookClears
<1>3. CASE ~(chk.pc = "record" /\ chk.row # None /\ ~SameDID(chk.row.rec.iss, c.iss))
  <2>1. chk' = [Rejected(chk) EXCEPT !.fault = TRUE]
    BY <1>3 DEF Fault
  <2>2. QED
    BY <1>1, <2>1, FaultFields, RevMoved
<1>4. QED
  BY <1>2, <1>3

LEMMA AskAudienceClears == ASSUME CheckInv, RevInv, AskAudience PROVE RevInv'
<1> DEFINE i == chk.i
           c == Consulted(chk.r.sub)
<1>1. chk.pc = "aud" /\ Running /\ UNCHANGED <<plan, now, log, rev, forces>>
  BY DEF AskAudience, Running
<1>2. /\ chk \in Fields(chk) /\ chk.out = "none" /\ RequestOK(chk.r) /\ Cleared(chk)
      /\ \/ Chained(chk) /\ i \in 1..Links(chk.r)
         \/ Chained(chk) /\ i = 0
         \/ i = 0 /\ SelfIssued(chk.r)
  BY <1>1 DEF CheckInv, Walk, RevInv
<1>3. CASE chk' = Rejected(chk)
  BY <1>1, <1>3, RefusedClears
<1>4. CASE chk' = AfterAudience(c)
  <2>1. Same(chk, c) /\ c.out = "none" /\ c.i = i
    BY <1>1, Questioned
  <2> HIDE DEF c
  <2>2. c \in Fields(c) /\ c.r = chk.r /\ RequestOK(c.r)
    BY <1>2, <2>1 DEF Same
  <2>3. \A j : Clear(chk, j) <=> Clear(c, j)
    BY <2>1 DEF Clear, Same
  <2>4. CASE SelfIssued(chk.r)
    <3>1. PICK ok \in BOOLEAN : chk' = Judged(c, ok)
      BY <1>4, <2>2, <2>4 DEF AfterAudience, presentsGrant, hasPermission
    <3>2. Same(c, chk') /\ chk'.pc = "idle"
      BY <2>2, <3>1, JudgedFields
    <3>3. \A j \in 1..Walked(chk.r) : Clear(chk, j)
      BY <2>4 DEF Walked
    <3>4. QED
      BY <1>1, <2>1, <3>2, <3>3, RevMoved DEF Same
  <2>5. CASE ~SelfIssued(chk.r) /\ i = 0
    <3>1. chk' = Delegated(c, 1)
      BY <1>4, <2>1, <2>2, <2>5 DEF AfterAudience
    <3>2. 1 \in 1..Links(c.r)
      BY <1>2, <2>2, <2>5 DEF Chained, Links, RequestOK
    <3>3. \A j \in 1..1 : Clear(c, j)
      BY <1>1, <1>2, <2>2, <2>3, <2>5, <3>2 DEF Cleared
    <3>4. /\ Same(c, chk')
          /\ \/ chk'.pc = "idle" /\ chk'.out = "rejected"
             \/ chk'.pc # "idle" /\ chk'.out = "none" /\ Cleared(chk')
      BY <2>1, <2>2, <3>1, <3>2, <3>3, DelegatedClears
    <3>5. QED
      BY <1>1, <2>1, <3>4, RevMoved DEF Same
  <2>6. CASE ~SelfIssued(chk.r) /\ i # 0
    <3>1. i \in 1..Links(chk.r) /\ Links(chk.r) \in Nat
      BY <1>2, <2>6 DEF Links, RequestOK
    <3>2. \A j \in 1..i : Clear(chk, j)
      BY <1>1, <1>2, <3>1 DEF Cleared
    <3>3. CASE i < Links(chk.r)
      <4>1. chk' = At(c, "verify", i + 1)
        BY <1>4, <2>1, <2>2, <2>6, <3>3 DEF AfterAudience
      <4>2. /\ Same(c, chk') /\ chk'.out = "none" /\ chk'.pc = "verify" /\ chk'.i = i + 1
        BY <2>1, <2>2, <4>1, AtFields
      <4>3. Same(chk, chk')
        BY <2>1, <4>2 DEF Same
      <4>4. Cleared(chk')
        BY <3>1, <3>2, <4>2, <4>3 DEF Cleared, Clear, Same
      <4>5. QED
        BY <1>1, <4>2, <4>3, <4>4, RevMoved
    <3>4. CASE ~(i < Links(chk.r))
      <4>1. PICK ok \in BOOLEAN : chk' = Judged(c, ok)
        <5>1. \A x, t : Timely(x, t) \in BOOLEAN
          BY DEF Timely, nonExpired, validNotBefore, validIssuedAt
        <5>2. QED
          BY <1>4, <2>1, <2>2, <2>6, <3>4, <5>1 DEF AfterAudience
      <4>2. Same(c, chk') /\ chk'.pc = "idle"
        BY <2>2, <4>1, JudgedFields
      <4>3. \A j \in 1..Walked(chk.r) : Clear(chk, j)
        BY <2>6, <3>1, <3>2, <3>4 DEF Walked
      <4>4. QED
        BY <1>1, <2>1, <4>2, <4>3, RevMoved DEF Same
    <3>5. QED
      BY <3>3, <3>4
  <2>7. QED
    BY <2>4, <2>5, <2>6
<1>5. QED
  BY <1>3, <1>4 DEF AskAudience

LEMMA AskMemberClears == ASSUME CheckInv, RevInv, AskMember PROVE RevInv'
<1> DEFINE c == Loaded
<1>1. chk.pc = "member" /\ Running /\ UNCHANGED <<plan, now, log, rev, forces>>
  BY DEF AskMember, Running
<1>2. chk \in Fields(chk) /\ Cleared(chk)
  BY <1>1 DEF CheckInv, RevInv
<1>3. CASE chk' = Rejected(chk)
  BY <1>1, <1>3, RefusedClears
<1>4. CASE chk' = At(c, "memberAud", chk.i)
  <2>1. Same(chk, c) /\ c.out = "none"
    BY <1>1, Questioned
  <2> HIDE DEF c
  <2>2. Same(chk, chk') /\ chk'.out = "none" /\ chk'.pc = "memberAud" /\ chk'.i = chk.i
    BY <1>4, <2>1, AtFields DEF Same
  <2>3. Cleared(chk')
    BY <1>1, <1>2, <2>2 DEF Cleared, Clear, Same
  <2>4. QED
    BY <1>1, <2>2, <2>3, RevMoved
<1>5. QED
  BY <1>3, <1>4 DEF AskMember

LEMMA AskMemberAudienceClears ==
    ASSUME CheckInv, RevInv, AskMemberAudience PROVE RevInv'
<1>1. chk.pc = "memberAud" /\ Running /\ UNCHANGED <<plan, now, log, rev, forces>>
  BY DEF AskMemberAudience, Running
<1>2. /\ chk \in Fields(chk) /\ Cleared(chk) /\ RequestOK(chk.r)
      /\ chk.i = Links(chk.r)
  BY <1>1 DEF CheckInv, RevInv, Walk
<1>3. PICK ok \in BOOLEAN : chk' = Judged(chk, ok)
  BY DEF AskMemberAudience
<1>4. Same(chk, chk') /\ chk'.pc = "idle"
  BY <1>2, <1>3, JudgedFields
<1>5. \A j \in 1..Walked(chk.r) : Clear(chk, j)
  BY <1>1, <1>2 DEF Cleared, Walked, Links, RequestOK
<1>6. QED
  BY <1>1, <1>4, <1>5, RevMoved

-----------------------------------------------------------------------------
(* The store.                                                              *)
LEMMA RowsMoved ==
    ASSUME RevInv, UNCHANGED <<plan, now, log, chk>>,
           binding' \subseteq binding, binding' \subseteq inForce', inForce' \subseteq Cap,
           rev' \in [DOMAIN rev' -> RowsOf],
           \A x \in inForce' : Forced(rev', x)
    PROVE  RevInv'
<1>1. ASSUME NEW row, NEW k, Good(row, k) PROVE Good(row, k)'
  BY <1>1 DEF Good
<1>2. \A x \in inForce' : Forced(rev, x)'
  <2>1. SUFFICES ASSUME NEW x \in inForce' PROVE Forced(rev, x)'
    OBVIOUS
  <2>2. Forced(rev', x)
    OBVIOUS
  <2>3. QED
    BY <1>1, <2>2 DEF Forced, Gone
<1>3. \A j : Clear(chk, j) => Clear(chk, j)'
  BY DEF Clear
<1>4. (Running => Cleared(chk))'
  <2>1. SUFFICES ASSUME Running PROVE Cleared(chk)'
    BY DEF Running
  <2>2. Cleared(chk)
    BY <2>1 DEF RevInv
  <2>3. QED
    BY <1>1, <1>3, <2>2 DEF Cleared
<1>5. (chk.out = "accepted" => \A j \in 1..Walked(chk.r) : Clear(chk, j))'
  BY <1>3 DEF RevInv
<1>6. QED
  BY <1>2, <1>4, <1>5 DEF RevInv, Running

(* What is in force after a step, and since the check began.               *)
LEMMA TurnsWithin ==
    ASSUME RevInv, NEW lost, NEW gained \in SUBSET Cap, Turns(lost, gained)
    PROVE  /\ binding' \subseteq binding /\ binding' \subseteq inForce'
           /\ inForce' \subseteq Cap
           /\ \A x \in inForce' : x \in gained \/ (x \in inForce /\ x \notin lost)
BY DEF RevInv, Turns

LEMMA AddRevocationKeeps ==
    ASSUME plan \in Plan, RevInv, NEW a \in plan.arrivals, addRevocation(a)
    PROVE  RevInv'
<1> DEFINE k == RowKey(a)
           new == [rec |-> a.rec, iat |-> Lesser(a.iat, now + Drift),
                   ver |-> a.ver, exp |-> a.exp, hlc |-> a.hlc]
           stale == k \in DOMAIN rev /\ a.hlc <= rev[k].hlc
           lost == IF k \in DOMAIN rev THEN FiledAt(k) ELSE {}
           gained == {x \in FiledAt(k) : Genuine(a) /\ Outlasts(new, Claims[x])}
<1>1. /\ UNCHANGED <<plan, now, log, chk>>
      /\ rev' = IF stale THEN rev
                ELSE [j \in DOMAIN rev \cup {k} |-> IF j = k THEN new ELSE rev[j]]
      /\ IF stale THEN UNCHANGED forces ELSE Turns(lost, gained)
  BY DEF addRevocation
<1>2. /\ {a.iat, a.hlc} \subseteq Int /\ a.ver \in BOOLEAN /\ a.jti # None
      /\ a.exp \in Int \cup {None} /\ now \in Int /\ Drift \in Int
  BY ArrivalsAssumption, TimesAssumption DEF RevInv
<1>3. new \in RowsOf
  BY <1>2 DEF RowsOf, Lesser
<1>4. Genuine(a) => Good(new, k)
  <2>1. SUFFICES ASSUME Genuine(a) PROVE Good(new, k)
    OBVIOUS
  <2>2. k[1] = a.jti /\ k[2] = Canon[a.by] /\ new.rec = a.rec
    BY DEF RowKey
  <2>3. /\ a.rec.decodes /\ a.rec.rev /\ a.rec.sig
        /\ a.rec.jti = k[1] /\ Canon[a.rec.iss] = k[2]
        /\ a.rec.kid \in Signing(a.rec.iss)
    BY <2>1, <2>2 DEF Genuine, Authentic
  <2>4. k[2] = Subject => a.rec.kid \in log.held
    BY <2>1, <2>3 DEF Genuine
  <2>5. k[2] # Subject => a.rec.kid # None /\ a.rec.kid = KeyOf[a.rec.iss]
    BY <2>3 DEF Signing
  <2> HIDE DEF new, k
  <2>6. QED
    BY <2>2, <2>3, <2>4, <2>5 DEF Good
<1>5. gained \in SUBSET Cap /\ \A x \in FiledAt(k) : KeyFor(Claims[x]) = k
  BY DEF FiledAt
<1>6. \A x \in gained : Claims[x].jti # None
  BY <1>2, <1>5 DEF KeyFor, RowKey
<1>7. \A x \in gained : /\ KeyFor(Claims[x]) = k /\ Good(new, k)
                        /\ Outlasts(new, Claims[x])
  BY <1>4, <1>5
<1>8. \A x \in Cap : x \notin lost => k \notin DOMAIN rev \/ KeyFor(Claims[x]) # k
  BY DEF FiledAt
<1> HIDE DEF new, k, lost, gained
<1>9. CASE stale
  <2>1. rev' = rev /\ inForce' = inForce /\ binding' = binding
    BY <1>1, <1>9 DEF forces
  <2>2. QED
    BY <1>1, <2>1, RowsMoved DEF RevInv
<1>10. CASE ~stale
  <2>1. rev' = [j \in DOMAIN rev \cup {k} |-> IF j = k THEN new ELSE rev[j]]
    BY <1>1, <1>10
  <2>2. DOMAIN rev' = DOMAIN rev \cup {k} /\ rev'[k] = new
        /\ \A j \in DOMAIN rev : j # k => rev'[j] = rev[j]
    BY <2>1
  <2>3. rev' \in [DOMAIN rev' -> RowsOf]
    <3>1. \A j \in DOMAIN rev : rev[j] \in RowsOf
      BY DEF RevInv
    <3>2. QED
      BY <1>3, <2>1, <2>2, <3>1
  <2>4. Turns(lost, gained)
    BY <1>1, <1>10
  <2>5. /\ binding' \subseteq binding /\ binding' \subseteq inForce'
        /\ inForce' \subseteq Cap
        /\ \A x \in inForce' : x \in gained \/ (x \in inForce /\ x \notin lost)
    BY <1>5, <2>4, TurnsWithin
  <2>6. ASSUME NEW x \in inForce' PROVE Forced(rev', x)
    <3>1. CASE x \in gained
      BY <1>6, <1>7, <2>2, <3>1 DEF Forced
    <3>2. CASE x \in inForce /\ x \notin lost
      <4>1. Forced(rev, x) /\ x \in Cap
        BY <3>2 DEF RevInv
      <4>2. KeyFor(Claims[x]) \in DOMAIN rev => KeyFor(Claims[x]) # k
        BY <1>8, <3>2, <4>1
      <4>3. QED
        BY <2>2, <4>1, <4>2 DEF Forced
    <3>3. QED
      BY <2>5, <3>1, <3>2
  <2>7. QED
    BY <1>1, <2>3, <2>5, <2>6, RowsMoved
<1>11. QED
  BY <1>9, <1>10

LEMMA MarkKeeps ==
    ASSUME plan \in Plan, RevInv, NEW s \in plan.settles,
           markRevocationVerified(Claims[s])
    PROVE  RevInv'
<1> DEFINE c == Claims[s]
           k == <<c.jti, Canon[c.iss]>>
           lost == {x \in FiledAt(k) : ~SettledWithin(c.exp, Claims[x])}
<1>1. /\ UNCHANGED <<plan, now, log, chk>>
      /\ k \in DOMAIN rev
      /\ rev' = [rev EXCEPT ![k].ver = TRUE, ![k].exp = c.exp]
      /\ Turns(lost, {})
  BY DEF markRevocationVerified
<1>2. c.exp \in Int
  BY SettlesAssumption
<1>3. \A x \in Cap : x \notin lost /\ KeyFor(Claims[x]) = k
                     => SettledWithin(c.exp, Claims[x])
  BY DEF FiledAt
<1> HIDE DEF c, k, lost
<1>4. PICK row : row = [rev[k] EXCEPT !.ver = TRUE, !.exp = c.exp]
  OBVIOUS
<1>5. rev[k] \in RowsOf
  BY <1>1 DEF RevInv
<1>6. /\ row \in RowsOf /\ row.rec = rev[k].rec /\ row.ver /\ row.exp = c.exp
  BY <1>2, <1>4, <1>5 DEF RowsOf
<1>7. /\ DOMAIN rev' = DOMAIN rev /\ rev'[k] = row
      /\ \A j \in DOMAIN rev : j # k => rev'[j] = rev[j]
      /\ rev' \in [DOMAIN rev' -> RowsOf]
  BY <1>1, <1>4, <1>6 DEF RevInv
<1>8. /\ binding' \subseteq binding /\ binding' \subseteq inForce'
      /\ inForce' \subseteq Cap
      /\ \A x \in inForce' : x \in inForce /\ x \notin lost
  BY <1>1, TurnsWithin
<1>9. ASSUME NEW x \in inForce' PROVE Forced(rev', x)
  <2>1. Forced(rev, x) /\ x \in Cap
    BY <1>8 DEF RevInv
  <2>2. CASE KeyFor(Claims[x]) = k
    <3>1. Outlasts(row, Claims[x])
      BY <1>3, <1>6, <1>8, <2>1, <2>2 DEF Outlasts
    <3>2. Good(rev[k], k) => Good(row, k)
      BY <1>6 DEF Good
    <3>3. QED
      BY <1>7, <2>1, <2>2, <3>1, <3>2 DEF Forced
  <2>3. CASE KeyFor(Claims[x]) # k
    BY <1>7, <2>1, <2>3 DEF Forced
  <2>4. QED
    BY <2>2, <2>3
<1>10. QED
  BY <1>1, <1>7, <1>8, <1>9, RowsMoved

(* Rows go only with what they named, or once that is past any check's     *)
(* time.                                                                   *)
LEMMA WithoutKeeps ==
    ASSUME RevInv, UNCHANGED <<plan, now, log, chk>>,
           NEW gone \in SUBSET DOMAIN rev, rev' = Without(gone),
           binding' \subseteq binding, binding' \subseteq inForce', inForce' \subseteq inForce,
           \A x \in inForce' : KeyFor(Claims[x]) \in gone => Gone(x)
    PROVE  RevInv'
<1>1. DOMAIN rev' = DOMAIN rev \ gone /\ \A k \in DOMAIN rev' : rev'[k] = rev[k]
  BY DEF Without
<1>2. rev' \in [DOMAIN rev' -> RowsOf]
  BY <1>1 DEF RevInv, Without
<1>3. ASSUME NEW x \in inForce' PROVE Forced(rev', x)
  <2>1. Forced(rev, x)
    BY DEF RevInv
  <2>2. QED
    BY <1>1, <2>1 DEF Forced
<1>4. inForce' \subseteq Cap
  BY DEF RevInv
<1>5. QED
  BY <1>2, <1>3, <1>4, RowsMoved

LEMMA DiscardKeeps ==
    ASSUME plan \in Plan, RevInv, NEW s \in plan.settles,
           deletePendingRevocationsFromOtherIssuers(Claims[s])
    PROVE  RevInv'
<1> DEFINE c == Claims[s]
           gone == {k \in Discarded(c) : ~rev[k].ver}
           lost == {x \in Cap : /\ Claims[x].jti = c.jti /\ ~SameDID(Claims[x].iss, c.iss)
                                /\ KeyFor(Claims[x]) \in DOMAIN rev
                                /\ ~rev[KeyFor(Claims[x])].ver}
<1>1. UNCHANGED <<plan, now, log, chk>> /\ rev' = Without(gone) /\ Turns(lost, {})
  BY DEF deletePendingRevocationsFromOtherIssuers
<1>2. gone \in SUBSET DOMAIN rev
  BY DEF Discarded
<1>3. \A x \in Cap : KeyFor(Claims[x]) \in gone => x \in lost
  BY DEF Discarded, KeyFor, SameDID
<1> HIDE DEF gone, lost
<1>4. /\ binding' \subseteq binding /\ binding' \subseteq inForce'
      /\ inForce' \subseteq Cap
      /\ \A x \in inForce' : x \in inForce /\ x \notin lost
  BY <1>1, TurnsWithin
<1>5. QED
  BY <1>1, <1>2, <1>3, <1>4, WithoutKeeps

LEMMA PurgesKeep ==
    ASSUME RevInv, purgeExpiredRevocations \/ purgeDeadPendingRevocations
    PROVE  RevInv'
<1>1. /\ now \in Int /\ {TTL, Drift, Grace} \subseteq Int /\ Drift >= 0
      /\ inForce \subseteq Cap
  BY TimesAssumption DEF RevInv
<1>2. \A k \in DOMAIN rev : rev[k].iat \in Int /\ rev[k].exp \in Int \cup {None}
  BY DEF RevInv, RowsOf
<1>3. \A x \in Cap : {Claims[x].iat, Claims[x].exp} \subseteq Int \cup {None}
  BY ClaimsAssumption
<1>4. \A x \in inForce :
          Gone(x) \/ Outlasts(rev[KeyFor(Claims[x])], Claims[x])
  BY DEF RevInv, Forced
<1>5. CASE purgeExpiredRevocations
  <2> DEFINE gone == {k \in DOMAIN rev : /\ rev[k].ver /\ rev[k].exp # None
                                         /\ rev[k].exp < now - Grace}
  <2>1. UNCHANGED <<plan, now, log, chk, forces>> /\ rev' = Without(gone)
    BY <1>5 DEF purgeExpiredRevocations
  <2>2. ASSUME NEW x \in inForce, KeyFor(Claims[x]) \in gone,
               Outlasts(rev[KeyFor(Claims[x])], Claims[x])
        PROVE  Gone(x)
    <3>1. PICK k \in gone : k = KeyFor(Claims[x])
      BY <2>2
    <3>2. Claims[x].exp \in Int \ {None} /\ Claims[x].exp <= rev[k].exp
      BY <1>1, <1>3, <2>2, <3>1 DEF Outlasts, SettledWithin
    <3>3. rev[k].exp \in Int /\ rev[k].exp < now - Grace
      BY <1>2
    <3>4. QED
      BY <1>1, <3>2, <3>3 DEF Gone
  <2>3. gone \in SUBSET DOMAIN rev
    OBVIOUS
  <2>4. QED
    <3> HIDE DEF gone
    <3>1. inForce' = inForce /\ binding' = binding /\ binding \subseteq inForce
      BY <2>1 DEF forces, RevInv
    <3> QED
      BY <1>4, <2>1, <2>2, <2>3, <3>1, WithoutKeeps
<1>6. CASE purgeDeadPendingRevocations
  <2> DEFINE gone == {k \in DOMAIN rev : ~rev[k].ver /\ Dead(rev[k])}
  <2>1. UNCHANGED <<plan, now, log, chk, forces>> /\ rev' = Without(gone)
    BY <1>6 DEF purgeDeadPendingRevocations
  <2>2. ASSUME NEW x \in inForce, KeyFor(Claims[x]) \in gone,
               Outlasts(rev[KeyFor(Claims[x])], Claims[x])
        PROVE  Gone(x)
    <3>1. PICK k \in gone : k = KeyFor(Claims[x])
      BY <2>2
    <3> DEFINE e == Claims[x].exp
               f == Claims[x].iat
               g == rev[k].iat
    <3>2. /\ e \in Int \ {None} /\ f \in Int
          /\ e - f <= TTL /\ f <= g + Drift
      BY <1>1, <1>3, <2>2, <3>1 DEF Outlasts
    <3>3. g \in Int /\ g < now - TTL - Grace
      BY <1>2 DEF Dead
    <3>4. e < now - Grace + Drift
      <4> HIDE DEF e, f, g
      <4> QED
        BY <1>1, <3>2, <3>3
    <3>5. QED
      BY <3>2, <3>4 DEF Gone
  <2>3. gone \in SUBSET DOMAIN rev
    OBVIOUS
  <2>4. QED
    <3> HIDE DEF gone
    <3>1. inForce' = inForce /\ binding' = binding /\ binding \subseteq inForce
      BY <2>1 DEF forces, RevInv
    <3> QED
      BY <1>4, <2>1, <2>2, <2>3, <3>1, WithoutKeeps
<1>7. QED
  BY <1>5, <1>6

-----------------------------------------------------------------------------
(* The check stands before every link.                                     *)
Passed(c) ==
    /\ \A j \in 1..Links(c.r) :
           ~(\/ j < c.i
             \/ j = c.i /\ c.pc \in {"aud", "member", "memberAud"}
             \/ j = 1 /\ c.i = 0 /\ c.pc = "aud" /\ ~SelfIssued(c.r))
    /\ c.pc # "record"

(* A check that begins has passed no link yet.                             *)
LEMMA StartClears ==
    ASSUME NEW c, c \in Fields(c), c.out = "none", RequestOK(c.r),
           NEW d, d = Start(c, c.r)
    PROVE  /\ Same(c, d)
           /\ \/ d.pc = "idle" /\ d.out = "rejected"
              \/ d.pc # "idle" /\ d.out = "none" /\ Passed(d)
<1>1. \/ d = Rejected(c)
      \/ d = At(c, "aud", 0) /\ SelfIssued(c.r)
      \/ d = At(c, "member", 0)
      \/ d = At(c, "verify", 1)
  BY DEF Start
<1>2. Links(c.r) \in Nat
  BY DEF Links, RequestOK
<1>3. CASE d = Rejected(c)
  BY <1>3, RejectedFields
<1>4. CASE d = At(c, "aud", 0) /\ SelfIssued(c.r)
  <2>1. Same(c, d) /\ d.out = "none" /\ d.pc = "aud" /\ d.i = 0
    BY <1>4, AtFields
  <2>2. SelfIssued(d.r) /\ Links(d.r) \in Nat
    BY <1>2, <1>4, <2>1 DEF Same
  <2>3. QED
    BY <2>1, <2>2 DEF Passed
<1>5. CASE d = At(c, "member", 0)
  <2>1. Same(c, d) /\ d.out = "none" /\ d.pc = "member" /\ d.i = 0
    BY <1>5, AtFields
  <2>2. Links(d.r) \in Nat
    BY <1>2, <2>1 DEF Same
  <2>3. QED
    BY <2>1, <2>2 DEF Passed
<1>6. CASE d = At(c, "verify", 1)
  <2>1. Same(c, d) /\ d.out = "none" /\ d.pc = "verify" /\ d.i = 1
    BY <1>6, AtFields
  <2>2. Links(d.r) \in Nat
    BY <1>2, <2>1 DEF Same
  <2>3. QED
    BY <2>1, <2>2 DEF Passed
<1>7. QED
  BY <1>1, <1>3, <1>4, <1>5, <1>6

LEMMA BeginClears ==
    ASSUME CheckInv, RevInv, NEW r \in plan.requests, NEW late \in 0..Tolerance,
           Begin(r, now - late)
    PROVE  RevInv'
<1> DEFINE t == now - late
           c == [Idle EXCEPT !.r = r, !.t = t, !.began = now,
                             !.seen = log.members, !.kept = log.members]
<1>1. /\ chk' = Start(c, r) /\ binding' = inForce
      /\ UNCHANGED <<plan, now, log, rev, inForce>>
  BY DEF Begin
<1>2. /\ now \in Int /\ {Tolerance, Lag} \subseteq Int /\ Lag >= 0
      /\ late \in Int /\ late <= Tolerance
  BY TimesAssumption DEF RevInv
<1>3. t \in Int /\ t >= now - Tolerance /\ now <= now + Lag
  BY <1>2
<1>4. /\ c \in Fields(c) /\ c.r = r /\ c.t = t /\ c.began = now /\ c.out = "none"
  BY DEF Idle, Fields
<1> HIDE DEF c, t
<1>5. RequestOK(r)
  BY RequestsAssumption DEF CheckInv, RequestOK, presentsGrant
<1>6. /\ Same(c, chk')
      /\ \/ chk'.pc = "idle" /\ chk'.out = "rejected"
         \/ chk'.pc # "idle" /\ chk'.out = "none" /\ Passed(chk')
  BY <1>1, <1>4, <1>5, StartClears
<1>7. chk'.t = t /\ chk'.began = now
  BY <1>4, <1>6 DEF Same
<1>8. ASSUME NEW row, NEW k, Good(row, k) PROVE Good(row, k)'
  BY <1>1, <1>8 DEF Good
<1>9. \A x \in inForce' : Forced(rev, x)'
  BY <1>1, <1>8 DEF RevInv, Forced, Gone
<1>10. Running' => Cleared(chk)'
  BY <1>6 DEF Running, Passed, Cleared
<1>11. QED
  BY <1>1, <1>2, <1>3, <1>6, <1>7, <1>9, <1>10 DEF RevInv, Running

-----------------------------------------------------------------------------
(* The log keeps its keys, and time passes no check by more than Lag.      *)
LEMMA AroundClears ==
    ASSUME RevInv, UNCHANGED <<plan, rev, forces>>,
           log.held \subseteq log'.held,
           now' \in Int, now <= now', Running => now' <= chk.began + Lag,
           chk'.pc = chk.pc, chk'.r = chk.r, chk'.i = chk.i, chk'.t = chk.t,
           chk'.began = chk.began, chk'.row = chk.row, chk'.out = chk.out
    PROVE  RevInv'
<1>1. ASSUME NEW row, NEW k, Good(row, k) PROVE Good(row, k)'
  BY <1>1 DEF Good
<1>2. inForce' = inForce /\ binding' = binding
  BY DEF forces
<1>3. \A x : Gone(x) => Gone(x)'
  <2>1. now \in Int /\ Grace \in Int /\ Drift \in Int
    BY TimesAssumption DEF RevInv
  <2>2. SUFFICES ASSUME NEW x, Gone(x) PROVE Gone(x)'
    OBVIOUS
  <2>3. Claims[x].exp \in Int \ {None} /\ Claims[x].exp < now - Grace + Drift
    BY <2>2 DEF Gone
  <2>4. Claims[x].exp < now' - Grace + Drift
    BY <2>1, <2>3
  <2>5. QED
    BY <2>3, <2>4 DEF Gone
<1>4. \A x \in inForce' : Forced(rev, x)'
  BY <1>1, <1>2, <1>3 DEF RevInv, Forced
<1>5. \A j : Clear(chk, j) => Clear(chk, j)'
  BY <1>2 DEF Clear
<1>6. Running' => Cleared(chk)'
  <2>1. SUFFICES ASSUME Running' PROVE Cleared(chk)'
    OBVIOUS
  <2>2. Cleared(chk)
    BY <2>1 DEF RevInv, Running
  <2>3. QED
    BY <1>1, <1>5, <2>2 DEF Cleared
<1>7. (chk.out = "accepted" => \A j \in 1..Walked(chk.r) : Clear(chk, j))'
  BY <1>5 DEF RevInv
<1>8. QED
  BY <1>2, <1>4, <1>6, <1>7 DEF RevInv, Running

LEMMA LogClears ==
    ASSUME CheckInv, RevInv,
           \/ Rotate \/ \E x \in plan.denials : Deny(x)
           \/ \E m \in plan.changes : ChangeMember(m)
    PROVE  RevInv'
<1>1. log \in Views /\ chk \in Fields(chk) /\ now \in Int /\ now <= now
  BY DEF CheckInv, RevInv
<1>2. CASE Rotate \/ \E x \in plan.denials : Deny(x)
  <2>1. UNCHANGED <<plan, now, rev, forces, chk>>
    BY <1>2 DEF Rotate, Deny
  <2>2. log.held \subseteq log'.held
    BY <1>1, <1>2 DEF Rotate, Deny, Views
  <2>3. QED
    BY <1>1, <2>1, <2>2, AroundClears DEF RevInv
<1>3. CASE \E m \in plan.changes : ChangeMember(m)
  <2>1. PICK m \in plan.changes : ChangeMember(m)
    BY <1>3
  <2>2. UNCHANGED <<plan, now, rev, forces>> /\ log'.held = log.held
    BY <1>1, <2>1 DEF ChangeMember, Views
  <2>3. /\ chk'.pc = chk.pc /\ chk'.r = chk.r /\ chk'.i = chk.i /\ chk'.t = chk.t
        /\ chk'.began = chk.began /\ chk'.row = chk.row /\ chk'.out = chk.out
    <3>1. CASE Running
      <4>1. PICK s, k : chk' = [chk EXCEPT !.seen = s, !.kept = k]
        BY <2>1, <3>1 DEF ChangeMember
      <4>2. QED
        BY <1>1, <4>1 DEF Fields
    <3>2. CASE ~Running
      BY <2>1, <3>2 DEF ChangeMember
    <3>3. QED
      BY <3>1, <3>2
  <2>4. QED
    BY <1>1, <2>2, <2>3, AroundClears DEF RevInv
<1>4. QED
  BY <1>2, <1>3

LEMMA TickClears == ASSUME RevInv, Tick PROVE RevInv'
<1>1. UNCHANGED <<plan, log, rev, chk, forces>> /\ now' = now + 1 /\ now \in Int
  BY DEF Tick, RevInv
<1>2. Running => now' <= chk.began + Lag
  <2>1. Lag \in Int
    BY TimesAssumption
  <2>2. Running => chk.began \in Int /\ now - chk.began < Lag
    BY DEF Tick, RevInv
  <2>3. QED
    BY <1>1, <2>1, <2>2
<1>3. QED
  BY <1>1, <1>2, AroundClears

LEMMA RevInit == Init => RevInv
<1> SUFFICES ASSUME Init PROVE RevInv
  OBVIOUS
<1>1. chk.pc = "idle" /\ chk.out = "none"
  BY DEF Init, Idle
<1>2. now \in Int /\ DOMAIN rev = {} /\ rev \in [DOMAIN rev -> RowsOf] /\ inForce = {} /\ binding = {}
  BY DEF Init
<1>3. QED
  BY <1>1, <1>2 DEF RevInv, Running

LEMMA RevNext == CheckInv /\ RevInv /\ [Next]_vars => RevInv'
<1> SUFFICES ASSUME CheckInv, RevInv, [Next]_vars PROVE RevInv'
  OBVIOUS
<1>1. CASE UNCHANGED <<plan, now, log, rev, chk, forces>>
  <2>1. log.held \subseteq log'.held /\ now' \in Int /\ now <= now'
        /\ (Running => now' <= chk.began + Lag)
    BY <1>1 DEF RevInv
  <2>2. QED
    BY <1>1, <2>1, AroundClears
<1>2. CASE \E r \in plan.requests, late \in 0..Tolerance : Begin(r, now - late)
  BY <1>2, BeginClears
<1>3. CASE Step
  BY <1>3, VerifyLinkClears, ReadRevocationClears, JudgeRecordClears, AskAudienceClears,
     AskMemberClears, AskMemberAudienceClears DEF Step
<1>4. CASE Fault
  BY <1>4, FaultClears
<1>5. CASE \E a \in plan.arrivals : addRevocation(a)
  BY <1>5, AddRevocationKeeps DEF CheckInv
<1>6. CASE \E s \in plan.settles : markRevocationVerified(Claims[s])
  BY <1>6, MarkKeeps DEF CheckInv
<1>7. CASE \E s \in plan.settles : deletePendingRevocationsFromOtherIssuers(Claims[s])
  BY <1>7, DiscardKeeps DEF CheckInv
<1>8. CASE purgeExpiredRevocations \/ purgeDeadPendingRevocations
  BY <1>8, PurgesKeep
<1>9. CASE \/ Rotate \/ (\E x \in plan.denials : Deny(x))
           \/ \E m \in plan.changes : ChangeMember(m)
  BY <1>9, LogClears
<1>10. CASE Tick
  BY <1>10, TickClears
<1>11. CASE \/ \E x \in plan.tokens : addDelegationToken(x)
            \/ \E x \in plan.tokens : removeDelegationToken(x.jti)
  BY <1>1, <1>11 DEF addDelegationToken, removeDelegationToken
<1>12. CASE UNCHANGED vars
  BY <1>1, <1>12 DEF vars
<1>13. QED
  BY <1>2, <1>3, <1>4, <1>5, <1>6, <1>7, <1>8, <1>9, <1>10, <1>11, <1>12 DEF Next

(* No check that begins while a genuine revocation of a link is in force   *)
(* accepts a chain with it, whatever was settled, replaced or purged since,*)
(* and whichever keys were rotated away or denied: for every lifetime,     *)
(* drift, tolerance and duration of a check that the grace period covers,  *)
(* and every set of capabilities, revokers and records, forged ones under  *)
(* a revoker's name and jtis that several issuers use among them.          *)
THEOREM RevocationsOutlive == Spec => []RevocationOutlives
<1>1. RevInv => RevocationOutlives
  BY DEF RevInv, RevocationOutlives, Clear
<1>2. Init => CheckInv /\ RevInv
  BY CheckInit, RevInit
<1>3. CheckInv /\ RevInv /\ [Next]_vars => (CheckInv /\ RevInv)'
  BY CheckNext, RevNext
<1>4. QED
  BY <1>1, <1>2, <1>3, PTL DEF Spec

-----------------------------------------------------------------------------
(* Refusals.                                                               *)

(* hasPartsMatch finds every pattern that covers a concrete one.           *)
LEMMA ConcreteCovered ==
    ASSUME NEW x \in Pattern, NEW a \in Pattern, Stars(x) = {}, x \in Denotes(a)
    PROVE  hasPartsMatch(x, a)
<1>1. CASE x = a
  BY <1>1 DEF hasPartsMatch
<1>2. CASE x # a
  <2>1. PICK n \in Stars(a) : /\ n - 1 <= Len(x)
                              /\ SubSeq(x, 1, n - 1) = SubSeq(a, 1, n - 1)
    BY <1>2 DEF Denotes
  <2>2. n \in 1..Len(a) /\ Len(x) \in Nat
    BY DEF Stars, Pattern
  <2>3. ASSUME NEW i \in DOMAIN a, Prefix(a, i)
        PROVE  i \in DOMAIN x /\ x[i] = a[i]
    <3>1. i \in 1..(n - 1) /\ i \in 1..Len(x)
      BY <2>1, <2>2, <2>3 DEF Prefix, Pattern
    <3>2. SubSeq(x, 1, n - 1)[i] = x[i] /\ SubSeq(a, 1, n - 1)[i] = a[i]
      BY <2>1, <2>2, <3>1 DEF Pattern
    <3>3. DOMAIN x = 1..Len(x)
      BY DEF Pattern
    <3>4. QED
      BY <2>1, <3>1, <3>2, <3>3
  <2>4. QED
    BY <2>1, <2>3 DEF hasPartsMatch
<1>3. QED
  BY <1>1, <1>2

(* hasPermission refuses only what exceeds the grant.                      *)
LEMMA Exceeding ==
    ASSUME NEW e, NEW g, Grants(e, Component), Grants(g, Component),
           ~hasPermission(e, g)
    PROVE  Exceeds(e, g)
<1>1. PICK x \in e.act, y \in e.res :
         \A a \in g.act, b \in g.res : ~(hasPartsMatch(x, a) /\ hasPartsMatch(y, b))
  BY PermissionByParts
<1>2. ASSUME Stars(x) \cup Stars(y) = {}, <<x, y>> \in Allows(g)
      PROVE  FALSE
  <2>1. PICK a \in g.act, b \in g.res : x \in Denotes(a) /\ y \in Denotes(b)
    BY <1>2 DEF Allows
  <2>2. hasPartsMatch(x, a) /\ hasPartsMatch(y, b)
    BY <1>2, <2>1, ConcreteCovered DEF Grants, Pattern
  <2>3. QED
    BY <1>1, <2>2
<1>3. QED
  BY <1>1, <1>2 DEF Exceeds

(* What createCapability made sure of, link by link.                       *)
LEMMA MintedParts ==
    ASSUME NEW r, NEW t, Minted(r, t), NEW i \in First(r)..Walked(r),
           NEW y, y = Link(r, i), NEW x, x = Link(r, i + 1)
    PROVE  /\ i < Walked(r) => /\ SameDID(y.iss, x.aud) /\ SameDID(y.sub, x.sub)
                               /\ expiryWithinParent(x, y) /\ hasPermission(y, x)
           /\ i = Walked(r) => \/ SelfIssued(y)
                               \/ y.mbr # None /\ y.exp # None /\ y.iat # None
<1>1. PICK u : createCapability(y, IF i < Walked(r) THEN x ELSE None, u)
  BY DEF Minted
<1>2. i < Walked(r) => ~IsRoot(y)
  BY DEF Minted
<1>3. CASE i < Walked(r)
  <2>1. ~SameDID(y.sub, y.iss) /\ ~(y.mbr # None)
    BY <1>2, <1>3 DEF IsRoot, SelfIssued, SameDID
  <2>2. createCapability(y, x, u)
    BY <1>1, <1>3
  <2>3. /\ SameDID(x.aud, y.iss) /\ SameDID(x.sub, y.sub)
        /\ expiryWithinParent(x, y) /\ hasPermission(y, x)
    BY <2>1, <2>2 DEF createCapability
  <2>4. QED
    BY <1>3, <2>3 DEF SameDID
<1>4. CASE ~(i < Walked(r))
  BY <1>1, <1>4 DEF createCapability, SelfIssued, SameDID
<1>5. QED
  BY <1>3, <1>4

LEMMA DelegatedView ==
    ASSUME NEW c, c \in Fields(c), NEW i, NEW d, d = Delegated(c, i)
    PROVE  d.view = c.view
<1>1. d = Rejected(c) \/ d = At(c, "aud", i) \/ d = At(c, "member", i)
  BY DEF Delegated, Enter
<1>2. QED
  BY <1>1, RejectedFields, AtFields

(* A cause stays one while the check moves on and the log denies more.     *)
LEMMA CauseKept ==
    ASSUME NEW c, Cause(c), Same(c, chk'), plan' = plan, filed \subseteq filed',
           log.denied \subseteq log'.denied
    PROVE  Cause(chk)'
<1> DEFINE r == c.r
           n == Walked(r)
<1>1. chk'.r = r /\ chk'.t = c.t /\ chk'.kept = c.kept /\ chk'.start = c.start
  BY DEF Same
<1>2. \A did : resolveDenySet(log, did) \subseteq resolveDenySet(log', did)
  BY DEF resolveDenySet
<1>3. \A x : ~Undenied(log, x) => ~Undenied(log', x)
  BY <1>2 DEF Undenied
<1>4. CASE \E x \in Granting(r) : ~Timely(x, c.t) \/ ~Undenied(log, x)
  BY <1>1, <1>3, <1>4 DEF Cause
<1>5. CASE \/ n > MaxDepth
           \/ Exceeds(Request(r), Link(r, First(r)))
           \/ ~Rooted(r, c.kept)
  BY <1>1, <1>5 DEF Cause
<1>6. CASE \E i \in 1..n :
               LET x == Link(r, i)
               IN  \/ KeyFor(x) \in filed
                   \/ x.kid \in resolveDenySet(log, x.iss)
                   \/ Canon[x.iss] = Subject /\ x.kid \notin c.start.held
                   \/ \E a \in plan.arrivals :
                          /\ RowKey(a) = KeyFor(x) /\ a.rec.decodes /\ a.rec.rev
                          /\ a.rec.kid \in resolveDenySet(log, x.iss)
  <2>1. PICK i \in 1..n :
               LET x == Link(r, i)
               IN  \/ KeyFor(x) \in filed
                   \/ x.kid \in resolveDenySet(log, x.iss)
                   \/ Canon[x.iss] = Subject /\ x.kid \notin c.start.held
                   \/ \E a \in plan.arrivals :
                          /\ RowKey(a) = KeyFor(x) /\ a.rec.decodes /\ a.rec.rev
                          /\ a.rec.kid \in resolveDenySet(log, x.iss)
    BY <1>6
  <2>2. LET x == Link(r, i)
        IN  \/ KeyFor(x) \in filed'
            \/ x.kid \in resolveDenySet(log', x.iss)
            \/ Canon[x.iss] = Subject /\ x.kid \notin c.start.held
            \/ \E a \in plan'.arrivals :
                   /\ RowKey(a) = KeyFor(x) /\ a.rec.decodes /\ a.rec.rev
                   /\ a.rec.kid \in resolveDenySet(log', x.iss)
    BY <1>2, <2>1
  <2>3. QED
    BY <1>1, <2>2 DEF Cause
<1>7. QED
  BY <1>4, <1>5, <1>6 DEF Cause

(* A link that is verified and minted as part of the next delegates, and   *)
(* the walk ends at a root, unless there is a cause.                       *)
LEMMA DelegatedRefuses ==
    ASSUME NEW c, c \in Fields(c), c.out = "none", RequestOK(c.r), Chained(c),
           Minted(c.r, c.t), NEW i \in 1..Links(c.r),
           NEW d, d = Delegated(c, i), d.out = "rejected"
    PROVE  Cause(c)
<1> SUFFICES ASSUME ~Cause(c) PROVE FALSE
  OBVIOUS
<1> DEFINE r == c.r
           x == Link(r, i)
           y == Link(r, i - 1)
           grants == i > 1 \/ presentsGrant(y)
           bare == [iss |-> y.iss, sub |-> y.sub, act |-> y.permAct, res |-> y.permRes]
           to == IF grants THEN y ELSE bare
<1>1. /\ Walked(r) = Links(r) /\ Links(r) \in Nat /\ i \in Nat /\ i >= 1
      /\ First(r) \in {0, 1} /\ (First(r) = 0 <=> presentsGrant(r))
  BY DEF Chained, Walked, Links, RequestOK, First
<1>2. i \in First(r)..Walked(r)
  BY <1>1
<1>3. Timely(x, c.t)
  BY <1>2 DEF Cause, Granting
<1>4. i = 1 => y = r
  BY DEF Link
<1>5. ASSUME grants
      PROVE  assertValidDelegation(x, to, c.t) /\ expiryWithinParent(x, y)
  <2>1. i - 1 \in First(r)..Walked(r) /\ i - 1 < Walked(r) /\ (i - 1) + 1 = i
    BY <1>1, <1>4, <1>5
  <2>2. /\ SameDID(y.iss, x.aud) /\ SameDID(y.sub, x.sub)
        /\ expiryWithinParent(x, y) /\ hasPermission(y, x)
    BY <2>1, MintedParts
  <2>3. to = y
    BY <1>5
  <2> HIDE DEF to, grants, y, x
  <2>4. QED
    BY <1>3, <2>2, <2>3 DEF assertValidDelegation, Timely
<1>6. ASSUME ~grants
      PROVE  assertValidDelegation(x, to, c.t)
  <2>1. i = 1 /\ y = r /\ ~presentsGrant(r) /\ First(r) = 1
    BY <1>1, <1>4, <1>6
  <2>2. SameDID(r.iss, x.aud) /\ SameDID(r.sub, x.sub)
    BY <2>1 DEF Minted
  <2>3. hasPermission(Request(r), x)
    <3>1. Grants(Request(r), Component) /\ Grants(x, Component)
      BY LinkGrants DEF RequestOK, Grants, Request, Pattern
    <3>2. ~Exceeds(Request(r), x)
      BY <2>1 DEF Cause
    <3>3. QED
      BY <3>1, <3>2, Exceeding
  <2>4. hasPermission(bare, x)
    BY <2>1, <2>3 DEF hasPermission, Request
  <2>5. to = bare /\ bare.iss = r.iss /\ bare.sub = r.sub
    BY <1>6, <2>1
  <2> HIDE DEF to, grants, bare, y, x
  <2>6. QED
    BY <1>3, <2>2, <2>4, <2>5 DEF assertValidDelegation, Timely
<1>7. d = Enter(c, i)
  BY <1>5, <1>6 DEF Delegated
<1>8. i < Links(r) \/ SelfIssued(x) \/ x.mbr # None
  BY <1>1, <1>2, MintedParts
<1>9. d = At(c, "aud", i) \/ d = At(c, "member", i)
  BY <1>7, <1>8 DEF Enter
<1>10. QED
  BY <1>9, AtFields

-----------------------------------------------------------------------------
(* Every row was filed as it arrived, and is on record if it is genuine.   *)
Origin(row, k) ==
    row # None =>
        \E a \in plan.arrivals : /\ RowKey(a) = k /\ row.rec = a.rec
                                 /\ Authentic(a) => k \in filed

(* The members that stayed and the keys a check began with are in the log  *)
(* and in the view it froze, and what the view denies the log denies.      *)
Loads(c) ==
    /\ c.kept \subseteq log.members /\ c.start.held \subseteq log.held
    /\ c.view # None => /\ c.kept \subseteq c.view.members
                        /\ c.start.held \subseteq c.view.held
                        /\ c.view.denied \subseteq log.denied

CauseInv ==
    /\ \A k \in DOMAIN rev : Origin(rev[k], k)
    /\ Running => /\ Loads(chk)
                  /\ chk.pc = "record" => Origin(chk.row, KeyFor(Link(chk.r, chk.i)))
    /\ RefusedForCause

LEMMA ViewLoads ==
    ASSUME CheckInv, CauseInv, Running
    PROVE  /\ chk.kept \subseteq View.members /\ chk.start.held \subseteq View.held
           /\ View.denied \subseteq log.denied
BY DEF CauseInv, Loads, View

LEMMA LoadsKept ==
    ASSUME CheckInv, CauseInv, Running, NEW d,
           d = Loaded \/ \E did \in DOMAIN Canon \cup {chk.r.sub, Link(chk.r, chk.i).iss} :
                             d = Consulted(did)
    PROVE  Loads(d)
<1>1. Same(chk, d)
  BY Questioned
<1>2. d.view = chk.view \/ d.view = View
  <2>1. d = Loaded \/ d = chk
    BY DEF Consulted
  <2>2. CASE d = chk
    BY <2>2
  <2>3. CASE d = Loaded /\ chk.r.frozen
    BY <2>3, Questioned
  <2>4. CASE d = Loaded /\ ~chk.r.frozen
    BY <2>4 DEF Loaded
  <2>5. QED
    BY <2>1, <2>2, <2>3, <2>4
<1>3. Loads(chk)
  BY DEF CauseInv
<1>4. QED
  BY <1>1, <1>2, <1>3, ViewLoads DEF Loads, Same

(* A step of the check that goes on, or refuses with a cause.              *)
LEMMA CauseMoved ==
    ASSUME CheckInv, CauseInv, Running, UNCHANGED <<plan, log, rev, filed>>,
           Same(chk, chk'),
           chk'.pc # "idle" => chk'.out = "none" /\ Loads(chk'),
           chk'.pc = "record" => Origin(chk'.row, KeyFor(Link(chk'.r, chk'.i))),
           chk'.out = "rejected" /\ ~chk'.fault /\ Minted(chk.r, chk.t) => Cause(chk)
    PROVE  CauseInv'
<1>1. (\A k \in DOMAIN rev : Origin(rev[k], k))'
  BY DEF CauseInv, Origin
<1>2. Running' => Loads(chk)'
  BY DEF Running, Loads
<1>3. (chk.pc = "record" => Origin(chk.row, KeyFor(Link(chk.r, chk.i))))'
  BY DEF Origin
<1>4. ASSUME chk'.out = "rejected", ~chk'.fault, Minted(chk'.r, chk'.t)
      PROVE  Cause(chk)'
  <2>1. Cause(chk)
    BY <1>4 DEF Same
  <2>2. QED
    BY <2>1, CauseKept
<1>5. RefusedForCause'
  BY <1>4 DEF RefusedForCause
<1>6. QED
  BY <1>1, <1>2, <1>3, <1>5 DEF CauseInv

(* Where a chain is being walked.                                          *)
LEMMA ChainPlace ==
    ASSUME CheckInv, Running, chk.pc \in {"verify", "hook", "record"}
    PROVE  /\ chk \in Fields(chk) /\ chk.out = "none" /\ RequestOK(chk.r) /\ Chained(chk)
           /\ chk.i \in 1..Links(chk.r) /\ Walked(chk.r) = Links(chk.r)
           /\ First(chk.r) \in {0, 1} /\ Links(chk.r) \in Nat
           /\ chk.i \in First(chk.r)..Walked(chk.r)
<1>1. /\ chk \in Fields(chk) /\ chk.out = "none" /\ RequestOK(chk.r) /\ Chained(chk)
      /\ chk.i \in 1..Links(chk.r)
  BY DEF CheckInv, Walk
<1>2. Walked(chk.r) = Links(chk.r) /\ First(chk.r) \in {0, 1} /\ Links(chk.r) \in Nat
  BY <1>1 DEF Chained, Walked, First, Links, RequestOK
<1>3. QED
  BY <1>1, <1>2

LEMMA VerifyRefuses ==
    ASSUME CheckInv, CauseInv, Running, chk.pc = "verify", Minted(chk.r, chk.t),
           ~verifyLink(View, Link(chk.r, chk.i), chk.t)
    PROVE  Cause(chk)
<1> DEFINE x == Link(chk.r, chk.i)
<1>1. /\ chk.i \in 1..Walked(chk.r) /\ chk.i \in First(chk.r)..Walked(chk.r)
  BY ChainPlace
<1>2. x.sig /\ x.kid \in Signing(x.iss)
  BY <1>1 DEF Minted
<1>3. CASE ~Timely(x, chk.t)
  BY <1>1, <1>3 DEF Cause, Granting
<1>4. CASE Timely(x, chk.t)
  <2>1. x.kid \notin historicKeys(View, x.iss)
    BY <1>2, <1>4 DEF verifyLink, Timely
  <2>2. Canon[x.iss] = Subject /\ (x.kid \notin View.held \/ x.kid \in View.denied)
    BY <1>2, <2>1 DEF historicKeys, Signing
  <2>3. x.kid \notin chk.start.held \/ x.kid \in resolveDenySet(log, x.iss)
    BY <2>2, ViewLoads DEF resolveDenySet
  <2>4. QED
    BY <1>1, <2>2, <2>3 DEF Cause
<1>5. QED
  BY <1>3, <1>4

LEMMA VerifyLinkCause == ASSUME CheckInv, CauseInv, VerifyLink PROVE CauseInv'
<1> DEFINE c == Consulted(Link(chk.r, chk.i).iss)
<1>1. chk.pc = "verify" /\ Running /\ UNCHANGED <<plan, log, rev, filed>>
  BY DEF VerifyLink, Running
<1>2. chk \in Fields(chk)
  BY DEF CheckInv
<1>3. CASE ~verifyLink(View, Link(chk.r, chk.i), chk.t)
  <2>1. chk' = Rejected(chk)
    BY <1>3 DEF VerifyLink
  <2>2. Same(chk, chk') /\ chk'.pc = "idle"
    BY <1>2, <2>1, RejectedFields
  <2>3. QED
    BY <1>1, <1>3, <2>2, VerifyRefuses, CauseMoved
<1>4. CASE verifyLink(View, Link(chk.r, chk.i), chk.t)
  <2>1. chk' = At(c, "hook", chk.i)
    BY <1>4 DEF VerifyLink
  <2>2. Same(chk, c) /\ c.out = "none" /\ Loads(c)
    BY <1>1, Questioned, LoadsKept
  <2> HIDE DEF c
  <2>3. Same(c, chk') /\ chk'.view = c.view /\ chk'.out = "none" /\ chk'.pc = "hook"
    BY <2>1, <2>2, AtFields DEF Same
  <2>4. Same(chk, chk') /\ Loads(chk')
    BY <2>2, <2>3 DEF Same, Loads
  <2>5. QED
    BY <1>1, <2>3, <2>4, CauseMoved
<1>5. QED
  BY <1>3, <1>4

LEMMA ReadRevocationCause == ASSUME CheckInv, CauseInv, ReadRevocation PROVE CauseInv'
<1> DEFINE x == Link(chk.r, chk.i)
           row == IF x.jti = None THEN None ELSE getRevocationByIssuer(x.jti, x.iss)
<1>1. chk.pc = "hook" /\ Running /\ UNCHANGED <<plan, log, rev, filed>>
      /\ chk' = [chk EXCEPT !.pc = "record", !.row = row]
  BY DEF ReadRevocation, Running
<1>2. Origin(row, KeyFor(x))
  BY DEF CauseInv, Origin, getRevocationByIssuer, RowAt, KeyFor
<1> HIDE DEF row, x
<1>3. chk \in Fields(chk) /\ chk.out = "none" /\ Loads(chk)
  BY <1>1 DEF CheckInv, CauseInv
<1>4. /\ Same(chk, chk') /\ chk'.view = chk.view /\ chk'.out = "none"
      /\ chk'.pc = "record" /\ chk'.i = chk.i /\ chk'.row = row
  BY <1>1, <1>3 DEF Fields, Same
<1>5. Loads(chk')
  BY <1>3, <1>4 DEF Loads, Same
<1>6. Origin(chk'.row, KeyFor(Link(chk'.r, chk'.i)))
  BY <1>2, <1>4 DEF x, Same
<1>7. QED
  BY <1>1, <1>4, <1>5, <1>6, CauseMoved

(* What revokes a link is genuine, or signed with a key denied since.      *)
LEMMA RecordRefuses ==
    ASSUME CheckInv, CauseInv, Running, chk.pc = "record",
           revoked(chk.row, Link(chk.r, chk.i))
    PROVE  Cause(chk)
<1> DEFINE x == Link(chk.r, chk.i)
           row == chk.row
<1>1. chk.i \in 1..Walked(chk.r)
  BY ChainPlace
<1>2. /\ row # None /\ row.rec.decodes /\ row.rec.rev /\ row.rec.jti = x.jti
      /\ Canon[row.rec.iss] = Canon[x.iss]
  BY DEF revoked, Evidence, SameDID
<1>3. PICK a \in plan.arrivals : /\ RowKey(a) = KeyFor(x) /\ row.rec = a.rec
                                 /\ Authentic(a) => KeyFor(x) \in filed
  BY <1>2 DEF CauseInv, Origin
<1>4. a.jti = x.jti /\ Canon[a.by] = Canon[x.iss]
  BY <1>3 DEF RowKey, KeyFor
<1>5. CASE row.rec.kid \in historicKeys(log, row.rec.iss) /\ row.rec.sig
  <2>1. log.held \subseteq {FirstKey, NextKey}
    BY DEF CheckInv, Views
  <2>2. row.rec.kid \in Signing(row.rec.iss)
    BY <1>5, <2>1 DEF historicKeys, Signing
  <2>3. Authentic(a)
    BY <1>2, <1>3, <1>4, <1>5, <2>2 DEF Authentic
  <2>4. QED
    BY <1>1, <1>3, <2>3 DEF Cause
<1>6. CASE row.rec.kid \in resolveDenySet(log, row.rec.iss)
  <2>1. a.rec.kid \in resolveDenySet(log, x.iss)
    BY <1>2, <1>3, <1>6 DEF resolveDenySet
  <2>2. QED
    BY <1>1, <1>2, <1>3, <2>1 DEF Cause
<1>7. QED
  BY <1>5, <1>6 DEF revoked

LEMMA AfterHookCause ==
    ASSUME CheckInv, CauseInv, Running, chk.pc = "record", chk' = AfterHook(chk),
           UNCHANGED <<plan, log, rev, filed>>
    PROVE  CauseInv'
<1>1. /\ chk \in Fields(chk) /\ chk.out = "none" /\ RequestOK(chk.r) /\ Chained(chk)
      /\ chk.i \in 1..Links(chk.r) /\ Loads(chk)
  BY ChainPlace DEF CauseInv
<1>2. CASE chk' = At(chk, "aud", 0)
  <2>1. Same(chk, chk') /\ chk'.view = chk.view /\ chk'.out = "none" /\ chk'.pc = "aud"
    BY <1>1, <1>2, AtFields
  <2>2. Loads(chk')
    BY <1>1, <2>1 DEF Loads, Same
  <2>3. QED
    BY <2>1, <2>2, CauseMoved
<1>3. CASE chk' = Delegated(chk, chk.i)
  <2>1. /\ Same(chk, chk')
        /\ \/ chk'.pc = "idle" /\ chk'.out = "rejected"
           \/ chk'.pc \in {"aud", "member"} /\ chk'.out = "none"
    BY <1>1, <1>3, DelegatedGoes
  <2>2. chk'.view = chk.view
    BY <1>1, <1>3, DelegatedView
  <2>3. Loads(chk')
    BY <1>1, <2>1, <2>2 DEF Loads, Same
  <2>4. chk'.out = "rejected" /\ Minted(chk.r, chk.t) => Cause(chk)
    BY <1>1, <1>3, DelegatedRefuses
  <2>5. QED
    BY <2>1, <2>3, <2>4, CauseMoved
<1>4. QED
  BY <1>2, <1>3 DEF AfterHook

LEMMA JudgeRecordCause == ASSUME CheckInv, CauseInv, JudgeRecord PROVE CauseInv'
<1>1. chk.pc = "record" /\ Running /\ UNCHANGED <<plan, log, rev, filed>>
  BY DEF JudgeRecord, Running
<1>2. CASE revoked(chk.row, Link(chk.r, chk.i))
  <2>1. chk' = Rejected(chk)
    BY <1>2 DEF JudgeRecord
  <2>2. Same(chk, chk') /\ chk'.pc = "idle"
    BY <2>1, RejectedFields DEF CheckInv
  <2>3. QED
    BY <1>1, <1>2, <2>2, RecordRefuses, CauseMoved
<1>3. CASE ~revoked(chk.row, Link(chk.r, chk.i))
  BY <1>1, <1>3, AfterHookCause DEF JudgeRecord
<1>4. QED
  BY <1>2, <1>3

LEMMA FaultCause == ASSUME CheckInv, CauseInv, Fault PROVE CauseInv'
<1>1. Running /\ UNCHANGED <<plan, log, rev, filed>>
  BY DEF Fault
<1>2. CASE chk.pc = "record" /\ chk' = AfterHook(chk)
  BY <1>1, <1>2, AfterHookCause
<1>3. CASE chk' = [Rejected(chk) EXCEPT !.fault = TRUE]
  <2>1. Same(chk, chk') /\ chk'.pc = "idle" /\ chk'.fault
    BY <1>3, FaultFields
  <2>2. QED
    BY <1>1, <2>1, CauseMoved
<1>4. QED
  BY <1>2, <1>3 DEF Fault

(* A denied holder is one of the chain's.                                  *)
LEMMA AudienceRefuses ==
    ASSUME CheckInv, CauseInv, Running, chk.i \in First(chk.r)..Walked(chk.r),
           audienceRevoked(View, Link(chk.r, chk.i))
    PROVE  Cause(chk)
<1> DEFINE x == Link(chk.r, chk.i)
<1>1. x.aud # None /\ Canon[x.aud] \in resolveDenySet(View, x.sub)
  BY DEF audienceRevoked
<1>2. ~Undenied(log, x)
  BY <1>1, ViewLoads DEF Undenied, resolveDenySet
<1>3. QED
  BY <1>2 DEF Cause, Granting

LEMMA AskAudienceCause == ASSUME CheckInv, CauseInv, AskAudience PROVE CauseInv'
<1> DEFINE i == chk.i
           x == Link(chk.r, i)
           c == Consulted(chk.r.sub)
<1>1. chk.pc = "aud" /\ Running /\ UNCHANGED <<plan, log, rev, filed>>
  BY DEF AskAudience, Running
<1>2. /\ chk \in Fields(chk) /\ chk.out = "none" /\ RequestOK(chk.r)
      /\ \/ Chained(chk) /\ i \in 1..Links(chk.r)
         \/ Chained(chk) /\ i = 0 /\ presentsGrant(chk.r)
         \/ i = 0 /\ SelfIssued(chk.r)
  BY <1>1 DEF CheckInv, Walk
<1>3. /\ Links(chk.r) \in Nat /\ First(chk.r) \in {0, 1}
      /\ First(chk.r) = 0 <=> presentsGrant(chk.r)
      /\ Walked(chk.r) = IF SelfIssued(chk.r) THEN 0 ELSE Links(chk.r)
  BY <1>2 DEF Links, RequestOK, First, Walked
<1>4. Minted(chk.r, chk.t) => i \in First(chk.r)..Walked(chk.r)
  <2>1. CASE Chained(chk)
    BY <1>2, <1>3, <2>1 DEF Chained
  <2>2. CASE i = 0 /\ SelfIssued(chk.r)
    BY <1>3, <2>2 DEF Minted
  <2>3. QED
    BY <1>2, <2>1, <2>2
<1>5. CASE audienceRevoked(View, x)
  <2>1. chk' = Rejected(chk)
    BY <1>5 DEF AskAudience
  <2>2. Same(chk, chk') /\ chk'.pc = "idle"
    BY <1>2, <2>1, RejectedFields
  <2>3. QED
    BY <1>1, <1>4, <1>5, <2>2, AudienceRefuses, CauseMoved
<1>6. CASE ~audienceRevoked(View, x)
  <2>1. chk' = AfterAudience(c)
    BY <1>6 DEF AskAudience
  <2>2. Same(chk, c) /\ c.out = "none" /\ Loads(c) /\ c.i = i
    BY <1>1, Questioned, LoadsKept
  <2> HIDE DEF c
  <2>3. c \in Fields(c) /\ c.r = chk.r /\ c.t = chk.t /\ RequestOK(c.r)
    BY <1>2, <2>2 DEF Same
  <2>4. Cause(c) => Cause(chk)
    BY <2>2 DEF Cause, Same
  <2>5. ASSUME Same(c, chk'), chk'.view = c.view, chk'.pc # "record",
               chk'.pc # "idle" => chk'.out = "none",
               chk'.out = "rejected" /\ Minted(c.r, c.t) => Cause(c)
        PROVE  CauseInv'
    <3>1. Same(chk, chk') /\ Loads(chk')
      BY <2>2, <2>5 DEF Same, Loads
    <3>2. QED
      BY <1>1, <2>3, <2>4, <2>5, <3>1, CauseMoved
  <2>6. CASE SelfIssued(chk.r)
    <3> DEFINE ok == presentsGrant(c.r) /\ hasPermission(Request(c.r), c.r)
    <3>1. chk' = Judged(c, ok) /\ ok \in BOOLEAN
      BY <2>1, <2>3, <2>6 DEF AfterAudience, presentsGrant, hasPermission
    <3>2. ~ok /\ Minted(c.r, c.t) => Cause(c)
      <4>1. SUFFICES ASSUME ~ok, Minted(c.r, c.t) PROVE Cause(c)
        OBVIOUS
      <4>2. presentsGrant(c.r) /\ First(c.r) = 0 /\ Link(c.r, 0) = c.r
        BY <1>3, <2>3, <2>6, <4>1 DEF Minted, Link
      <4>3. Grants(Request(c.r), Component) /\ Grants(c.r, Component)
        BY <2>3, <4>2 DEF RequestOK, Grants, Request, Pattern, presentsGrant
      <4>4. Exceeds(Request(c.r), c.r)
        BY <4>1, <4>2, <4>3, Exceeding
      <4>5. QED
        BY <4>2, <4>4 DEF Cause
    <3> HIDE DEF ok
    <3>3. /\ Same(c, chk') /\ chk'.view = c.view /\ chk'.pc = "idle"
          /\ chk'.out = IF ok THEN "accepted" ELSE "rejected"
      BY <2>3, <3>1, JudgedFields
    <3>4. QED
      BY <2>5, <3>2, <3>3
  <2>7. CASE ~SelfIssued(chk.r) /\ i = 0
    <3>1. chk' = Delegated(c, 1)
      BY <2>1, <2>2, <2>3, <2>7 DEF AfterAudience
    <3>2. Chained(c) /\ 1 \in 1..Links(c.r)
      BY <1>2, <1>3, <2>2, <2>3, <2>7, ChainedKept DEF Chained
    <3>3. /\ Same(c, chk') /\ chk'.view = c.view
          /\ \/ chk'.pc = "idle" /\ chk'.out = "rejected"
             \/ chk'.pc \in {"aud", "member"} /\ chk'.out = "none"
      BY <2>2, <2>3, <3>1, DelegatedGoes, DelegatedView
    <3>4. chk'.out = "rejected" /\ Minted(c.r, c.t) => Cause(c)
      BY <2>2, <2>3, <3>1, <3>2, DelegatedRefuses
    <3>5. QED
      BY <2>5, <3>3, <3>4
  <2>8. CASE ~SelfIssued(chk.r) /\ i # 0 /\ i < Links(c.r)
    <3>1. chk' = At(c, "verify", i + 1)
      BY <2>1, <2>2, <2>3, <2>8 DEF AfterAudience
    <3>2. Same(c, chk') /\ chk'.view = c.view /\ chk'.out = "none" /\ chk'.pc = "verify"
      BY <2>2, <2>3, <3>1, AtFields
    <3>3. QED
      BY <2>5, <3>2
  <2>9. CASE ~SelfIssued(chk.r) /\ i # 0 /\ ~(i < Links(c.r))
    <3>1. chk' = Judged(c, Timely(x, c.t))
      <4>1. ~SelfIssued(c.r) /\ c.i # 0 /\ ~(c.i < Links(c.r)) /\ Link(c.r, c.i) = x
        BY <2>2, <2>3, <2>9
      <4>2. QED
        BY <2>1, <4>1 DEF AfterAudience
    <3>2. Timely(x, c.t) \in BOOLEAN
      BY DEF Timely, nonExpired, validNotBefore, validIssuedAt
    <3>3. /\ Same(c, chk') /\ chk'.view = c.view /\ chk'.pc = "idle"
          /\ chk'.out = IF Timely(x, c.t) THEN "accepted" ELSE "rejected"
      BY <2>3, <3>1, <3>2, JudgedFields
    <3>4. ~Timely(x, c.t) /\ Minted(c.r, c.t) => Cause(c)
      BY <1>4, <2>3 DEF Cause, Granting
    <3>5. QED
      BY <2>5, <3>3, <3>4
  <2>10. QED
    BY <2>6, <2>7, <2>8, <2>9
<1>7. QED
  BY <1>5, <1>6

(* A member whose membership stayed, with a minted grant under the pinned  *)
(* key, is found by every view the check may ask.                          *)
LEMMA MemberRefuses ==
    ASSUME CheckInv, CauseInv, Running, chk.pc = "member", Minted(chk.r, chk.t),
           ~memberRoot(View, Link(chk.r, chk.i), chk.t)
    PROVE  Cause(chk)
<1> SUFFICES ASSUME ~Cause(chk) PROVE FALSE
  OBVIOUS
<1> DEFINE n == chk.i
           x == Link(chk.r, n)
<1>1. /\ RequestOK(chk.r) /\ n = Links(chk.r) /\ ~SelfIssued(x)
      /\ (Chained(chk) /\ Facts(chk, n, n, n - 1)) \/ Direct(chk)
  BY DEF CheckInv, Walk
<1>2. ~SelfIssued(chk.r) /\ Walked(chk.r) = n /\ n \in Nat /\ n \in First(chk.r)..n
  BY <1>1 DEF Chained, Direct, Walked, Links, RequestOK, First
<1>3. x.mbr # None /\ x.exp # None /\ x.iat # None
  BY <1>1, <1>2, MintedParts
<1>4. Timely(x, chk.t)
  BY <1>2 DEF Cause, Granting
<1>5. Canon[x.iss] # Subject => x.kid = KeyOf[x.iss]
  <2>1. CASE Direct(chk)
    BY <1>1, <2>1 DEF Direct, Link, RequestOK
  <2>2. CASE Chained(chk) /\ Facts(chk, n, n, n - 1)
    BY <1>1, <2>2 DEF Chained, Facts, Verified, Links, RequestOK
  <2>3. QED
    BY <1>1, <2>1, <2>2
<1>6. Root(chk.r) = x
  BY <1>2 DEF Root
<1>7. Rooted(chk.r, chk.kept)
  BY DEF Cause
<1>8. Canon[x.sub] = Subject
  BY <1>1, <1>6, <1>7 DEF Rooted
<1>9. PICK m \in chk.kept :
         /\ m.did = Canon[x.iss] /\ m.add = x.mbr /\ m.key = x.kid
         /\ x.exp <= m.lease /\ x.exp - x.iat <= MaxLifetime
  BY <1>1, <1>6, <1>7 DEF Rooted
<1>10. m \in View.members /\ KeyOf[x.iss] = m.key
  BY <1>1, <1>5, <1>8, <1>9, ViewLoads DEF SelfIssued, SameDID
<1>11. QED
  BY <1>3, <1>4, <1>8, <1>9, <1>10 DEF memberRoot

LEMMA AskMemberCause == ASSUME CheckInv, CauseInv, AskMember PROVE CauseInv'
<1> DEFINE x == Link(chk.r, chk.i)
           c == Loaded
<1>1. chk.pc = "member" /\ Running /\ UNCHANGED <<plan, log, rev, filed>>
  BY DEF AskMember, Running
<1>2. CASE ~memberRoot(View, x, chk.t)
  <2>1. chk' = Rejected(chk)
    BY <1>2 DEF AskMember
  <2>2. Same(chk, chk') /\ chk'.pc = "idle"
    BY <2>1, RejectedFields DEF CheckInv
  <2>3. QED
    BY <1>1, <1>2, <2>2, MemberRefuses, CauseMoved
<1>3. CASE memberRoot(View, x, chk.t)
  <2>1. chk' = At(c, "memberAud", chk.i)
    BY <1>3 DEF AskMember
  <2>2. Same(chk, c) /\ c.out = "none" /\ Loads(c)
    BY <1>1, Questioned, LoadsKept
  <2> HIDE DEF c
  <2>3. Same(c, chk') /\ chk'.view = c.view /\ chk'.out = "none" /\ chk'.pc = "memberAud"
    BY <2>1, <2>2, AtFields DEF Same
  <2>4. Same(chk, chk') /\ Loads(chk')
    BY <2>2, <2>3 DEF Same, Loads
  <2>5. QED
    BY <1>1, <2>3, <2>4, CauseMoved
<1>4. QED
  BY <1>2, <1>3

LEMMA AskMemberAudienceCause ==
    ASSUME CheckInv, CauseInv, AskMemberAudience
    PROVE  CauseInv'
<1> DEFINE ok == ~audienceRevoked(View, Link(chk.r, chk.i))
<1>1. chk.pc = "memberAud" /\ Running /\ UNCHANGED <<plan, log, rev, filed>>
      /\ chk' = Judged(chk, ok)
  BY DEF AskMemberAudience, Running
<1>2. /\ chk \in Fields(chk) /\ RequestOK(chk.r) /\ chk.i = Links(chk.r)
      /\ Chained(chk) \/ Direct(chk)
  BY <1>1 DEF CheckInv, Walk
<1>3. chk.i \in First(chk.r)..Walked(chk.r)
  BY <1>2 DEF Chained, Direct, Walked, Links, RequestOK, First
<1>4. ~ok => Cause(chk)
  BY <1>1, <1>3, AudienceRefuses
<1>5. ok \in BOOLEAN
  OBVIOUS
<1> HIDE DEF ok
<1>6. /\ Same(chk, chk') /\ chk'.pc = "idle"
      /\ chk'.out = IF ok THEN "accepted" ELSE "rejected"
  BY <1>1, <1>2, <1>5, JudgedFields
<1>7. QED
  BY <1>1, <1>4, <1>6, CauseMoved

-----------------------------------------------------------------------------
(* A new check, and what happens around it.                                *)
LEMMA StartRefuses ==
    ASSUME NEW c, c \in Fields(c), c.out = "none", RequestOK(c.r), Minted(c.r, c.t),
           NEW d, d = Start(c, c.r), d.out = "rejected"
    PROVE  Cause(c)
<1> SUFFICES ASSUME ~Cause(c) PROVE FALSE
  OBVIOUS
<1> DEFINE r == c.r
           n == Walked(r)
<1>1. /\ Links(r) \in Nat /\ First(r) \in {0, 1} /\ (First(r) = 0 <=> presentsGrant(r))
      /\ n = IF SelfIssued(r) THEN 0 ELSE Links(r)
      /\ Link(r, 0) = r
  BY DEF Links, RequestOK, First, Walked, Link
<1>2. n <= MaxDepth
  BY <1>1, ClaimsAssumption DEF Cause
<1>3. presentsGrant(r) \/ (n > 0 /\ ~SelfIssued(r))
  BY <1>1 DEF Minted
<1>4. presentsGrant(r) => Timely(r, c.t) /\ hasPermission(Request(r), r)
  <2>1. SUFFICES ASSUME presentsGrant(r)
                 PROVE  Timely(r, c.t) /\ hasPermission(Request(r), r)
    OBVIOUS
  <2>2. 0 \in First(r)..n
    BY <1>1, <2>1
  <2>3. Timely(r, c.t)
    BY <1>1, <2>2 DEF Cause, Granting
  <2>4. Grants(Request(r), Component) /\ Grants(r, Component)
    BY <2>1 DEF RequestOK, Grants, Request, Pattern, presentsGrant
  <2>5. ~Exceeds(Request(r), r)
    BY <1>1, <2>1 DEF Cause
  <2>6. QED
    BY <2>3, <2>4, <2>5, Exceeding
<1>5. ~SelfIssued(r) /\ Links(r) = 0 => presentsGrant(r) /\ r.mbr # None
  <2>1. SUFFICES ASSUME ~SelfIssued(r), Links(r) = 0
                 PROVE  presentsGrant(r) /\ r.mbr # None
    OBVIOUS
  <2>2. presentsGrant(r) /\ n = 0 /\ 0 \in First(r)..n
    BY <1>1, <1>3, <2>1
  <2>3. QED
    BY <1>1, <2>1, <2>2, MintedParts
<1>6. \/ d = At(c, "aud", 0) \/ d = At(c, "member", 0) \/ d = At(c, "verify", 1)
  <2>1. CASE SelfIssued(r)
    BY <1>3, <1>4, <2>1 DEF Start
  <2>2. CASE ~SelfIssued(r) /\ Links(r) = 0
    BY <1>4, <1>5, <2>2 DEF Start
  <2>3. CASE ~SelfIssued(r) /\ Links(r) # 0
    BY <1>1, <1>2, <1>4, <2>3 DEF Start, WithinDepth
  <2>4. QED
    BY <2>1, <2>2, <2>3
<1>7. QED
  BY <1>6, AtFields

LEMMA BeginCause ==
    ASSUME CheckInv, CauseInv, NEW r \in plan.requests, NEW t, Begin(r, t)
    PROVE  CauseInv'
<1> DEFINE c == [Idle EXCEPT !.r = r, !.t = t, !.began = now,
                             !.seen = log.members, !.kept = log.members]
<1>1. chk' = Start(c, r) /\ UNCHANGED <<plan, log, rev, filed>>
  BY DEF Begin
<1>2. /\ c \in Fields(c) /\ c.r = r /\ c.t = t /\ c.start = log /\ c.view = None
      /\ c.kept = log.members /\ c.out = "none"
  BY DEF Idle, Fields
<1> HIDE DEF c
<1>3. RequestOK(r)
  BY RequestsAssumption DEF CheckInv, RequestOK, presentsGrant
<1>4. \/ chk' = Rejected(c) \/ chk' = At(c, "aud", 0)
      \/ chk' = At(c, "member", 0) \/ chk' = At(c, "verify", 1)
  BY <1>1 DEF Start
<1>5. Same(c, chk') /\ chk'.view = None /\ chk'.pc # "record"
  BY <1>2, <1>4, RejectedFields, AtFields
<1>6. chk'.out = "rejected" /\ Minted(c.r, c.t) => Cause(c)
  BY <1>1, <1>2, <1>3, StartRefuses
<1>7. RefusedForCause'
  <2>1. SUFFICES ASSUME chk'.out = "rejected", Minted(chk'.r, chk'.t)
                 PROVE  Cause(chk)'
    BY DEF RefusedForCause
  <2>2. Cause(c)
    BY <1>5, <1>6, <2>1 DEF Same
  <2>3. QED
    BY <1>1, <1>5, <2>2, CauseKept
<1>8. Loads(chk)'
  BY <1>1, <1>2, <1>5 DEF Loads, Same
<1>9. (\A k \in DOMAIN rev : Origin(rev[k], k))'
  BY <1>1 DEF CauseInv, Origin
<1>10. QED
  BY <1>5, <1>7, <1>8, <1>9 DEF CauseInv

(* The log and the store move, and the check stays where it is.            *)
LEMMA CauseAround ==
    ASSUME CheckInv, CauseInv, UNCHANGED <<plan, chk>>, filed \subseteq filed',
           log.denied \subseteq log'.denied, log.held \subseteq log'.held,
           Running => chk.kept \subseteq log'.members,
           (\A k \in DOMAIN rev : Origin(rev[k], k))'
    PROVE  CauseInv'
<1>1. chk \in Fields(chk)
  BY DEF CheckInv
<1>2. Same(chk, chk')
  BY <1>1 DEF Same
<1>3. RefusedForCause'
  <2>1. Cause(chk) => Cause(chk)'
    BY <1>2, CauseKept
  <2>2. QED
    BY <2>1 DEF CauseInv, RefusedForCause
<1>4. Running' => Loads(chk)'
  BY DEF CauseInv, Running, Loads
<1>5. (Running /\ chk.pc = "record" => Origin(chk.row, KeyFor(Link(chk.r, chk.i))))'
  BY DEF CauseInv, Running, Origin
<1>6. QED
  BY <1>3, <1>4, <1>5 DEF CauseInv

LEMMA AddRevocationCause ==
    ASSUME CheckInv, CauseInv, NEW a \in plan.arrivals, addRevocation(a)
    PROVE  CauseInv'
<1> DEFINE k == RowKey(a)
           new == [rec |-> a.rec, iat |-> Lesser(a.iat, now + Drift),
                   ver |-> a.ver, exp |-> a.exp, hlc |-> a.hlc]
<1>1. /\ UNCHANGED <<plan, log, chk>>
      /\ filed' = IF Authentic(a) THEN filed \cup {k} ELSE filed
      /\ \/ rev' = rev
         \/ rev' = [j \in DOMAIN rev \cup {k} |-> IF j = k THEN new ELSE rev[j]]
  BY DEF addRevocation
<1>2. new.rec = a.rec
  OBVIOUS
<1> HIDE DEF new, k
<1>3. ASSUME NEW j \in DOMAIN rev', NEW row, row = rev'[j], row # None
      PROVE  \E b \in plan'.arrivals : /\ RowKey(b) = j /\ row.rec = b.rec
                                       /\ Authentic(b) => j \in filed'
  <2>1. CASE j \in DOMAIN rev /\ row = rev[j]
    <3>1. Origin(row, j)
      BY <2>1 DEF CauseInv
    <3>2. PICK b \in plan.arrivals : /\ RowKey(b) = j /\ row.rec = b.rec
                                     /\ Authentic(b) => j \in filed
      BY <1>3, <3>1 DEF Origin
    <3>3. QED
      BY <1>1, <3>2
  <2>2. CASE j = k /\ row = new
    BY <1>1, <1>2, <2>2 DEF k
  <2>3. QED
    BY <1>1, <1>3, <2>1, <2>2
<1>6. (\A j \in DOMAIN rev : Origin(rev[j], j))'
  BY <1>3 DEF Origin
<1>7. filed \subseteq filed' /\ (Running => chk.kept \subseteq log.members)
  BY <1>1 DEF CauseInv, Loads
<1>8. QED
  BY <1>1, <1>6, <1>7, CauseAround

(* Settling a row and purging rows change no record.                       *)
LEMMA RowsCause ==
    ASSUME CheckInv, CauseInv, UNCHANGED <<plan, log, chk, filed>>,
           \A k \in DOMAIN rev' : k \in DOMAIN rev /\ rev'[k].rec = rev[k].rec
                                  /\ rev[k] # None
    PROVE  CauseInv'
<1>1. (\A k \in DOMAIN rev : Origin(rev[k], k))'
  BY DEF CauseInv, Origin
<1>2. Running => chk.kept \subseteq log'.members
  BY DEF CauseInv, Loads
<1>3. QED
  BY <1>1, <1>2, CauseAround

LEMMA StoreCause ==
    ASSUME CheckInv, RevInv, CauseInv,
           \/ \E c \in plan.settles : markRevocationVerified(Claims[c])
           \/ \E c \in plan.settles : deletePendingRevocationsFromOtherIssuers(Claims[c])
           \/ purgeExpiredRevocations \/ purgeDeadPendingRevocations
    PROVE  CauseInv'
<1>1. UNCHANGED <<plan, log, chk, filed>>
  BY DEF markRevocationVerified, deletePendingRevocationsFromOtherIssuers,
         purgeExpiredRevocations, purgeDeadPendingRevocations
<1>2. \A k \in DOMAIN rev : rev[k] \in RowsOf /\ rev[k] # None
  BY NoneIsNoRow DEF RevInv
<1>3. CASE \E gone : rev' = Without(gone)
  BY <1>1, <1>2, <1>3, RowsCause DEF Without
<1>4. CASE \E c \in plan.settles : markRevocationVerified(Claims[c])
  <2>1. \E k \in DOMAIN rev : \E e : rev' = [rev EXCEPT ![k].ver = TRUE, ![k].exp = e]
    BY <1>4 DEF markRevocationVerified
  <2> PICK k \in DOMAIN rev : \E e : rev' = [rev EXCEPT ![k].ver = TRUE, ![k].exp = e]
    BY <2>1
  <2> PICK e : rev' = [rev EXCEPT ![k].ver = TRUE, ![k].exp = e]
    OBVIOUS
  <2>2. DOMAIN rev' = DOMAIN rev
    OBVIOUS
  <2>3. \A j \in DOMAIN rev : rev'[j].rec = rev[j].rec
    BY <1>2 DEF RowsOf
  <2>4. QED
    BY <1>1, <1>2, <2>2, <2>3, RowsCause
<1>5. QED
  BY <1>3, <1>4 DEF deletePendingRevocationsFromOtherIssuers,
                    purgeExpiredRevocations, purgeDeadPendingRevocations

LEMMA LogCause ==
    ASSUME CheckInv, CauseInv, Rotate \/ \E x \in plan.denials : Deny(x)
    PROVE  CauseInv'
<1>1. log \in Views /\ UNCHANGED <<plan, chk, rev, filed>>
  BY DEF CheckInv, Rotate, Deny
<1>2. /\ log.denied \subseteq log'.denied /\ log.held \subseteq log'.held
      /\ log'.members = log.members
  <2>1. CASE Rotate
    BY <1>1, <2>1 DEF Rotate, Views
  <2>2. CASE \E x \in plan.denials : Deny(x)
    BY <1>1, <2>2 DEF Deny, Views
  <2>3. QED
    BY <2>1, <2>2
<1>3. (\A k \in DOMAIN rev : Origin(rev[k], k))'
  BY <1>1 DEF CauseInv, Origin
<1>4. Running => chk.kept \subseteq log'.members
  BY <1>2 DEF CauseInv, Loads
<1>5. QED
  BY <1>1, <1>2, <1>3, <1>4, CauseAround

LEMMA ChangeMemberCause ==
    ASSUME CheckInv, CauseInv, NEW m \in plan.changes, ChangeMember(m)
    PROVE  CauseInv'
<1> DEFINE ms == IF m \in log.members THEN log.members \ {m} ELSE log.members \cup {m}
<1>1. log' = [log EXCEPT !.members = ms] /\ UNCHANGED <<plan, rev, filed>>
  BY DEF ChangeMember
<1>2. log \in Views
  BY DEF CheckInv
<1>3. log'.members = ms /\ log'.denied = log.denied /\ log'.held = log.held
  BY <1>1, <1>2 DEF Views
<1>4. (\A k \in DOMAIN rev : Origin(rev[k], k))'
  BY <1>1 DEF CauseInv, Origin
<1>5. CASE ~Running
  <2>1. chk' = chk
    BY <1>5 DEF ChangeMember
  <2>2. QED
    BY <1>1, <1>3, <1>4, <1>5, <2>1, CauseAround
<1>6. CASE Running
  <2>1. PICK s, k : /\ k = chk.kept \cap log'.members
                    /\ chk' = [chk EXCEPT !.seen = s, !.kept = k]
    BY <1>6 DEF ChangeMember
  <2>2. /\ chk'.kept = chk.kept \cap log'.members
        /\ chk'.r = chk.r /\ chk'.i = chk.i /\ chk'.pc = chk.pc /\ chk'.row = chk.row
        /\ chk'.start = chk.start /\ chk'.view = chk.view /\ chk'.out = chk.out
    <3>1. chk \in Fields(chk)
      BY DEF CheckInv
    <3>2. QED
      BY <2>1, <3>1 DEF Fields
  <2>3. Loads(chk)'
    BY <1>3, <1>6, <2>2 DEF CauseInv, Loads
  <2>4. (chk.pc = "record" => Origin(chk.row, KeyFor(Link(chk.r, chk.i))))'
    BY <1>1, <1>6, <2>2 DEF CauseInv, Origin
  <2>5. RefusedForCause'
    BY <1>6, <2>2 DEF CheckInv, RefusedForCause
  <2>6. QED
    BY <1>4, <2>3, <2>4, <2>5 DEF CauseInv
<1>7. QED
  BY <1>5, <1>6

LEMMA CauseInit == Init => CauseInv
<1> SUFFICES ASSUME Init PROVE CauseInv
  OBVIOUS
<1>1. chk.out = "none" /\ chk.pc = "idle"
  BY DEF Init, Idle
<1>2. DOMAIN rev = {}
  BY DEF Init
<1>3. QED
  BY <1>1, <1>2 DEF CauseInv, Running, RefusedForCause

LEMMA CauseNext == CheckInv /\ RevInv /\ CauseInv /\ [Next]_vars => CauseInv'
<1> SUFFICES ASSUME CheckInv, RevInv, CauseInv, [Next]_vars PROVE CauseInv'
  OBVIOUS
<1>1. CASE UNCHANGED <<plan, log, chk, rev, filed>>
  <2>1. Running => chk.kept \subseteq log'.members
    BY <1>1 DEF CauseInv, Loads
  <2>2. (\A k \in DOMAIN rev : Origin(rev[k], k))'
    BY <1>1 DEF CauseInv, Origin
  <2>3. QED
    BY <1>1, <2>1, <2>2, CauseAround
<1>2. CASE \E r \in plan.requests, late \in 0..Tolerance : Begin(r, now - late)
  BY <1>2, BeginCause
<1>3. CASE Step
  BY <1>3, VerifyLinkCause, ReadRevocationCause, JudgeRecordCause, AskAudienceCause,
     AskMemberCause, AskMemberAudienceCause DEF Step
<1>4. CASE Fault
  BY <1>4, FaultCause
<1>5. CASE Rotate \/ \E x \in plan.denials : Deny(x)
  BY <1>5, LogCause
<1>6. CASE \E m \in plan.changes : ChangeMember(m)
  BY <1>6, ChangeMemberCause
<1>7. CASE \E a \in plan.arrivals : addRevocation(a)
  BY <1>7, AddRevocationCause
<1>8. CASE \/ \E c \in plan.settles : markRevocationVerified(Claims[c])
           \/ \E c \in plan.settles : deletePendingRevocationsFromOtherIssuers(Claims[c])
           \/ purgeExpiredRevocations \/ purgeDeadPendingRevocations
  BY <1>8, StoreCause
<1>9. CASE \/ \E x \in plan.tokens : addDelegationToken(x)
           \/ \E x \in plan.tokens : removeDelegationToken(x.jti)
           \/ Tick
           \/ UNCHANGED vars
  BY <1>1, <1>9 DEF addDelegationToken, removeDelegationToken, Tick, vars
<1>10. QED
  BY <1>2, <1>3, <1>4, <1>5, <1>6, <1>7, <1>8, <1>9 DEF Next

(* checkCapability refuses a chain that createCapability minted only for a *)
(* cause, whatever forged, misfiled or unreadable records the store holds  *)
(* and whatever the log does between the check's questions.                *)
THEOREM RefusalHasCause == Spec => []RefusedForCause
<1>1. CauseInv => RefusedForCause
  BY DEF CauseInv
<1>2. QED
  BY <1>1, CheckInit, CheckNext, RevInit, RevNext, CauseInit, CauseNext, PTL DEF Spec
=============================================================================
