---------------------------- MODULE Delegations -----------------------------
(***************************************************************************)
(* The delegation store and the capability check that reads it: a chain is *)
(* walked link by link, with an await at every signature, store read and   *)
(* question to the subject's log, while revocations arrive, are settled    *)
(* and purged, tokens supersede each other and the log denies, rotates and *)
(* changes members.                                                        *)
(***************************************************************************)
EXTENDS Capability, FiniteSets

CONSTANTS
    Cap,            \* capability tokens
    Claims,         \* the claims of each
    Subject,        \* the canonical DID whose log is consulted
    KeyOf,          \* the key each other DID carries as it is spelled, or None
    FirstKey, NextKey,  \* the subject's keys
    Plan,           \* what a behaviour may ask for and receive
    Component,      \* what patterns are made of, the wildcard included
    Path,           \* concrete actions and resources, for the properties
    MaxDepth,       \* DEFAULT_MAX_DELEGATION_DEPTH
    MaxLifetime,    \* maxMemberGrantLifetime
    TTL,            \* MAX_CAP_TTL_SECONDS
    Drift,          \* MAX_REVOCATION_FUTURE_DRIFT_SECONDS
    Grace,          \* REVOCATION_GC_VERIFIED_GRACE_SECONDS
    Tolerance,      \* how far atTime may lie in the past
    Lag,            \* how long one check may take
    MaxNow          \* bound on the clock

ASSUME TimesAssumption ==
    /\ {TTL, Drift, Grace, Tolerance, Lag} \subseteq Nat
    /\ Grace >= Drift + Tolerance + Lag     \* the default grace covers all

Pattern == Seq(Component)

(***************************************************************************)
(* What decoding a token establishes of its claims, and what a caller does *)
(* before it asks: a request's signature is verified, under the issuer's   *)
(* key, before its chain is checked.                                       *)
(***************************************************************************)
ASSUME ClaimsAssumption ==
    /\ Path \subseteq Pattern
    /\ MaxDepth \in Nat
    /\ \A c \in Cap : /\ Claims[c].act \subseteq Pattern /\ Claims[c].res \subseteq Pattern
                     /\ {Claims[c].iat, Claims[c].exp} \subseteq Int \cup {None}

ASSUME RequestsAssumption ==
    \A p \in Plan : \A r \in p.requests :
        /\ r.cap \in Seq(Cap)
        /\ r.permAct \subseteq Pattern /\ r.permRes \subseteq Pattern
        /\ r.act # None => r.act \subseteq Pattern /\ r.res \subseteq Pattern
        /\ Canon[r.iss] # Subject => r.kid = KeyOf[r.iss]

ASSUME TokensAssumption ==
    /\ \A d \in DOMAIN Canon : Canon[d] \in DOMAIN Canon /\ Canon[Canon[d]] = Canon[d]
    /\ \A p \in Plan : \A x \in p.tokens :
           {x.grantor, x.aud} \subseteq DOMAIN Canon /\ {x.exp, x.hlc} \subseteq Int

(***************************************************************************)
(* Revocations.  A row is its revoker's own: several revokers may name one *)
(* jti, each in a row of its own.  A record signed by the revoker for that *)
(* jti is authentic; the store verifies nothing and takes any record, and  *)
(* any issuer may mint a capability under a jti another one used.          *)
(***************************************************************************)
RowKey(a) == <<a.jti, Canon[a.by]>>
KeyFor(c) == <<c.jti, Canon[c.iss]>>

Signing(did) ==
    IF Canon[did] = Subject THEN {FirstKey, NextKey} ELSE {KeyOf[did]} \ {None}

Authentic(a) ==
    /\ a.rec.decodes /\ a.rec.rev /\ a.rec.sig
    /\ a.rec.jti = a.jti /\ Canon[a.rec.iss] = Canon[a.by]
    /\ a.rec.kid \in Signing(a.rec.iss)

ASSUME ArrivalsAssumption ==
    \A p \in Plan : \A a \in p.arrivals :
        /\ a.jti # None /\ {a.iat, a.hlc} \subseteq Int /\ a.ver \in BOOLEAN
        /\ a.exp = None \/ a.exp \in Int

\* A capability is settled with a number for its expiry.
ASSUME SettlesAssumption ==
    \A p \in Plan : \A s \in p.settles : Claims[s].exp \in Int \ {None}

\* What revoked_capabilities may hold.
RowsOf == [rec : {a.rec : a \in UNION {p.arrivals : p \in Plan}}, iat : Int,
           ver : BOOLEAN, exp : Int \cup {None}, hlc : Int]

ASSUME NoneIsNoRow == None \notin RowsOf

\* What a log may answer.
Views == [held : SUBSET {FirstKey, NextKey},
          denied : SUBSET UNION {p.denials : p \in Plan},
          members : SUBSET UNION {p.members \cup p.changes : p \in Plan}]

ASSUME NoneIsNoView == None \notin Views

VARIABLES
    plan,       \* the behaviour's inputs
    now,        \* seconds
    log,        \* the subject's log: keys held, what is denied, members
    rev,        \* revoked_capabilities, by <<jti, revoker>>
    toks,       \* delegation_tokens
    chk,        \* the check under way or last finished
    filed,      \* history: rows an authentic record ever arrived for
    inForce,    \* history: capabilities the store holds a revocation of
    binding,    \* history: those in force ever since the check began
    added       \* history: tokens stored and not removed

forces == <<inForce, binding>>
vars == <<plan, now, log, rev, toks, chk, filed, forces, added>>

-----------------------------------------------------------------------------
RowAt(k) == IF k \in DOMAIN rev THEN rev[k] ELSE None

(* Questions to the subject's log, and signatures. *)

historicKeys(view, did) ==
    IF Canon[did] = Subject THEN view.held \ view.denied
    ELSE {KeyOf[did]} \ {None}

resolveDenySet(view, did) == IF Canon[did] = Subject THEN view.denied ELSE {}

audienceRevoked(view, c) ==
    c.aud # None /\ Canon[c.aud] \in resolveDenySet(view, c.sub)

verifyLink(view, c, t) ==
    /\ c.sig
    /\ c.kid \in historicKeys(view, c.iss)
    /\ nonExpired(c, t)
    /\ validNotBefore(c, t)

\* The issuer is an effective member, carries exactly the pinned key, and the
\* grant stays within the lease and the lifetime.
memberRoot(view, c, t) ==
    /\ \E m \in view.members :
           /\ Canon[c.sub] = Subject
           /\ m.did = Canon[c.iss] /\ m.add = c.mbr
           /\ KeyOf[c.iss] = m.key
           /\ c.exp # None /\ c.exp <= m.lease
    /\ c.iat # None
    /\ c.exp - c.iat <= MaxLifetime
    /\ Timely(c, t)

(***************************************************************************)
(* What the revocation checker makes of a row for capability c.  A record  *)
(* that does not decode or names another jti reads as absent; one that     *)
(* verifies, under the issuer it names, binds if that is c's issuer and it *)
(* states a revocation; one signed by a key that issuer denied still binds.*)
(***************************************************************************)
Evidence(row, c) ==
    /\ row # None
    /\ row.rec.decodes
    /\ row.rec.jti = c.jti
    /\ row.rec.rev
    /\ SameDID(row.rec.iss, c.iss)

\* Mutant: any record filed for the capability binds.
revokedFiled(row, c) == row # None

revoked(row, c) ==
    /\ Evidence(row, c)
    /\ \/ row.rec.kid \in historicKeys(log, row.rec.iss) /\ row.rec.sig
       \/ row.rec.kid \in resolveDenySet(log, row.rec.iss)

-----------------------------------------------------------------------------
(* The check. *)

Idle == [pc |-> "idle", r |-> None, i |-> 0, t |-> 0, began |-> 0,
         view |-> None, start |-> log, row |-> None, out |-> "none", fault |-> FALSE,
         seen |-> {}, kept |-> {}]

Rejected(c) == [c EXCEPT !.pc = "idle", !.out = "rejected", !.row = None]
Accepted(c) == [c EXCEPT !.pc = "idle", !.out = "accepted", !.row = None]
Judged(c, ok) == IF ok THEN Accepted(c) ELSE Rejected(c)
At(c, pc, i) == [c EXCEPT !.pc = pc, !.i = i, !.row = None]

Running == chk.pc # "idle"

\* A frozen resolver loads the subject's log at the first question and
\* answers every later one from it.
View == IF chk.r.frozen /\ chk.view # None THEN chk.view ELSE log
Loaded == IF chk.r.frozen THEN [chk EXCEPT !.view = View] ELSE chk
Consulted(did) == IF Canon[did] = Subject THEN Loaded ELSE chk

presentsGrant(r) == r.act # None
SelfIssued(c) == SameDID(c.iss, c.sub)
Links(r) == Len(r.cap)
Link(r, i) == IF i = 0 THEN r ELSE Claims[r.cap[i]]
Request(r) == [act |-> r.permAct, res |-> r.permRes]

WithinDepth(r) == Links(r) <= MaxDepth

(***************************************************************************)
(* checkCapability up to its first await: a token of the subject's own, a  *)
(* member's grant presented directly, or a chain, whose presented grant is *)
(* judged before anything is read.                                         *)
(***************************************************************************)
Start(c, r) ==
    IF SelfIssued(r) THEN IF Timely(r, c.t) THEN At(c, "aud", 0) ELSE Rejected(c)
    ELSE IF Links(r) = 0 /\ r.mbr # None
    THEN IF presentsGrant(r) /\ hasPermission(Request(r), r)
         THEN At(c, "member", 0) ELSE Rejected(c)
    ELSE IF /\ presentsGrant(r) => hasPermission(Request(r), r) /\ Timely(r, c.t)
            /\ Links(r) > 0
            /\ WithinDepth(r)
    THEN At(c, "verify", 1)
    ELSE Rejected(c)

Begin(r, t) ==
    LET c == [Idle EXCEPT !.r = r, !.t = t, !.began = now,
                          !.seen = log.members, !.kept = log.members]
    IN  /\ ~Running
        /\ chk' = Start(c, r)
        /\ binding' = inForce
        /\ UNCHANGED <<plan, now, log, rev, toks, filed, inForce, added>>

\* Entering checkDelegationChain with link i as its payload.
Enter(c, i) ==
    IF i < Links(c.r) \/ SelfIssued(Link(c.r, i)) THEN At(c, "aud", i)
    ELSE IF Link(c.r, i).mbr # None THEN At(c, "member", i)
    ELSE Rejected(c)

\* Link i as the parent of the link below it, an invocation asking for the
\* request itself.
Delegated(c, i) ==
    LET child == Link(c.r, i - 1)
        grants == i > 1 \/ presentsGrant(child)
        to == IF grants THEN child
              ELSE [iss |-> child.iss, sub |-> child.sub,
                    act |-> child.permAct, res |-> child.permRes]
    IN  IF /\ assertValidDelegation(Link(c.r, i), to, c.t)
           /\ grants => expiryWithinParent(Link(c.r, i), child)
        THEN Enter(c, i)
        ELSE Rejected(c)

VerifyLink ==
    /\ chk.pc = "verify"
    /\ chk' = IF verifyLink(View, Link(chk.r, chk.i), chk.t)
              THEN At(Consulted(Link(chk.r, chk.i).iss), "hook", chk.i)
              ELSE Rejected(chk)
    /\ UNCHANGED <<plan, now, log, rev, toks, filed, forces, added>>

getRevocationByIssuer(jti, issuer) == RowAt(<<jti, Canon[issuer]>>)

ReadRevocation ==
    LET c == Link(chk.r, chk.i)
    IN  /\ chk.pc = "hook"
        /\ chk' = [chk EXCEPT !.pc = "record",
                       !.row = IF c.jti = None THEN None
                               ELSE getRevocationByIssuer(c.jti, c.iss)]
        /\ UNCHANGED <<plan, now, log, rev, toks, filed, forces, added>>

AfterHook(c) ==
    IF c.i = 1 /\ presentsGrant(c.r) THEN At(c, "aud", 0) ELSE Delegated(c, c.i)

JudgeRecord ==
    /\ chk.pc = "record"
    /\ chk' = IF revoked(chk.row, Link(chk.r, chk.i)) THEN Rejected(chk)
              ELSE AfterHook(chk)
    /\ UNCHANGED <<plan, now, log, rev, toks, filed, forces, added>>

AfterAudience(c) ==
    LET link == Link(c.r, c.i)
    IN  IF SelfIssued(c.r)
        THEN Judged(c, presentsGrant(c.r) /\ hasPermission(Request(c.r), c.r))
        ELSE IF c.i = 0 THEN Delegated(c, 1)
        ELSE IF c.i < Links(c.r) THEN At(c, "verify", c.i + 1)
        ELSE Judged(c, Timely(link, c.t))

AskAudience ==
    /\ chk.pc = "aud"
    /\ chk' = IF audienceRevoked(View, Link(chk.r, chk.i)) THEN Rejected(chk)
              ELSE AfterAudience(Consulted(chk.r.sub))
    /\ UNCHANGED <<plan, now, log, rev, toks, filed, forces, added>>

\* Mutant: the log is asked afresh, whatever view the check was given.
AskMemberLive ==
    /\ chk.pc = "member"
    /\ chk' = IF memberRoot(log, Link(chk.r, chk.i), chk.t)
              THEN At(Loaded, "memberAud", chk.i) ELSE Rejected(chk)
    /\ UNCHANGED <<plan, now, log, rev, toks, filed, forces, added>>

AskMember ==
    /\ chk.pc = "member"
    /\ chk' = IF memberRoot(View, Link(chk.r, chk.i), chk.t)
              THEN At(Loaded, "memberAud", chk.i) ELSE Rejected(chk)
    /\ UNCHANGED <<plan, now, log, rev, toks, filed, forces, added>>

AskMemberAudience ==
    /\ chk.pc = "memberAud"
    /\ chk' = Judged(chk, ~audienceRevoked(View, Link(chk.r, chk.i)))
    /\ UNCHANGED <<plan, now, log, rev, toks, filed, forces, added>>

(***************************************************************************)
(* A resolver, the store or the provider fails under an await.  Every such *)
(* failure refuses, but for one while resolving a record that another      *)
(* issuer's name is on, which could not have revoked the capability.       *)
(***************************************************************************)
Fault ==
    /\ Running
    /\ chk' = IF /\ chk.pc = "record" /\ chk.row # None
                 /\ ~SameDID(chk.row.rec.iss, Link(chk.r, chk.i).iss)
              THEN AfterHook(chk)
              ELSE [Rejected(chk) EXCEPT !.fault = TRUE]
    /\ UNCHANGED <<plan, now, log, rev, toks, filed, forces, added>>

-----------------------------------------------------------------------------
(* Revocations in the store. *)

Lesser(a, b) == IF a < b THEN a ELSE b

\* A record the revocation checker will honour, by the keys the log has seen.
Genuine(a) == Authentic(a) /\ (Canon[a.rec.iss] = Subject => a.rec.kid \in log.held)

(***************************************************************************)
(* A row is kept for as long as c may be accepted: the purges keep it past *)
(* the expiry it was settled with, or while it is pending past the longest *)
(* lifetime from the revocation on, which covers c if c keeps the limits   *)
(* the store asks its consumers to enforce and was minted by then.         *)
(***************************************************************************)
SettledWithin(exp, c) == exp = None \/ (c.exp # None /\ c.exp <= exp)
Outlasts(row, c) ==
    IF row.ver THEN SettledWithin(row.exp, c)
    ELSE /\ None \notin {c.iat, c.exp}
         /\ c.exp - c.iat <= TTL
         /\ c.iat <= row.iat + Drift

\* History: the store comes to hold a revocation of some, and loses others'.
Turns(lost, gained) ==
    /\ inForce' = (inForce \ lost) \cup gained
    /\ binding' = binding \ (lost \ gained)

FiledAt(k) == {x \in Cap : KeyFor(Claims[x]) = k}

\* The record replaces an earlier one of the row, whoever signed either.
addRevocation(a) ==
    LET k == RowKey(a)
        new == [rec |-> a.rec, iat |-> Lesser(a.iat, now + Drift),
                ver |-> a.ver, exp |-> a.exp, hlc |-> a.hlc]
        stale == k \in DOMAIN rev /\ a.hlc <= rev[k].hlc
    IN  /\ rev' = IF stale THEN rev
                  ELSE [j \in DOMAIN rev \cup {k} |-> IF j = k THEN new ELSE rev[j]]
        /\ filed' = IF Authentic(a) THEN filed \cup {k} ELSE filed
        /\ IF stale THEN UNCHANGED forces
           ELSE Turns(IF k \in DOMAIN rev THEN FiledAt(k) ELSE {},
                      {x \in FiledAt(k) : Genuine(a) /\ Outlasts(new, Claims[x])})
        /\ UNCHANGED <<plan, now, log, toks, chk, added>>

\* A capability arrives: its issuer's pending row is promoted, and kept by
\* this capability's expiry from then on; the pending rows of others for the
\* same jti are discarded, though a capability of theirs may bear it too.
markRevocationVerified(c) ==
    LET k == <<c.jti, Canon[c.iss]>>
    IN  /\ k \in DOMAIN rev
        /\ ~rev[k].ver
        /\ rev' = [rev EXCEPT ![k].ver = TRUE, ![k].exp = c.exp]
        /\ Turns({x \in FiledAt(k) : ~SettledWithin(c.exp, Claims[x])}, {})
        /\ UNCHANGED <<plan, now, log, toks, chk, filed, added>>

\* Mutant: whoever issued the capability.
DiscardedAll(c) == {k \in DOMAIN rev : k[1] = c.jti}

Discarded(c) == {k \in DOMAIN rev : k[1] = c.jti /\ k[2] # Canon[c.iss]}

Without(gone) == [k \in DOMAIN rev \ gone |-> rev[k]]

deletePendingRevocationsFromOtherIssuers(c) ==
    LET gone == {k \in Discarded(c) : ~rev[k].ver}
    IN  /\ gone # {}
        /\ rev' = Without(gone)
        /\ Turns({x \in Cap : /\ Claims[x].jti = c.jti /\ ~SameDID(Claims[x].iss, c.iss)
                              /\ KeyFor(Claims[x]) \in DOMAIN rev
                              /\ ~rev[KeyFor(Claims[x])].ver}, {})
        /\ UNCHANGED <<plan, now, log, toks, chk, filed, added>>

purgeExpiredRevocations ==
    LET gone == {k \in DOMAIN rev :
                    /\ rev[k].ver /\ rev[k].exp # None
                    /\ rev[k].exp < now - Grace}
    IN  /\ gone # {}
        /\ rev' = Without(gone)
        /\ UNCHANGED <<plan, now, log, toks, chk, filed, forces, added>>

\* Mutant: a pending row is dead once a capability's lifetime has passed.
DeadUngraced(row) == row.iat < now - TTL

Dead(row) == row.iat < now - TTL - Grace

purgeDeadPendingRevocations ==
    LET gone == {k \in DOMAIN rev : ~rev[k].ver /\ Dead(rev[k])}
    IN  /\ gone # {}
        /\ rev' = Without(gone)
        /\ UNCHANGED <<plan, now, log, toks, chk, filed, forces, added>>

-----------------------------------------------------------------------------
(* Tokens in the store: one row per <<grantor, audience, resource, jti>>. *)

Slot(x) == <<Canon[x.grantor], Canon[x.aud], x.res>>
SameRow(x, y) == Slot(x) = Slot(y) /\ x.jti = y.jti
Row(x, superseded) == [grantor |-> Canon[x.grantor], aud |-> Canon[x.aud],
                       res |-> x.res, jti |-> x.jti, exp |-> x.exp,
                       hlc |-> x.hlc, superseded |-> superseded]
Active(slot) == {y \in toks : Slot(y) = slot /\ ~y.superseded}

\* Mutant: a token that loses the arbitration leaves no row.
LosesQuietly(x) == toks

\* A losing jti stays on record, unless its row is there already.
Loses(x) == IF \E y \in toks : SameRow(x, y) THEN toks
            ELSE toks \cup {Row(x, TRUE)}

\* The active row of another jti is superseded, then the row is upserted.
Wins(x) ==
    {IF Slot(y) = Slot(x) THEN [y EXCEPT !.superseded = TRUE] ELSE y :
        y \in {z \in toks : ~SameRow(x, z)}}
    \cup {Row(x, FALSE)}

addDelegationToken(x) ==
    /\ toks' = IF \E y \in Active(Slot(x)) : x.hlc <= y.hlc THEN Loses(x)
               ELSE Wins(x)
    /\ added' = added \cup {Row(x, FALSE)}
    /\ UNCHANGED <<plan, now, log, rev, chk, filed, forces>>

removeDelegationToken(jti) ==
    /\ \E x \in toks : x.jti = jti
    /\ toks' = {x \in toks : x.jti # jti}
    /\ added' = {x \in added : Slot(x) \notin {Slot(y) : y \in toks \ toks'}}
    /\ UNCHANGED <<plan, now, log, rev, chk, filed, forces>>

RevokedBy(x) == RowAt(<<x.jti, x.grantor>>)

getHeldTokens(audience, t) ==
    {x \in toks : /\ x.aud = Canon[audience] /\ ~x.superseded /\ x.exp > t
                  /\ RevokedBy(x) = None \/ ~RevokedBy(x).ver}

listUnrevokedSupersededTokens(slot, t) ==
    {x \in toks : /\ Slot(x) = slot /\ x.superseded /\ x.exp > t
                  /\ RevokedBy(x) = None}

-----------------------------------------------------------------------------
(* The subject's log, and the clock. *)

Rotate ==
    /\ plan.rotates
    /\ log' = [log EXCEPT !.held = @ \cup {NextKey}]
    /\ log # log'
    /\ UNCHANGED <<plan, now, rev, toks, chk, filed, forces, added>>

Deny(x) ==
    /\ log' = [log EXCEPT !.denied = @ \cup {x}]
    /\ log # log'
    /\ UNCHANGED <<plan, now, rev, toks, chk, filed, forces, added>>

ChangeMember(m) ==
    /\ log' = [log EXCEPT !.members = IF m \in @ THEN @ \ {m} ELSE @ \cup {m}]
    /\ chk' = IF Running THEN [chk EXCEPT !.seen = @ \cup log'.members,
                                          !.kept = @ \cap log'.members]
              ELSE chk
    /\ UNCHANGED <<plan, now, rev, toks, filed, forces, added>>

Tick ==
    /\ now < MaxNow
    /\ Running => now - chk.began < Lag
    /\ now' = now + 1
    /\ UNCHANGED <<plan, log, rev, toks, chk, filed, forces, added>>

-----------------------------------------------------------------------------
Init ==
    /\ plan \in Plan
    /\ now = 0
    /\ log = [held |-> {FirstKey}, denied |-> {}, members |-> plan.members]
    /\ rev = [k \in {} |-> None]
    /\ toks = {}
    /\ chk = Idle
    /\ filed = {}
    /\ inForce = {}
    /\ binding = {}
    /\ added = {}

Step == VerifyLink \/ ReadRevocation \/ JudgeRecord \/ AskAudience
        \/ AskMember \/ AskMemberAudience

Next ==
    \/ \E r \in plan.requests, late \in 0..Tolerance :
           late <= now /\ Begin(r, now - late)
    \/ Step
    \/ plan.faults /\ Fault
    \/ \E a \in plan.arrivals : addRevocation(a)
    \/ \E c \in plan.settles : markRevocationVerified(Claims[c])
    \/ \E c \in plan.settles : deletePendingRevocationsFromOtherIssuers(Claims[c])
    \/ purgeExpiredRevocations
    \/ purgeDeadPendingRevocations
    \/ \E x \in plan.tokens : addDelegationToken(x)
    \/ \E x \in plan.tokens : removeDelegationToken(x.jti)
    \/ Rotate
    \/ \E x \in plan.denials : Deny(x)
    \/ \E m \in plan.changes : ChangeMember(m)
    \/ Tick

Spec == Init /\ [][Next]_vars

-----------------------------------------------------------------------------
(* The types.  Rows are filed under canonical DIDs alone. *)
TypeOK ==
    /\ now \in 0..MaxNow
    /\ log \in Views
    /\ \A k \in DOMAIN rev : k[2] = Canon[k[2]] /\ rev[k].iat <= now + Drift
    /\ \A x \in toks : Canon[x.grantor] = x.grantor /\ Canon[x.aud] = x.aud
    /\ chk.out \in {"none", "accepted", "rejected"}

\* The concrete paths a pattern stands for, and what a grant allows.
Denotes(a) ==
    {p \in Path : \/ p = a
                  \/ \E n \in Stars(a) : /\ n - 1 <= Len(p)
                                         /\ SubSeq(p, 1, n - 1) = SubSeq(a, 1, n - 1)}
Allows(g) == (UNION {Denotes(a) : a \in g.act})
             \X (UNION {Denotes(b) : b \in g.res})

\* The links a check walks, none for a token of the subject's own, and the
\* grants among them.
Walked(r) == IF SelfIssued(r) THEN 0 ELSE Links(r)
First(r) == IF presentsGrant(r) THEN 0 ELSE 1
Granting(r) == {Link(r, i) : i \in First(r)..Walked(r)}
Root(r) == Link(r, Walked(r))

\* The root is the subject's own, or a member's under its pinned key, within
\* its lease and the lifetime.
Rooted(r, members) ==
    LET c == Root(r)
    IN  \/ SelfIssued(c)
        \/ /\ Canon[c.sub] = Subject
          /\ \E m \in members :
                 /\ m.did = Canon[c.iss] /\ m.add = c.mbr /\ m.key = c.kid
                 /\ c.exp <= m.lease /\ c.exp - c.iat <= MaxLifetime

\* The holder c was given to is not denied by its subject's log.
Undenied(view, c) == c.aud # None => Canon[c.aud] \notin resolveDenySet(view, c.sub)

Authorized(c) ==
    LET r == c.r
        n == Walked(r)
    IN  /\ \A i \in First(r)..n :
               /\ Allows(Request(r)) \subseteq Allows(Link(r, i))
               /\ Timely(Link(r, i), c.t)
               /\ Undenied(c.start, Link(r, i))
               /\ c.view # None => Undenied(c.view, Link(r, i))
        /\ \A i \in 1..n :
               /\ i > 1 \/ presentsGrant(r)
                  => /\ Allows(Link(r, i - 1)) \subseteq Allows(Link(r, i))
                     /\ expiryWithinParent(Link(r, i), Link(r, i - 1))
               /\ SameDID(Link(r, i).aud, Link(r, i - 1).iss)
               /\ SameDID(Link(r, i).sub, r.sub)
               /\ Link(r, i).kid \notin resolveDenySet(c.start, Link(r, i).iss)
               /\ Link(r, i).sig
        /\ First(r) <= n /\ n <= MaxDepth
        /\ Rooted(r, c.seen)
        /\ c.view # None => Rooted(r, c.view.members)

(***************************************************************************)
(* checkCapability accepts only what the whole chain allows: the request   *)
(* lies in what every grant stands for, each grant in its parent's and no  *)
(* longer, each link was given to the issuer of the next for one subject,  *)
(* none is expired or from the future at the time asked about, the root is *)
(* the subject's or a member's, and when the check began neither a holder  *)
(* nor a signing key was denied.  A check given one frozen view of the     *)
(* subject's log reaches a verdict that view supports, members and denials *)
(* together, whatever lands in the log between two of its questions.       *)
(***************************************************************************)
AcceptedAuthorized == chk.out = "accepted" => Authorized(chk)

(***************************************************************************)
(* A check that begins while a genuine revocation of a link is in force    *)
(* accepts no chain with it: not after rows were settled, replaced or      *)
(* purged, after the signing key was rotated away or denied, or for a time *)
(* in the past within the tolerance.  It is in force once stored, if its   *)
(* row outlasts the capability, until the store loses it in one of the     *)
(* three ways the code allows: a later stamped record replaces it that is  *)
(* not genuine or does not outlast the capability; it is settled, while    *)
(* pending, with another capability of the issuer under that jti that      *)
(* expires sooner; or it is discarded, while pending, when a capability of *)
(* another issuer under that jti is settled.                               *)
(***************************************************************************)
RevocationOutlives ==
    chk.out = "accepted" => \A i \in 1..Walked(chk.r) : chk.r.cap[i] \notin binding

\* The chain is what createCapability signs, each link under a key of its
\* issuer's and part of the next, up to the first that needs no parent; it is
\* presented, or invoked by the one it was given to.
IsRoot(c) == SelfIssued(c) \/ c.mbr # None
Minted(r, t) ==
    LET n == Walked(r)
    IN  /\ \A i \in 1..n : Link(r, i).sig /\ Link(r, i).kid \in Signing(Link(r, i).iss)
        /\ \A i \in First(r)..n :
               /\ \E u \in 0..t : createCapability(Link(r, i),
                                     IF i < n THEN Link(r, i + 1) ELSE None, u)
               /\ i < n => ~IsRoot(Link(r, i))
        /\ presentsGrant(r) \/ /\ n > 0
                               /\ SameDID(r.iss, Link(r, 1).aud)
                               /\ SameDID(r.sub, Link(r, 1).sub)

\* The request exceeds a grant: a concrete action on a concrete resource that
\* the grant does not allow, or a pattern that no one of its pairs covers.
Exceeds(e, g) ==
    \E x \in e.act, y \in e.res :
        IF Stars(x) \cup Stars(y) = {} THEN <<x, y>> \notin Allows(g)
        ELSE \A a \in g.act, b \in g.res : ~(hasPartsMatch(x, a) /\ hasPartsMatch(y, b))

\* What may refuse a well-made chain.
Cause(c) ==
    LET r == c.r
        n == Walked(r)
    IN  \/ \E x \in Granting(r) : ~Timely(x, c.t) \/ ~Undenied(log, x)
        \/ n > MaxDepth
        \/ Exceeds(Request(r), Link(r, First(r)))
        \/ ~Rooted(r, c.kept)
        \/ \E i \in 1..n :
               LET x == Link(r, i)
               IN  \/ KeyFor(x) \in filed
                   \/ x.kid \in resolveDenySet(log, x.iss)
                   \/ Canon[x.iss] = Subject /\ x.kid \notin c.start.held
                   \/ \E a \in plan.arrivals :
                          /\ RowKey(a) = KeyFor(x) /\ a.rec.decodes /\ a.rec.rev
                          /\ a.rec.kid \in resolveDenySet(log, x.iss)

(***************************************************************************)
(* A chain that createCapability minted is refused only for a cause: its   *)
(* time, its depth, the request, a denial, a lost membership, a genuine    *)
(* revocation by a link's own issuer or a failed dependency.  Records that *)
(* are forged, misfiled, unreadable or another's refuse nothing.           *)
(***************************************************************************)
RefusedForCause ==
    /\ chk.out = "rejected" /\ ~chk.fault
    /\ Minted(chk.r, chk.t)
    => Cause(chk)

(***************************************************************************)
(* Every token the store was given and not told to remove stays on record, *)
(* one per slot active and none of a later stamp, and until it expires or  *)
(* its grantor files a revocation a reader finds it held or superseded.    *)
(***************************************************************************)
Accounted ==
    \A x \in added :
        /\ Cardinality(Active(Slot(x))) = 1
        /\ \A y \in Active(Slot(x)) : y.hlc >= x.hlc
        /\ \E y \in toks :
               /\ SameRow(x, y)
               /\ \/ y.exp <= now
                  \/ RevokedBy(y) # None
                  \/ y \in getHeldTokens(x.aud, now)
                  \/ y \in listUnrevokedSupersededTokens(Slot(x), now)

=============================================================================
