--------------------------- MODULE MCDelegations ----------------------------
(***************************************************************************)
(* Delegations for model checking: capabilities, the requests that present *)
(* them and what arrives meanwhile, in groups that each press one part.    *)
(***************************************************************************)
EXTENDS Delegations, TLC

\* P is the subject, Al the long spelling of A, Mx a spelling of M with a key
\* of its own.
MCCanon == [d \in {"P", "A", "Al", "B", "M", "Mx"} |->
               CASE d = "Al" -> "A" [] d = "Mx" -> "M" [] OTHER -> d]
MCKeyOf == [d \in DOMAIN MCCanon |->
               CASE d \in {"A", "Al"} -> "kA" [] d = "B" -> "kB"
                 [] d = "M" -> "kM" [] d = "Mx" -> "kX" [] OTHER -> None]

pX == <<"x">>
pXY == <<"x", "y">>
pXAny == <<"x", Wild>>
pAny == <<Wild>>
MCComponent == {"x", "y", "z", Wild}
MCPath == {<<"x">>, <<"y">>, <<"x", "y">>, <<"x", "z">>, <<"x", "y", "z">>}

Base == [jti |-> "j1", iss |-> "P", aud |-> "A", sub |-> "P",
         act |-> {pXAny}, res |-> {pAny}, iat |-> 1, exp |-> 3, nbf |-> None,
         mbr |-> None, kid |-> "kP1", sig |-> TRUE]
Sub(jti, act) == [Base EXCEPT !.jti = jti, !.iss = "Al", !.aud = "B",
                              !.kid = "kA", !.act = act]
ByMember(iss, kid) ==
    [Base EXCEPT !.jti = "jm", !.iss = iss, !.kid = kid, !.mbr = "m1",
                 !.iat = 0, !.exp = 2]

MCClaims ==
    "root"   :> Base @@
    "rooty"  :> [Base EXCEPT !.kid = "kP2", !.jti = "j9", !.nbf = 2] @@
    "reused" :> Sub("j1", {pXY}) @@
    "sooner" :> [Base EXCEPT !.iat = 0, !.exp = 0] @@
    "lasting" :> [Base EXCEPT !.iat = 0, !.exp = 6] @@
    "ahead"  :> [Base EXCEPT !.iat = 3, !.exp = 5] @@
    "spelt"  :> [Base EXCEPT !.aud = "Al"] @@
    "narrow" :> Sub("j2", {pXY}) @@
    "broad"  :> Sub("j3", {pAny}) @@
    "two"    :> Sub("j3", {pXY, <<"y">>}) @@
    "long"   :> [Sub("j4", {pXY}) EXCEPT !.exp = 5] @@
    "other"  :> [Sub("j5", {pXY}) EXCEPT !.sub = "B"] @@
    "forged" :> [Sub("j6", {pXY}) EXCEPT !.sig = FALSE] @@
    "back"   :> [Sub("j7", {pXY}) EXCEPT !.iss = "B", !.aud = "A",
                                        !.kid = "kB", !.exp = 2] @@
    "brief"  :> [Sub("j8", {pXY}) EXCEPT !.exp = 2] @@
    "member" :> ByMember("M", "kM") @@
    "posing" :> ByMember("Mx", "kX") @@
    "leased" :> [ByMember("M", "kM") EXCEPT !.exp = 4]
MCCap == DOMAIN MCClaims

Ask(iss, chain, act) ==
    [Base EXCEPT !.iss = iss, !.aud = None, !.act = None, !.res = None,
                 !.jti = None, !.iat = None, !.exp = None, !.kid = MCKeyOf[iss]]
    @@ [cap |-> chain, permAct |-> {act}, permRes |-> {<<"x">>},
        frozen |-> FALSE]
Present(c, chain, act) ==
    MCClaims[c] @@ [cap |-> chain, permAct |-> {act}, permRes |-> {<<"x">>},
                    frozen |-> FALSE]
Frozen(r) == [r EXCEPT !.frozen = TRUE]

Deep == Ask("B", <<"narrow", "root">>, pXY)

Quiet == [requests |-> {Deep}, arrivals |-> {}, settles |-> {}, tokens |-> {},
          rotates |-> FALSE, denials |-> {}, members |-> {}, changes |-> {},
          faults |-> FALSE]

\* Records and the rows they arrive as.
Rec(iss, jti, kid) == [decodes |-> TRUE, iss |-> iss, jti |-> jti, rev |-> TRUE,
                       kid |-> kid, sig |-> TRUE]
Arrival(jti, by, rec, iat, hlc) ==
    [jti |-> jti, by |-> by, rec |-> rec, iat |-> iat, ver |-> FALSE,
     exp |-> None, hlc |-> hlc]
Genuinely(jti, by, kid, iat, hlc) ==
    Arrival(jti, by, Rec(by, jti, kid), iat, hlc)
Revoking ==
    {[Quiet EXCEPT !.arrivals = as, !.settles = {c}, !.rotates = rot,
                   !.denials = den] :
        as \in {{Genuinely("j1", "P", "kP1", 0, 1)},
                {Genuinely("j1", "P", "kP1", 9, 1),
                 [Genuinely("j1", "P", "kP1", 0, 2) EXCEPT !.ver = TRUE,
                                                          !.exp = 3]},
                {Genuinely("j2", "A", "kA", 0, 1),
                 Genuinely("j2", "Al", "kA", 1, 2)}},
        c \in {"root", "narrow"}, rot \in {TRUE}, den \in {{"kP1"}}}

\* A genuine revocation of the root, and what makes the store lose it: the jti
\* in a capability of another issuer, or of its own that expires sooner, and a
\* later record of the same row that no one signed; then it arrives again.
Losing ==
    {[Quiet EXCEPT !.arrivals = {Genuinely("j1", "P", "kP1", 0, 1)} \cup as,
                   !.settles = ss] :
        as \in {{}, {[Genuinely("j1", "P", "kP1", 0, 2) EXCEPT !.rec.sig = FALSE],
                    Genuinely("j1", "P", "kP1", 0, 3)},
                   {Genuinely("j1", "A", "kA", 0, 1)}},
        ss \in {{"reused"}, {"root", "reused"}, {"sooner"}}}

\* Capabilities past the limits that the purge of pending rows relies on.
Limits ==
    {[Quiet EXCEPT !.requests = {Ask("A", <<c>>, pXY)},
                   !.arrivals = {Genuinely("j1", "P", "kP1", 0, 1)}] :
        c \in {"lasting", "ahead"}}

Junk ==
    {[Quiet EXCEPT !.arrivals = as, !.settles = {"root"}, !.denials = den,
                   !.faults = TRUE] :
        as \in {{[Genuinely("j1", "P", "kP1", 0, 1) EXCEPT !.rec.sig = FALSE]},
                {[Genuinely("j1", "P", "kP1", 0, 1) EXCEPT !.rec.decodes = FALSE]},
                {[Genuinely("j1", "P", "kP1", 0, 1) EXCEPT !.rec.rev = FALSE]},
                {Arrival("j1", "P", Rec("P", "j2", "kP1"), 0, 1),
                 Genuinely("j1", "B", "kB", 0, 1)},
                {Arrival("j1", "P", Rec("B", "j1", "kB"), 0, 1),
                 Genuinely("j2", "P", "kP1", 0, 1)},
                {Genuinely("j1", "P", "kP3", 0, 1)}},
        den \in {{}, {"kP3"}}}

\* Chains of every shape, checked while holders are denied.
Shapes ==
    {[Quiet EXCEPT !.requests = {r}, !.denials = {"A", "B"}, !.rotates = TRUE] :
        r \in {Ask("A", <<"root">>, a) : a \in {pX, pXY, pAny, pXAny}}
              \cup {Ask("B", <<c, "root">>, pXY) :
                       c \in {"narrow", "broad", "two", "long", "other", "forged"}}
              \cup {Ask("B", <<"narrow", "rooty">>, pXY),
                    Ask("A", <<"narrow", "root">>, pXY),
                    Ask("A", <<"back", "narrow", "root">>, pXY),
                    Ask("A", <<"narrow">>, pXY), Ask("A", <<>>, pXY), Ask("A", <<"spelt">>, pXY),
                    Ask("B", <<"brief", "back", "narrow", "root">>, pXY),
                    Present("narrow", <<"root">>, pXY),
                    Present("narrow", <<"root">>, pX),
                    Present("long", <<"root">>, pXY),
                    Present("root", <<>>, pXY), Present("root", <<>>, <<"y">>),
                    Present("root", <<"forged">>, pXY)}}

MemberOne == [did |-> "M", add |-> "m1", key |-> "kM", lease |-> 3]
Members ==
    {[Quiet EXCEPT !.requests = {r, Frozen(r)}, !.members = ms,
                   !.changes = {MemberOne}, !.denials = {"A"}] :
        r \in {Ask("A", <<"member">>, pXY), Ask("A", <<"posing">>, pXY),
               Ask("A", <<"leased">>, pXY), Present("member", <<>>, pXY),
               Present("leased", <<>>, pXY),
               Ask("B", <<"brief", "member">>, pXY)},
        ms \in {{}, {MemberOne}}}

Token(grantor, jti, hlc) ==
    [grantor |-> grantor, aud |-> "B", res |-> "r", jti |-> jti, exp |-> 2,
     hlc |-> hlc]
Tokens ==
    {[Quiet EXCEPT !.requests = {}, !.arrivals = {Genuinely("j1", "A", "kA", 0, 1)},
                   !.settles = {"narrow"},
                   !.tokens = {Token("A", "j1", 1), Token("Al", "j2", h),
                               Token("A", "j1", 3), Token("P", "j2", 1)}] :
        h \in {1, 2}}

MCPlan == Revoking \cup Losing \cup Limits \cup Junk \cup Shapes \cup Members \cup Tokens
=============================================================================
