------------------------------ MODULE MCTokens ------------------------------
(***************************************************************************)
(* Worlds: an identity whose tokens carry the long form once; objects of   *)
(* a rotating issuer, written to and presented again; groups and memo      *)
(* under more signatures than they hold; identities of every make.         *)
(***************************************************************************)
EXTENDS Tokens

Sig(n) == [purpose |-> "sig", alg |-> "EdDSA", n |-> n]

Plain == [verifier |-> "default", crypto |-> "noble", resolver |-> FALSE, cache |-> FALSE,
          methods |-> "full", historic |-> FALSE, allowUnsigned |-> FALSE, audience |-> "any",
          tolerance |-> 0]

Quiet == [calls |-> 0, parallel |-> 1, opts |-> {Plain}, wire |-> {}, specs |-> {}, signs |-> 0, rotations |-> 0,
          moves |-> 0, now |-> 1, auds |-> {}, kids |-> {}, embeds |-> {}, bodies |-> {1},
          kokuin |-> {}, exps |-> {0}, docs |-> {}, forms |-> {"string"}]

(* Tokens from elsewhere: a did:key issuer, and what it never signed.      *)
K(n) == [alg |-> "EdDSA", n |-> n]
KeyClaims(n, body) == [NoClaims EXCEPT !.alg = "EdDSA", !.iss = getDID(K(n)), !.body = body]
By(n, claims) == [data |-> serialize(claims), sig |-> [key |-> K(n), over |-> serialize(claims)]]
Claiming(t, claims) == [t EXCEPT !.data = serialize(claims)]
Unsigned(claims) == [data |-> serialize(claims), sig |-> NoSig]

(* The first key of this identity is published, but not to sign with.      *)
Two == [keys |-> <<[Sig(11) EXCEPT !.purpose = "kem"], Sig(12), Sig(13)>>, didMethod |-> "unset"]
TwoDoc == buildDoc(Two.keys)
ThiefDoc == buildDoc(<<Sig(66)>>)
As(n, iss, kid) == By(n, [NoClaims EXCEPT !.alg = "EdDSA", !.kid = kid, !.iss = iss, !.body = 1])

(* A long form whose document is another's.                                *)
Spliced == [encodePeer4(TwoDoc) EXCEPT !.doc = ThiefDoc]

Peer == [Quiet EXCEPT
    !.calls = 2, !.parallel = 2, !.specs = {Two}, !.signs = 2, !.auds = {"a"}, !.kids = {3},
    !.embeds = {"unset"}, !.docs = {TwoDoc, ThiefDoc},
    !.opts = {[Plain EXCEPT !.cache = TRUE],
              [Plain EXCEPT !.cache = TRUE, !.resolver = TRUE, !.audience = "a"]},
    !.wire = {As(66, Spliced, 1), As(66, encodePeer4(ThiefDoc), 1),
              As(66, encodePeer4(TwoDoc), 2), As(11, encodePeer4(TwoDoc), 1)}]

Objects == [Quiet EXCEPT
    !.calls = 3, !.rotations = 1, !.moves = 1,
    !.forms = {"string", "held", "copy"},
    !.opts = {Plain, [Plain EXCEPT !.historic = TRUE]},
    !.wire = {By(1, [NoClaims EXCEPT !.alg = "EdDSA", !.kid = 1, !.iss = KokuinDID, !.body = 1]),
              Claiming(By(1, KeyClaims(1, 1)), KeyClaims(1, 2))}]

Policies == [Objects EXCEPT
    !.calls = 2, !.rotations = 0, !.opts = {Plain, [Plain EXCEPT !.verifier = "custom"]}]

Timed == [Quiet EXCEPT
    !.calls = 2, !.signs = 1, !.now = 2, !.kokuin = {NoKid, 1}, !.exps = {0, 1},
    !.forms = {"string", "held", "object", "bare", "claimed"},
    !.opts = {[Plain EXCEPT !.tolerance = 1], [Plain EXCEPT !.methods = "none"],
              [Plain EXCEPT !.methods = "current", !.historic = TRUE],
              [Plain EXCEPT !.allowUnsigned = TRUE], [Plain EXCEPT !.audience = "a"]},
    !.wire = {Unsigned([NoClaims EXCEPT !.body = 1]),
              Unsigned(KeyClaims(1, 1)),
              Unsigned([KeyClaims(1, 1) EXCEPT !.alg = "HS256"])}]

Groups == [Quiet EXCEPT
    !.calls = 3, !.parallel = 2,
    !.wire = {By(1, KeyClaims(1, 1)), By(1, KeyClaims(1, 2)),
              Claiming(By(1, KeyClaims(1, 1)), KeyClaims(1, 2))}]

Scopes == [Quiet EXCEPT
    !.calls = 2, !.parallel = 2,
    !.opts = {Plain, [Plain EXCEPT !.crypto = "other"]},
    !.wire = {By(1, KeyClaims(1, 1)), Claiming(By(1, KeyClaims(1, 1)), KeyClaims(1, 2)),
              By(2, KeyClaims(2, 3))}]

KeyLists == UNION { { [i \in 1..n |-> [purpose |-> f[i][1], alg |-> f[i][2], n |-> 20 + i]] :
                         f \in [1..n -> {"sig", "kem"} \X {"EdDSA", "X25519"}] } : n \in 1..3 }

Makes == [Quiet EXCEPT
    !.signs = 1, !.auds = {"a", "none"}, !.kids = {NoKid, 1, 2}, !.embeds = {"unset", "long", "short"},
    !.specs = { [keys |-> keys, didMethod |-> m] : keys \in KeyLists, m \in {"unset", "key", "peer"} }]

MCWorld == {Peer, Objects, Policies, Timed, Groups, Scopes, Makes}
=============================================================================
