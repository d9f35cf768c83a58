------------------------------- MODULE Tokens -------------------------------
(***************************************************************************)
(* Signing and verifying tokens (token/src/token.ts, verifier.ts,          *)
(* verified-memo.ts, cache.ts and the resolution of issuers in did.ts).    *)
(*                                                                         *)
(* Identities sign tokens that reach one verifying process in any order,   *)
(* or never, beside tokens nobody should accept.  verifyToken calls run    *)
(* concurrently, each up to its next await: the answer of a resolver, the  *)
(* answer of the crypto provider, which takes the signatures of several    *)
(* calls as one group, and the write of the DID cache.  The process keeps  *)
(* what it verified: the objects it returned, the memo of signatures, the  *)
(* decoded long forms and the cached documents.                            *)
(*                                                                         *)
(* Signatures are ideal: one is the pair of its key and what was signed.   *)
(***************************************************************************)
EXTENDS TokenIdentity, FiniteSets, FiniteSetsExt

CONSTANTS
    MaxCalls,
    VERIFIED_MEMO_SIZE, VERIFIED_MEMO_MAX_MESSAGE_BYTES, VERIFIED_MEMO_MAX_TOTAL_BYTES,
    PEER4_DECODE_MEMO_SIZE, MaxDocs,
    World               \* see TokensAssumption

Call == 1..MaxCalls

(* The header and payload of a token; a body stands for the other claims   *)
(* and for the length of the whole.  exp = 0 is a token without expiry.    *)
NoClaims == [alg |-> "none", kid |-> NoKid, iss |-> Blank, aud |-> "none", exp |-> 0, body |-> 0]

(* The text that is signed: claims, in one of their JSON serializations.   *)
NoData == [claims |-> NoClaims, spelling |-> "none"]
serialize(claims) == [claims |-> claims, spelling |-> "plain"]

Claims == [alg : Text, kid : Nat, iss : DID, aud : Text, exp : Nat, body : Nat]
Data == [claims : Claims, spelling : Text]

(* Only a key of a signature algorithm signs.                              *)
NoSig == [key |-> NoKey, over |-> NoData]
Signature == [key : [alg : SIGNATURE_ALGORITHMS, n : Nat], over : Data] \cup {NoSig}

(* What decides how a signature is checked: capturePolicy.                 *)
NoPolicy == [verifier |-> "none", crypto |-> "none", resolver |-> FALSE, cache |-> FALSE,
             methods |-> "none"]
capturePolicy(opts) ==
    [verifier |-> opts.verifier, crypto |-> opts.crypto, resolver |-> opts.resolver,
     cache |-> opts.cache, methods |-> opts.methods]

Provider == {"noble", "other"}

(* Verifying options; methods is how far the DID method resolver goes.     *)
Options == [verifier : {"default", "custom"}, crypto : Provider, resolver : BOOLEAN,
            cache : BOOLEAN, methods : {"none", "current", "full"}, historic : BOOLEAN,
            allowUnsigned : BOOLEAN, audience : Text, tolerance : Nat]

(* The entries of the WeakMaps for an object: what its signature was       *)
(* checked against.                                                        *)
NoProof == [data |-> NoData, policy |-> NoPolicy, sig |-> NoSig, key |-> NoKey, historic |-> FALSE]

(* A token object: properties anyone can write, and its hidden proof.      *)
NoObject == [claims |-> NoClaims, data |-> NoData, sig |-> NoSig, pub |-> NoKey, proof |-> NoProof]

ASSUME TokensAssumption ==
    /\ {MaxCalls, VERIFIED_MEMO_SIZE, VERIFIED_MEMO_MAX_MESSAGE_BYTES,
        VERIFIED_MEMO_MAX_TOTAL_BYTES, PEER4_DECODE_MEMO_SIZE, MaxDocs} \subseteq Nat \ {0}
    /\ \A w \in World :
         /\ w.calls \in 0..MaxCalls /\ w.parallel \in Nat  \* bounds: calls, and calls at a time
         /\ w.opts \subseteq Options             \* how verifyToken is called
         /\ w.wire \subseteq [data : Data, sig : Signature]     \* tokens from elsewhere
         /\ \A spec \in w.specs : /\ spec.didMethod \in {"unset", "key", "peer"}
                                 /\ spec.keys \in Seq(IdentityKey)
         /\ w.kids \cup w.kokuin \cup w.exps \cup w.bodies \subseteq Nat
         /\ w.auds \subseteq Text
         /\ {w.signs, w.rotations, w.moves, w.now} \subseteq Nat

VARIABLES
    world,
    identity, sentTo,   \* a multi-key identity, and the audiences that have its long form
    held,               \* the keys of the did:kokuin issuer, the last one current
    signing,            \* signatures asked of the provider
    signs,
    wire,               \* tokens the verifying process may be given
    now, moves,
    call,
    object,             \* call -> the object it returned
    pending, group,     \* provider -> its open group; all groups of signatures
    memo, totalBytes,   \* verified signatures, least recently used first
    decoded,            \* decoded long forms, least recently used first
    docs                \* the DID cache, least recently used first

signer == <<identity, sentTo, held, signing, signs, wire>>
caches == <<memo, totalBytes, decoded, docs>>
vars == <<world, signer, now, moves, call, object, pending, group, caches>>

Idle == [pc |-> "idle", opts |-> NoPolicy, claims |-> NoClaims, data |-> NoData, sig |-> NoSig,
         key |-> NoKey, doc |-> NoDoc, slot |-> <<0, 0>>, ok |-> FALSE, out |-> "none",
         live |-> {}, at |-> 0]

Init ==
    /\ world \in World
    /\ identity = NoIdentity /\ sentTo = {}
    /\ held = << [alg |-> "EdDSA", n |-> 1] >>
    /\ signing = {} /\ signs = 0 /\ wire = world.wire
    /\ now = 1 /\ moves = 0
    /\ call = [c \in Call |-> Idle]
    /\ object = [c \in Call |-> NoObject]
    /\ pending = [p \in Provider |-> 0] /\ group = <<>>
    /\ memo = <<>> /\ totalBytes = 0 /\ decoded = <<>> /\ docs = <<>>

Active(c) == call[c].pc \notin {"idle", "done"}

-----------------------------------------------------------------------------
(* Signing.                                                                *)

CreateIdentity(spec) ==
    /\ identity = NoIdentity
    /\ identity' = createIdentity(spec)
    /\ UNCHANGED <<world, sentTo, held, signing, signs, wire, now, moves, call, object, pending,
                   group, caches>>

(* signToken of a multi-key identity, to the await of the provider.  The   *)
(* audience counts as told before anything is signed; an X25519 key throws *)
(* after that.                                                             *)
SignToken(aud, kid, embed, body) ==
    /\ identity # NoIdentity /\ signs < world.signs
    /\ LET fragment == pickSigningKey(identity.keys, kid)
           picked == pickIss(identity, sentTo, aud, embed)
           claims == [alg |-> "EdDSA", kid |-> IF isPeer4(identity.id) THEN fragment ELSE NoKid,
                      iss |-> picked.iss, aud |-> aud, exp |-> 0, body |-> body]
       IN  /\ fragment # NoKid
           /\ sentTo' = picked.sentTo
           /\ signing' = IF identity.keys[fragment].alg # "EdDSA" THEN signing
                         ELSE signing \cup {[key |-> PublicKey(identity.keys[fragment]),
                                             over |-> serialize(claims)]}
    /\ signs' = signs + 1
    /\ UNCHANGED <<world, identity, held, wire, now, moves, call, object, pending, group, caches>>

(* signToken of an identity built for did:kokuin around one of its keys,   *)
(* which may have been rotated away since.                                 *)
SignForDID(i, kid, exp, body) ==
    /\ signs < world.signs
    /\ signing' = signing \cup {[key |-> held[i],
                                 over |-> serialize([alg |-> "EdDSA", kid |-> kid, iss |-> KokuinDID,
                                                     aud |-> "none", exp |-> exp, body |-> body])]}
    /\ signs' = signs + 1
    /\ UNCHANGED <<world, identity, sentTo, held, wire, now, moves, call, object, pending, group,
                   caches>>

Signed(s) ==
    /\ signing' = signing \ {s}
    /\ wire' = wire \cup {[data |-> s.over, sig |-> s]}
    /\ UNCHANGED <<world, identity, sentTo, held, signs, now, moves, call, object, pending, group,
                   caches>>

SignFails(s) ==
    /\ signing' = signing \ {s}
    /\ UNCHANGED <<world, identity, sentTo, held, signs, wire, now, moves, call, object, pending,
                   group, caches>>

(* The did:kokuin issuer rotates its key.                                  *)
Rotate ==
    /\ Len(held) <= world.rotations
    /\ LET next == [alg |-> "EdDSA", n |-> Len(held) + 1]
       IN  /\ held' = Append(held, next)
           /\ call' = [c \in Call |-> IF Active(c) THEN [call[c] EXCEPT !.live = @ \cup {next}]
                                      ELSE call[c]]
    /\ UNCHANGED <<world, identity, sentTo, signing, signs, wire, now, moves, object, pending,
                   group, caches>>

Tick ==
    /\ now < world.now
    /\ now' = now + 1
    /\ UNCHANGED <<world, signer, moves, call, object, pending, group, caches>>

-----------------------------------------------------------------------------
(* Least recently used first.                                              *)
Refreshed(s, e) == Append(Filtered(s, {i \in DOMAIN s : s[i] # e}), e)
Newest(s, n) == IF Len(s) <= n THEN s ELSE SubSeq(s, Len(s) - n + 1, Len(s))

(* Mutant: the bound of the DID cache is passed by one.                    *)
cachedOver(doc) == Newest(Refreshed(docs, doc), MaxDocs + 1)

(* DIDCache.set of a document under its short form.                        *)
cached(doc) == Newest(Refreshed(docs, doc), MaxDocs)

rememberPeer4Decode(did) == Newest(Refreshed(decoded, did), PEER4_DECODE_MEMO_SIZE)

-----------------------------------------------------------------------------
(* verifyTokenInner, and the resolution of the issuer to the first await.  *)

Ends(r, out) == [r EXCEPT !.pc = "done", !.out = out]

(* The issuer's key is known, or the token names one the issuer lacks.     *)
WithKey(r, key, doc) ==
    IF key = NoKey THEN Ends(r, "bad")
    ELSE [r EXCEPT !.pc = "resolved", !.key = key, !.doc = doc]

resolvesByMethod(r) == r.data.claims.iss.method = "kokuin" /\ r.opts.methods # "none"

(* decodePeer4 throws: no earlier decode of this very identifier, and its  *)
(* document does not hash to it.                                           *)
decodeFails(did) == ~Contains(decoded, did) /\ ~verifyMultihash(did)

resolveIssuer(r) ==
    LET claims == r.data.claims
        iss == claims.iss
    IN  IF iss = Blank THEN Ends(r, "bad")
        ELSE IF resolvesByMethod(r)
        THEN IF r.opts.historic /\ r.opts.methods = "current" THEN Ends(r, "unresolvable")
             ELSE [r EXCEPT !.pc = "method"]
        ELSE IF isLong(iss)
        THEN IF decodeFails(iss) THEN Ends(r, "bad")
             ELSE WithKey(r, resolveKidOrAuth(iss.doc, claims.kid), iss.doc)
        ELSE IF isPeer4(iss)
        THEN IF r.opts.cache /\ Contains(docs, iss.hash)
             THEN WithKey(r, resolveKidOrAuth(iss.hash, claims.kid), iss.hash)
             ELSE IF r.opts.resolver THEN [r EXCEPT !.pc = "resolver"]
             ELSE Ends(r, "unresolvable")
        ELSE IF iss.method = "key" THEN WithKey(r, iss.key, NoDoc)
        ELSE Ends(r, "unresolvable")

isUnsignedToken(t) == t.claims.alg = "none"
isSignedToken(t) == t.claims.alg \in SIGNATURE_ALGORITHMS /\ t.claims.iss # Blank /\ t.sig # NoSig
isVerifiedToken(t) == isSignedToken(t) /\ t.pub # NoKey /\ t.proof # NoProof

matchesVerifiableData(t, data) == data.claims = t.claims

assertTimeClaimsValid(claims, opts) == claims.exp = 0 \/ ~(claims.exp + opts.tolerance < now)
assertAudienceValid(claims, opts) == opts.audience = "any" \/ claims.aud = opts.audience

(* Mutant: a token checked by one verifier satisfies a caller who passes   *)
(* another.                                                                *)
samePolicyButVerifier(known, policy) ==
    [known EXCEPT !.verifier = "default"] = [policy EXCEPT !.verifier = "default"]

samePolicy(known, policy) == known = policy

(* Mutant: a check against a retired key answers for the current ones.     *)
WeakerNever(known, opts) == FALSE

(* The earlier check asked less than this caller does.                     *)
Weaker(known, opts) == ~opts.historic /\ known.historic

(* The object was verified in this process, by a check as strict as this   *)
(* one, and still carries what was checked.                                *)
FastPath(t, opts) ==
    /\ isVerifiedToken(t)
    /\ samePolicy(t.proof.policy, capturePolicy(opts))
    /\ t.proof.sig = t.sig /\ t.proof.key = t.pub
    /\ ~Weaker(t.proof, opts)

verifyObject(r, t) ==
    IF isUnsignedToken(t)
    THEN IF r.opts.audience = "any" /\ r.opts.allowUnsigned /\ assertTimeClaimsValid(t.claims, r.opts)
         THEN Ends(r, "unsigned") ELSE Ends(r, "bad")
    ELSE IF isVerifiedToken(t) /\ ~matchesVerifiableData(t, t.proof.data) THEN Ends(r, "bad")
    ELSE IF FastPath(t, r.opts)
    THEN IF assertTimeClaimsValid(t.claims, r.opts) /\ assertAudienceValid(t.claims, r.opts)
         THEN [r EXCEPT !.pc = "done", !.out = "accepted", !.claims = t.claims, !.sig = t.sig,
                        !.key = t.pub, !.at = now]
         ELSE Ends(r, "bad")
    ELSE IF isSignedToken(t)
    THEN IF t.data = NoData THEN resolveIssuer([r EXCEPT !.data = serialize(t.claims), !.sig = t.sig])
         ELSE IF matchesVerifiableData(t, t.data)
         THEN resolveIssuer([r EXCEPT !.data = t.data, !.sig = t.sig])
         ELSE Ends(r, "bad")
    ELSE Ends(r, "bad")

verifyString(r, t) ==
    IF t.claims.alg = "none"
    THEN IF r.opts.audience = "any" /\ r.opts.allowUnsigned /\ assertTimeClaimsValid(t.claims, r.opts)
         THEN Ends(r, "unsigned") ELSE Ends(r, "bad")
    ELSE IF t.claims.alg \in SIGNATURE_ALGORITHMS
    THEN resolveIssuer([r EXCEPT !.data = t.data, !.sig = t.sig])
    ELSE Ends(r, "bad")

(* The next call; the bounds of the world.                                 *)
MayCall(c) ==
    /\ c <= world.calls /\ call[c].pc = "idle" /\ \A d \in 1..(c - 1) : call[d].pc # "idle"
    /\ Cardinality({d \in Call : Active(d)}) < world.parallel

(* One call: form is how the token is presented.                           *)
VerifyToken(c, t, form, opts) ==
    /\ LET r == [Idle EXCEPT !.opts = opts, !.live = {Last(held)}]
           begun == IF form = "string" THEN verifyString(r, t) ELSE verifyObject(r, t)
           iss == begun.data.claims.iss
           opened == begun.data # NoData /\ ~resolvesByMethod(begun)
       IN  /\ call' = [call EXCEPT ![c] = begun]
           /\ decoded' = IF opened /\ isLong(iss) /\ ~decodeFails(iss) THEN rememberPeer4Decode(iss)
                         ELSE decoded
           /\ docs' = IF /\ opened /\ isPeer4(iss) /\ ~isLong(iss)
                         /\ opts.cache /\ Contains(docs, iss.hash)
                      THEN Refreshed(docs, iss.hash) ELSE docs
    /\ UNCHANGED <<world, signer, now, moves, object, pending, group, memo, totalBytes>>

(* What a caller may present: text, an object made from it with or without *)
(* its data, perhaps carrying a verifiedPublicKey nothing verified, an     *)
(* object verifyToken returned, or a copy of one.                          *)
Parsed(t) == [NoObject EXCEPT !.claims = t.data.claims, !.data = t.data, !.sig = t.sig]

Presentations ==
    UNION { IF form \in {"held", "copy"}
            THEN {<<IF form = "held" THEN object[d] ELSE [object[d] EXCEPT !.proof = NoProof], form>> :
                     d \in {e \in Call : object[e] # NoObject}}
            ELSE {<<CASE form = "bare" -> [Parsed(t) EXCEPT !.data = NoData]
                      [] form = "claimed" -> [Parsed(t) EXCEPT !.pub = t.sig.key]
                      [] OTHER -> Parsed(t), form>> : t \in wire}
            : form \in world.forms }

(* Code that holds a returned object writes to it: other claims, its data  *)
(* left, dropped or derived again, another signature, another key.         *)
Rewrites(o) ==
    LET other == [o.claims EXCEPT !.body = IF @ = 1 THEN 2 ELSE 1]
    IN  { [o EXCEPT !.claims = other],
          [o EXCEPT !.claims = other, !.data = serialize(other)],
          [o EXCEPT !.data = NoData] }
        \cup { [o EXCEPT !.sig = t.sig] : t \in wire }
        \cup { [o EXCEPT !.pub = t.sig.key] : t \in wire }

Mutate(c, o) ==
    /\ object' = [object EXCEPT ![c] = o]
    /\ moves' = moves + 1
    /\ UNCHANGED <<world, signer, now, call, pending, group, caches>>

-----------------------------------------------------------------------------
(* The answers a call waits for.                                           *)

At(c, pc) == call[c].pc = pc

Resolved(c, r) ==
    /\ call' = [call EXCEPT ![c] = r]
    /\ UNCHANGED <<world, signer, now, moves, object, pending, group, caches>>

(* A resolver answers with some document, which is unusable unless it      *)
(* hashes to the DID asked for.                                            *)
ResolverAnswers(c, doc) ==
    /\ At(c, "resolver")
    /\ LET claims == call[c].data.claims
       IN  Resolved(c, IF claims.iss.hash # doc THEN Ends(call[c], "unresolvable")
                       ELSE WithKey(call[c], resolveKidOrAuth(doc, claims.kid), doc))

(* It has no answer, throws, or answers with a document that is too large. *)
ResolverFails(c) == At(c, "resolver") /\ Resolved(c, Ends(call[c], "unresolvable"))

(* DIDMethodResolver.resolve and resolveHistoric of the did:kokuin issuer. *)
MethodAnswers(c) ==
    /\ At(c, "method")
    /\ LET kid == call[c].data.claims.kid
           key == IF kid = NoKid THEN Last(held)
                  ELSE IF kid \in DOMAIN held /\ (call[c].opts.historic \/ kid = Len(held))
                  THEN held[kid] ELSE NoKey
       IN  Resolved(c, WithKey(call[c], key, NoDoc))

MethodFails(c) == At(c, "method") /\ Resolved(c, Ends(call[c], "unresolvable"))

-----------------------------------------------------------------------------
(* The signature: the memo, then a group of the provider.                  *)

Length(data) == data.claims.body

MemoEntry(c) ==
    [scope |-> call[c].opts.crypto, alg |-> call[c].key.alg, key |-> call[c].key, sig |-> call[c].sig,
     message |-> call[c].data]
memoKey(e) == [e EXCEPT !.message = NoData]
Bytes(s) ==
    LET sum[n \in 0..Len(s)] == IF n = 0 THEN 0 ELSE sum[n - 1] + Length(s[n].message)
    IN  sum[Len(s)]
cacheable(c) == Length(call[c].data) <= VERIFIED_MEMO_MAX_MESSAGE_BYTES

(* The places of the entries with the memo key of e.                       *)
SameKey(e) == {i \in DOMAIN memo : memoKey(memo[i]) = memoKey(e)}

(* Mutant: the entry a new one replaces stays in the count.                *)
ReplacedNothing(e) == 0

(* The bytes of the entry with the same key, which a new one replaces.     *)
Replaced(e) == Bytes(Filtered(memo, SameKey(e)))

(* remember: the newest last, the oldest dropped until both bounds hold.   *)
remember(e) ==
    LET all == Append(Filtered(memo, DOMAIN memo \ SameKey(e)), e)
        bytes == totalBytes - Replaced(e) + Length(e.message)
        Without(n) == SubSeq(all, n + 1, Len(all))
        BytesWithout(n) == bytes - Bytes(SubSeq(all, 1, n))
        drop == Min({n \in 0..Len(all) :
                        n = Len(all) \/ /\ Len(Without(n)) <= VERIFIED_MEMO_SIZE
                                        /\ BytesWithout(n) <= VERIFIED_MEMO_MAX_TOTAL_BYTES})
    IN  /\ memo' = Without(drop)
        /\ totalBytes' = BytesWithout(drop)

Verdict(c, ok) == call' = [call EXCEPT ![c].pc = "checked", ![c].ok = ok]

(* getVerifier: a verifier of the caller's is asked every time.            *)
AskCustom(c) ==
    /\ At(c, "resolved") /\ call[c].opts.verifier # "default"
    /\ Resolved(c, [call[c] EXCEPT !.pc = "custom"])

CustomAnswers(c, ok) ==
    /\ At(c, "custom") /\ Verdict(c, ok)
    /\ UNCHANGED <<world, signer, now, moves, object, pending, group, caches>>

Known(c) == cacheable(c) /\ Contains(memo, MemoEntry(c))

AskMemo(c) ==
    /\ At(c, "resolved") /\ call[c].opts.verifier = "default" /\ Known(c)
    /\ memo' = Refreshed(memo, MemoEntry(c))
    /\ Verdict(c, TRUE)
    /\ UNCHANGED <<world, signer, now, moves, object, pending, group, totalBytes, decoded, docs>>

(* enqueue: into the provider's open group, or a new one.                  *)
Enqueue(c) ==
    /\ At(c, "resolved") /\ call[c].opts.verifier = "default" /\ ~Known(c)
    /\ LET p == call[c].opts.crypto
           g == IF pending[p] = 0 THEN Len(group) + 1 ELSE pending[p]
           items == IF pending[p] = 0 THEN <<c>> ELSE Append(group[g].items, c)
           grown == [crypto |-> p, state |-> "open", items |-> items, results |-> <<>>]
       IN  /\ group' = IF pending[p] = 0 THEN Append(group, grown) ELSE [group EXCEPT ![g].items = items]
           /\ pending' = [pending EXCEPT ![p] = g]
           /\ call' = [call EXCEPT ![c].pc = "waiting", ![c].slot = <<g, Len(items)>>]
    /\ UNCHANGED <<world, signer, now, moves, object, caches>>

(* Mutant: the group stays open while the provider works on it.            *)
SealOpen(g) ==
    /\ group[g].state = "open"
    /\ group' = [group EXCEPT ![g].state = "sealed"]
    /\ UNCHANGED <<world, signer, now, moves, call, object, pending, caches>>

(* The microtask after the first enqueue seals the group.                  *)
Seal(g) ==
    /\ group[g].state = "open"
    /\ group' = [group EXCEPT ![g].state = "sealed"]
    /\ pending' = [pending EXCEPT ![group[g].crypto] = 0]
    /\ UNCHANGED <<world, signer, now, moves, call, object, caches>>

(* crypto.verify and verifyBatch.  Only the noble provider is sound.       *)
Verifies(c) == call[c].sig.key = call[c].key /\ call[c].sig.over = call[c].data

ProviderAnswers(g, results) ==
    /\ group[g].state = "sealed"
    /\ group[g].crypto = "noble" => results = [i \in DOMAIN group[g].items |-> Verifies(group[g].items[i])]
    /\ group' = [group EXCEPT ![g].state = "answered", ![g].results = results]
    /\ UNCHANGED <<world, signer, now, moves, call, object, pending, caches>>

(* Mutant: the calls of a group that failed are not told.                  *)
ProviderLoses(g) ==
    /\ group[g].state = "sealed"
    /\ group' = [group EXCEPT ![g].state = "failed"]
    /\ UNCHANGED <<world, signer, now, moves, call, object, pending, caches>>

(* The provider rejects; so does every call of the group.                  *)
ProviderFails(g) ==
    /\ group[g].state = "sealed"
    /\ group' = [group EXCEPT ![g].state = "failed"]
    /\ call' = [c \in Call |-> IF At(c, "waiting") /\ call[c].slot[1] = g THEN Ends(call[c], "fault")
                               ELSE call[c]]
    /\ UNCHANGED <<world, signer, now, moves, object, pending, caches>>

(* A call takes its result out of the group's; a strict true is kept.      *)
Learn(c) ==
    /\ At(c, "waiting")
    /\ LET g == group[call[c].slot[1]]
           i == call[c].slot[2]
           ok == i \in DOMAIN g.results /\ g.results[i]
       IN  /\ g.state = "answered"
           /\ Verdict(c, ok)
           /\ IF ok /\ cacheable(c) THEN remember(MemoEntry(c)) ELSE UNCHANGED <<memo, totalBytes>>
    /\ UNCHANGED <<world, signer, now, moves, object, pending, group, decoded, docs>>

-----------------------------------------------------------------------------
Caching(c) == call[c].opts.cache /\ call[c].doc # NoDoc

(* Mutant: the document is cached before the signature is looked at.       *)
ConcludeCaching(c) ==
    /\ At(c, "checked")
    /\ docs' = IF Caching(c) THEN cached(call[c].doc) ELSE docs
    /\ call' = [call EXCEPT ![c] = IF @.ok THEN [@ EXCEPT !.pc = "finish"] ELSE Ends(@, "bad")]
    /\ UNCHANGED <<world, signer, now, moves, object, pending, group, memo, totalBytes, decoded>>

(* verifySignedPayload ends: the issuer's document is cached once its key  *)
(* has signed.                                                             *)
Conclude(c) ==
    /\ At(c, "checked")
    /\ docs' = IF call[c].ok /\ Caching(c) THEN cached(call[c].doc) ELSE docs
    /\ call' = [call EXCEPT ![c] = IF @.ok THEN [@ EXCEPT !.pc = "finish"] ELSE Ends(@, "bad")]
    /\ UNCHANGED <<world, signer, now, moves, object, pending, group, memo, totalBytes, decoded>>

(* The time and audience claims, then the object that carries the proof.   *)
Finish(c) ==
    /\ At(c, "finish")
    /\ LET r == call[c]
           claims == r.data.claims
           valid == assertTimeClaimsValid(claims, r.opts) /\ assertAudienceValid(claims, r.opts)
           proof == [data |-> r.data, policy |-> capturePolicy(r.opts), sig |-> r.sig, key |-> r.key,
                     historic |-> r.opts.historic]
       IN  /\ call' = [call EXCEPT ![c] =
                          IF valid THEN [r EXCEPT !.pc = "done", !.out = "accepted", !.claims = claims,
                                                  !.at = now]
                          ELSE Ends(r, "bad")]
           /\ object' = IF ~valid THEN object
                        ELSE [object EXCEPT ![c] = [claims |-> claims, data |-> r.data, sig |-> r.sig,
                                                    pub |-> r.key, proof |-> proof]]
    /\ UNCHANGED <<world, signer, now, moves, pending, group, caches>>

-----------------------------------------------------------------------------
Step(c) ==
    \/ \E doc \in world.docs : ResolverAnswers(c, doc)
    \/ ResolverFails(c)
    \/ MethodAnswers(c)
    \/ MethodFails(c)
    \/ AskCustom(c)
    \/ \E ok \in BOOLEAN : CustomAnswers(c, ok)
    \/ AskMemo(c)
    \/ Enqueue(c)
    \/ Learn(c)
    \/ Conclude(c)
    \/ Finish(c)

Work(g) ==
    \/ Seal(g)
    \/ \E results \in [DOMAIN group[g].items -> BOOLEAN] : ProviderAnswers(g, results)
    \/ ProviderFails(g)

Next ==
    \/ \E spec \in world.specs : CreateIdentity(spec)
    \/ \E aud \in world.auds, kid \in world.kids, embed \in world.embeds, body \in world.bodies :
          SignToken(aud, kid, embed, body)
    \/ \E i \in DOMAIN held, kid \in world.kokuin, exp \in world.exps, body \in world.bodies :
          SignForDID(i, kid, exp, body)
    \/ \E s \in signing : Signed(s) \/ SignFails(s)
    \/ Rotate
    \/ Tick
    \/ \E c \in Call :
          /\ MayCall(c)
          /\ \E opts \in world.opts, t \in Presentations : VerifyToken(c, t[1], t[2], opts)
    \/ \E c \in Call :
          /\ object[c] # NoObject /\ moves < world.moves
          /\ \E o \in Rewrites(object[c]) : Mutate(c, o)
    \/ \E c \in Call : Step(c)
    \/ \E g \in DOMAIN group : Work(g)

Spec == Init /\ [][Next]_vars

Progress == (\E c \in Call : Step(c)) \/ (\E g \in DOMAIN group : Work(g))

(* Promises settle and the event loop runs: while some resolver or         *)
(* provider owes an answer, or a call could go on, something happens.      *)
FairSpec == Spec /\ WF_vars(Progress)

-----------------------------------------------------------------------------
(* The properties.                                                         *)

Done(c, out) == call[c].pc = "done" /\ call[c].out = out

(* The caller relies on the package's own verifier.                        *)
Sound(opts) == opts.verifier = "default" /\ opts.crypto = "noble"

(* Types; the bounds of the caches (verified-memo.ts:60, peer4.ts:78,      *)
(* cache.ts:64) and that none holds a key twice; a provider's open group   *)
(* is the only one that calls may join.                                    *)
TypeOK ==
    /\ world \in World /\ signs \in 0..world.signs /\ moves \in 0..world.moves
    /\ \A c \in Call : call[c].out \in {"none", "accepted", "unsigned", "bad", "unresolvable", "fault"}
    /\ \A p \in Provider : pending[p] # 0 => group[pending[p]].state = "open"
    /\ IsInjective(docs)
    /\ Len(decoded) <= PEER4_DECODE_MEMO_SIZE /\ IsInjective(decoded)
    /\ IsInjective([i \in DOMAIN memo |-> memoKey(memo[i])])

(* The keys with which an issuer signs or ever signed.                     *)
Authorised(iss) ==
    IF iss.method = "key" THEN {iss.key}
    ELSE IF iss.method = "kokuin" THEN {held[i] : i \in DOMAIN held}
    ELSE {iss.hash.verificationMethod[i] : i \in Range(iss.hash.authentication)}

(* What verifyToken returns to a caller who relies on its own verifier was *)
(* signed as it stands, claim for claim, with a key of the issuer it       *)
(* names, for the caller's audience and time (token.ts:395-545): whatever  *)
(* was written to the object since, whichever check is reused, however     *)
(* the group, the memo or a resolver answered.  A caller who asks for the  *)
(* issuer's current keys is never answered from a check against a retired  *)
(* one (token.ts:418): the key was current during this call or an earlier  *)
(* one that asked the same.                                                *)
AcceptedGenuine ==
    \A c \in Call : Done(c, "accepted") /\ Sound(call[c].opts) =>
        LET r == call[c] IN
        /\ r.sig.over.claims = r.claims
        /\ r.sig.key \in Authorised(r.claims.iss)
        /\ r.opts.audience \in {"any", r.claims.aud}
        /\ r.claims.exp = 0 \/ r.claims.exp + r.opts.tolerance >= r.at
        /\ ~r.opts.historic /\ r.claims.iss = KokuinDID =>
             \E d \in Call :
                /\ Done(d, "accepted") /\ ~call[d].opts.historic
                /\ capturePolicy(call[d].opts) = capturePolicy(r.opts)
                /\ call[d].claims = r.claims /\ call[d].sig.key \in call[d].live

(* The token a call was given is good: signed by its issuer, with a key    *)
(* that was current all along, for this audience, and still valid.         *)
Good(c) ==
    LET claims == call[c].data.claims
        iss == claims.iss
    IN  /\ call[c].sig.over = call[c].data
        /\ claims.exp = 0 /\ assertAudienceValid(claims, call[c].opts)
        /\ \/ iss.method = "key" /\ call[c].sig.key = iss.key
           \/ iss.method = "kokuin" /\ call[c].live = {call[c].sig.key}
              /\ (claims.kid = NoKid \/ claims.kid = call[c].sig.key.n)
           \/ /\ isPeer4(iss) /\ (isLong(iss) => iss.hash = iss.doc)
              /\ claims.kid \in Range(iss.hash.authentication)
              /\ claims.kid \in DOMAIN iss.hash.verificationMethod
              /\ iss.hash.verificationMethod[claims.kid] = call[c].sig.key

(* A good token is never called bad (did.ts:235-347, verifier.ts:33), and  *)
(* one that carries its own key is never called unresolvable: only a       *)
(* provider that fails stops it.                                           *)
RefusalsEarned ==
    \A c \in Call : call[c].data # NoData /\ Sound(call[c].opts) /\ Good(c) =>
        /\ ~Done(c, "bad")
        /\ Done(c, "unresolvable") => LET iss == call[c].data.claims.iss
                                      IN  iss.method = "kokuin" \/ (isPeer4(iss) /\ ~isLong(iss))

(* What the process keeps it has verified, and its counts are exact.       *)
(* Every signature the memo answers for under the sound provider is one,   *)
(* over the very message (verified-memo.ts:21), and the bytes that bound   *)
(* it are those it holds.  A document enters the DID cache only once one   *)
(* of its authentication keys has signed for it (token.ts:259), in worlds  *)
(* where every caller relies on the package's own verifier.                *)
KeptEarned ==
    /\ \A i \in DOMAIN memo :
          memo[i].scope = "noble" =>
              memo[i].sig.key = memo[i].key /\ memo[i].sig.over = memo[i].message
    /\ totalBytes = Bytes(memo)
    /\ totalBytes <= VERIFIED_MEMO_MAX_TOTAL_BYTES /\ Len(memo) <= VERIFIED_MEMO_SIZE
    /\ Len(docs) <= MaxDocs
    /\ (\A opts \in world.opts : Sound(opts)) =>
          \A i \in DOMAIN docs : \E t \in wire :
              LET iss == t.sig.over.claims.iss
              IN  isPeer4(iss) /\ iss.hash = docs[i] /\ t.sig.key \in Authorised(iss)

(* What a sender derives from an identity's DID is what the identity       *)
(* agrees with (identity.ts:436, jwe/src/index.ts:173), for every list of  *)
(* keys an identity can be made of.  A did:key made of an X25519 key is    *)
(* the exception: it is published as an Ed25519 one.                       *)
AgreementMeets ==
    identity # NoIdentity /\ (isPeer4(identity.id) \/ identity.keys[1].alg = "EdDSA") =>
        resolveX25519Key(identity.longForm) = pickAgreementSecret(identity)

(* Every verifyToken settles.                                              *)
VerifiesEnd == \A c \in Call : Active(c) ~> ~Active(c)
=============================================================================
