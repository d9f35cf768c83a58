--------------------------- MODULE TokenIdentity ----------------------------
(***************************************************************************)
(* Identities, DID documents and DIDs (token/src/identity.ts, did.ts,      *)
(* peer4.ts) and the agreement key a sender takes from a DID               *)
(* (jwe/src/index.ts).                                                     *)
(*                                                                         *)
(* A public key and its private half are one value.  The hash of a DID     *)
(* document is injective, so the short form of a did:peer:4 carries the    *)
(* document itself where the code carries its hash; a long form carries    *)
(* a hash and a document, which need not belong together.                  *)
(***************************************************************************)
EXTENDS Naturals, Sequences, SequencesExt

SIGNATURE_ALGORITHMS == {"EdDSA", "ES256"}

NoKey == [alg |-> "none", n |-> 0]
NoKid == 0                      \* a fragment "#key-i" is i + 1
NoDoc == [verificationMethod |-> <<>>, authentication |-> <<>>, keyAgreement |-> <<>>]

(* A string: the ones named here are strings too, which provers are told.  *)
Text == STRING \cup {"none", "EdDSA", "ES256", "montgomery", "key", "kokuin", "peer", "plain", "any"}

Key == [alg : Text, n : Nat]
Fragment == Nat \ {NoKid}
Doc == [verificationMethod : Seq(Key), authentication : Seq(Fragment), keyAgreement : Seq(Fragment)]
DID == [method : Text, key : Key, hash : Doc, doc : Doc]

(* The keys an identity is made of, with what each is for.                 *)
IdentityKey == [purpose : {"sig", "kem"}, alg : Text, n : Nat]

(* What Array.find returns of the keys that pass its test.                 *)
FoundKey(found) == IF found = <<>> THEN NoKey ELSE Head(found)

(* Array.filter: the elements of s at the places in S, in order.           *)
Filtered(s, S) ==
    LET take[n \in 0..Len(s)] ==
            IF n = 0 THEN <<>>
            ELSE IF n \in S THEN Append(take[n - 1], s[n]) ELSE take[n - 1]
    IN  take[Len(s)]

KeysFor(purpose, alg, keys) ==
    Filtered(keys, {i \in DOMAIN keys : keys[i].purpose = purpose /\ keys[i].alg = alg})

-----------------------------------------------------------------------------
(* DIDs: did:key carries a key, did:peer:4 the hash of a document and, in  *)
(* its long form, the document; did:kokuin names a log.                    *)
Blank == [method |-> "none", key |-> NoKey, hash |-> NoDoc, doc |-> NoDoc]

(* The codec did:key is published with names EdDSA whatever the key is.    *)
getDID(key) == [Blank EXCEPT !.method = "key", !.key = [alg |-> "EdDSA", n |-> key.n]]

KokuinDID == [Blank EXCEPT !.method = "kokuin"]

isPeer4(did) == did.method = "peer"
getPeer4ShortForm(did) == [did EXCEPT !.doc = NoDoc]
normalizeDID(did) == IF isPeer4(did) THEN getPeer4ShortForm(did) ELSE did
encodePeer4(doc) == [Blank EXCEPT !.method = "peer", !.hash = doc, !.doc = doc]
isLong(did) == isPeer4(did) /\ did # getPeer4ShortForm(did)

(* verifyMultihash: the embedded document hashes to the identifier.        *)
verifyMultihash(longForm) == longForm.hash = longForm.doc

-----------------------------------------------------------------------------
(* The method an identity's DID uses; "invalid" when the keys do not fit.  *)
isClassical(key) == key.alg \in {"EdDSA", "X25519"}

OneSigningKey(keys) == Len(keys) = 1 /\ isClassical(keys[1]) /\ keys[1].purpose = "sig"

chooseMethod(spec) ==
    IF spec.didMethod = "unset"
    THEN IF OneSigningKey(spec.keys) THEN "key" ELSE "peer"
    ELSE IF spec.didMethod = "key" /\ ~OneSigningKey(spec.keys) THEN "invalid"
    ELSE spec.didMethod

PublicKey(key) == [alg |-> key.alg, n |-> key.n]

(* The fragments of the keys with a purpose, in order.                     *)
Fragments(keys, purpose) ==
    Filtered([i \in 1..Len(keys) |-> i], {i \in DOMAIN keys : keys[i].purpose = purpose})

buildDoc(keys) ==
    [verificationMethod |-> [i \in 1..Len(keys) |-> PublicKey(keys[i])],
     authentication     |-> Fragments(keys, "sig"),
     keyAgreement       |-> Fragments(keys, "kem")]

buildIdentity(method, keys) ==
    LET long == IF method = "key" THEN getDID(keys[1]) ELSE encodePeer4(buildDoc(keys))
    IN  [id |-> normalizeDID(long), longForm |-> long, keys |-> keys]

NoIdentity == [id |-> Blank, longForm |-> Blank, keys |-> <<>>]

createIdentity(spec) ==
    IF Fragments(spec.keys, "sig") = <<>> \/ chooseMethod(spec) = "invalid" THEN NoIdentity
    ELSE buildIdentity(chooseMethod(spec), spec.keys)

-----------------------------------------------------------------------------
(* The fragment signToken signs with; NoKid when it throws.                *)
pickSigningKey(keys, kid) ==
    IF kid # NoKid
    THEN IF kid \in DOMAIN keys /\ keys[kid].purpose = "sig" THEN kid ELSE NoKid
    ELSE Head(Fragments(keys, "sig"))

(* The issuer a token names, and the audiences that have the long form     *)
(* once it does.                                                           *)
pickIss(identity, sentTo, aud, embed) ==
    LET long == [iss |-> identity.longForm, sentTo |-> sentTo]
        short == [iss |-> identity.id, sentTo |-> sentTo]
    IN  IF ~isPeer4(identity.id) \/ embed = "short" THEN short
        ELSE IF embed = "long" \/ aud = "none" THEN long
        ELSE IF aud \in sentTo THEN short
        ELSE [long EXCEPT !.sentTo = sentTo \cup {aud}]

-----------------------------------------------------------------------------
(* The key that checks a token of a did:peer:4, NoKey when it has none: a  *)
(* kid must name a method the document lists for authentication.           *)
resolveKidFromDoc(doc, kid) ==
    IF kid \in DOMAIN doc.verificationMethod
       /\ doc.verificationMethod[kid].alg \in SIGNATURE_ALGORITHMS
    THEN doc.verificationMethod[kid] ELSE NoKey

resolveKidOrAuth(doc, kid) ==
    IF kid = NoKid
    THEN IF doc.authentication = <<>> THEN NoKey
         ELSE resolveKidFromDoc(doc, Head(doc.authentication))
    ELSE IF Contains(doc.authentication, kid) THEN resolveKidFromDoc(doc, kid) ELSE NoKey

-----------------------------------------------------------------------------
(* Key agreement.  A did:key has the Montgomery form of its signing key.   *)
toMontgomery(key) == [alg |-> "montgomery", n |-> key.n]

(* Mutant: without a key agreement key the signing key is converted.       *)
pickAgreementSecretAlways(identity) ==
    LET kem == FoundKey(KeysFor("kem", "X25519", identity.keys))
        sig == FoundKey(KeysFor("sig", "EdDSA", identity.keys))
    IN  IF kem # NoKey THEN PublicKey(kem)
        ELSE IF sig # NoKey THEN toMontgomery(sig) ELSE NoKey

(* What an identity agrees with when no kid is named; NoKey if it throws.  *)
pickAgreementSecret(identity) ==
    LET kem == FoundKey(KeysFor("kem", "X25519", identity.keys))
        sig == FoundKey(KeysFor("sig", "EdDSA", identity.keys))
    IN  IF kem # NoKey THEN PublicKey(kem)
        ELSE IF ~isPeer4(identity.id) /\ sig # NoKey THEN toMontgomery(sig) ELSE NoKey

(* The X25519 key a document publishes.                                    *)
getAgreementKey(doc) ==
    LET published == [i \in DOMAIN doc.keyAgreement |-> doc.verificationMethod[doc.keyAgreement[i]]]
    IN  FoundKey(Filtered(published, {i \in DOMAIN published : published[i].alg = "X25519"}))

(* What a sender takes from a recipient's DID; NoKey if it throws.         *)
resolveX25519Key(did) ==
    IF isPeer4(did) THEN IF isLong(did) THEN getAgreementKey(did.doc) ELSE NoKey
    ELSE IF did.key.alg = "EdDSA" THEN toMontgomery(did.key) ELSE NoKey
=============================================================================
