------------------------------- MODULE DhKem -------------------------------
(***************************************************************************)
(* DHKEM (src/src/kem/dh.rs): encapsulation to a recipient's public key by *)
(* an ephemeral Diffie-Hellman exchange, with and without a second one     *)
(* that authenticates the sender.                                          *)
(*                                                                         *)
(* One of the curves of module Curves is chosen.                           *)
(***************************************************************************)
EXTENDS Curves

CONSTANT Curve          \* "X25519", "X448" or "NIST" (P-256/384/521, secp256k1)

ASSUME CurveAssumption == Curve \in {"X25519", "X448", "NIST"}

\* D::ID, D::Kdf and D::SHARED_SECRET_LEN (P-256's for the NIST family).
DhId        == [X25519 |-> "0020", X448 |-> "0021", NIST |-> "0010"][Curve]
DhKdf       == [X25519 |-> "HkdfSha256", X448 |-> "HkdfSha512",
                NIST |-> "HkdfSha256"][Curve]
DhSecretLen == [X25519 |-> 32, X448 |-> 64, NIST |-> 32][Curve]

\* The methods of D.
DhPkFromBytes(b) == [X25519 |-> X25519PkFromBytes(b), X448 |-> X448PkFromBytes(b),
                     NIST |-> NistPkFromBytes(b)][Curve]

Dh(sk, pk) == [X25519 |-> X25519Dh(sk, pk), X448 |-> X448Dh(sk, pk),
               NIST |-> NistDh(sk, pk)][Curve]

DhSkToPk(sk) == [X25519 |-> X25519SkToPk(sk), X448 |-> X448SkToPk(sk),
                 NIST |-> NistSkToPk(sk)][Curve]

DhScalar(k) == [X25519 |-> X25519Generate(k), X448 |-> X448Generate(k),
                NIST |-> NistGenerate(k)][Curve]

DhDerivedScalar(k) == [X25519 |-> X25519Derive(k), X448 |-> X448Derive(k),
                       NIST |-> NistDerive(k)][Curve]

DhSkFromBytes(b) == [X25519 |-> X25519SkFromBytes(b), X448 |-> X448SkFromBytes(b),
                     NIST |-> NistSkFromBytes(b)][Curve]

DhZeroizeSk(sk) == [X25519 |-> X25519Zeroize(sk), X448 |-> X448Zeroize(sk),
                    NIST |-> NistZeroize(sk)][Curve]

\* DhPrivateKey::from_pair and from_sk: the bytes of the public key are cached.
DhPrivateKey(sk) == [sk |-> sk, pk_bytes |-> DhSkToPk(sk)]

\* <Self as Kem>::generate, derive_key_pair, sk_from_bytes and sk_to_bytes.
DhKeyPair(k)    == DhPrivateKey(DhScalar(k))
DhDerivePair(k) == DhPrivateKey(DhDerivedScalar(k))
DhLoad(b) ==
    LET sk == DhSkFromBytes(b)
    IN  IF sk.ok THEN Ok(DhPrivateKey(sk.val)) ELSE sk
DhSave(key) == key.sk

\* Zeroize::zeroize, also run by drop: the cached bytes stay.
DhZeroize(key) == [key EXCEPT !.sk = DhZeroizeSk(key.sk)]

\* extract_and_expand[_pieces]; dhs and kem_context are lists of pieces.
ExtractAndExpand(dhs, kem_context) ==
    LET suite   == KemSuiteId(DhId)
        eae_prk == LabeledExtract(DhKdf, <<>>, suite, "eae_prk", dhs)
    IN  LabeledExpand(DhKdf, eae_prk, suite, "shared_secret", kem_context,
                      DhSecretLen)

\* <Self as Kem>::enc_from_bytes looks at the length only.
DhEncFromBytes(b) ==
    IF b[2] = "bad_length" THEN Err("InvalidEncappedKey") ELSE Ok(b)

\* The shared secret that goes with an encapsulated key, or its error.
WithEnc(ss, enc) ==
    IF ss.ok THEN Ok([ss |-> ss.val, enc |-> enc]) ELSE ss

\* encap_with(rng, pk_r, None), drawing the ephemeral key pair of scalar e.
DhEncap(e, pkR) ==
    LET skE == DhScalar(e)
        enc == DhSkToPk(skE)
        dh1 == Dh(skE, pkR)
    IN  IF ~dh1.ok THEN dh1
        ELSE WithEnc(ExtractAndExpand(<<dh1.val>>, <<enc, pkR>>), enc)

\* encap_with(rng, pk_r, Some(sk_s))
DhAuthEncap(e, pkR, skS) ==
    LET skE == DhScalar(e)
        enc == DhSkToPk(skE)
        dh1 == Dh(skE, pkR)
        dh2 == Dh(skS.sk, pkR)
    IN  IF ~dh1.ok THEN dh1
        ELSE IF ~dh2.ok THEN dh2
        ELSE WithEnc(ExtractAndExpand(<<dh1.val, dh2.val>>,
                                      <<enc, pkR, skS.pk_bytes>>), enc)

\* Mutant: the parsed key instead of the bytes received in kem_context.
DhDecapParsedEnc(enc, skR) ==
    LET pkE == DhPkFromBytes(enc)
        dh  == Dh(skR.sk, pkE.val)
    IN  IF ~pkE.ok THEN pkE
        ELSE IF ~dh.ok THEN dh
        ELSE ExtractAndExpand(<<dh.val>>, <<pkE.val, skR.pk_bytes>>)

\* <Self as Kem>::decap: kem_context takes the bytes received.
DhDecap(enc, skR) ==
    LET pkE == DhPkFromBytes(enc)
        dh  == Dh(skR.sk, pkE.val)
    IN  IF ~pkE.ok THEN pkE
        ELSE IF ~dh.ok THEN dh
        ELSE ExtractAndExpand(<<dh.val>>, <<enc, skR.pk_bytes>>)

\* Mutant: the two exchanges in the other order.
DhAuthDecapSwapped(enc, skR, pkS) ==
    LET pkE == DhPkFromBytes(enc)
        dh1 == Dh(skR.sk, pkE.val)
        dh2 == Dh(skR.sk, pkS)
    IN  IF ~pkE.ok THEN pkE
        ELSE IF ~dh1.ok THEN dh1
        ELSE IF ~dh2.ok THEN dh2
        ELSE ExtractAndExpand(<<dh2.val, dh1.val>>,
                              <<enc, skR.pk_bytes, pkS>>)

\* <Self as AuthKem>::auth_decap
DhAuthDecap(enc, skR, pkS) ==
    LET pkE == DhPkFromBytes(enc)
        dh1 == Dh(skR.sk, pkE.val)
        dh2 == Dh(skR.sk, pkS)
    IN  IF ~pkE.ok THEN pkE
        ELSE IF ~dh1.ok THEN dh1
        ELSE IF ~dh2.ok THEN dh2
        ELSE ExtractAndExpand(<<dh1.val, dh2.val>>,
                              <<enc, skR.pk_bytes, pkS>>)
============================================================================
