------------------------------- MODULE Curves -------------------------------
(***************************************************************************)
(* The implementations of DiffieHellman in src/src/kem/dh.rs: X25519, X448 *)
(* and nist_curve! (P-256, P-384, P-521 and secp256k1).  Arithmetic is     *)
(* external and symbolic.                                                  *)
(*                                                                         *)
(* The bytes of a scalar are <<k, form>>:                                  *)
(*   "canonical"     what the program stores: clamped, or below the order  *)
(*   "raw"           Montgomery curves: bytes whose clamp is k's           *)
(*   "zero"          all zero bytes                                        *)
(*   "out_of_range"  NIST curves: zero, or not below the order             *)
(*   "bad_length"    any other number of bytes                             *)
(* The point of k is named k, and the bytes of a point are <<k, form>>:    *)
(*   "canonical"     what pk_to_bytes writes for the stored scalar         *)
(*   "unclamped"     X448 only: the point of the raw scalar                *)
(*   "high_bit"      X25519 only: bit 255 set, which reading a key masks   *)
(*   "off_curve"     NIST curves only: no point, or not tagged 0x04        *)
(*   "bad_length"    any other number of bytes                             *)
(***************************************************************************)
EXTENDS Kdf

CONSTANT SmallOrder     \* the small-order points, all zero bytes among them

\* The shared secret of the scalar of point P with point Q: the same for the
\* scalar of Q with P, and zero if either has small order.
Zero == {}
Shared(P, Q) == IF SmallOrder \in {P[1], Q[1]} THEN Zero ELSE {P, Q}

\* The constant-time comparison at the end of every dh.
RejectZero(shared) == IF shared = Zero THEN Err("EncapError") ELSE Ok(shared)

----------------------------------------------------------------------------
\* X25519.  A scalar is clamped when it is stored, and again when it is used.
X25519Clamp(b) == <<b[1], "canonical">>

\* Mutant: the bytes drawn are stored as they are.
X25519GenerateUnclamped(k) == <<k, "raw">>

X25519Generate(k) == X25519Clamp(<<k, "raw">>)

X25519Derive(k) == X25519Clamp(<<k, "raw">>)

X25519SkToPk(sk) == <<sk[1], "canonical">>

X25519Dh(sk, pk) == RejectZero(Shared(X25519SkToPk(sk), pk))

\* Any 32 bytes are a key, after masking bit 255.
X25519PkFromBytes(b) ==
    IF b[2] = "bad_length" THEN Err("InvalidPublicKey")
    ELSE Ok(<<b[1], IF b[2] = "high_bit" THEN "canonical" ELSE b[2]>>)

X25519SkFromBytes(b) ==
    IF b[2] = "bad_length" THEN Err("InvalidPrivateKey") ELSE Ok(X25519Clamp(b))

\* Mutant: the scrub is forgotten.
ZeroizeKeepsScalar(sk) == sk

\* The scalar is replaced by zero, which clamps to a scalar at use.
X25519Zeroize(sk) == <<"zero", "zero">>

----------------------------------------------------------------------------
\* X448.  A scalar is clamped when it is stored and used as it is.
X448Clamp(b) == <<b[1], "canonical">>

\* Multiples of the base point; no bytes but zero make the zero scalar.
X448SkToPk(sk) ==
    CASE sk[2] = "canonical" -> <<sk[1], "canonical">>
      [] sk[2] = "raw"       -> <<sk[1], "unclamped">>
      [] sk[2] = "zero"      -> <<SmallOrder, "canonical">>

X448Generate(k) == X448Clamp(<<k, "raw">>)

X448Derive(k) == X448Clamp(<<k, "raw">>)

X448Dh(sk, pk) == RejectZero(Shared(X448SkToPk(sk), pk))

X448PkFromBytes(b) ==
    IF b[2] = "bad_length" THEN Err("InvalidPublicKey") ELSE Ok(b)

\* Mutant: a loaded key is used as it came.
X448SkFromBytesUnclamped(b) ==
    IF b[2] = "bad_length" THEN Err("InvalidPrivateKey") ELSE Ok(b)

X448SkFromBytes(b) ==
    IF b[2] = "bad_length" THEN Err("InvalidPrivateKey") ELSE Ok(X448Clamp(b))

X448Zeroize(sk) == <<"zero", "zero">>

----------------------------------------------------------------------------
\* P-256, P-384, P-521 and secp256k1: curves of prime order, scalars below it.
NistGenerate(k) == <<k, "canonical">>

\* The bytes derive_p_curve_sk has accepted, see DeriveKeyPair.
NistDerive(k) == <<k, "canonical">>

NistSkToPk(sk) == <<sk[1], "canonical">>

NistDh(sk, pk) == RejectZero(Shared(NistSkToPk(sk), pk))

\* Uncompressed points of the curve only, none of which has small order.
NistPkFromBytes(b) ==
    IF b[2] # "canonical" \/ b[1] = SmallOrder THEN Err("InvalidPublicKey")
    ELSE Ok(b)

\* A scalar from 1 to the order less one; nothing is reduced into that range.
NistSkFromBytes(b) == IF b[2] # "canonical" THEN Err("InvalidPrivateKey") ELSE Ok(b)

\* The scalar is replaced by one.
NistZeroize(sk) == <<"one", "canonical">>
============================================================================
