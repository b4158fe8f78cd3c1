------------------------------- MODULE PqKem -------------------------------
(***************************************************************************)
(* The post-quantum KEMs of src/src/kem/pq.rs: ML-KEM-768, ML-KEM-1024 and *)
(* X-Wing, which the code wraps in one way.  The algorithms are external   *)
(* and symbolic.  A ciphertext is <<coins, seed, form>>: what the sender   *)
(* drew, the seed of the key pair it was made for, and whether its bytes   *)
(* are still "exact", were "altered" or have a "bad_length".  A private    *)
(* key is its seed and the decapsulation key expanded from it, or Gone.    *)
(*                                                                         *)
(* These KEMs have no authenticated form: AuthKem is not implemented.      *)
(***************************************************************************)
EXTENDS Kdf

CONSTANTS
    Variant,        \* "MlKem768", "MlKem1024" or "XWing"
    ZeroSeed        \* the seed of all zero bytes

ASSUME VariantAssumption == Variant \in {"MlKem768", "MlKem1024", "XWing"}

PqId == [MlKem768 |-> "0041", MlKem1024 |-> "0042", XWing |-> "647A"][Variant]

Gone == <<"none">>

\* Mutant: the seed is expanded before it is copied in.
PqFromSeedTooEarly(seed) == [seed |-> seed, dk |-> <<"dk", ZeroSeed>>]

\* keypair_from_seed, $from_seed and sk_from_bytes: every constructor expands
\* the seed and caches the result.
PqFromSeed(seed) == [seed |-> seed, dk |-> <<"dk", seed>>]

\* The public key that goes with a private key: its bytes and their parsed
\* form, which are cached together.
PqPublic(seed) == <<seed, "exact">>

\* Mutant: only the seed is scrubbed.
PqZeroizeSeedOnly(sk) == [sk EXCEPT !.seed = ZeroSeed]

\* Zeroize::zeroize on a private key.
PqZeroize(sk) == [seed |-> ZeroSeed, dk |-> Gone]

PqPair(seed) == [sk |-> PqFromSeed(seed), pk |-> PqPublic(seed)]

\* generate and derive_key_pair, on the seed drawn or computed from the key
\* material (see DeriveKeyPair).
XWingGenerate(seed) == PqPair(seed)
MlKemGenerate(seed) == PqPair(seed)
XWingDerive(seed)   == PqPair(seed)
MlKemDerive(seed)   == PqPair(seed)
PqGenerate(seed) == IF Variant = "XWing" THEN XWingGenerate(seed) ELSE MlKemGenerate(seed)
PqDerive(seed)   == IF Variant = "XWing" THEN XWingDerive(seed) ELSE MlKemDerive(seed)

\* sk_from_bytes on <<seed, form>>, the form being "exact" or "bad_length".
\* X-Wing does not go through keypair_from_seed here.
XWingSkFromBytes(b) ==
    IF b[2] = "bad_length" THEN Err("InvalidPrivateKey")
    ELSE Ok([seed |-> b[1], dk |-> <<"dk", b[1]>>])
MlKemSkFromBytes(b) ==
    IF b[2] = "bad_length" THEN Err("InvalidPrivateKey") ELSE Ok(MlKemGenerate(b[1]).sk)
PqSkFromBytes(b) == IF Variant = "XWing" THEN XWingSkFromBytes(b) ELSE MlKemSkFromBytes(b)

\* sk_to_bytes: the seed, whatever became of the expanded key.
PqSkToBytes(sk) == <<sk.seed, "exact">>

\* pk_from_bytes: the length, then the checks of FIPS 203 on the encoding.
PqPkFromBytes(b) ==
    IF b[2] \in {"bad_length", "not_reduced"} THEN Err("InvalidPublicKey")
    ELSE Ok(b)

\* enc_from_bytes
PqEncFromBytes(b) ==
    IF b[3] = "bad_length" THEN Err("InvalidEncappedKey") ELSE Ok(b)

\* The secret that a ciphertext yields: the sender's for the key pair it was
\* made for, and for any other bytes one that nobody else knows (FIPS 203's
\* implicit rejection), never an error.
Decapsulate(dk, ct) ==
    IF ct[2] = dk[2] /\ ct[3] = "exact" THEN <<"ss", ct[2], ct[1]>>
    ELSE <<"rejected", dk[2], ct>>

\* encap on a parsed key cannot fail.
PqEncap(coins, pk) ==
    Ok([ss |-> <<"ss", pk[1], coins>>, enc |-> <<coins, pk[1], "exact">>])

\* Mutant: altered bytes decapsulate to what the sender has.
PqDecapNoRejection(enc, sk) ==
    IF sk.dk = Gone THEN Err("DecapError")
    ELSE IF enc[3] = "bad_length" THEN Err("InvalidEncappedKey")
    ELSE Ok(Decapsulate(sk.dk, <<enc[1], enc[2], "exact">>))

\* decap: a zeroized key is refused before the ciphertext is looked at.
PqDecap(enc, sk) ==
    IF sk.dk = Gone THEN Err("DecapError")
    ELSE IF enc[3] = "bad_length" THEN Err("InvalidEncappedKey")
    ELSE Ok(Decapsulate(sk.dk, enc))
============================================================================
