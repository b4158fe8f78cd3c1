-------------------------------- MODULE Kdf --------------------------------
(***************************************************************************)
(* The key derivation functions of src/src/kdf.rs.  HKDF is external and   *)
(* ideal: Extract and Expand are free constructors, so that two values are *)
(* equal exactly when they were derived from equal inputs.                 *)
(*                                                                         *)
(* An expansion is the first `len` bytes of a stream that the hash, the    *)
(* pseudo-random key and the info alone determine; that is what makes one  *)
(* expansion a prefix of another.  Tuples start with a tag, byte strings   *)
(* that the code concatenates are the tuple of their pieces, and <<>> is   *)
(* the empty byte string.                                                  *)
(***************************************************************************)
EXTENDS Naturals, Sequences

\* Result<T, HpkeError>
Ok(v)  == [ok |-> TRUE,  val |-> v]
Err(e) == [ok |-> FALSE, err |-> e]

\* F::HASH_LEN
HashLen == [HkdfSha256 |-> 32, HkdfSha384 |-> 48, HkdfSha512 |-> 64]

MaxU16 == 65535

\* kem_suite_id: what keeps KEMs that share a primitive apart.
KemSuiteId(id) == <<"KEM", id>>

\* F::extract
Extract(kdf, salt, ikm) == <<"prk", kdf, salt, ikm>>

\* Mutant: the limit itself refused.
ExpandHalfOpen(kdf, prk, info, len) ==
    IF len >= 255 * HashLen[kdf] THEN Err("ExportLengthExceeded")
    ELSE IF len = 0 THEN Ok(<<>>)
    ELSE Ok(<<"okm", kdf, prk, info, len>>)

\* F::expand: RFC 5869 caps the output at 255 blocks.  from_prk refuses a prk
\* shorter than the hash; here every prk is an output of extract or an
\* expansion to HashLen bytes (error.rs:55-59), so that outcome is left out.
Expand(kdf, prk, info, len) ==
    IF len > 255 * HashLen[kdf] THEN Err("ExportLengthExceeded")
    ELSE IF len = 0 THEN Ok(<<>>)
    ELSE Ok(<<"okm", kdf, prk, info, len>>)

\* The order of the pieces is the code's.
LabeledExtract(kdf, salt, suite, label, ikm) ==
    Extract(kdf, salt, <<"HPKE-v1", suite, label, ikm>>)

\* Mutant: the length left out of the info.
LabeledExpandNoLength(kdf, prk, suite, label, info, len) ==
    IF len > MaxU16 THEN Err("ExportLengthExceeded")
    ELSE Expand(kdf, prk, <<"HPKE-v1", suite, label, info>>, len)

LabeledExpand(kdf, prk, suite, label, info, len) ==
    IF len > MaxU16 THEN Err("ExportLengthExceeded")
    ELSE Expand(kdf, prk, <<len, "HPKE-v1", suite, label, info>>, len)

\* Non-empty outputs a and b are read from one stream: the shorter is a
\* prefix of the longer.
SameStream(a, b) ==
    /\ a # <<>> /\ b # <<>>
    /\ a[1] = "okm" /\ b[1] = "okm"
    /\ SubSeq(a, 1, 4) = SubSeq(b, 1, 4)
============================================================================
