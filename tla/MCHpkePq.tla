----------------------------- MODULE MCHpkePq ------------------------------
(***************************************************************************)
(* Hpke over PqKem on small instances: two recipients' key pairs, one of   *)
(* the private keys also in its zeroized state, encapsulated keys altered  *)
(* and cut on their way.                                                   *)
(***************************************************************************)
EXTENDS Hpke, PqKem

MCByte == 0 .. 3
MCXor(a, b) == ((a + b) % 2) + 2 * (((a \div 2) + (b \div 2)) % 2)
MCToBeBytes == [s \in 0 .. MaxSeq |-> [i \in 1 .. 8 |-> IF i = 8 THEN s ELSE 0]]
MCBaseNonceBytes(t) == [i \in 1 .. 12 |-> i % 4]

MCOfferedPks == {PqPublic("A"), PqPublic("B"), <<"A", "not_reduced">>,
                 <<"A", "bad_length">>}
MCRecipientPks ==
    {x.val : x \in {y \in {PqPkFromBytes(b) : b \in MCOfferedPks} : y.ok}}
MCRecipientSks == {PqFromSeed("A"), PqFromSeed("B"), PqZeroize(PqFromSeed("A"))}
MCPkBytes(pk) == pk
MCSkToPkBytes(sk) == PqPublic(sk.seed)

\* No AuthKem: the Auth modes do not compile, and are not in Modes.
MCNoAuth(a, b, c) == Err("NoAuthKem")

MCTampered(enc) == {<<enc[1], enc[2], form>> : form \in {"altered", "bad_length"}}
MCStray == {<<"e9", "A", "exact">>, <<"e9", "X", "exact">>}

ChaCha == [kdf |-> "HkdfSha256", aead |-> "ChaCha20Poly1305"]
Aes256 == [kdf |-> "HkdfSha512", aead |-> "Aes256Gcm"]
MCSuites  == {ChaCha, Aes256}
MCSecrets == {Bytes("p1", 32), Bytes("p2", 32)}
MCIds     == {Bytes("i1", 4)}

\* pq.rs:655-658: decap on a zeroized key "must fail with `DecapError` rather
\* than succeeding against expanded key material that survived the scrub": no
\* receiver is ever set up with a private key whose seed has been scrubbed.
ZeroizedKeyIsRefused ==
    \A r \in Receivers : tr[r] # Absent => tr[r].pkR # PqPublic(ZeroSeed)
============================================================================
