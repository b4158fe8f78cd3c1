----------------------------- MODULE MCHpkeDh ------------------------------
(***************************************************************************)
(* Hpke over DhKem on small instances.  Nonces have their real 12 bytes    *)
(* and counters their real 8; a counter stops at MaxSeq, and only the last *)
(* byte of one is ever non-zero.  Every derived base nonce has the same    *)
(* bytes, so that nothing but the keys keeps contexts apart.               *)
(***************************************************************************)
EXTENDS Hpke, DhKem

CONSTANTS OfferedPks, OfferedPkS, HighBitReceived

MCByte == 0 .. 3
MCXor(a, b) == ((a + b) % 2) + 2 * (((a \div 2) + (b \div 2)) % 2)
MCToBeBytes == [s \in 0 .. MaxSeq |-> [i \in 1 .. 8 |-> IF i = 8 THEN s ELSE 0]]
MCBaseNonceBytes(t) == [i \in 1 .. 12 |-> i % 4]

PkOf(b) == DhPkFromBytes(b)
MCPks(offered) == {x.val : x \in {y \in {PkOf(b) : b \in offered} : y.ok}}
MCRecipientPks == MCPks(OfferedPks)
MCSenderPks == MCPks(OfferedPkS)

MCPkBytes(pk) == pk
MCSkToPkBytes(sk) == sk.pk_bytes

\* Bit 255 of an encapsulated X25519 key may be flipped on its way.
MCTampered(enc) ==
    IF HighBitReceived THEN {<<enc[1], "high_bit">>} ELSE {}

R  == DhKeyPair("R")
R2 == DhKeyPair("R2")
S  == DhKeyPair("S")
S2 == DhKeyPair("S2")

ChaCha    == [kdf |-> "HkdfSha256", aead |-> "ChaCha20Poly1305"]
Aes128    == [kdf |-> "HkdfSha256", aead |-> "Aes128Gcm"]
Aes256    == [kdf |-> "HkdfSha512", aead |-> "Aes256Gcm"]
ChaCha512 == [kdf |-> "HkdfSha512", aead |-> "ChaCha20Poly1305"]
ExpOnly   == [kdf |-> "HkdfSha256", aead |-> "ExportOnly"]

Pk(k)   == <<k, "canonical">>
Small   == Pk(SmallOrder)

Long(name) == Bytes(name, 32)
Short(name) == Bytes(name, 31)
Id(name) == Bytes(name, 4)

BindingSuites     == {Aes128, Aes256}
BindingPks        == {Pk("R"), <<"R", "high_bit">>, Pk("R2"), Small}
BindingRecipients == {R, R2}
BindingSenders    == {S, S2}
BindingSenderPks  == {Pk("S"), Pk("S2"), Small}
BindingSecrets    == {EmptyBytes, Short("p0"), Long("p1"), Long("p2")}
BindingIds        == {EmptyBytes, Id("i1"), Id("i2")}
MontgomeryStray   == {Small, Pk("X"), <<"X", "bad_length">>}

ChannelSuites == {ChaCha}
ChannelRecipients == {R}
ChannelPks   == {Pk("R"), Small}
NistStray    == {Pk("X"), <<"X", "off_curve">>, <<"X", "bad_length">>}

ExportSecrets == {Long("p1")}
ExportIds == {Id("i1")}
ExportSuites == {ChaCha, Aes256, ExpOnly}
============================================================================
