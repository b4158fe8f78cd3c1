------------------------------- MODULE Nonce -------------------------------
(***************************************************************************)
(* Per-message nonces of an HPKE context (src/src/context.rs):             *)
(* ComputeNonce(seq) = base_nonce XOR seq, computed in a fixed buffer of   *)
(* MAX_NONCE_LEN bytes of which the AEAD sees the first NONCE_LEN.         *)
(*                                                                         *)
(* Buffers are functions from positions 1, 2, ... to bytes.  What a byte   *)
(* is, how XOR acts on it and how a counter is written big-endian are      *)
(* parameters, constrained by what the code needs of them.                 *)
(***************************************************************************)
EXTENDS Naturals

CONSTANTS
    Byte,           \* the values of a byte
    Xor(_, _),      \* the `^` operator on bytes
    MaxSeq,         \* u64::MAX, the last value of the sequence counter
    ToBeBytes,      \* u64::to_be_bytes, a function on 0..MaxSeq
    SeqLen,         \* SEQ_LEN, the width of the counter in bytes
    NonceLen,       \* A::NONCE_LEN
    MaxNonceLen     \* MAX_NONCE_LEN, the width of the nonce buffers

SeqNo     == 0 .. MaxSeq
NonceBuf  == [1 .. MaxNonceLen -> Byte]
NonceVal  == [1 .. NonceLen -> Byte]

ASSUME ByteAssumption ==
    /\ 0 \in Byte
    /\ \A a, b \in Byte : Xor(a, b) \in Byte
    /\ \A a, b, c \in Byte : Xor(a, b) = Xor(a, c) => b = c

ASSUME CounterAssumption ==
    /\ MaxSeq \in Nat
    /\ SeqLen \in Nat
    /\ ToBeBytes \in [SeqNo -> [1 .. SeqLen -> Byte]]
    /\ \A s, t \in SeqNo : ToBeBytes[s] = ToBeBytes[t] => s = t

\* AssertNonceRange<A>::CHECK, evaluated by rustc for every AEAD that seals.
ASSUME NonceRangeAssumption ==
    /\ NonceLen \in Nat /\ MaxNonceLen \in Nat
    /\ NonceLen >= SeqLen
    /\ NonceLen <= MaxNonceLen

\* Context::new copies the NONCE_LEN bytes it is given into a zeroed buffer.
PadNonce(base) ==
    [i \in 1 .. MaxNonceLen |-> IF i <= NonceLen THEN base[i] ELSE 0]

\* Mutant: the last byte of the counter is never mixed in.
SeqPositionsOneShort == NonceLen - SeqLen + 1 .. NonceLen - 1

\* The positions nonce[len - SEQ_LEN .. len] that the counter is mixed into.
SeqPositions == NonceLen - SeqLen + 1 .. NonceLen

\* compute_nonce: the first NONCE_LEN bytes of the buffer, the rest zero, and
\* the big-endian counter XORed into the last SEQ_LEN of the first NONCE_LEN.
ComputeNonce(buf, seq) ==
    [i \in 1 .. MaxNonceLen |->
        IF i \in SeqPositions
        THEN Xor(buf[i], ToBeBytes[seq][i - (NonceLen - SeqLen)])
        ELSE PadNonce(buf)[i]]

\* &nonce[..A::NONCE_LEN], the slice that A::seal and A::open are given.
AeadNonce(buf, seq) == [i \in 1 .. NonceLen |-> ComputeNonce(buf, seq)[i]]

============================================================================
