---------------------------- MODULE NonceProofs ----------------------------
(***************************************************************************)
(* Lemmas about the nonces of context.rs, for every width of counters and  *)
(* nonces.                                                                 *)
(***************************************************************************)
EXTENDS Nonce, TLAPS

\* The buffer and the slice that compute_nonce yields have their types.
LEMMA NonceType ==
    ASSUME NEW buf \in NonceBuf, NEW s \in SeqNo
    PROVE  AeadNonce(buf, s) \in NonceVal
<1>1. \A i \in 1 .. NonceLen : ComputeNonce(buf, s)[i] \in Byte
  <2> TAKE i \in 1 .. NonceLen
  <2>1. i \in 1 .. MaxNonceLen
    BY NonceRangeAssumption
  <2>2. buf[i] \in Byte /\ PadNonce(buf)[i] \in Byte
    BY <2>1, ByteAssumption DEF PadNonce, NonceBuf
  <2>3. i \in SeqPositions => ToBeBytes[s][i - (NonceLen - SeqLen)] \in Byte
    <3> SUFFICES ASSUME i \in SeqPositions
                 PROVE  ToBeBytes[s][i - (NonceLen - SeqLen)] \in Byte
      OBVIOUS
    <3>1. i - (NonceLen - SeqLen) \in 1 .. SeqLen
      BY CounterAssumption, NonceRangeAssumption DEF SeqPositions
    <3> QED  BY <3>1, CounterAssumption
  <2> QED
    BY <2>1, <2>2, <2>3, ByteAssumption DEF ComputeNonce
<1> QED  BY <1>1 DEF AeadNonce, NonceVal

\* compute_nonce maps distinct sequence numbers of one context to distinct
\* nonces (context.rs:108-121).
THEOREM NonceInjective ==
    ASSUME NEW buf \in NonceBuf, NEW s \in SeqNo, NEW t \in SeqNo,
           AeadNonce(buf, s) = AeadNonce(buf, t)
    PROVE  s = t
<1>1. ASSUME NEW j \in 1 .. SeqLen
      PROVE  ToBeBytes[s][j] = ToBeBytes[t][j]
  <2> DEFINE i == j + (NonceLen - SeqLen)
  <2>1. /\ i \in SeqPositions /\ i \in 1 .. NonceLen /\ i \in 1 .. MaxNonceLen
        /\ i - (NonceLen - SeqLen) = j
    BY CounterAssumption, NonceRangeAssumption DEF SeqPositions
  <2>2. AeadNonce(buf, s)[i] = AeadNonce(buf, t)[i]
    OBVIOUS
  <2> HIDE DEF i
  <2>3. Xor(buf[i], ToBeBytes[s][j]) = Xor(buf[i], ToBeBytes[t][j])
    BY <2>1, <2>2 DEF AeadNonce, ComputeNonce
  <2>4. buf[i] \in Byte
    BY <2>1 DEF NonceBuf
  <2>5. ToBeBytes[s][j] \in Byte /\ ToBeBytes[t][j] \in Byte
    BY CounterAssumption
  <2> QED  BY <2>3, <2>4, <2>5, ByteAssumption
<1>2. ToBeBytes[s] = ToBeBytes[t]
  BY <1>1, CounterAssumption
<1> QED  BY <1>2, CounterAssumption

\* The padding Context::new adds fills the buffer.
LEMMA PadType ==
    ASSUME NEW base \in NonceVal
    PROVE  PadNonce(base) \in NonceBuf
<1>1. \A i \in 1 .. MaxNonceLen : i <= NonceLen => i \in 1 .. NonceLen
  BY NonceRangeAssumption
<1> QED  BY <1>1, ByteAssumption DEF PadNonce, NonceVal, NonceBuf
=============================================================================
