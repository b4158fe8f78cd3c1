----------------------------- MODULE MCSession -----------------------------
(***************************************************************************)
(* Session on small instances: bytes of one bit, a counter of two of them  *)
(* (so that MaxSeq = 3 fills it, as u64::MAX does), nonces of three bytes  *)
(* in a buffer of four.                                                    *)
(***************************************************************************)
EXTENDS Session

MCByte == {0, 1}
MCXor(a, b) == (a + b) % 2
MCToBeBytes == [s \in 0 .. 3 |-> <<s \div 2, s % 2>>]
\* Both keys have one base nonce, so that only the keys tell them apart.
MCBaseNonce == [k \in AeadKey |-> <<1, 0, 1>>]

============================================================================
