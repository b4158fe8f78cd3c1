------------------------------- MODULE MCKeys -------------------------------
(***************************************************************************)
(* KeyLifecycle over DhKem on each curve and over PqKem in each variant.   *)
(* Another implementation's key may be stored unclamped, which RFC 9180    *)
(* allows and the Montgomery curves read; a NIST curve is given bytes out  *)
(* of range, a post-quantum KEM a seed and bytes cut short.                *)
(***************************************************************************)
EXTENDS KeyLifecycle, TLC

CONSTANTS SmallOrder, ZeroSeed

\* Slots and seeds are only names.
NameSymmetry == Permutations(Slots) \cup Permutations(Seeds)

D(k) == INSTANCE DhKem WITH Curve <- k
P(k) == INSTANCE PqKem WITH Variant <- k

MCCurves == {"X25519", "X448", "NIST"}
Pq == Kems \ MCCurves

MCPair(sk) == [sk |-> sk, pk |-> sk.pk_bytes]
MCGenerate(k, s) ==
    IF k \in Pq THEN P(k)!PqGenerate(s) ELSE MCPair(D(k)!DhKeyPair(s))
MCDerivePair(k, i) ==
    IF k \in Pq THEN P(k)!PqDerive(i) ELSE MCPair(D(k)!DhDerivePair(i))
MCSkFromBytes(k, b) ==
    IF k \in Pq THEN P(k)!PqSkFromBytes(b) ELSE D(k)!DhLoad(b)
MCSkToBytes(k, sk) ==
    IF k \in Pq THEN P(k)!PqSkToBytes(sk) ELSE D(k)!DhSave(sk)
MCZeroize(k, sk) ==
    IF k \in Pq THEN P(k)!PqZeroize(sk) ELSE D(k)!DhZeroize(sk)
MCPkFromBytes(k, b) ==
    IF k \in Pq THEN P(k)!PqPkFromBytes(b) ELSE D(k)!DhPkFromBytes(b)
MCEncap(k, c, pk) ==
    IF k \in Pq THEN P(k)!PqEncap(c, pk) ELSE D(k)!DhEncap(c, pk)
MCDecap(k, enc, sk) ==
    IF k \in Pq THEN P(k)!PqDecap(enc, sk) ELSE D(k)!DhDecap(enc, sk)
MCAuthEncap(k, c, pk, sk) == D(k)!DhAuthEncap(c, pk, sk)
MCAuthDecap(k, enc, sk, pk) == D(k)!DhAuthDecap(enc, sk, pk)

MCForeign(k) ==
    CASE k \in {"X25519", "X448"} ->
           {[bytes |-> <<"x", "raw">>, owner |-> "x", pk |-> <<"x", "canonical">>]}
      [] k = "NIST" ->
           {[bytes |-> <<"x", "out_of_range">>, owner |-> "x",
             pk |-> <<"x", "canonical">>]}
      [] OTHER ->
           {[bytes |-> <<"x", "exact">>, owner |-> "x", pk |-> <<"x", "exact">>],
            [bytes |-> <<"y", "bad_length">>, owner |-> "y", pk |-> <<"y", "exact">>]}
============================================================================
