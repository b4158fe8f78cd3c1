------------------------------ MODULE Context ------------------------------
(***************************************************************************)
(* The encryption context of src/src/context.rs: the cipher, base nonce,   *)
(* exporter secret and sequence counter that SenderContext::seal and       *)
(* ReceiverContext::open work on.                                          *)
(*                                                                         *)
(* A context belongs to a Sender or to a Receiver identity for good; the   *)
(* two sets are disjoint because the code gives the two roles distinct     *)
(* types, neither of them Clone, with `seal` on one and `open` on the      *)
(* other.  Both methods take &mut self, so the calls on one context are    *)
(* steps in a sequence; calls on different contexts interleave freely.     *)
(*                                                                         *)
(* The AEAD is external and ideal: it opens exactly what was sealed under  *)
(* the same key, nonce and associated data.                                *)
(***************************************************************************)
EXTENDS Nonce, Sequences

CONSTANTS
    Senders,        \* the SenderContext values a run may create
    Receivers,      \* the ReceiverContext values a run may create
    Aad,            \* associated data
    Plaintext,      \* plaintexts
    TooLong,        \* the plaintexts the AEAD refuses to seal
    Absent,         \* a context that has not been set up
    Nobody,         \* no context at all
    Damaged         \* bytes that no seal call ever returned

ASSUME ContextAssumption ==
    /\ Senders \cap Receivers = {}
    /\ Nobody \notin Senders \cup Receivers
    /\ TooLong \subseteq Plaintext

VARIABLES
    ctx,            \* the contexts
    sealed,         \* sealed[w]: the ciphertexts sender w returned, in order
    opened,         \* opened[r]: what receiver r returned, in order
    ret             \* the last call: the context it was made on, and its outcome

Contexts == Senders \cup Receivers
CtxVars  == <<ctx, sealed, opened, ret>>

Message  == [aad : Aad, pt : Plaintext]

Live(c) == ctx[c] # Absent
MessageOf(ct) == [aad |-> ct.aad, pt |-> ct.pt]

\* What a caller may hand to `open`: the network loses, repeats, reorders and
\* redirects ciphertexts, and damages them.
Network ==
    {Damaged}
      \cup (UNION {{sealed[w][i] : i \in DOMAIN sealed[w]} : w \in Senders})

----------------------------------------------------------------------------
\* The AEAD (RustCrypto): seal binds key, nonce, aad and plaintext; open
\* succeeds exactly on a match.
AeadSeal(key, nonce, aad, pt) ==
    [key |-> key, nonce |-> nonce, aad |-> aad, pt |-> pt]
AeadOpens(key, nonce, aad, ct) ==
    /\ ct # Damaged
    /\ ct.key = key /\ ct.nonce = nonce /\ ct.aad = aad

----------------------------------------------------------------------------
\* Mutant: the base nonce stored as it comes, not in a MAX_NONCE_LEN buffer.
ContextNewUnpadded(key, base, exporter) ==
    [cipher |-> key, base_nonce |-> base, exporter_secret |-> exporter, seq |-> 0]

\* Context::new: the counter starts at zero.
ContextNew(key, base, exporter) ==
    [cipher |-> key, base_nonce |-> PadNonce(base),
     exporter_secret |-> exporter, seq |-> 0]

\* Mutant: no check, so that the counter wraps.
NeverAtLimit(c) == FALSE

\* Mutant: a check one message early.
LimitOneEarly(c) == ctx[c].seq + 1 >= MaxSeq

\* `self.seq == u64::MAX`, tested before the AEAD is called.
AtLimit(c) == ctx[c].seq = MaxSeq

\* `self.seq += 1` on a u64.
SeqSucc(s) == IF s = MaxSeq THEN 0 ELSE s + 1

\* Mutants: the counter is left where it was; it advances by two.
AdvanceForgotten(c) == ctx' = ctx
AdvanceTwice(c) == ctx' = [ctx EXCEPT ![c].seq = SeqSucc(SeqSucc(@))]

Advance(c) == ctx' = [ctx EXCEPT ![c].seq = SeqSucc(@)]

NonceOf(c) == AeadNonce(ctx[c].base_nonce, ctx[c].seq)

Returns(c, res) == ret' = [ctx |-> c, res |-> res]

\* Context::seal on sender w.
SealLimit(w) ==
    /\ Live(w) /\ AtLimit(w)
    /\ Returns(w, "MessageLimitReached")
    /\ UNCHANGED <<ctx, sealed, opened>>

SealError(w, pt) ==
    /\ Live(w) /\ ~AtLimit(w)
    /\ pt \in TooLong
    /\ Returns(w, "SealError")
    /\ UNCHANGED <<ctx, sealed, opened>>

SealOk(w, aad, pt) ==
    /\ Live(w) /\ ~AtLimit(w)
    /\ pt \notin TooLong
    /\ sealed' = [sealed EXCEPT ![w] =
                    Append(@, AeadSeal(ctx[w].cipher, NonceOf(w), aad, pt))]
    /\ Advance(w)
    /\ Returns(w, "Ok")
    /\ UNCHANGED opened

\* Context::open on receiver r.
OpenLimit(r) ==
    /\ Live(r) /\ AtLimit(r)
    /\ Returns(r, "MessageLimitReached")
    /\ UNCHANGED <<ctx, sealed, opened>>

\* Mutant: the counter advances although the AEAD refused the ciphertext.
OpenErrorAdvances(r, aad, ct) ==
    /\ Live(r) /\ ~AtLimit(r)
    /\ ~AeadOpens(ctx[r].cipher, NonceOf(r), aad, ct)
    /\ Advance(r)
    /\ Returns(r, "OpenError")
    /\ UNCHANGED <<sealed, opened>>

OpenError(r, aad, ct) ==
    /\ Live(r) /\ ~AtLimit(r)
    /\ ~AeadOpens(ctx[r].cipher, NonceOf(r), aad, ct)
    /\ Returns(r, "OpenError")
    /\ UNCHANGED <<ctx, sealed, opened>>

OpenOk(r, aad, ct) ==
    /\ Live(r) /\ ~AtLimit(r)
    /\ AeadOpens(ctx[r].cipher, NonceOf(r), aad, ct)
    /\ opened' = [opened EXCEPT ![r] = Append(@, MessageOf(ct))]
    /\ Advance(r)
    /\ Returns(r, "Ok")
    /\ UNCHANGED sealed

============================================================================
