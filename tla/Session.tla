------------------------------ MODULE Session ------------------------------
(***************************************************************************)
(* Contexts in use: senders and receivers set up under keys that the key   *)
(* schedule hands them, sealing, losing, replaying, reordering, damaging   *)
(* and opening messages.  The key schedule is abstract here: a key comes   *)
(* with its base nonce, and no two senders are given the same key (every   *)
(* setup_sender_* encapsulates with fresh randomness; module Hpke models   *)
(* where that comes from).  Any number of receivers, or none, may hold a   *)
(* key: setup_receiver_* repeated with one `enc` yields equal contexts.    *)
(***************************************************************************)
EXTENDS Context

CONSTANTS
    AeadKey,        \* the keys the key schedule may derive
    BaseNonce,      \* BaseNonce[k]: the base nonce derived along with key k
    SetupErrors     \* the errors of setup_sender_* and setup_receiver_*

CtxState == [cipher : AeadKey, base_nonce : NonceBuf,
             exporter_secret : AeadKey, seq : SeqNo]

Ciphertext == [key : AeadKey, nonce : NonceVal, aad : Aad, pt : Plaintext]

ASSUME SessionAssumption ==
    /\ BaseNonce \in [AeadKey -> NonceVal]
    /\ Absent \notin CtxState
    /\ Damaged \notin Ciphertext
    /\ "MessageLimitReached" \notin SetupErrors

Init ==
    /\ ctx = [c \in Contexts |-> Absent]
    /\ sealed = [w \in Senders |-> <<>>]
    /\ opened = [r \in Receivers |-> <<>>]
    /\ ret = [ctx |-> Nobody, res |-> "Ok"]

\* Mutant: a sender may be given a key that another sender holds.
SetupSenderSameKey(w, k) ==
    /\ ctx[w] = Absent
    /\ ctx' = [ctx EXCEPT ![w] = ContextNew(k, BaseNonce[k], k)]
    /\ Returns(w, "Ok")
    /\ UNCHANGED <<sealed, opened>>

SetupSender(w, k) ==
    /\ ctx[w] = Absent
    /\ \A v \in Senders : Live(v) => ctx[v].cipher # k
    /\ ctx' = [ctx EXCEPT ![w] = ContextNew(k, BaseNonce[k], k)]
    /\ Returns(w, "Ok")
    /\ UNCHANGED <<sealed, opened>>

SetupReceiver(r, k) ==
    /\ ctx[r] = Absent
    /\ ctx' = [ctx EXCEPT ![r] = ContextNew(k, BaseNonce[k], k)]
    /\ Returns(r, "Ok")
    /\ UNCHANGED <<sealed, opened>>

\* A set-up of either role that fails leaves no context behind.
SetupFails(c, err) ==
    /\ ctx[c] = Absent
    /\ Returns(c, err)
    /\ UNCHANGED <<ctx, sealed, opened>>

\* export takes &self: it leaves the counter alone.
Export(c, res) ==
    /\ Live(c)
    /\ Returns(c, res)
    /\ UNCHANGED <<ctx, sealed, opened>>

ExportResults == {"Ok", "ExportLengthExceeded"}

Next ==
    \/ \E w \in Senders, k \in AeadKey : SetupSender(w, k)
    \/ \E r \in Receivers, k \in AeadKey : SetupReceiver(r, k)
    \/ \E c \in Contexts, err \in SetupErrors : SetupFails(c, err)
    \/ \E c \in Contexts, res \in ExportResults : Export(c, res)
    \/ \E w \in Senders : SealLimit(w)
    \/ \E w \in Senders, pt \in Plaintext : SealError(w, pt)
    \/ \E w \in Senders, aad \in Aad, pt \in Plaintext : SealOk(w, aad, pt)
    \/ \E r \in Receivers : OpenLimit(r)
    \/ \E r \in Receivers, aad \in Aad, ct \in Network : OpenError(r, aad, ct)
    \/ \E r \in Receivers, aad \in Aad, ct \in Network : OpenOk(r, aad, ct)

Spec == Init /\ [][Next]_CtxVars

\* Liveness is the network's to give: every receiver is again and again
\* handed, among whatever else, the ciphertext it is waiting for.
Fairness ==
    \A r \in Receivers :
        WF_CtxVars(\E aad \in Aad, ct \in Network : OpenOk(r, aad, ct))

FairSpec == Spec /\ Fairness

----------------------------------------------------------------------------
\* Every variable has its type.
TypeOK ==
    /\ ctx \in [Contexts -> CtxState \cup {Absent}]
    /\ sealed \in [Senders -> Seq(Ciphertext)]
    /\ opened \in [Receivers -> Seq(Message)]
    /\ ret \in [ctx : Contexts \cup {Nobody},
                res : {"Ok", "SealError", "OpenError", "MessageLimitReached"}
                        \cup SetupErrors \cup ExportResults]

\* README "Design" and tests/negative.rs promise that nonce reuse is ruled
\* out by construction: no two ciphertexts that any sender ever returned were
\* made under one key and one nonce, up to and past the end of the counter.
NonceNeverReused ==
    \A v, w \in Senders :
        \A i \in DOMAIN sealed[v], j \in DOMAIN sealed[w] :
            /\ sealed[v][i].key = sealed[w][j].key
            /\ sealed[v][i].nonce = sealed[w][j].nonce
            => v = w /\ i = j

\* A receiver's counter agrees with the number of messages it has opened, and
\* those are the first messages of one sender that holds its key: what open()
\* returned is a prefix of what was sealed, whatever the network did.
Follows(r, w) ==
    /\ Live(w) /\ ctx[w].cipher = ctx[r].cipher
    /\ Len(opened[r]) <= Len(sealed[w])
    /\ \A n \in DOMAIN opened[r] : opened[r][n] = MessageOf(sealed[w][n])

OpenedInOrder ==
    \A r \in Receivers :
        opened[r] # <<>> => Live(r) /\ \E w \in Senders : Follows(r, w)

\* The inductive invariant behind both.  What a counter says and what has
\* passed through the context go together; a sender's n-th ciphertext was made
\* with its key and the nonce of sequence number n - 1; a key determines its
\* base nonce and the one sender that may hold it.
Counters ==
    /\ \A w \in Senders :
         IF Live(w) THEN ctx[w].seq = Len(sealed[w]) ELSE sealed[w] = <<>>
    /\ \A r \in Receivers :
         IF Live(r) THEN ctx[r].seq = Len(opened[r]) ELSE opened[r] = <<>>

Produced ==
    \A w \in Senders : \A i \in DOMAIN sealed[w] :
        /\ sealed[w][i].key = ctx[w].cipher
        /\ sealed[w][i].nonce = AeadNonce(ctx[w].base_nonce, i - 1)

Derived ==
    \A c \in Contexts :
        Live(c) => ctx[c].base_nonce = PadNonce(BaseNonce[ctx[c].cipher])

OneSenderPerKey ==
    \A v, w \in Senders :
        Live(v) /\ Live(w) /\ ctx[v].cipher = ctx[w].cipher => v = w

IInv ==
    TypeOK /\ Counters /\ Produced /\ Derived /\ OneSenderPerKey /\ OpenedInOrder

\* The refinement mapping.
Source(r) ==
    IF opened[r] = <<>> THEN Nobody
    ELSE CHOOSE w \in Senders : Live(w) /\ ctx[w].cipher = ctx[r].cipher

Stream == [w \in Senders |->
             [n \in DOMAIN sealed[w] |-> MessageOf(sealed[w][n])]]

Chan == INSTANCE SecureChannel WITH
            Writers <- Senders, Readers <- Receivers, Msg <- Message,
            Limit <- MaxSeq,
            sent <- Stream, rcvd <- opened,
            src <- [r \in Receivers |-> Source(r)]

\* The contexts are a secure channel: seal and open implement its writes and
\* reads, and everything else (failures, set-ups, refusals) is invisible.
ImplementsChannel == Chan!Spec

\* A context answers MessageLimitReached after exactly MaxSeq successes: the
\* last usable sequence number is u64::MAX - 1, neither one message earlier
\* nor, by wrapping, at any later time (context.rs:160-192).
LimitIsExact ==
    ret.res = "MessageLimitReached" =>
        IF ret.ctx \in Senders THEN Len(sealed[ret.ctx]) = MaxSeq
                               ELSE Len(opened[ret.ctx]) = MaxSeq

\* Failed opens (wrong aad, replayed, early, damaged or foreign ciphertexts)
\* never put a receiver out of step: as long as the right ciphertext keeps
\* being offered, all that a paired sender sealed is opened in the end.
EverythingIsOpened ==
    \A w \in Senders, r \in Receivers : \A n \in 1 .. MaxSeq :
        (Live(w) /\ Live(r) /\ ctx[w].cipher = ctx[r].cipher
           /\ Len(sealed[w]) >= n)
        ~> (Len(opened[r]) >= n)
============================================================================
