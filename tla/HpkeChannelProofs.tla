-------------------------- MODULE HpkeChannelProofs --------------------------
(***************************************************************************)
(* HPKE implements the secure channel, set up in any mode or by            *)
(* single-shot calls, for any number of senders, recipients and messages,  *)
(* over every KEM that is binding and whose encapsulations differ.  The    *)
(* KEMs of the crate are what this and HpkeProofs assume of a KEM: DHKEM   *)
(* on every curve of module Curves, the post-quantum KEMs in every         *)
(* variant.  So the theorems about HPKE hold over each of them.            *)
(***************************************************************************)
EXTENDS HpkeProofs, KemProofs, MCHpkePq, FiniteSetTheorems

----------------------------------------------------------------------------
\* The invariant.

\* A recipient's counter is the number of messages it has opened.
Counts(r) ==
    /\ Live(r) => ctx[r].seq = Len(opened[r]) /\ ctx[r].seq \in SeqNo
    /\ tr[r] = Absent => opened[r] = <<>>

\* What r opened is a prefix of what a sender with its transcript sealed.
Reads(r, w) ==
    /\ tr[w] = tr[r]
    /\ Len(opened[r]) <= Len(sealed[w])
    /\ \A n \in DOMAIN opened[r] : opened[r][n] = MessageOf(sealed[w][n])

DeliveryInv ==
    /\ SealedInv
    /\ \A w \in Senders : /\ Len(sealed[w]) <= MaxSeq
                          /\ \A n \in DOMAIN sealed[w] : MessageOf(sealed[w][n]) \in Message
    /\ opened \in [Receivers -> Seq(Message)]
    /\ \A r \in Receivers : Counts(r)
    /\ \A r \in Receivers : opened[r] # <<>> => \E w \in Senders : Reads(r, w)

\* Initially nothing is sealed or opened.
LEMMA DeliveryInvInit == Init => DeliveryInv
<1> SUFFICES ASSUME Init PROVE DeliveryInv
  OBVIOUS
<1>1. /\ \A c \in Contexts : ctx[c] = Absent /\ tr[c] = Absent
      /\ sealed = [w \in Senders |-> <<>>] /\ opened = [r \in Receivers |-> <<>>]
  BY DEF Init
<1>2. opened \in [Receivers -> Seq(Message)]
  BY <1>1
<1>3. \A r \in Receivers : Counts(r) /\ opened[r] = <<>>
  BY <1>1 DEF Counts, Live, Contexts
<1>4. \A w \in Senders : sealed[w] = <<>> /\ Len(sealed[w]) = 0 /\ DOMAIN sealed[w] = {}
  BY <1>1
<1>5. 0 <= MaxSeq
  BY CounterAssumption
<1> QED  BY <1>2, <1>3, <1>4, <1>5, SealedInvInit DEF DeliveryInv

----------------------------------------------------------------------------
\* Who can open what.

\* A transcript has one context.
LEMMA KeyedOnce ==
    ASSUME KemBinds, NEW t, NEW x, NEW y, Keyed(t, x), Keyed(t, y)
    PROVE  x = y
<1>1. PICK ss : SecretOf(t, ss) /\ Schedules(t, ss, x)
  BY DEF Keyed
<1>2. PICK sr : SecretOf(t, sr) /\ Schedules(t, sr, y)
  BY DEF Keyed
<1>3. ss = sr
  BY <1>1, <1>2 DEF KemBinds
<1> QED  BY <1>1, <1>2, <1>3 DEF Schedules

\* Senders with one transcript are one.
LEMMA OneSender ==
    ASSUME SealedInv, NEW v \in Senders, NEW w \in Senders, tr[v] = tr[w], tr[v] # Absent
    PROVE  v = w
BY DEF SealedInv, EncsDistinct

\* The context of transcript t opens, at its n-th call, only the n-th message of
\* the sender that has transcript t.
LEMMA OpensNext ==
    ASSUME Assumed, SealedInv, NEW t, NEW y, Keyed(t, y), CanSeal(t.suite),
           NEW ct \in Network, NEW aad, NEW n \in SeqNo,
           AeadOpens(y.cipher, AeadNonce(y.base_nonce, n), aad, ct)
    PROVE  \E w \in Senders :
             tr[w] = t /\ tr[w] # Absent /\ n + 1 \in DOMAIN sealed[w] /\ ct = sealed[w][n + 1]
<1>1. PICK w \in Senders : \E j \in DOMAIN sealed[w] : ct = sealed[w][j]
  BY DEF Network, AeadOpens
<1> PICK i \in DOMAIN sealed[w] : ct = sealed[w][i]
  BY <1>1
<1>2. tr[w] # Absent
  <2>1. DOMAIN <<>> = {}
    OBVIOUS
  <2> QED  BY <1>1, <2>1 DEF SealedInv
<1>3. PICK x : /\ SenderResult(tr[w], x)
               /\ \A j \in DOMAIN sealed[w] :
                    /\ j - 1 \in SeqNo
                    /\ sealed[w][j].key = x.cipher
                    /\ sealed[w][j].nonce = AeadNonce(x.base_nonce, j - 1)
                    /\ CanSeal(tr[w].suite)
  BY <1>2 DEF SealedInv, Sends
<1>4. Keyed(tr[w], x) /\ x.base_nonce \in NonceBuf
  BY <1>3, FreshSender
<1>5. x.cipher = y.cipher /\ AeadNonce(y.base_nonce, n) = AeadNonce(x.base_nonce, i - 1)
  BY <1>1, <1>3 DEF AeadOpens
<1>6. tr[w] = t
  BY <1>1, <1>3, <1>4, <1>5, KeyedBinds DEF Assumed
<1>7. x = y
  BY <1>4, <1>6, KeyedOnce DEF Assumed
<1>8. i - 1 = n
  BY <1>1, <1>3, <1>4, <1>5, <1>7, NonceInjective
<1>9. i \in Nat /\ n \in Nat
  <2>1. DOMAIN sealed[w] \subseteq Nat
    BY DEF SealedInv
  <2> QED  BY <2>1, CounterAssumption DEF SeqNo
<1>10. i = n + 1
  BY <1>8, <1>9
<1> QED  BY <1>1, <1>2, <1>6, <1>10

----------------------------------------------------------------------------
\* The steps, as a user of the channel sees them.

\* Transcripts stay.
Kept == \A c \in Contexts : tr[c] # Absent => tr'[c] = tr[c]

\* A message of sender w is sealed.
Sealing(w) ==
    \E ct : /\ MessageOf(ct) \in Message
            /\ Len(sealed[w]) < MaxSeq
            /\ sealed' = [sealed EXCEPT ![w] = Append(sealed[w], ct)]
            /\ opened' = opened

\* Recipient r opens the next message of w.
Opening(r, w) ==
    LET n == Len(opened[r]) + 1 IN
    /\ tr[w] = tr'[r] /\ tr[w] # Absent
    /\ n \in DOMAIN sealed[w]
    /\ opened' = [opened EXCEPT ![r] = Append(opened[r], MessageOf(sealed[w][n]))]
    /\ sealed' = sealed

Seen ==
    \/ sealed' = sealed /\ opened' = opened
    \/ \E w \in Senders : Sealing(w)
    \/ \E r \in Receivers, w \in Senders : Opening(r, w)

\* Steps that leave recipients alone keep their counters.
LEMMA RecipientsStay ==
    ASSUME DeliveryInv, opened' = opened,
           \A r \in Receivers : tr'[r] = tr[r] /\ ctx'[r] = ctx[r]
    PROVE  \A r \in Receivers : Counts(r)'
BY DEF DeliveryInv, Counts, Live

\* seal and open on live contexts.
LEMMA MessageSteps ==
    ASSUME Assumed, DeliveryInv, Messages
    PROVE  Kept /\ Seen /\ \A r \in Receivers : Counts(r)'
<1>1. /\ tr' = tr /\ SealedInv /\ SetupInv
      /\ DOMAIN ctx = Contexts
      /\ \A w \in Senders : w \in Contexts /\ w \notin Receivers
      /\ \A r \in Receivers : r \in Contexts
  BY ContextAssumption DEF DeliveryInv, SealedInv, SetupInv, Messages, Seal, Open, Contexts
<1>2. Kept
  BY <1>1 DEF Kept
<1>3. ASSUME NEW w \in Senders, NEW aad \in Aad, NEW pt \in Plaintext, Seal(w, aad, pt)
      PROVE  Seen /\ \A r \in Receivers : Counts(r)'
  <2>1. /\ opened' = opened
        /\ ctx' = ctx \/ ctx' = [ctx EXCEPT ![w].seq = SeqSucc(@)]
    BY <1>3 DEF Seal, SealLimit, SealError, SealOk, Advance
  <2>2. \A r \in Receivers : ctx'[r] = ctx[r]
    BY <1>1, <2>1
  <2>3. \A r \in Receivers : Counts(r)'
    BY <1>1, <2>1, <2>2, RecipientsStay
  <2>4. CASE SealOk(w, aad, pt)
    <3> DEFINE ct == AeadSeal(ctx[w].cipher, NonceOf(w), aad, pt)
    <3>1. MessageOf(ct) \in Message
      BY DEF MessageOf, AeadSeal, Message
    <3>2. sealed' = [sealed EXCEPT ![w] = Append(sealed[w], ct)]
      BY <2>4 DEF SealOk
    <3>3. Live(w) /\ ctx[w].seq # MaxSeq /\ tr[w] # Absent
      BY <1>1, <2>4 DEF SealOk, AtLimit, SetupInv
    <3>4. ctx[w].seq = Len(sealed[w]) /\ ctx[w].seq \in SeqNo
      BY <1>1, <3>3 DEF SealedInv, Sends
    <3>5. Len(sealed[w]) < MaxSeq
      BY <3>3, <3>4, CounterAssumption DEF SeqNo
    <3> QED  BY <2>1, <2>3, <3>1, <3>2, <3>5 DEF Seen, Sealing
  <2>5. CASE SealLimit(w) \/ SealError(w, pt)
    BY <2>1, <2>3, <2>5 DEF SealLimit, SealError, Seen
  <2> QED  BY <1>3, <2>4, <2>5 DEF Seal
<1>4. ASSUME NEW r \in Receivers, NEW aad \in Aad, NEW ct \in Network, Open(r, aad, ct)
      PROVE  Seen /\ \A q \in Receivers : Counts(q)'
  <2>1. CASE OpenLimit(r) \/ OpenError(r, aad, ct)
    <3>1. opened' = opened /\ sealed' = sealed /\ ctx' = ctx
      BY <2>1 DEF OpenLimit, OpenError
    <3> QED  BY <1>1, <3>1, RecipientsStay DEF Seen
  <2>2. CASE OpenOk(r, aad, ct)
    <3>1. /\ Live(r) /\ CanSeal(tr[r].suite) /\ ctx[r].seq # MaxSeq /\ tr[r] # Absent
          /\ ctx' = [ctx EXCEPT ![r].seq = SeqSucc(@)] /\ sealed' = sealed
          /\ opened' = [opened EXCEPT ![r] = Append(opened[r], MessageOf(ct))]
          /\ AeadOpens(ctx[r].cipher, AeadNonce(ctx[r].base_nonce, ctx[r].seq), aad, ct)
      BY <1>1, <1>4, <2>2 DEF Open, OpenOk, AtLimit, Advance, NonceOf, SetupInv
    <3>2. PICK y : Keyed(tr[r], y) /\ SameKeys(ctx[r], y) /\ IsContext(ctx[r])
      BY <1>1, <3>1, ContextKeyed
    <3> DEFINE n == Len(opened[r])
    <3>3. ctx[r].seq = n /\ n \in SeqNo /\ n \in Nat
      BY <3>1, CounterAssumption DEF DeliveryInv, Counts, SeqNo
    <3>4. PICK w \in Senders :
            tr[w] = tr[r] /\ tr[w] # Absent /\ n + 1 \in DOMAIN sealed[w] /\ ct = sealed[w][n + 1]
      <4>1. AeadOpens(y.cipher, AeadNonce(y.base_nonce, n), aad, ct)
        BY <3>1, <3>2, <3>3 DEF SameKeys
      <4>2. SealedInv /\ n \in SeqNo /\ Keyed(tr[r], y) /\ CanSeal(tr[r].suite)
        BY <1>1, <3>1, <3>2, <3>3
      <4> HIDE DEF n
      <4> QED  BY <4>1, <4>2, OpensNext
    <3>5. Opening(r, w)
      BY <1>1, <3>1, <3>4 DEF Opening
    <3>6. Counts(r)'
      <4>1. SeqSucc(ctx[r].seq) = n + 1 /\ n + 1 \in SeqNo
        BY <3>1, <3>3, CounterAssumption DEF SeqSucc, SeqNo
      <4>2. ctx'[r].seq = n + 1
        BY <1>1, <3>1, <3>2, <4>1 DEF IsContext
      <4>3. opened[r] \in Seq(Message) /\ MessageOf(ct) \in Message
        BY <3>4 DEF DeliveryInv
      <4>4. opened'[r] = Append(opened[r], MessageOf(ct))
        BY <3>1 DEF DeliveryInv
      <4>5. Len(opened'[r]) = n + 1
        BY <4>3, <4>4
      <4> QED  BY <1>1, <3>1, <4>1, <4>2, <4>5 DEF Counts
    <3>7. ASSUME NEW q \in Receivers, q # r PROVE Counts(q)'
      <4>1. ctx'[q] = ctx[q] /\ opened'[q] = opened[q] /\ tr'[q] = tr[q]
        BY <1>1, <3>1, <3>7 DEF DeliveryInv
      <4> QED  BY <4>1 DEF DeliveryInv, Counts, Live
    <3> QED  BY <3>5, <3>6, <3>7 DEF Seen
  <2> QED  BY <1>4, <2>1, <2>2 DEF Open
<1> QED  BY <1>2, <1>3, <1>4 DEF Messages

\* Set-ups of either role.
LEMMA SetupSteps ==
    ASSUME Assumed, DeliveryInv, Setups
    PROVE  Kept /\ Seen /\ \A r \in Receivers : Counts(r)'
<1>1. /\ SealedInv /\ SetupInv /\ fresh \subseteq Ephemerals
      /\ DOMAIN ctx = Contexts /\ DOMAIN tr = Contexts
      /\ \A w \in Senders : w \in Contexts /\ w \notin Receivers
      /\ \A r \in Receivers : r \in Contexts
  BY ContextAssumption DEF DeliveryInv, SealedInv, SetupInv, Contexts
<1>2. sealed' = sealed /\ opened' = opened
  BY DEF Setups, SetupSenderOk, SetupSenderError, SetupReceiverOk, SetupReceiverError
<1>3. ASSUME NEW c \in Contexts, tr[c] = Absent, NEW t,
             tr' = tr \/ tr' = [tr EXCEPT ![c] = t]
      PROVE  Kept
  BY <1>1, <1>3 DEF Kept
<1>4. ASSUME NEW w \in Senders, NEW e \in fresh, NEW a \in SenderArgs,
             SetupSenderOk(w, e, a) \/ SetupSenderError(w, e, a)
      PROVE  Kept /\ \A r \in Receivers : Counts(r)'
  <2>1. Kept
    BY <1>1, <1>3, <1>4 DEF SetupSenderOk, SetupSenderError
  <2>2. \A r \in Receivers : tr'[r] = tr[r] /\ ctx'[r] = ctx[r]
    BY <1>1, <1>4 DEF SetupSenderOk, SetupSenderError
  <2> QED  BY <1>2, <2>1, <2>2, RecipientsStay
<1>5. ASSUME NEW r \in Receivers, NEW b \in ReceiverArgs, SetupReceiverError(r, b)
      PROVE  Kept /\ \A q \in Receivers : Counts(q)'
  <2>1. tr' = tr /\ ctx' = ctx
    BY <1>5 DEF SetupReceiverError
  <2> QED  BY <1>2, <2>1, RecipientsStay DEF Kept
<1>6. ASSUME NEW r \in Receivers, NEW b \in ReceiverArgs, SetupReceiverOk(r, b)
      PROVE  Kept /\ \A q \in Receivers : Counts(q)'
  <2>1. /\ tr[r] = Absent /\ SetupR(b).ok
        /\ ctx' = [ctx EXCEPT ![r] = SetupR(b).val]
        /\ tr' = [tr EXCEPT ![r] = ReceiverTranscript(b)]
    BY <1>6 DEF SetupReceiverOk
  <2>2. Kept
    BY <1>1, <1>3, <2>1
  <2>3. ctx'[r].seq = 0 /\ 0 \in SeqNo
    <3>1. ReceiverResult(ReceiverTranscript(b), SetupR(b).val)
      BY <1>1, <2>1, Delivers DEF ReceiverResult
    <3>2. SetupR(b).val.seq = 0
      BY <3>1, ReceiverKeyed, FreshContext DEF Keyed, Schedules, Assumed
    <3> QED  BY <1>1, <2>1, <3>2, CounterAssumption DEF SeqNo
  <2>4. Counts(r)'
    <3>1. opened[r] = <<>> /\ Len(<<>>) = 0
      BY <2>1 DEF DeliveryInv, Counts
    <3>2. opened'[r] = <<>>
      BY <1>2, <3>1
    <3> QED  BY <2>3, <3>1, <3>2 DEF Counts
  <2>5. ASSUME NEW q \in Receivers, q # r PROVE Counts(q)'
    <3>1. ctx'[q] = ctx[q] /\ opened'[q] = opened[q] /\ tr'[q] = tr[q]
      BY <1>1, <1>2, <2>1, <2>5
    <3> QED  BY <3>1 DEF DeliveryInv, Counts, Live
  <2> QED  BY <2>2, <2>4, <2>5
<1> QED  BY <1>2, <1>4, <1>5, <1>6 DEF Setups, Seen

\* Single-shot calls: one message at most, of an identity that has no context.
LEMMA SingleShotSteps ==
    ASSUME Assumed, MaxSeq > 0, DeliveryInv, SingleShots
    PROVE  Kept /\ Seen /\ \A r \in Receivers : Counts(r)'
<1>1. /\ SealedInv /\ SetupInv /\ fresh \subseteq Ephemerals
      /\ DOMAIN ctx = Contexts /\ DOMAIN tr = Contexts
      /\ DOMAIN sealed = Senders /\ DOMAIN opened = Receivers
      /\ \A w \in Senders : w \in Contexts /\ w \notin Receivers
      /\ \A r \in Receivers : r \in Contexts
  BY ContextAssumption DEF DeliveryInv, SealedInv, SetupInv, Contexts
<1>2. ASSUME NEW c \in Contexts, tr[c] = Absent, NEW t,
             tr' = tr \/ tr' = [tr EXCEPT ![c] = t]
      PROVE  Kept
  BY <1>1, <1>2 DEF Kept
<1>3. ASSUME NEW w \in Senders, tr[w] = Absent, NEW t, ctx' = ctx, opened' = opened,
             tr' = tr \/ tr' = [tr EXCEPT ![w] = t]
      PROVE  Kept /\ \A r \in Receivers : Counts(r)'
  <2>1. \A r \in Receivers : tr'[r] = tr[r] /\ ctx'[r] = ctx[r]
    BY <1>1, <1>3
  <2> QED  BY <1>1, <1>2, <1>3, <2>1, RecipientsStay
<1>4. ASSUME NEW r \in Receivers, tr[r] = Absent, NEW t, ctx' = ctx,
             tr' = tr \/ tr' = [tr EXCEPT ![r] = t],
             \/ opened' = opened
             \/ t # Absent /\ tr' = [tr EXCEPT ![r] = t]
                  /\ \E m : opened' = [opened EXCEPT ![r] = m]
      PROVE  Kept /\ \A q \in Receivers : Counts(q)'
  <2>1. ~Live(r)'
    BY <1>1, <1>4 DEF SetupInv, Live
  <2>2. Counts(r)'
    <3>1. CASE opened' = opened
      BY <2>1, <3>1, <1>4 DEF DeliveryInv, Counts
    <3>2. CASE t # Absent /\ tr' = [tr EXCEPT ![r] = t]
      BY <1>1, <2>1, <3>2 DEF Counts
    <3> QED  BY <1>4, <3>1, <3>2
  <2>3. ASSUME NEW q \in Receivers, q # r PROVE Counts(q)'
    <3>1. ctx'[q] = ctx[q] /\ opened'[q] = opened[q] /\ tr'[q] = tr[q]
      BY <1>1, <1>4, <2>3
    <3> QED  BY <3>1 DEF DeliveryInv, Counts, Live
  <2> QED  BY <1>1, <1>2, <1>4, <2>2, <2>3
<1>5. ASSUME NEW w \in Senders, NEW e \in fresh, NEW a \in SenderArgs,
             NEW aad \in Aad, NEW pt \in Plaintext, SealBaseEtc(w, e, a, aad, pt)
      PROVE  Kept /\ Seen /\ \A r \in Receivers : Counts(r)'
  <2> DEFINE v  == SetupS(e, a).val
             ct == AeadSeal(v.ctx.cipher, AeadNonce(v.ctx.base_nonce, v.ctx.seq), aad, pt)
  <2>1. /\ tr[w] = Absent /\ ctx' = ctx /\ opened' = opened
        /\ tr' = [tr EXCEPT ![w] = SenderTranscript(a, v.enc)]
        /\ sealed' = [sealed EXCEPT ![w] = <<ct>>]
    BY <1>5 DEF SealBaseEtc
  <2>2. MessageOf(ct) \in Message
    BY DEF MessageOf, AeadSeal, Message
  <2> HIDE DEF ct
  <2>3. sealed[w] = <<>>
    BY <1>1, <2>1 DEF SealedInv
  <2>4. Append(<<>>, ct) = <<ct>> /\ Len(<<>>) = 0
    OBVIOUS
  <2>5. Sealing(w)
    BY <2>1, <2>2, <2>3, <2>4 DEF Sealing
  <2> QED  BY <1>3, <2>1, <2>5 DEF Seen
<1>6. ASSUME NEW w \in Senders, NEW e \in fresh, NEW a \in SenderArgs,
             NEW pt \in Plaintext, SealBaseEtcError(w, e, a, pt)
      PROVE  Kept /\ Seen /\ \A r \in Receivers : Counts(r)'
  BY <1>3, <1>6 DEF SealBaseEtcError, Seen
<1>7. ASSUME NEW r \in Receivers, NEW b \in ReceiverArgs, NEW aad \in Aad,
             NEW ct \in Network, OpenBaseEtc(r, b, aad, ct)
      PROVE  Kept /\ Seen /\ \A q \in Receivers : Counts(q)'
  <2> DEFINE y == SetupR(b).val
             t == ReceiverTranscript(b)
  <2>1. /\ tr[r] = Absent /\ CanSeal(b.suite) /\ SetupR(b).ok
        /\ AeadOpens(y.cipher, AeadNonce(y.base_nonce, y.seq), aad, ct)
        /\ ctx' = ctx /\ sealed' = sealed /\ tr' = [tr EXCEPT ![r] = t]
        /\ opened' = [opened EXCEPT ![r] = <<MessageOf(ct)>>]
    BY <1>7 DEF OpenBaseEtc
  <2>2. Keyed(t, y) /\ t.suite = b.suite
    <3>1. ReceiverResult(t, y)
      BY <1>1, <2>1, Delivers DEF ReceiverResult
    <3> QED  BY <3>1, ReceiverKeyed, TranscriptFields DEF ReceiverTranscript
  <2>3. t # Absent
    BY DEF ReceiverTranscript, Assumed, AbsentIsNone
  <2>4. y.seq = 0 /\ 0 \in SeqNo
    BY <2>2, FreshContext, CounterAssumption DEF Keyed, Schedules, Assumed, SeqNo
  <2> HIDE DEF y, t
  <2>5. PICK w \in Senders :
          tr[w] = t /\ tr[w] # Absent /\ 0 + 1 \in DOMAIN sealed[w] /\ ct = sealed[w][0 + 1]
    BY <1>1, <1>7, <2>1, <2>2, <2>4, OpensNext
  <2>6. opened[r] = <<>> /\ Len(<<>>) = 0
    BY <2>1 DEF DeliveryInv, Counts
  <2>7. Append(<<>>, MessageOf(ct)) = <<MessageOf(ct)>>
    OBVIOUS
  <2>8. tr'[r] = t
    BY <1>1, <2>1
  <2>9. Opening(r, w)
    BY <2>1, <2>5, <2>6, <2>7, <2>8 DEF Opening
  <2>10. Kept /\ \A q \in Receivers : Counts(q)'
    BY <1>4, <2>1, <2>3
  <2> QED  BY <2>9, <2>10 DEF Seen
<1>8. ASSUME NEW r \in Receivers, NEW b \in ReceiverArgs, NEW aad \in Aad,
             NEW ct \in Network, OpenBaseEtcError(r, b, aad, ct)
      PROVE  Kept /\ Seen /\ \A q \in Receivers : Counts(q)'
  BY <1>4, <1>8 DEF OpenBaseEtcError, Seen
<1>9. ASSUME NEW w \in Senders, NEW e \in fresh, NEW a \in SenderArgs,
             NEW ectx \in ExporterContexts, NEW len \in ExportLengths,
             SendExport(w, e, a, ectx, len)
      PROVE  Kept /\ Seen /\ \A r \in Receivers : Counts(r)'
  BY <1>3, <1>9 DEF SendExport, Seen
<1>10. ASSUME NEW r \in Receivers, NEW b \in ReceiverArgs,
              NEW ectx \in ExporterContexts, NEW len \in ExportLengths,
              ReceiverExport(r, b, ectx, len)
       PROVE  Kept /\ Seen /\ \A q \in Receivers : Counts(q)'
  BY <1>4, <1>10 DEF ReceiverExport, Seen
<1> QED  BY <1>5, <1>6, <1>7, <1>8, <1>9, <1>10 DEF SingleShots

\* Every step is one of the channel, or not seen there.
LEMMA Steps ==
    ASSUME Assumed, MaxSeq > 0, DeliveryInv, [Next]_hpkeVars
    PROVE  Kept /\ Seen /\ \A r \in Receivers : Counts(r)'
<1>1. CASE Exports \/ UNCHANGED hpkeVars
  <2>1. ctx' = ctx /\ tr' = tr /\ sealed' = sealed /\ opened' = opened
    BY <1>1 DEF Exports, Export, hpkeVars
  <2> QED  BY <2>1, RecipientsStay DEF Kept, Seen
<1> QED  BY <1>1, MessageSteps, SetupSteps, SingleShotSteps DEF Next

----------------------------------------------------------------------------
\* The invariant is kept.

\* Appending to a sequence keeps what it had.
LEMMA Appended ==
    ASSUME NEW S, NEW s \in Seq(S), NEW x
    PROVE  /\ Append(s, x) \in Seq(S \cup {x})
           /\ Len(Append(s, x)) = Len(s) + 1 /\ Len(s) \in Nat
           /\ DOMAIN s = 1 .. Len(s) /\ DOMAIN Append(s, x) = 1 .. Len(s) + 1
           /\ \A n \in 1 .. Len(s) : Append(s, x)[n] = s[n]
           /\ Append(s, x)[Len(s) + 1] = x
<1>1. s \in Seq(S \cup {x})
  OBVIOUS
<1> QED  BY <1>1

\* Who has been read stays read, in steps that do not concern the reader.
LEMMA ReadsStay ==
    ASSUME DeliveryInv, SealedInv', Kept, NEW r \in Receivers, opened'[r] = opened[r], opened[r] # <<>>,
           \A w \in Senders :
             /\ Len(sealed[w]) <= Len(sealed'[w])
             /\ \A n \in DOMAIN sealed[w] : sealed'[w][n] = sealed[w][n]
    PROVE  \E w \in Senders : Reads(r, w)'
<1>1. PICK w \in Senders : Reads(r, w)
  BY DEF DeliveryInv
<1>2. tr[r] # Absent /\ tr[w] = tr[r]
  BY <1>1 DEF DeliveryInv, Counts, Reads
<1>3. tr'[w] = tr'[r]
  BY <1>2 DEF Kept, Contexts
<1>4. PICK S : sealed[w] \in Seq(S)
  BY DEF DeliveryInv, SealedInv
<1>5. opened[r] \in Seq(Message)
  BY DEF DeliveryInv
<1>6. Len(opened[r]) <= Len(sealed[w]) /\ DOMAIN opened[r] \subseteq DOMAIN sealed[w]
  BY <1>1, <1>4, <1>5 DEF Reads
<1>7. Len(sealed[w]) \in Nat /\ Len(opened[r]) \in Nat
  BY <1>4, <1>5
<1>8. \A n \in DOMAIN opened'[r] : opened'[r][n] = MessageOf(sealed'[w][n])
  BY <1>1, <1>6 DEF Reads
<1>9. Len(sealed'[w]) \in Nat
  <2>1. PICK T : sealed'[w] \in Seq(T)
    BY DEF SealedInv
  <2> QED  BY <2>1
<1>10. Len(opened'[r]) <= Len(sealed'[w])
  BY <1>6, <1>7, <1>9
<1> QED  BY <1>3, <1>8, <1>10 DEF Reads

\* Every step keeps the invariant.
LEMMA DeliveryInvStep ==
    ASSUME Assumed, MaxSeq > 0, DeliveryInv, [Next]_hpkeVars PROVE DeliveryInv'
<1>1. SealedInv' /\ Kept /\ Seen /\ \A r \in Receivers : Counts(r)'
  BY SealedInvStep, Steps DEF DeliveryInv
<1>2. /\ SealedInv /\ DOMAIN sealed = Senders /\ DOMAIN opened = Receivers
      /\ \A r \in Receivers : opened[r] \in Seq(Message)
  BY DEF DeliveryInv, SealedInv
<1>3. \A w \in Senders : Len(sealed[w]) \in Nat
  <2> TAKE w \in Senders
  <2>1. PICK S : sealed[w] \in Seq(S)
    BY <1>2 DEF SealedInv
  <2> QED  BY <2>1
<1> DEFINE SealedOk(w) == /\ Len(sealed[w]) <= MaxSeq
                          /\ \A n \in DOMAIN sealed[w] : MessageOf(sealed[w][n]) \in Message
<1>4. ASSUME NEW r \in Receivers, sealed' = sealed, opened'[r] = opened[r], opened'[r] # <<>>
      PROVE  \E w \in Senders : Reads(r, w)'
  BY <1>1, <1>3, <1>4, ReadsStay
<1>5. CASE sealed' = sealed /\ opened' = opened
  <2>1. \A w \in Senders : SealedOk(w)'
    BY <1>5 DEF DeliveryInv
  <2>2. opened' \in [Receivers -> Seq(Message)]
    BY <1>5 DEF DeliveryInv
  <2> QED  BY <1>1, <1>4, <1>5, <2>1, <2>2 DEF DeliveryInv
<1>6. ASSUME NEW v \in Senders, Sealing(v) PROVE DeliveryInv'
  <2>1. PICK ct : /\ MessageOf(ct) \in Message /\ Len(sealed[v]) < MaxSeq
                  /\ sealed' = [sealed EXCEPT ![v] = Append(sealed[v], ct)]
                  /\ opened' = opened
    BY <1>6 DEF Sealing
  <2>2. PICK S : sealed[v] \in Seq(S)
    BY <1>2 DEF SealedInv
  <2>3. /\ sealed'[v] = Append(sealed[v], ct)
        /\ \A w \in Senders : w # v => sealed'[w] = sealed[w]
    BY <1>2, <2>1
  <2>4. /\ Len(sealed'[v]) = Len(sealed[v]) + 1 /\ Len(sealed[v]) \in Nat
        /\ DOMAIN sealed[v] = 1 .. Len(sealed[v])
        /\ DOMAIN sealed'[v] = 1 .. Len(sealed[v]) + 1
        /\ \A n \in 1 .. Len(sealed[v]) : sealed'[v][n] = sealed[v][n]
        /\ sealed'[v][Len(sealed[v]) + 1] = ct
    BY <2>2, <2>3, Appended
  <2>5. ASSUME NEW w \in Senders PROVE SealedOk(w)'
    <3>1. CASE w = v
      <4>1. Len(sealed[v]) + 1 <= MaxSeq
        BY <2>1, <2>4, CounterAssumption
      <4>2. \A n \in 1 .. Len(sealed[v]) + 1 : n \in 1 .. Len(sealed[v]) \/ n = Len(sealed[v]) + 1
        BY <2>4
      <4>3. \A n \in DOMAIN sealed'[v] : MessageOf(sealed'[v][n]) \in Message
        BY <2>1, <2>4, <4>2 DEF DeliveryInv
      <4> QED  BY <2>4, <3>1, <4>1, <4>3
    <3>2. CASE w # v
      BY <2>3, <3>2 DEF DeliveryInv
    <3> QED  BY <3>1, <3>2
  <2>6. \A w \in Senders :
          /\ Len(sealed[w]) <= Len(sealed'[w])
          /\ \A n \in DOMAIN sealed[w] : sealed'[w][n] = sealed[w][n]
    <3> TAKE w \in Senders
    <3>1. CASE w = v
      BY <2>4, <3>1
    <3>2. CASE w # v
      BY <1>3, <2>3, <3>2
    <3> QED  BY <3>1, <3>2
  <2>7. \A r \in Receivers : opened'[r] # <<>> => \E w \in Senders : Reads(r, w)'
    BY <1>1, <2>1, <2>6, ReadsStay
  <2>8. opened' \in [Receivers -> Seq(Message)]
    BY <2>1 DEF DeliveryInv
  <2> QED  BY <1>1, <2>5, <2>7, <2>8 DEF DeliveryInv
<1>7. ASSUME NEW r \in Receivers, NEW w \in Senders, Opening(r, w) PROVE DeliveryInv'
  <2> DEFINE n == Len(opened[r])
             m == MessageOf(sealed[w][n + 1])
  <2>1. /\ tr[w] = tr'[r] /\ tr[w] # Absent /\ n + 1 \in DOMAIN sealed[w]
        /\ opened' = [opened EXCEPT ![r] = Append(opened[r], m)] /\ sealed' = sealed
    BY <1>7 DEF Opening
  <2>2. m \in Message
    BY <2>1 DEF DeliveryInv
  <2> HIDE DEF m
  <2>3. /\ opened'[r] = Append(opened[r], m)
        /\ \A q \in Receivers : q # r => opened'[q] = opened[q]
    BY <1>2, <2>1
  <2>4. /\ Len(opened'[r]) = n + 1 /\ n \in Nat /\ DOMAIN opened[r] = 1 .. n
        /\ DOMAIN opened'[r] = 1 .. n + 1
        /\ \A i \in 1 .. n : opened'[r][i] = opened[r][i]
        /\ opened'[r][n + 1] = m
    BY <1>2, <2>3, Appended
  <2>5. opened' \in [Receivers -> Seq(Message)]
    <3>1. Append(opened[r], m) \in Seq(Message)
      BY <1>2, <2>2
    <3> QED  BY <2>1, <3>1 DEF DeliveryInv
  <2>6. \A u \in Senders : SealedOk(u)'
    BY <2>1 DEF DeliveryInv
  <2>7. tr'[w] = tr[w]
    BY <1>1, <2>1 DEF Kept, Contexts
  <2>8. n + 1 <= Len(sealed[w])
    <3>1. PICK S : sealed[w] \in Seq(S)
      BY <1>2 DEF SealedInv
    <3> QED  BY <2>1, <3>1
  <2>9. ASSUME NEW i \in 1 .. n PROVE opened[r][i] = MessageOf(sealed[w][i])
    <3>1. opened[r] # <<>>
      BY <2>4, <2>9
    <3>2. PICK u \in Senders : Reads(r, u)
      BY <3>1 DEF DeliveryInv
    <3>3. tr[r] # Absent /\ tr[u] = tr[r]
      BY <3>1, <3>2 DEF DeliveryInv, Counts, Reads
    <3>4. tr[r] = tr[w]
      BY <1>1, <2>1, <3>3 DEF Kept, Contexts
    <3>5. u = w
      BY <1>2, <3>3, <3>4, OneSender
    <3> QED  BY <2>4, <2>9, <3>2, <3>5 DEF Reads
  <2>10. Reads(r, w)'
    <3>1. ASSUME NEW i \in DOMAIN opened'[r] PROVE opened'[r][i] = MessageOf(sealed'[w][i])
      <4>1. CASE i \in 1 .. n
        BY <2>1, <2>4, <2>9, <4>1
      <4>2. CASE i = n + 1
        BY <2>1, <2>4, <4>2 DEF m
      <4> QED  BY <2>4, <4>1, <4>2
    <3> QED  BY <2>1, <2>4, <2>7, <2>8, <3>1 DEF Reads
  <2>11. \A q \in Receivers : opened'[q] # <<>> => \E u \in Senders : Reads(q, u)'
    BY <1>4, <2>1, <2>3, <2>10
  <2> QED  BY <1>1, <2>5, <2>6, <2>11 DEF DeliveryInv
<1> QED  BY <1>1, <1>5, <1>6, <1>7 DEF Seen

----------------------------------------------------------------------------
\* The refinement.

\* The source of a recipient is the one sender with its transcript.
LEMMA SourceIs ==
    ASSUME DeliveryInv, NEW r \in Receivers, NEW w \in Senders, opened[r] # <<>>, tr[w] = tr[r]
    PROVE  Source(r) = w
<1>1. tr[r] # Absent
  BY DEF DeliveryInv, Counts
<1>2. \A v \in Senders : tr[v] = tr[r] => v = w
  BY <1>1, OneSender DEF DeliveryInv
<1> QED  BY <1>2 DEF Source

\* The same after a step.
LEMMA SourceIsNext ==
    ASSUME DeliveryInv', NEW r \in Receivers, NEW w \in Senders, opened'[r] # <<>>, tr'[w] = tr'[r]
    PROVE  Source(r)' = w
<1>1. tr'[r] # Absent
  BY DEF DeliveryInv, Counts
<1>2. \A v \in Senders : tr'[v] = tr'[r] => v = w
  BY <1>1 DEF DeliveryInv, SealedInv, EncsDistinct
<1> QED  BY <1>2 DEF Source

\* A recipient that opens nothing keeps its source.
LEMMA SourceStays ==
    ASSUME DeliveryInv, DeliveryInv', Kept, NEW r \in Receivers, opened'[r] = opened[r]
    PROVE  Source(r)' = Source(r)
<1>1. CASE opened[r] = <<>>
  BY <1>1 DEF Source
<1>2. CASE opened[r] # <<>>
  <2>1. PICK w \in Senders : Reads(r, w)
    BY <1>2 DEF DeliveryInv
  <2>2. tr[w] = tr[r] /\ tr[r] # Absent
    BY <1>2, <2>1 DEF DeliveryInv, Counts, Reads
  <2>3. tr'[w] = tr'[r]
    BY <2>2 DEF Kept, Contexts
  <2>4. Source(r) = w
    BY <1>2, <2>2, SourceIs
  <2>5. Source(r)' = w
    BY <1>2, <2>3, SourceIsNext
  <2> QED  BY <2>4, <2>5
<1> QED  BY <1>1, <1>2

\* What the channel sees of a sender: the messages in its ciphertexts.
Stream == [w \in Senders |-> [n \in DOMAIN sealed[w] |-> MessageOf(sealed[w][n])]]

\* It is as long as what the sender has sealed.
LEMMA StreamHas ==
    ASSUME DeliveryInv, NEW w \in Senders
    PROVE  /\ Stream[w] \in Seq(Message) /\ Len(Stream[w]) = Len(sealed[w])
           /\ \A n \in DOMAIN sealed[w] : Stream[w][n] = MessageOf(sealed[w][n])
           /\ DOMAIN sealed[w] = 1 .. Len(sealed[w]) /\ Len(sealed[w]) \in Nat
<1>1. PICK S : sealed[w] \in Seq(S)
  BY DEF DeliveryInv, SealedInv
<1>2. DOMAIN sealed[w] = 1 .. Len(sealed[w]) /\ Len(sealed[w]) \in Nat
  BY <1>1
<1>3. \A n \in DOMAIN sealed[w] : MessageOf(sealed[w][n]) \in Message
  BY DEF DeliveryInv
<1>4. Stream[w] = [n \in DOMAIN sealed[w] |-> MessageOf(sealed[w][n])]
  BY DEF Stream
<1>5. Stream[w] \in [1 .. Len(sealed[w]) -> Message]
  BY <1>2, <1>3, <1>4
<1> QED  BY <1>2, <1>4, <1>5

\* Sealing appends to the stream of its sender.
LEMMA StreamGrows ==
    ASSUME DeliveryInv, NEW w \in Senders, NEW ct, MessageOf(ct) \in Message,
           sealed' = [sealed EXCEPT ![w] = Append(sealed[w], ct)]
    PROVE  Stream' = [Stream EXCEPT ![w] = Append(Stream[w], MessageOf(ct))]
<1> DEFINE m == MessageOf(ct)
           n == Len(sealed[w])
<1>1. PICK S : sealed[w] \in Seq(S)
  BY DEF DeliveryInv, SealedInv
<1>2. DOMAIN sealed = Senders
  BY DEF DeliveryInv, SealedInv
<1>3. /\ sealed'[w] = Append(sealed[w], ct)
      /\ \A v \in Senders : v # w => sealed'[v] = sealed[v]
  BY <1>2
<1>4. /\ DOMAIN sealed'[w] = 1 .. n + 1 /\ n \in Nat
      /\ \A i \in 1 .. n : sealed'[w][i] = sealed[w][i]
      /\ sealed'[w][n + 1] = ct
  BY <1>1, <1>3, Appended
<1>5. /\ Stream[w] \in Seq(Message) /\ Len(Stream[w]) = n
      /\ \A i \in 1 .. n : Stream[w][i] = MessageOf(sealed[w][i])
  BY StreamHas
<1> HIDE DEF m, n
<1>6. /\ Append(Stream[w], m) = [i \in 1 .. n + 1 |-> Append(Stream[w], m)[i]]
      /\ \A i \in 1 .. n : Append(Stream[w], m)[i] = Stream[w][i]
      /\ Append(Stream[w], m)[n + 1] = m
  BY <1>5 DEF m
<1>7. Stream'[w] = [i \in 1 .. n + 1 |-> MessageOf(sealed'[w][i])]
  BY <1>4 DEF Stream
<1>8. ASSUME NEW i \in 1 .. n + 1
      PROVE  MessageOf(sealed'[w][i]) = Append(Stream[w], m)[i]
  <2>1. CASE i \in 1 .. n
    BY <1>4, <1>5, <1>6, <2>1
  <2>2. CASE i = n + 1
    BY <1>4, <1>6, <2>2 DEF m
  <2>3. n \in Nat
    BY <1>4
  <2>4. i \in 1 .. n \/ i = n + 1
    BY <2>3
  <2> QED  BY <2>1, <2>2, <2>4
<1>9. Stream'[w] = Append(Stream[w], m)
  BY <1>6, <1>7, <1>8
<1>10. \A v \in Senders : v # w => Stream'[v] = Stream[v]
  BY <1>3 DEF Stream
<1>11. DOMAIN Stream = Senders /\ Stream' = [v \in Senders |-> Stream'[v]]
  BY DEF Stream
<1> QED  BY <1>9, <1>10, <1>11 DEF m

\* Initially nothing is written or read.
LEMMA RefinesInit == Init => Chan!Init
<1> SUFFICES ASSUME Init PROVE Chan!Init
  OBVIOUS
<1>1. /\ \A w \in Senders : sealed[w] = <<>>
      /\ opened = [r \in Receivers |-> <<>>]
  BY DEF Init
<1>2. \A w \in Senders :
        [n \in DOMAIN sealed[w] |-> MessageOf(sealed[w][n])] = <<>>
  <2> TAKE w \in Senders
  <2>1. DOMAIN sealed[w] = {}
    BY <1>1
  <2> QED  BY <2>1
<1>3. Stream = [w \in Senders |-> <<>>]
  BY <1>2 DEF Stream
<1>4. \A r \in Receivers : Source(r) = Nobody
  BY <1>1 DEF Source
<1>5. [r \in Receivers |-> Source(r)] = [r \in Receivers |-> Nobody]
  BY <1>4
<1> QED  BY <1>1, <1>3, <1>5 DEF Chan!Init, Stream

\* Sealing is a write, opening a read, and nothing else is seen.
LEMMA RefinesStep ==
    ASSUME Assumed, MaxSeq > 0, DeliveryInv, [Next]_hpkeVars
    PROVE  [Chan!Next]_(Chan!chanVars)
<1> DEFINE Src == [r \in Receivers |-> Source(r)]
<1>1. DeliveryInv' /\ Kept /\ Seen
  BY DeliveryInvStep, Steps
<1>2. ASSUME NEW r \in Receivers, opened'[r] = opened[r] PROVE Source(r)' = Source(r)
  BY <1>1, <1>2, SourceStays
<1>3. CASE sealed' = sealed /\ opened' = opened
  <2>1. Src' = Src
    BY <1>2, <1>3
  <2>2. Stream' = Stream
    BY <1>3 DEF Stream
  <2> QED  BY <1>3, <2>1, <2>2 DEF Chan!chanVars, Stream
<1>4. ASSUME NEW w \in Senders, Sealing(w) PROVE \E m \in Message : Chan!Write(w, m)
  <2>1. PICK ct : /\ MessageOf(ct) \in Message /\ Len(sealed[w]) < MaxSeq
                  /\ sealed' = [sealed EXCEPT ![w] = Append(sealed[w], ct)]
                  /\ opened' = opened
    BY <1>4 DEF Sealing
  <2>2. Src' = Src
    BY <1>2, <2>1
  <2>3. Stream' = [Stream EXCEPT ![w] = Append(Stream[w], MessageOf(ct))]
    BY <2>1, StreamGrows
  <2>4. Len(Stream[w]) < MaxSeq
    BY <2>1, StreamHas
  <2>5. Chan!Write(w, MessageOf(ct))
    BY <2>1, <2>2, <2>3, <2>4 DEF Chan!Write, Stream
  <2> QED  BY <2>1, <2>5
<1>5. ASSUME NEW r \in Receivers, NEW w \in Senders, Opening(r, w) PROVE Chan!Read(r, w)
  <2> DEFINE n == Len(opened[r])
  <2>1. /\ tr[w] = tr'[r] /\ tr[w] # Absent /\ n + 1 \in DOMAIN sealed[w]
        /\ opened' = [opened EXCEPT ![r] = Append(opened[r], MessageOf(sealed[w][n + 1]))]
        /\ sealed' = sealed
    BY <1>5 DEF Opening
  <2>2. Stream' = Stream
    BY <2>1 DEF Stream
  <2>3. opened[r] \in Seq(Message) /\ n \in Nat /\ DOMAIN opened = Receivers
    BY DEF DeliveryInv
  <2>4. /\ Len(Stream[w]) = Len(sealed[w]) /\ n < Len(Stream[w])
        /\ Stream[w][n + 1] = MessageOf(sealed[w][n + 1])
    BY <2>1, <2>3, StreamHas
  <2>5. tr'[w] = tr'[r]
    BY <1>1, <2>1 DEF Kept, Contexts
  <2>6. opened'[r] # <<>>
    <3>1. opened'[r] = Append(opened[r], Stream[w][n + 1])
      BY <2>1, <2>3, <2>4
    <3>2. DOMAIN opened'[r] = 1 .. n + 1 /\ n + 1 \in 1 .. n + 1
      BY <2>3, <3>1, Appended
    <3>3. DOMAIN <<>> = {}
      OBVIOUS
    <3> QED  BY <3>2, <3>3
  <2>7. Source(r)' = w
    BY <1>1, <2>5, <2>6, SourceIsNext
  <2>8. Source(r) \in {Nobody, w}
    <3>1. CASE opened[r] = <<>>
      BY <3>1 DEF Source
    <3>2. CASE opened[r] # <<>>
      <4>1. PICK u \in Senders : Reads(r, u)
        BY <3>2 DEF DeliveryInv
      <4>2. tr[r] # Absent
        BY <3>2 DEF DeliveryInv, Counts
      <4>3. tr[w] = tr[r]
        BY <1>1, <2>1, <4>2 DEF Kept, Contexts
      <4> QED  BY <3>2, <4>3, SourceIs
    <3> QED  BY <3>1, <3>2
  <2>9. \A q \in Receivers : q # r => Source(q)' = Source(q)
    BY <1>2, <2>1, <2>3
  <2>10. Src' = [Src EXCEPT ![r] = w]
    BY <2>7, <2>9
  <2>11. opened' = [opened EXCEPT ![r] = Append(opened[r], Stream[w][n + 1])]
    BY <2>1, <2>4
  <2>12. Src[r] \in {Nobody, w}
    BY <2>8
  <2> HIDE DEF n
  <2>13. /\ opened' = [opened EXCEPT ![r] = Append(@, Stream[w][Len(@) + 1])]
         /\ Len(opened[r]) < Len(Stream[w])
    BY <2>4, <2>11 DEF n
  <2> QED  BY <2>2, <2>10, <2>12, <2>13 DEF Chan!Read, Stream
<1> QED  BY <1>1, <1>3, <1>4, <1>5 DEF Seen, Chan!Next

\* lib.rs and context.rs: whatever the set-ups, modes, single-shot calls and the
\* network, HPKE is a secure channel from every sender to the recipients that
\* share its transcript.
THEOREM HpkeImplementsChannel == Assumed /\ MaxSeq > 0 => (Spec => ImplementsChannel)
<1>1. ASSUME Assumed, MaxSeq > 0 PROVE DeliveryInv /\ [Next]_hpkeVars => DeliveryInv'
  BY <1>1, DeliveryInvStep
<1>2. ASSUME Assumed, MaxSeq > 0
      PROVE  DeliveryInv /\ [Next]_hpkeVars => [Chan!Next]_(Chan!chanVars)
  BY <1>2, RefinesStep
<1>3. ASSUME Assumed, MaxSeq > 0 PROVE Spec => ImplementsChannel
  BY <1>1, <1>2, <1>3, DeliveryInvInit, RefinesInit, PTL DEF Spec, ImplementsChannel, Chan!Spec
<1> QED  BY <1>3

----------------------------------------------------------------------------
\* Types.

\* Exports are remembered up to a bound.
ExportedBound == IsFiniteSet(exported) /\ Cardinality(exported) <= MaxExports

\* A step that remembers an export makes room for one.
LEMMA ExportedBoundStep ==
    ASSUME MaxExports \in Nat, ExportedBound, [Next]_hpkeVars PROVE ExportedBound'
<1>1. ASSUME NEW t, NEW ectx, NEW len, NEW out, Remember(t, ectx, len, out)
      PROVE  ExportedBound'
  <2> DEFINE x == [tr |-> t, ectx |-> ectx, len |-> len, out |-> out]
  <2>1. Cardinality(exported) < MaxExports /\ exported' = exported \cup {x}
    BY <1>1 DEF Remember
  <2> HIDE DEF x
  <2>2. IsFiniteSet(exported) /\ Cardinality(exported) \in Nat
    BY FS_CardinalityType DEF ExportedBound
  <2>3. /\ IsFiniteSet(exported')
        /\ Cardinality(exported') = Cardinality(exported)
             \/ Cardinality(exported') = Cardinality(exported) + 1
    BY <2>1, <2>2, FS_AddElement
  <2> QED  BY <2>1, <2>2, <2>3 DEF ExportedBound
<1>2. CASE exported' = exported
  BY <1>2 DEF ExportedBound
<1>3. CASE Setups
  BY <1>2, <1>3 DEF Setups, SetupSenderOk, SetupSenderError, SetupReceiverOk, SetupReceiverError
<1>4. CASE Messages
  BY <1>2, <1>4 DEF Messages, Seal, Open
<1>5. CASE Exports
  BY <1>1, <1>2, <1>5 DEF Exports, Export
<1>6. CASE SingleShots
  <2>1. ASSUME NEW w \in Senders, NEW e \in fresh, NEW a \in SenderArgs, NEW pt \in Plaintext,
               (\E aad \in Aad : SealBaseEtc(w, e, a, aad, pt)) \/ SealBaseEtcError(w, e, a, pt)
        PROVE  ExportedBound'
    BY <1>2, <2>1 DEF SealBaseEtc, SealBaseEtcError
  <2>2. ASSUME NEW r \in Receivers, NEW b \in ReceiverArgs, NEW aad \in Aad, NEW ct \in Network,
               OpenBaseEtc(r, b, aad, ct) \/ OpenBaseEtcError(r, b, aad, ct)
        PROVE  ExportedBound'
    BY <1>2, <2>2 DEF OpenBaseEtc, OpenBaseEtcError
  <2>3. ASSUME NEW w \in Senders, NEW e \in fresh, NEW a \in SenderArgs,
               NEW ectx \in ExporterContexts, NEW len \in ExportLengths,
               SendExport(w, e, a, ectx, len)
        PROVE  ExportedBound'
    BY <1>1, <1>2, <2>3 DEF SendExport
  <2>4. ASSUME NEW r \in Receivers, NEW b \in ReceiverArgs,
               NEW ectx \in ExporterContexts, NEW len \in ExportLengths,
               ReceiverExport(r, b, ectx, len)
        PROVE  ExportedBound'
    BY <1>1, <1>2, <2>4 DEF ReceiverExport
  <2> QED  BY <1>6, <2>1, <2>2, <2>3, <2>4 DEF SingleShots
<1>7. CASE UNCHANGED hpkeVars
  BY <1>2, <1>7 DEF hpkeVars
<1> QED  BY <1>3, <1>4, <1>5, <1>6, <1>7 DEF Next

\* Every context has a base nonce that fills its buffer and a counter in range.
LEMMA ContextTypes ==
    ASSUME Assumed, DeliveryInv, NEW c \in Contexts, Live(c)
    PROVE  tr[c] # Absent /\ ctx[c].base_nonce \in NonceBuf /\ ctx[c].seq \in SeqNo
<1>1. tr[c] # Absent
  BY DEF DeliveryInv, SealedInv, SetupInv
<1>2. ctx[c].base_nonce \in NonceBuf
  <2>1. PICK x : Keyed(tr[c], x) /\ SameKeys(ctx[c], x)
    BY <1>1, ContextKeyed DEF DeliveryInv, SealedInv
  <2>2. x.base_nonce \in NonceBuf
    BY <2>1, FreshContext DEF Keyed, Schedules, Assumed
  <2> QED  BY <2>1, <2>2 DEF SameKeys
<1>3. ctx[c].seq \in SeqNo
  <2>1. CASE c \in Senders
    BY <1>1, <2>1 DEF DeliveryInv, SealedInv, Sends
  <2>2. CASE c \in Receivers
    BY <2>2 DEF DeliveryInv, Counts
  <2> QED  BY <2>1, <2>2 DEF Contexts
<1> QED  BY <1>1, <1>2, <1>3

\* The invariants give every variable its type.
LEMMA InvTypes == Assumed /\ DeliveryInv /\ ExportedBound => TypeOK
BY ContextTypes DEF DeliveryInv, SealedInv, SetupInv, ExportedBound, TypeOK

\* lib.rs and context.rs: every variable has its type, contexts and transcripts go
\* together, and no more is sealed than a counter has values.
THEOREM Types == Assumed /\ MaxSeq > 0 /\ MaxExports \in Nat => (Spec => []TypeOK)
<1>1. ASSUME MaxExports \in Nat PROVE Init => ExportedBound
  BY <1>1, FS_EmptySet DEF Init, ExportedBound
<1>2. ASSUME MaxExports \in Nat PROVE ExportedBound /\ [Next]_hpkeVars => ExportedBound'
  BY <1>2, ExportedBoundStep
<1>3. ASSUME Assumed, MaxSeq > 0 PROVE DeliveryInv /\ [Next]_hpkeVars => DeliveryInv'
  BY <1>3, DeliveryInvStep
<1>4. ASSUME Assumed PROVE DeliveryInv /\ ExportedBound => TypeOK
  BY <1>4, InvTypes
<1>5. ASSUME Assumed, MaxSeq > 0, MaxExports \in Nat PROVE Spec => []TypeOK
  BY <1>1, <1>2, <1>3, <1>4, <1>5, DeliveryInvInit, PTL DEF Spec
<1> QED  BY <1>5

----------------------------------------------------------------------------
\* Contexts that set-ups made are the contexts of module Session.

\* What is assumed besides: every suite seals, no nonce is too long to expand,
\* a KEM fails with an error of its own, and no context is the mark of none.
KemErrorsAre(errors) == \A k \in KemCalls : ~k.ok => k.err \in errors

SessionAssumed ==
    /\ Assumed
    /\ \A suite \in Suites : CanSeal(suite)
    /\ NonceLen <= 255 * 32
    /\ KemErrorsAre({"EncapError", "DecapError", "InvalidPublicKey", "InvalidEncappedKey"})
    /\ \A k, n, x, s : [cipher |-> k, base_nonce |-> n, exporter_secret |-> x, seq |-> s] # Absent

\* Session's view of a context.
View(x) == [cipher |-> x.cipher, base_nonce |-> x.base_nonce,
            exporter_secret |-> x.cipher, seq |-> x.seq]

\* The key schedule of a suite of the crate never fails.
LEMMA ScheduleSucceeds ==
    ASSUME SessionAssumed, NEW suite \in Suites, NEW secret, NEW ksc
    PROVE  DeriveContext(suite, secret, ksc).ok
<1> DEFINE id    == Ciphersuite(suite)
           key   == LabeledExpand(suite.kdf, secret, id, "key", ksc, ExpandedKeyLen(suite))
           nonce == LabeledExpand(suite.kdf, secret, id, "base_nonce", ksc,
                                  AeadNonceLen[suite.aead])
           exp   == LabeledExpand(suite.kdf, secret, id, "exp", ksc, HashLen[suite.kdf])
           x     == DeriveContext(suite, secret, ksc)
<1>1. ASSUME NEW label, NEW n \in Nat, n <= 255 * 32
      PROVE  LabeledExpand(suite.kdf, secret, id, label, ksc, n).ok
  <2>1. HashLen[suite.kdf] \in {32, 48, 64}
    BY KnownLengths DEF SessionAssumed, Assumed
  <2>2. ~(n > MaxU16) /\ ~(n > 255 * HashLen[suite.kdf])
    BY <1>1, <2>1 DEF MaxU16
  <2> QED  BY <2>2, Results DEF LabeledExpand, Expand
<1>2. /\ ExpandedKeyLen(suite) \in Nat /\ ExpandedKeyLen(suite) <= 255 * 32
      /\ HashLen[suite.kdf] \in Nat /\ HashLen[suite.kdf] <= 255 * 32
  BY KnownLengths DEF ExpandedKeyLen, SessionAssumed, Assumed
<1>3. AeadNonceLen[suite.aead] \in Nat /\ AeadNonceLen[suite.aead] <= 255 * 32
  <2>1. suite.aead \in DOMAIN KeyLen
    BY DEF SessionAssumed, Assumed, SuitesAreKnown
  <2>2. AeadNonceLen[suite.aead] \in {0, NonceLen}
    BY <2>1 DEF KeyLen, AeadNonceLen
  <2> QED  BY <2>2, NonceRangeAssumption DEF SessionAssumed
<1>4. key.ok /\ nonce.ok /\ exp.ok
  BY <1>1, <1>2, <1>3
<1>5. x = Err("ExportLengthExceeded") \/ x.ok
  BY DerivedKeysName DEF SessionAssumed, Assumed
<1>6. x = IF ~key.ok THEN key
          ELSE IF ~nonce.ok THEN nonce
          ELSE IF ~exp.ok THEN exp
          ELSE IF ~AeadInitOk(suite, key.val) THEN Err("AeadInitError")
          ELSE Ok(ContextNew(key.val, NonceBytes(nonce.val), exp.val))
  BY DEF DeriveContext
<1> HIDE DEF key, nonce, exp, x
<1>7. x.ok
  BY <1>4, <1>5, <1>6, Results
<1> QED  BY <1>7 DEF x

\* So a set-up fails only with an error of the KEM.
LEMMA SetupFailures ==
    ASSUME SessionAssumed, SetupInv
    PROVE  LET errors == {"EncapError", "DecapError", "InvalidPublicKey", "InvalidEncappedKey"}
           IN  /\ \A e \in Ephemerals, a \in SenderArgs :
                    ~SetupS(e, a).ok => SetupS(e, a).err \in errors
               /\ \A b \in ReceiverArgs : ~SetupR(b).ok => SetupR(b).err \in errors
<1> DEFINE errors == {"EncapError", "DecapError", "InvalidPublicKey", "InvalidEncappedKey"}
<1>1. ASSUME NEW mode, NEW suite \in Suites, NEW ss, NEW info, NEW psk
      PROVE  KeySchedule(mode, suite, ss, info, psk).ok
  BY ScheduleIsDerivation, ScheduleSucceeds
<1>2. ASSUME NEW e \in Ephemerals, NEW a \in SenderArgs, ~SetupS(e, a).ok
      PROVE  SetupS(e, a).err \in errors
  <2> DEFINE k == SenderKem(e, a)
             c == KeySchedule(a.mode, a.suite, k.val.ss, a.info, a.psk)
  <2>1. SetupS(e, a) = IF ~k.ok THEN k
                       ELSE IF ~c.ok THEN c
                       ELSE Ok([enc |-> k.val.enc, ctx |-> c.val])
    BY SenderSetup
  <2>2. ~k.ok => k.err \in errors
    BY DEF KemCalls, KemErrorsAre, SessionAssumed
  <2>3. c.ok
    BY <1>1, SenderArgsHave
  <2> HIDE DEF k, c, errors
  <2> QED  BY <1>2, <2>1, <2>2, <2>3, Results
<1>3. ASSUME NEW b \in ReceiverArgs, ~SetupR(b).ok PROVE SetupR(b).err \in errors
  <2> DEFINE enc == EncFromBytes(b.enc)
             k   == ReceiverKem(b)
             c   == KeySchedule(b.mode, b.suite, k.val, b.info, b.psk)
  <2>1. SetupR(b) = IF ~enc.ok THEN enc ELSE IF ~k.ok THEN k ELSE c
    BY ReceiverSetup
  <2>2. (~enc.ok => enc.err \in errors) /\ (~k.ok => k.err \in errors)
    BY Delivers DEF KemCalls, KemErrorsAre, SessionAssumed
  <2>3. b.suite \in Suites
    BY ReceiverArgsHave DEF ReceiverArgs
  <2>4. c.ok
    BY <1>1, <2>3
  <2> HIDE DEF enc, k, c, errors
  <2> QED  BY <1>3, <2>1, <2>2, <2>4
<1> QED  BY <1>2, <1>3

\* What a set-up can derive is keyed by a transcript, unused and padded.
LEMMA DerivedKeyed ==
    ASSUME Assumed, NEW x \in DerivedContexts
    PROVE  /\ \E t : Keyed(t, x)
           /\ IsContext(x) /\ x.seq = 0 /\ x.base_nonce = PadNonce(x.base_nonce)
<1>1. \E t : Keyed(t, x)
  <2>1. CASE x \in {s.ctx : s \in SenderSetups}
    <3>1. PICK e \in Ephemerals, a \in SenderArgs : SetupS(e, a).ok /\ x = SetupS(e, a).val.ctx
      BY <2>1 DEF SenderSetups, Oks
    <3>2. SenderResult(SenderTranscript(a, SetupS(e, a).val.enc), x)
      BY <3>1 DEF SenderResult
    <3> QED  BY <3>2, SenderKeyed
  <2>2. CASE x \in Oks({SetupR(b) : b \in ReceiverArgsFor(AllEncs)})
    <3>1. PICK b \in ReceiverArgsFor(AllEncs) : SetupR(b).ok /\ x = SetupR(b).val
      BY <2>2 DEF Oks
    <3>2. ReceiverResult(ReceiverTranscript(b), x)
      BY <3>1 DEF ReceiverResult
    <3> QED  BY <3>2, ReceiverKeyed
  <2> QED  BY <2>1, <2>2 DEF DerivedContexts
<1>2. PICK t, ss : t.suite \in Suites /\ Schedules(t, ss, x)
  BY <1>1 DEF Keyed
<1>3. IsContext(x)
  BY <1>2, KeyedNames DEF Assumed
<1>4. x.seq = 0 /\ \E n : x.base_nonce = PadNonce(n)
  BY <1>2, FreshContext DEF Schedules, Assumed
<1>5. \A n : PadNonce(PadNonce(n)) = PadNonce(n)
  BY NonceRangeAssumption DEF PadNonce
<1> QED  BY <1>1, <1>3, <1>4, <1>5

\* Equal keys come with equal contexts.
LEMMA DerivedOnce ==
    ASSUME SessionAssumed, NEW x \in DerivedContexts, NEW y \in DerivedContexts,
           x.cipher = y.cipher
    PROVE  x = y
<1>1. PICK t, u : Keyed(t, x) /\ Keyed(u, y)
  BY DerivedKeyed DEF SessionAssumed
<1>2. CanSeal(t.suite) /\ CanSeal(u.suite)
  BY <1>1 DEF Keyed, SessionAssumed
<1>3. t = u
  BY <1>1, <1>2, KeyedBinds DEF SessionAssumed, Assumed
<1> QED  BY <1>1, <1>3, KeyedOnce DEF SessionAssumed, Assumed

\* A context that a set-up derives is new to Session under its key.
LEMMA DerivedIsNew ==
    ASSUME SessionAssumed, NEW x \in DerivedContexts
    PROVE  /\ x.cipher \in DerivedKeys
           /\ View(x) = ContextNew(x.cipher, DerivedNonce[x.cipher], x.cipher)
<1> DEFINE k == x.cipher
           y == CHOOSE z \in DerivedContexts : z.cipher = k
<1>1. k \in DerivedKeys
  BY DEF DerivedKeys
<1>2. y \in DerivedContexts /\ y.cipher = k
  OBVIOUS
<1>3. y = x
  <2> HIDE DEF y
  <2> QED  BY <1>2, DerivedOnce
<1>4. DerivedNonce[k] = [i \in 1 .. NonceLen |-> y.base_nonce[i]]
  BY <1>1 DEF DerivedNonce
<1> HIDE DEF y, k
<1>5. PadNonce(DerivedNonce[k]) = PadNonce(x.base_nonce)
  <2>1. \A i \in 1 .. MaxNonceLen : i <= NonceLen => i \in 1 .. NonceLen
    BY NonceRangeAssumption
  <2> QED  BY <1>3, <1>4, <2>1 DEF PadNonce
<1>6. x.base_nonce = PadNonce(x.base_nonce) /\ x.seq = 0
  BY DerivedKeyed DEF SessionAssumed
<1> QED  BY <1>1, <1>5, <1>6 DEF View, ContextNew, k

\* Every successful set-up is among what Session's constants cover.
LEMMA ReceiversDerive ==
    ASSUME SetupInv, NEW b \in ReceiverArgs, SetupR(b).ok
    PROVE  SetupR(b).val \in DerivedContexts
BY Delivers DEF DerivedContexts, Oks

\* And so is what a sender's set-up returns.
LEMMA SendersDerive ==
    ASSUME NEW e \in Ephemerals, NEW a \in SenderArgs, SetupS(e, a).ok
    PROVE  SetupS(e, a).val.ctx \in DerivedContexts
BY DEF DerivedContexts, SenderSetups, Oks

\* What Session sees of a context.
LEMMA SessionSees ==
    ASSUME SessionAssumed, SetupInv, NEW c \in Contexts
    PROVE  /\ Live(c) => /\ IsContext(ctx[c])
                         /\ SessionCtx[c] = View(ctx[c]) /\ SessionCtx[c] # Absent
           /\ ~Live(c) => SessionCtx[c] = Absent
<1>1. CASE Live(c)
  <2>1. IsContext(ctx[c])
    BY <1>1, ContextKeyed DEF SetupInv
  <2>2. \A x : IsContext(x) => [x EXCEPT !.exporter_secret = x.cipher] = View(x)
    BY DEF IsContext, View
  <2>3. \A x : View(x) # Absent
    BY DEF View, SessionAssumed
  <2>4. SessionCtx[c] = [ctx[c] EXCEPT !.exporter_secret = ctx[c].cipher]
    BY <1>1 DEF SessionCtx
  <2> QED  BY <1>1, <2>1, <2>2, <2>3, <2>4
<1>2. CASE ~Live(c)
  BY <1>2 DEF SessionCtx
<1> QED  BY <1>1, <1>2

\* A set-up puts a new context where Session saw none.
LEMMA SessionSetsUp ==
    ASSUME SessionAssumed, SetupInv, NEW c \in Contexts, tr[c] = Absent,
           NEW x \in DerivedContexts, ctx' = [ctx EXCEPT ![c] = x]
    PROVE  /\ SessionCtx[c] = Absent
           /\ SessionCtx' = [SessionCtx EXCEPT
                ![c] = ContextNew(x.cipher, DerivedNonce[x.cipher], x.cipher)]
<1>1. SessionCtx[c] = Absent
  BY SessionSees DEF SetupInv
<1>2. IsContext(x) /\ x # Absent
  BY DerivedKeyed DEF SessionAssumed, IsContext
<1>3. ctx'[c] = x /\ \A d \in Contexts : d # c => ctx'[d] = ctx[d]
  BY DEF SetupInv
<1>4. SessionCtx'[c] = View(x)
  <2>1. SessionCtx'[c] = [x EXCEPT !.exporter_secret = x.cipher]
    BY <1>2, <1>3 DEF SessionCtx, Live
  <2> QED  BY <1>2, <2>1 DEF IsContext, View
<1>5. \A d \in Contexts : d # c => SessionCtx'[d] = SessionCtx[d]
  BY <1>3 DEF SessionCtx, Live
<1>6. SessionCtx' = [SessionCtx EXCEPT ![c] = View(x)]
  BY <1>4, <1>5 DEF SessionCtx
<1> QED  BY <1>1, <1>6, DerivedIsNew

\* Advancing a counter is advancing it for Session.
LEMMA SessionAdvances ==
    ASSUME SessionAssumed, SetupInv, NEW c \in Contexts, Live(c), Advance(c)
    PROVE  SessionCtx' = [SessionCtx EXCEPT ![c].seq = SeqSucc(@)]
<1> DEFINE n == SeqSucc(ctx[c].seq)
<1>1. IsContext(ctx[c]) /\ SessionCtx[c] = View(ctx[c])
  BY SessionSees
<1>2. ctx'[c] = [ctx[c] EXCEPT !.seq = n] /\ \A d \in Contexts : d # c => ctx'[d] = ctx[d]
  BY DEF Advance, SetupInv
<1> HIDE DEF n
<1>3. ctx'[c] = [cipher |-> ctx[c].cipher, base_nonce |-> ctx[c].base_nonce,
                 exporter_secret |-> ctx[c].exporter_secret, seq |-> n]
  BY <1>1, <1>2 DEF IsContext
<1>4. ctx'[c] # Absent
  BY <1>3 DEF SessionAssumed
<1>5. SessionCtx'[c] = [View(ctx[c]) EXCEPT !.seq = n]
  <2>1. SessionCtx'[c] = [ctx'[c] EXCEPT !.exporter_secret = ctx'[c].cipher]
    BY <1>4 DEF SessionCtx, Live
  <2> QED  BY <1>3, <2>1 DEF View
<1>6. \A d \in Contexts : d # c => SessionCtx'[d] = SessionCtx[d]
  BY <1>2 DEF SessionCtx, Live
<1>7. SessionCtx' = [SessionCtx EXCEPT ![c] = [View(ctx[c]) EXCEPT !.seq = n]]
  BY <1>5, <1>6 DEF SessionCtx
<1>8. SessionCtx[c].seq = ctx[c].seq
  BY <1>1 DEF View
<1> QED  BY <1>1, <1>7, <1>8 DEF n

\* Initially Session sees no context, no message and no call.
LEMMA SessionInit == Init => Sess!Init
<1> SUFFICES ASSUME Init PROVE Sess!Init
  OBVIOUS
<1>1. \A c \in Contexts : ~Live(c)
  BY DEF Init, Live
<1>2. SessionCtx = [c \in Contexts |-> Absent]
  BY <1>1 DEF SessionCtx
<1>3. /\ sealed = [w \in Senders |-> <<>>] /\ opened = [r \in Receivers |-> <<>>]
      /\ ret = [ctx |-> Nobody, res |-> "Ok"]
  BY DEF Init
<1> QED  BY <1>2, <1>3 DEF Sess!Init, Sess!Contexts, Contexts, SessionCtx

\* Set-ups are Session's set-ups.
LEMMA SessionSetups ==
    ASSUME SessionAssumed, SealedInv, Setups
    PROVE  \/ \E w \in Senders, k \in DerivedKeys : Sess!SetupSender(w, k)
           \/ \E r \in Receivers, k \in DerivedKeys : Sess!SetupReceiver(r, k)
           \/ \E c \in Contexts, err \in {"EncapError", "DecapError", "InvalidPublicKey",
                                          "InvalidEncappedKey"} : Sess!SetupFails(c, err)
<1>1. SetupInv /\ fresh \subseteq Ephemerals
  BY DEF SealedInv, SetupInv
<1>2. \A c \in Contexts : tr[c] = Absent => SessionCtx[c] = Absent
  BY <1>1, SessionSees DEF SetupInv
<1>3. ASSUME NEW w \in Senders, NEW e \in fresh, NEW a \in SenderArgs, SetupSenderOk(w, e, a)
      PROVE  \E k \in DerivedKeys : Sess!SetupSender(w, k)
  <2> DEFINE x == SetupS(e, a).val.ctx
             k == x.cipher
             t == SenderTranscript(a, SetupS(e, a).val.enc)
  <2>1. /\ tr[w] = Absent /\ SetupS(e, a).ok /\ ctx' = [ctx EXCEPT ![w] = x]
        /\ ret' = [ctx |-> w, res |-> "Ok"] /\ sealed' = sealed /\ opened' = opened
        /\ w \in Contexts /\ e \in Ephemerals
    BY <1>1, <1>3 DEF SetupSenderOk, Returns, Contexts
  <2>2. x \in DerivedContexts
    BY <2>1, SendersDerive
  <2>3. SenderResult(t, x)
    BY <2>1 DEF SenderResult
  <2>4. SenderKem(e, a).ok /\ t.enc = SenderKem(e, a).val.enc
    BY <2>1, SenderEnc
  <2> HIDE DEF x, t
  <2>5. k \in DerivedKeys
    BY <2>2, DerivedIsNew
  <2>6. /\ SessionCtx[w] = Absent
        /\ SessionCtx' = [SessionCtx EXCEPT ![w] = ContextNew(k, DerivedNonce[k], k)]
    BY <1>1, <2>1, <2>2, SessionSetsUp
  <2>7. ASSUME NEW v \in Senders, SessionCtx[v] # Absent PROVE SessionCtx[v].cipher # k
    <3>1. v \in Contexts
      BY DEF Contexts
    <3>2. Live(v)
      BY <1>1, <2>7, <3>1, SessionSees
    <3>3. tr[v] # Absent /\ SessionCtx[v] = View(ctx[v])
      BY <1>1, <3>1, <3>2, SessionSees DEF SetupInv
    <3>4. PICK y : Keyed(tr[v], y) /\ SameKeys(ctx[v], y)
      BY <1>1, <3>1, <3>2, <3>3, ContextKeyed
    <3>5. SessionCtx[v].cipher = y.cipher
      BY <3>3, <3>4 DEF View, SameKeys
    <3>6. Keyed(t, x)
      BY <2>3, SenderKeyed
    <3>7. CanSeal(t.suite) /\ CanSeal(tr[v].suite)
      BY <3>4, <3>6 DEF Keyed, SessionAssumed
    <3>8. tr[v].enc # t.enc
      BY <2>4, <3>3 DEF SealedInv, EncsDistinct
    <3>9. y.cipher # x.cipher
      BY <3>4, <3>6, <3>7, <3>8, KeyedBinds DEF SessionAssumed, Assumed
    <3> QED  BY <3>5, <3>9
  <2>8. Sess!SetupSender(w, k)
    BY <2>1, <2>6, <2>7
       DEF Sess!SetupSender, Sess!Live, Sess!ContextNew, Sess!PadNonce, ContextNew, PadNonce,
           Sess!Returns, SessionCtx, DerivedNonce
  <2> QED  BY <2>5, <2>8
<1>4. ASSUME NEW r \in Receivers, NEW b \in ReceiverArgs, SetupReceiverOk(r, b)
      PROVE  \E k \in DerivedKeys : Sess!SetupReceiver(r, k)
  <2> DEFINE x == SetupR(b).val
             k == x.cipher
  <2>1. /\ tr[r] = Absent /\ SetupR(b).ok /\ ctx' = [ctx EXCEPT ![r] = x]
        /\ ret' = [ctx |-> r, res |-> "Ok"] /\ sealed' = sealed /\ opened' = opened
        /\ r \in Contexts
    BY <1>4 DEF SetupReceiverOk, Returns, Contexts
  <2>2. x \in DerivedContexts
    BY <1>1, <2>1, ReceiversDerive
  <2> HIDE DEF x
  <2>3. k \in DerivedKeys
    BY <2>2, DerivedIsNew
  <2>4. /\ SessionCtx[r] = Absent
        /\ SessionCtx' = [SessionCtx EXCEPT ![r] = ContextNew(k, DerivedNonce[k], k)]
    BY <1>1, <2>1, <2>2, SessionSetsUp
  <2>5. Sess!SetupReceiver(r, k)
    BY <2>1, <2>4
       DEF Sess!SetupReceiver, Sess!ContextNew, Sess!PadNonce, ContextNew, PadNonce,
           Sess!Returns, SessionCtx, DerivedNonce
  <2> QED  BY <2>3, <2>5
<1>5. ASSUME NEW c \in Contexts, tr[c] = Absent, ctx' = ctx, sealed' = sealed, opened' = opened,
             NEW err, Returns(c, err)
      PROVE  Sess!SetupFails(c, err)
  <2>1. SessionCtx[c] = Absent /\ SessionCtx' = SessionCtx
    BY <1>2, <1>5 DEF SessionCtx, Live
  <2> QED  BY <1>5, <2>1 DEF Sess!SetupFails, Sess!Returns, Returns, SessionCtx
<1>6. ASSUME NEW w \in Senders, NEW e \in fresh, NEW a \in SenderArgs, SetupSenderError(w, e, a)
      PROVE  Sess!SetupFails(w, SetupS(e, a).err) /\ ~SetupS(e, a).ok
  BY <1>5, <1>6 DEF SetupSenderError, Contexts
<1>7. ASSUME NEW r \in Receivers, NEW b \in ReceiverArgs, SetupReceiverError(r, b)
      PROVE  Sess!SetupFails(r, SetupR(b).err) /\ ~SetupR(b).ok
  BY <1>5, <1>7 DEF SetupReceiverError, Contexts
<1>8. fresh \subseteq Ephemerals
  BY <1>1 DEF SetupInv
<1> QED  BY <1>1, <1>3, <1>4, <1>6, <1>7, <1>8, SetupFailures DEF Setups, Contexts

\* seal and open are Session's.
LEMMA SessionMessages ==
    ASSUME SessionAssumed, SetupInv, Messages PROVE Sess!Next
<1>1. Sess!Network = Network
  BY DEF Sess!Network, Network
<1>2. ASSUME NEW c \in Contexts, Live(c)
      PROVE  /\ Sess!Live(c) /\ (Sess!AtLimit(c) <=> AtLimit(c))
             /\ Sess!NonceOf(c) = NonceOf(c)
             /\ SessionCtx[c].cipher = ctx[c].cipher
             /\ Advance(c) => Sess!Advance(c)
             /\ ctx' = ctx => SessionCtx' = SessionCtx
  <2>1. SessionCtx[c] = View(ctx[c]) /\ SessionCtx[c] # Absent
    BY <1>2, SessionSees
  <2>2. /\ SessionCtx[c].cipher = ctx[c].cipher /\ SessionCtx[c].seq = ctx[c].seq
        /\ SessionCtx[c].base_nonce = ctx[c].base_nonce
    BY <2>1 DEF View
  <2>3. Sess!Live(c) /\ (Sess!AtLimit(c) <=> AtLimit(c))
    BY <2>1, <2>2 DEF Sess!Live, Sess!AtLimit, AtLimit, SessionCtx
  <2>4. \A b, n : Sess!AeadNonce(b, n) = AeadNonce(b, n)
    BY DEF Sess!AeadNonce, AeadNonce, Sess!ComputeNonce, ComputeNonce, Sess!PadNonce, PadNonce,
           Sess!SeqPositions, SeqPositions
  <2>5. Sess!NonceOf(c) = NonceOf(c)
    <3>1. Sess!NonceOf(c) = Sess!AeadNonce(SessionCtx[c].base_nonce, SessionCtx[c].seq)
      BY DEF Sess!NonceOf, SessionCtx
    <3> QED  BY <2>2, <2>4, <3>1 DEF NonceOf
  <2>6. Advance(c) => Sess!Advance(c)
    BY <1>2, SessionAdvances DEF Sess!Advance, Sess!SeqSucc, SeqSucc, SessionCtx
  <2>7. ctx' = ctx => SessionCtx' = SessionCtx
    BY DEF SessionCtx, Live
  <2> QED  BY <2>2, <2>3, <2>5, <2>6, <2>7
<1>3. ASSUME NEW w \in Senders, NEW aad \in Aad, NEW pt \in Plaintext, Seal(w, aad, pt)
      PROVE  Sess!SealLimit(w) \/ Sess!SealError(w, pt) \/ Sess!SealOk(w, aad, pt)
  <2>1. Live(w) /\ w \in Contexts
    BY <1>3 DEF Seal, Contexts
  <2>2. CASE SealLimit(w)
    BY <1>2, <2>1, <2>2 DEF SealLimit, Sess!SealLimit, Returns, Sess!Returns, SessionCtx
  <2>3. CASE SealError(w, pt)
    BY <1>2, <2>1, <2>3 DEF SealError, Sess!SealError, Returns, Sess!Returns, SessionCtx
  <2>4. CASE SealOk(w, aad, pt)
    <3> DEFINE ct == AeadSeal(ctx[w].cipher, NonceOf(w), aad, pt)
    <3>1. ct = Sess!AeadSeal(SessionCtx[w].cipher, Sess!NonceOf(w), aad, pt)
      BY <1>2, <2>1 DEF AeadSeal, Sess!AeadSeal
    <3>2. /\ ~AtLimit(w) /\ pt \notin TooLong /\ Advance(w) /\ Returns(w, "Ok")
          /\ sealed' = [sealed EXCEPT ![w] = Append(@, ct)] /\ opened' = opened
      BY <2>4 DEF SealOk
    <3> HIDE DEF ct
    <3>3. sealed' = [sealed EXCEPT
            ![w] = Append(@, Sess!AeadSeal(SessionCtx[w].cipher, Sess!NonceOf(w), aad, pt))]
      BY <3>1, <3>2
    <3> QED  BY <1>2, <2>1, <3>2, <3>3 DEF Sess!SealOk, Returns, Sess!Returns, SessionCtx
  <2> QED  BY <1>3, <2>2, <2>3, <2>4 DEF Seal
<1>4. ASSUME NEW r \in Receivers, NEW aad \in Aad, NEW ct \in Network, Open(r, aad, ct)
      PROVE  Sess!OpenLimit(r) \/ Sess!OpenError(r, aad, ct) \/ Sess!OpenOk(r, aad, ct)
  <2>1. Live(r) /\ r \in Contexts
    BY <1>4 DEF Open, Contexts
  <2>2. AeadOpens(ctx[r].cipher, NonceOf(r), aad, ct)
          <=> Sess!AeadOpens(SessionCtx[r].cipher, Sess!NonceOf(r), aad, ct)
    BY <1>2, <2>1 DEF AeadOpens, Sess!AeadOpens
  <2>3. CASE OpenLimit(r)
    BY <1>2, <2>1, <2>3 DEF OpenLimit, Sess!OpenLimit, Returns, Sess!Returns, SessionCtx
  <2>4. CASE OpenError(r, aad, ct)
    BY <1>2, <2>1, <2>2, <2>4
       DEF OpenError, Sess!OpenError, Returns, Sess!Returns, SessionCtx
  <2>5. CASE OpenOk(r, aad, ct)
    BY <1>2, <2>1, <2>2, <2>5
       DEF OpenOk, Sess!OpenOk, Returns, Sess!Returns, SessionCtx, MessageOf, Sess!MessageOf
  <2> QED  BY <1>4, <2>3, <2>4, <2>5 DEF Open
<1> QED  BY <1>1, <1>3, <1>4 DEF Messages, Sess!Next

\* So is export.
LEMMA SessionExports ==
    ASSUME SessionAssumed, SetupInv, Exports PROVE Sess!Next
<1>1. PICK c \in Contexts, ectx \in ExporterContexts, len \in ExportLengths : Export(c, ectx, len)
  BY DEF Exports
<1> DEFINE x == ExportOf(tr[c].suite, ctx[c].exporter_secret, ectx, len)
           okm == IF len = 0 THEN <<>>
                  ELSE Expanded(tr[c].suite, ctx[c].exporter_secret, "sec", ectx, len)
<1>2. x = Err("ExportLengthExceeded") \/ x = Ok(okm)
  BY ExpandYields DEF ExportOf
<1>3. /\ Live(c) /\ ctx' = ctx /\ sealed' = sealed /\ opened' = opened
      /\ Returns(c, "Ok") \/ (~x.ok /\ Returns(c, x.err))
  BY <1>1 DEF Export
<1> HIDE DEF x, okm
<1>4. PICK res \in {"Ok", "ExportLengthExceeded"} : Returns(c, res)
  BY <1>2, <1>3, Results
<1>5. SessionCtx[c] # Absent /\ SessionCtx' = SessionCtx
  BY <1>3, SessionSees DEF SessionCtx, Live
<1>6. Sess!Export(c, res)
  BY <1>3, <1>4, <1>5 DEF Sess!Export, Sess!Live, Sess!Returns, Returns, SessionCtx
<1> QED  BY <1>6 DEF Sess!Next, Sess!ExportResults, Sess!Contexts, Contexts

\* Every step of set-ups, messages and exports is one of Session's.
LEMMA SessionStep ==
    ASSUME SessionAssumed, SealedInv, [SessionNext]_hpkeVars
    PROVE  [Sess!Next]_(Sess!CtxVars)
<1>1. SetupInv
  BY DEF SealedInv
<1>2. CASE Setups
  BY <1>2, SessionSetups DEF Sess!Next, Sess!Contexts, Contexts
<1>3. CASE Messages
  BY <1>1, <1>3, SessionMessages
<1>4. CASE Exports
  BY <1>1, <1>4, SessionExports
<1>5. CASE UNCHANGED hpkeVars
  <2>1. SessionCtx' = SessionCtx /\ sealed' = sealed /\ opened' = opened /\ ret' = ret
    BY <1>5 DEF hpkeVars, SessionCtx, Live
  <2> QED  BY <2>1 DEF Sess!CtxVars, SessionCtx
<1> QED  BY <1>2, <1>3, <1>4, <1>5 DEF SessionNext

\* lib.rs: the contexts that setup_* returns are contexts of module Session: every
\* sender has a key of its own, a key comes with one base nonce, and a set-up
\* fails only with the errors of the KEM.
THEOREM HpkeImplementsSession == SessionAssumed => (SessionSpec => ImplementsSession)
<1>1. ASSUME SessionAssumed PROVE SealedInv /\ [SessionNext]_hpkeVars => SealedInv'
  <2>1. [SessionNext]_hpkeVars => [Next]_hpkeVars
    BY DEF SessionNext, Next
  <2> QED  BY <1>1, <2>1, SealedInvStep DEF SessionAssumed
<1>2. ASSUME SessionAssumed
      PROVE  SealedInv /\ [SessionNext]_hpkeVars => [Sess!Next]_(Sess!CtxVars)
  BY <1>2, SessionStep
<1>3. ASSUME SessionAssumed PROVE SessionSpec => ImplementsSession
  BY <1>1, <1>2, <1>3, SealedInvInit, SessionInit, PTL
     DEF SessionSpec, ImplementsSession, Sess!Spec
<1> QED  BY <1>3

----------------------------------------------------------------------------
\* What is proved of Session holds of the contexts that set-ups return.
SessP == INSTANCE SessionProofs WITH
            ctx <- SessionCtx, AeadKey <- DerivedKeys, BaseNonce <- DerivedNonce,
            SetupErrors <- {"EncapError", "DecapError", "InvalidPublicKey",
                            "InvalidEncappedKey"}

\* Bytes that nobody sealed are no ciphertext.
DamagedIsNone ==
    \A k, n, aad, pt : [key |-> k, nonce |-> n, aad |-> aad, pt |-> pt] # Damaged

\* A derived key comes with a base nonce of NONCE_LEN bytes.
LEMMA DerivedNonces == SessionAssumed => DerivedNonce \in [DerivedKeys -> NonceVal]
<1> SUFFICES ASSUME SessionAssumed, NEW k \in DerivedKeys
             PROVE  DerivedNonce[k] \in NonceVal
  BY DEF DerivedNonce
<1> DEFINE y == CHOOSE x \in DerivedContexts : x.cipher = k
<1>1. y \in DerivedContexts
  BY DEF DerivedKeys
<1>2. DerivedNonce[k] = [i \in 1 .. NonceLen |-> y.base_nonce[i]]
  BY DEF DerivedNonce
<1> HIDE DEF y
<1>3. PICK t, ss : Schedules(t, ss, y)
  BY <1>1, DerivedKeyed DEF SessionAssumed, Keyed
<1>4. y.base_nonce \in NonceBuf
  BY <1>3, FreshContext DEF Schedules, SessionAssumed, Assumed
<1>5. \A i \in 1 .. NonceLen : i \in 1 .. MaxNonceLen
  BY NonceRangeAssumption
<1> QED  BY <1>2, <1>4, <1>5 DEF NonceBuf, NonceVal

\* Session's assumptions about its constants hold of the ones it is given.
LEMMA SessionAssumptions ==
    SessionAssumed /\ DamagedIsNone =>
        /\ DerivedNonce \in [DerivedKeys -> SessP!NonceVal]
        /\ Absent \notin SessP!CtxState
        /\ Damaged \notin SessP!Ciphertext
        /\ "MessageLimitReached" \notin {"EncapError", "DecapError", "InvalidPublicKey",
                                         "InvalidEncappedKey"}
<1> SUFFICES ASSUME SessionAssumed, DamagedIsNone
             PROVE  /\ DerivedNonce \in [DerivedKeys -> SessP!NonceVal]
                    /\ Absent \notin SessP!CtxState
                    /\ Damaged \notin SessP!Ciphertext
  OBVIOUS
<1>1. DerivedNonce \in [DerivedKeys -> SessP!NonceVal]
  BY DerivedNonces DEF NonceVal, SessP!NonceVal
<1>2. Absent \notin SessP!CtxState
  <2>1. \A x \in SessP!CtxState :
          x = [cipher |-> x.cipher, base_nonce |-> x.base_nonce,
               exporter_secret |-> x.exporter_secret, seq |-> x.seq]
    BY DEF SessP!CtxState
  <2> QED  BY <2>1 DEF SessionAssumed
<1>3. Damaged \notin SessP!Ciphertext
  <2>1. \A x \in SessP!Ciphertext :
          x = [key |-> x.key, nonce |-> x.nonce, aad |-> x.aad, pt |-> x.pt]
    BY DEF SessP!Ciphertext
  <2> QED  BY <2>1 DEF DamagedIsNone
<1> QED  BY <1>1, <1>2, <1>3

\* Session numbers its messages as this module does.
LEMMA SessionCounters ==
    /\ MaxSeq \in Nat
    /\ SeqLen \in Nat
    /\ ToBeBytes \in [SessP!SeqNo -> [1 .. SeqLen -> Byte]]
    /\ \A s, t \in SessP!SeqNo : ToBeBytes[s] = ToBeBytes[t] => s = t
BY CounterAssumption DEF SeqNo, SessP!SeqNo

\* The two instances of Session, with and without its theorems, are one.
LEMMA OneSession ==
    /\ Sess!Init => SessP!Init
    /\ [Sess!Next]_(Sess!CtxVars) => [SessP!Next]_(SessP!CtxVars)
    /\ SessP!LimitIsExact => Sess!LimitIsExact
    /\ SessP!OpenedInOrder => Sess!OpenedInOrder
<1>1. Sess!Init => SessP!Init
  BY DEF Sess!Init, SessP!Init, Sess!Contexts, SessP!Contexts
<1>2. Sess!Next => SessP!Next
  BY DEF Sess!Next, SessP!Next, Sess!Contexts, SessP!Contexts,
         Sess!SetupSender, SessP!SetupSender, Sess!SetupReceiver, SessP!SetupReceiver,
         Sess!ContextNew, SessP!ContextNew, Sess!PadNonce, SessP!PadNonce,
         Sess!SetupFails, SessP!SetupFails, Sess!Export, SessP!Export,
         Sess!ExportResults, SessP!ExportResults,
         Sess!SealLimit, SessP!SealLimit, Sess!SealError, SessP!SealError,
         Sess!SealOk, SessP!SealOk, Sess!OpenLimit, SessP!OpenLimit,
         Sess!OpenError, SessP!OpenError, Sess!OpenOk, SessP!OpenOk,
         Sess!Network, SessP!Network, Sess!AeadSeal, SessP!AeadSeal,
         Sess!AeadOpens, SessP!AeadOpens, Sess!MessageOf, SessP!MessageOf,
         Sess!Live, SessP!Live, Sess!AtLimit, SessP!AtLimit,
         Sess!Advance, SessP!Advance, Sess!SeqSucc, SessP!SeqSucc,
         Sess!NonceOf, SessP!NonceOf, Sess!AeadNonce, SessP!AeadNonce,
         Sess!ComputeNonce, SessP!ComputeNonce, Sess!SeqPositions, SessP!SeqPositions,
         Sess!Returns, SessP!Returns
<1>3. UNCHANGED Sess!CtxVars => UNCHANGED SessP!CtxVars
  BY DEF Sess!CtxVars, SessP!CtxVars
<1>4. SessP!LimitIsExact => Sess!LimitIsExact
  BY DEF Sess!LimitIsExact, SessP!LimitIsExact
<1>5. SessP!OpenedInOrder => Sess!OpenedInOrder
  BY DEF Sess!OpenedInOrder, SessP!OpenedInOrder, Sess!Follows, SessP!Follows,
         Sess!Live, SessP!Live, Sess!MessageOf, SessP!MessageOf
<1> QED  BY <1>1, <1>2, <1>3, <1>4, <1>5

\* context.rs:160-192, of contexts as lib.rs sets them up: they answer
\* MessageLimitReached after exactly u64::MAX messages, and what one of them has
\* opened is a prefix of what one sender with its key has sealed.
THEOREM SetupContextsAreSafe ==
    SessionAssumed /\ DamagedIsNone =>
        (SessionSpec => [](Sess!LimitIsExact /\ Sess!OpenedInOrder))
<1>1. ASSUME SessionAssumed, DamagedIsNone PROVE SessP!Spec => []SessP!LimitIsExact
  BY <1>1, SessionAssumptions, SessP!LimitExactness, ByteAssumption,
     NonceRangeAssumption, ContextAssumption, SessionCounters, Zenon
<1>2. ASSUME SessionAssumed, DamagedIsNone PROVE SessP!Spec => []SessP!OpenedInOrder
  BY <1>2, SessionAssumptions, SessP!InOrderDelivery, ByteAssumption,
     NonceRangeAssumption, ContextAssumption, SessionCounters, Zenon
<1>3. ASSUME SessionAssumed, DamagedIsNone PROVE SessionSpec => Sess!Spec
  BY <1>3, HpkeImplementsSession DEF ImplementsSession
<1>4. Sess!Spec => SessP!Spec
  BY OneSession, PTL DEF Sess!Spec, SessP!Spec
<1>5. /\ SessP!LimitIsExact => Sess!LimitIsExact
      /\ SessP!OpenedInOrder => Sess!OpenedInOrder
  BY OneSession
<1>6. ASSUME SessionAssumed, DamagedIsNone
      PROVE  SessionSpec => [](Sess!LimitIsExact /\ Sess!OpenedInOrder)
  BY <1>6, <1>1, <1>2, <1>3, <1>4, <1>5, PTL
<1> QED  BY <1>6

----------------------------------------------------------------------------
\* HPKE over DHKEM.

\* Hpke's KEM is DhKem, whose public keys are their bytes; the private keys are
\* the crate's, and no public key is the mark of an absent one.
OverDh ==
    /\ \A e, pkR : KemEncap(e, pkR) = DhEncap(e, pkR)
    /\ \A enc, skR : KemDecap(enc, skR) = DhDecap(enc, skR)
    /\ \A e, pkR, skS : KemAuthEncap(e, pkR, skS) = DhAuthEncap(e, pkR, skS)
    /\ \A enc, skR, pkS : KemAuthDecap(enc, skR, pkS) = DhAuthDecap(enc, skR, pkS)
    /\ \A b : EncFromBytes(b) = DhEncFromBytes(b)
    /\ \A pk : PkBytes(pk) = pk
    /\ \A sk : SkToPkBytes(sk) = sk.pk_bytes
    /\ \A sk \in RecipientSks \cup SenderSks : DhHeld(sk)
    /\ NoKey \notin SenderPks /\ \A sk \in SenderSks : sk.pk_bytes # NoKey

\* dh.rs:861-863 as HpkeProofs wants it, enc_from_bytes included.
LEMMA DhFollows == OverDh => KemFollows
<1> SUFFICES ASSUME OverDh, NEW e \in Ephemerals, NEW pkR \in RecipientPks,
                    NEW skR \in RecipientSks, SkToPkBytes(skR) = PkBytes(pkR)
             PROVE  /\ LET k   == KemEncap(e, pkR)
                           enc == EncFromBytes(k.val.enc)
                       IN  k.ok => enc.ok /\ KemDecap(enc.val, skR) = Ok(k.val.ss)
                    /\ \A skS \in SenderSks, pkS \in SenderPks :
                         LET k   == KemAuthEncap(e, pkR, skS)
                             enc == EncFromBytes(k.val.enc)
                         IN  k.ok /\ PkBytes(pkS) = SkToPkBytes(skS) =>
                               enc.ok /\ KemAuthDecap(enc.val, skR, pkS) = Ok(k.val.ss)
  BY DEF KemFollows
<1> DEFINE E == <<e, "canonical">>
<1>1. DhHeld(skR) /\ pkR = skR.pk_bytes
  BY DEF OverDh
<1>2. PICK k : DhStored(skR, k)
  BY <1>1, DhHeldIsStored
<1> DEFINE R == <<k, "canonical">>
<1>3. pkR = R
  BY <1>1, <1>2 DEF DhStored
<1>4. EncFromBytes(E) = Ok(E)
  BY DEF OverDh, DhEncFromBytes
<1>5. ASSUME KemEncap(e, pkR).ok
      PROVE  LET x == KemEncap(e, pkR) IN
             x.val.enc = E /\ KemDecap(E, skR) = Ok(x.val.ss)
  <2>1. DhEncap(e, R).ok /\ KemEncap(e, pkR) = DhEncap(e, R)
    BY <1>3, <1>5 DEF OverDh
  <2>2. Dh(E, R).ok /\ DhEncap(e, R).val.enc = E
    <3>1. \A skS : DhEncap(e, R).ok => Dh(E, R).ok /\ DhEncap(e, R).val.enc = E
      BY DhEncapHas
    <3> QED  BY <2>1, <3>1
  <2>3. DhPkFromBytes(skR.pk_bytes) = Ok(R)
    BY <1>1, <1>3, <2>2, ParsesBack
  <2>4. DhDecap(E, skR) = Ok(DhEncap(e, R).val.ss)
    BY <1>1, <2>1, <2>2, <2>3, DhAgrees, Results
  <2> QED  BY <2>1, <2>2, <2>4 DEF OverDh
<1>6. ASSUME NEW skS \in SenderSks, NEW pkS \in SenderPks,
             KemAuthEncap(e, pkR, skS).ok, PkBytes(pkS) = SkToPkBytes(skS)
      PROVE  LET x == KemAuthEncap(e, pkR, skS) IN
             x.val.enc = E /\ KemAuthDecap(E, skR, pkS) = Ok(x.val.ss)
  <2>1. /\ DhAuthEncap(e, R, skS).ok /\ KemAuthEncap(e, pkR, skS) = DhAuthEncap(e, R, skS)
        /\ DhHeld(skS) /\ pkS = skS.pk_bytes
    BY <1>3, <1>6 DEF OverDh
  <2>2. PICK f : DhStored(skS, f)
    BY <2>1, DhHeldIsStored
  <2> DEFINE S == <<f, "canonical">>
  <2>3. skS.sk = S /\ skS.pk_bytes = S
    BY <2>2 DEF DhStored
  <2>4. Dh(E, R).ok /\ Dh(S, R).ok /\ DhAuthEncap(e, R, skS).val.enc = E
    BY <2>1, <2>3, DhEncapHas
  <2>5. DhPkFromBytes(skR.pk_bytes) = Ok(R)
    BY <1>1, <1>3, <2>4, ParsesBack
  <2>6. DhPkFromBytes(skS.pk_bytes) = Ok(S)
    BY <2>3, <2>4, ParsesBack
  <2>7. DhAuthDecap(E, skR, S) = Ok(DhAuthEncap(e, R, skS).val.ss)
    <3> DEFINE pk  == DhPkFromBytes(skR.pk_bytes)
               pkF == DhPkFromBytes(skS.pk_bytes)
               r   == DhAuthEncap(e, pk.val, skS)
    <3>1. pk.ok /\ r.ok => DhAuthDecap(r.val.enc, skR, pkF.val) = Ok(r.val.ss)
      BY <1>1, <2>1, DhAuthAgrees
    <3>2. pk.ok /\ pk.val = R /\ pkF.val = S
      BY <2>5, <2>6, Results
    <3> HIDE DEF pk, pkF
    <3> QED  BY <2>1, <2>4, <3>1, <3>2
  <2> QED  BY <2>1, <2>3, <2>4, <2>7 DEF OverDh
<1> QED  BY <1>4, <1>5, <1>6, Results
\* What a set-up over DHKEM has for a shared secret.
LEMMA DhSecretIs ==
    ASSUME OverDh, NEW t, NEW ss, SecretOf(t, ss)
    PROVE  /\ ss = IF IsAuthMode(t.mode) THEN DhAuthSecret(t.enc, t.pkR, t.pkS)
                                         ELSE DhBaseSecret(t.enc, t.pkR)
           /\ IsAuthMode(t.mode) <=> t.pkS # NoKey
<1>1. CASE \E e \in Ephemerals, a \in SenderArgs :
             LET k == SenderKem(e, a)
             IN  k.ok /\ ss = k.val.ss /\ t = SenderTranscript(a, k.val.enc)
  <2>1. PICK e \in Ephemerals, a \in SenderArgs :
          LET k == SenderKem(e, a)
          IN  k.ok /\ ss = k.val.ss /\ t = SenderTranscript(a, k.val.enc)
    BY <1>1
  <2> DEFINE k == SenderKem(e, a)
  <2>2. /\ t.mode = a.mode /\ t.enc = k.val.enc /\ t.pkR = a.pkR
        /\ t.pkS = IF IsAuthMode(a.mode) THEN a.skS.pk_bytes ELSE NoKey
    <3>1. PkBytes(a.pkR) = a.pkR /\ SkToPkBytes(a.skS) = a.skS.pk_bytes
      BY DEF OverDh
    <3> QED  BY <2>1, <3>1, TranscriptFields DEF SenderTranscript
  <2>3. CASE IsAuthMode(a.mode)
    <3>1. a.skS \in SenderSks /\ DhHeld(a.skS)
      BY <2>3, SenderArgsHave DEF OverDh
    <3>2. k = DhAuthEncap(e, a.pkR, a.skS)
      BY <2>3 DEF SenderKem, OverDh
    <3>3. k.val.ss = DhAuthSecret(k.val.enc, a.pkR, a.skS.pk_bytes)
      BY <2>1, <3>1, <3>2, DhBinds
    <3>4. a.skS.pk_bytes # NoKey
      BY <3>1 DEF OverDh
    <3> HIDE DEF k
    <3> QED  BY <2>1, <2>2, <2>3, <3>3, <3>4 DEF k
  <2>4. CASE ~IsAuthMode(a.mode)
    <3>1. k = DhEncap(e, a.pkR)
      BY <2>4 DEF SenderKem, OverDh
    <3>2. DhHeld(DhKeyPair(e))
      BY DEF DhHeld
    <3>3. k.val.ss = DhBaseSecret(k.val.enc, a.pkR)
      BY <2>1, <3>1, <3>2, DhBinds
    <3> HIDE DEF k
    <3> QED  BY <2>1, <2>2, <2>4, <3>3 DEF k
  <2> QED  BY <2>3, <2>4
<1>2. CASE \E b \in ReceiverArgsFor(AllEncs) :
             /\ EncFromBytes(b.enc).ok /\ ReceiverKem(b).ok
             /\ ss = ReceiverKem(b).val /\ t = ReceiverTranscript(b)
  <2>1. PICK b \in ReceiverArgsFor(AllEncs) :
          /\ EncFromBytes(b.enc).ok /\ ReceiverKem(b).ok
          /\ ss = ReceiverKem(b).val /\ t = ReceiverTranscript(b)
    BY <1>2
  <2>2. /\ t.mode = b.mode /\ t.enc = b.enc /\ t.pkR = b.skR.pk_bytes
        /\ t.pkS = IF IsAuthMode(b.mode) THEN b.pkS ELSE NoKey
    <3>1. PkBytes(b.pkS) = b.pkS /\ SkToPkBytes(b.skR) = b.skR.pk_bytes
      BY DEF OverDh
    <3> QED  BY <2>1, <3>1, TranscriptFields DEF ReceiverTranscript
  <2>3. EncFromBytes(b.enc).val = b.enc
    BY <2>1, Results DEF OverDh, DhEncFromBytes
  <2>4. /\ DhHeld(b.skR) /\ (IsAuthMode(b.mode) => b.pkS # NoKey)
    BY DEF ReceiverArgsFor, OverDh
  <2>5. CASE IsAuthMode(b.mode)
    <3>1. ReceiverKem(b) = DhAuthDecap(b.enc, b.skR, b.pkS)
      BY <2>3, <2>5 DEF ReceiverKem, OverDh
    <3>2. ReceiverKem(b).val = DhAuthSecret(b.enc, b.skR.pk_bytes, b.pkS)
      BY <2>1, <2>4, <3>1, DhBinds
    <3> QED  BY <2>1, <2>2, <2>4, <2>5, <3>2
  <2>6. CASE ~IsAuthMode(b.mode)
    <3>1. ReceiverKem(b) = DhDecap(b.enc, b.skR)
      BY <2>3, <2>6 DEF ReceiverKem, OverDh
    <3>2. ReceiverKem(b).val = DhBaseSecret(b.enc, b.skR.pk_bytes)
      BY <2>1, <2>4, <3>1, DhBinds
    <3> QED  BY <2>1, <2>2, <2>6, <3>2
  <2> QED  BY <2>5, <2>6
<1> QED  BY <1>1, <1>2 DEF SecretOf

\* kem_context names enc and both keys, and an absent sender key is no key.
LEMMA DhBindsTranscripts == OverDh => KemBinds
<1> SUFFICES ASSUME OverDh, NEW t, NEW u, NEW x, NEW y, SecretOf(t, x), SecretOf(u, y)
             PROVE  x = y <=> t.enc = u.enc /\ t.pkR = u.pkR /\ t.pkS = u.pkS
  BY DEF KemBinds
<1>1. /\ x = IF IsAuthMode(t.mode) THEN DhAuthSecret(t.enc, t.pkR, t.pkS)
                                   ELSE DhBaseSecret(t.enc, t.pkR)
      /\ IsAuthMode(t.mode) <=> t.pkS # NoKey
  BY DhSecretIs
<1>2. /\ y = IF IsAuthMode(u.mode) THEN DhAuthSecret(u.enc, u.pkR, u.pkS)
                                   ELSE DhBaseSecret(u.enc, u.pkR)
      /\ IsAuthMode(u.mode) <=> u.pkS # NoKey
  BY DhSecretIs
<1>3. \A a, b, c, d, e, f :
        /\ DhBaseSecret(a, b) = DhBaseSecret(d, e) => a = d /\ b = e
        /\ DhAuthSecret(a, b, c) = DhAuthSecret(d, e, f) => a = d /\ b = e /\ c = f
        /\ DhBaseSecret(a, b) # DhAuthSecret(d, e, f)
  BY DhBinds
<1>4. ASSUME x = y PROVE t.enc = u.enc /\ t.pkR = u.pkR /\ t.pkS = u.pkS
  BY <1>1, <1>2, <1>3, <1>4
<1> QED  BY <1>1, <1>2, <1>4

\* Every encapsulation is the public key of the scalar it drew.
LEMMA DhEncsDiffer == OverDh => EncsDiffer
<1> SUFFICES ASSUME OverDh, NEW e \in Ephemerals, NEW a \in SenderArgs, SenderKem(e, a).ok
             PROVE  SenderKem(e, a).val.enc = <<e, "canonical">>
  BY DEF EncsDiffer
<1>1. CASE IsAuthMode(a.mode)
  <2>1. SenderKem(e, a) = DhAuthEncap(e, a.pkR, a.skS)
    BY <1>1 DEF SenderKem, OverDh
  <2>2. DhAuthEncap(e, a.pkR, a.skS).ok
    BY <2>1
  <2>3. DhAuthEncap(e, a.pkR, a.skS).val.enc = <<e, "canonical">>
    <3>1. \A x, y, z : LET r == DhAuthEncap(x, y, z)
                       IN  r.ok => r.val.enc = <<x, "canonical">>
      BY DhEncapHas
    <3> QED  BY <2>2, <3>1
  <2> QED  BY <2>1, <2>3
<1>2. CASE ~IsAuthMode(a.mode)
  <2>1. SenderKem(e, a) = DhEncap(e, a.pkR)
    BY <1>2 DEF SenderKem, OverDh
  <2>2. DhEncap(e, a.pkR).ok
    BY <2>1
  <2>3. DhEncap(e, a.pkR).val.enc = <<e, "canonical">>
    BY <2>2, DhEncapHas
  <2> QED  BY <2>1, <2>3
<1> QED  BY <1>1, <1>2

\* The errors of DHKEM.
DhErrorNames == {"EncapError", "InvalidPublicKey", "InvalidEncappedKey"}

\* What DhKem is made of fails with no other.
LEMMA DhErrors ==
    /\ \A sk, pk : ~Dh(sk, pk).ok => Dh(sk, pk).err \in DhErrorNames
    /\ \A b : ~DhPkFromBytes(b).ok => DhPkFromBytes(b).err \in DhErrorNames
    /\ \A b : ~DhEncFromBytes(b).ok => DhEncFromBytes(b).err \in DhErrorNames
    /\ \A dhs, pieces : ExtractAndExpand(dhs, pieces).ok
<1>1. \A s : ~RejectZero(s).ok => RejectZero(s).err \in DhErrorNames
  BY Results DEF RejectZero, DhErrorNames
<1>2. \A sk, pk : \E s : Dh(sk, pk) = RejectZero(s)
  BY CurveAssumption DEF Dh, X25519Dh, X448Dh, NistDh
<1>3. \A b : ~DhPkFromBytes(b).ok => DhPkFromBytes(b).err \in DhErrorNames
  BY CurveAssumption, Results
     DEF DhPkFromBytes, X25519PkFromBytes, X448PkFromBytes, NistPkFromBytes, DhErrorNames
<1>4. \A b : ~DhEncFromBytes(b).ok => DhEncFromBytes(b).err \in DhErrorNames
  BY Results DEF DhEncFromBytes, DhErrorNames
<1>5. \A dhs, pieces : ExtractAndExpand(dhs, pieces).ok
  BY ExpandsTo, Results
<1>6. \A sk, pk : ~Dh(sk, pk).ok => Dh(sk, pk).err \in DhErrorNames
  BY <1>1, <1>2
<1> QED  BY <1>3, <1>4, <1>5, <1>6

\* So a set-up over DHKEM fails with one of them.
LEMMA DhFailures == OverDh => KemErrorsAre(DhErrorNames)
<1>1. ASSUME NEW e, NEW pkR, NEW skS
      PROVE  /\ LET r == DhEncap(e, pkR) IN ~r.ok => r.err \in DhErrorNames
             /\ LET r == DhAuthEncap(e, pkR, skS) IN ~r.ok => r.err \in DhErrorNames
  <2>1. \A dhs, pieces, enc : WithEnc(ExtractAndExpand(dhs, pieces), enc).ok
    BY DhErrors, Results DEF WithEnc
  <2> QED  BY <2>1, DhErrors DEF DhEncap, DhAuthEncap
<1>2. ASSUME NEW enc, NEW skR, NEW pkS
      PROVE  /\ LET r == DhDecap(enc, skR) IN ~r.ok => r.err \in DhErrorNames
             /\ LET r == DhAuthDecap(enc, skR, pkS) IN ~r.ok => r.err \in DhErrorNames
  BY DhErrors DEF DhDecap, DhAuthDecap
<1>3. ASSUME OverDh, NEW e, NEW a, ~SenderKem(e, a).ok
      PROVE  SenderKem(e, a).err \in DhErrorNames
  BY <1>1, <1>3 DEF SenderKem, OverDh
<1>4. ASSUME OverDh, NEW b, NEW r \in {EncFromBytes(b.enc), ReceiverKem(b)}, ~r.ok
      PROVE  r.err \in DhErrorNames
  BY <1>2, <1>4, DhErrors DEF ReceiverKem, OverDh
<1> QED  BY <1>3, <1>4 DEF KemErrorsAre, KemCalls
----------------------------------------------------------------------------
\* HPKE over the post-quantum KEMs.

IsCiphertext(enc) == \E coins, seed, form : enc = <<coins, seed, form>>

\* A private key of the crate whose seed is not all zero bytes, and what is left
\* of one that was zeroized.
Whole(sk)    == PqHeld(sk) /\ sk.seed # ZeroSeed
Scrubbed(sk) == \E x : Whole(x) /\ sk = PqZeroize(x)

\* Hpke's KEM is PqKem, which has no AuthKem; senders hold the public keys of
\* whole private keys, and bytes that reach a recipient have ciphertexts' parts.
OverPq ==
    /\ \A e, pkR : KemEncap(e, pkR) = PqEncap(e, pkR)
    /\ \A enc, skR : KemDecap(enc, skR) = PqDecap(enc, skR)
    /\ \A b : EncFromBytes(b) = PqEncFromBytes(b)
    /\ \A e, pkR, skS : ~KemAuthEncap(e, pkR, skS).ok
    /\ \A pk : PkBytes(pk) = pk
    /\ \A sk : SkToPkBytes(sk) = PqPublic(sk.seed)
    /\ Modes \subseteq {"Base", "Psk"}
    /\ \A pk \in RecipientPks : \E seed : seed # ZeroSeed /\ pk = PqPublic(seed)
    /\ \A sk \in RecipientSks : Whole(sk) \/ Scrubbed(sk)
    /\ \A enc \in StrayEncs : IsCiphertext(enc)
    /\ \A enc : IsCiphertext(enc) => \A x \in Tampered(enc) : IsCiphertext(x)

\* The modes of a KEM without an AuthKem.
LEMMA PqModes ==
    ASSUME OverPq
    PROVE  /\ \A a \in SenderArgs : ~IsAuthMode(a.mode)
           /\ \A encs : \A b \in ReceiverArgsFor(encs) : ~IsAuthMode(b.mode)
<1>1. \A m \in Modes : ~IsAuthMode(m)
  BY DEF OverPq, IsAuthMode
<1>2. \A a \in SenderArgs : a.mode \in Modes
  BY DEF SenderArgs
<1>3. \A encs : \A b \in ReceiverArgsFor(encs) : b.mode \in Modes
  BY DEF ReceiverArgsFor
<1> QED  BY <1>1, <1>2, <1>3

\* What an encapsulation returns.
LEMMA PqSends ==
    ASSUME OverPq, NEW e, NEW a \in SenderArgs
    PROVE  \E seed : /\ seed # ZeroSeed /\ a.pkR = PqPublic(seed)
                     /\ SenderKem(e, a) = Ok([ss |-> <<"ss", seed, e>>,
                                              enc |-> <<e, seed, "exact">>])
<1>1. SenderKem(e, a) = PqEncap(e, a.pkR)
  BY PqModes DEF SenderKem, OverPq
<1>2. PICK seed : seed # ZeroSeed /\ a.pkR = PqPublic(seed)
  BY SenderArgsHave DEF OverPq
<1>3. PqEncap(e, PqPublic(seed))
        = Ok([ss |-> <<"ss", seed, e>>, enc |-> <<e, seed, "exact">>])
  BY DEF PqEncap, PqPublic
<1> QED  BY <1>1, <1>2, <1>3

\* Whatever reaches a recipient has the parts of a ciphertext.
LEMMA PqEncs == ASSUME OverPq, NEW enc \in AllEncs PROVE IsCiphertext(enc)
<1>1. ASSUME NEW s \in SenderSetups PROVE IsCiphertext(s.enc)
  <2>1. PICK e \in Ephemerals, a \in SenderArgs : SetupS(e, a).ok /\ s = SetupS(e, a).val
    BY DEF SenderSetups, Oks
  <2>2. PICK seed :
          SenderKem(e, a) = Ok([ss |-> <<"ss", seed, e>>, enc |-> <<e, seed, "exact">>])
    BY PqSends
  <2>3. s.enc = SenderKem(e, a).val.enc
    BY <2>1, SenderEnc, TranscriptFields DEF SenderTranscript
  <2>4. s.enc = <<e, seed, "exact">>
    BY <2>2, <2>3, Results
  <2> QED  BY <2>4 DEF IsCiphertext
<1>2. CASE enc \in {s.enc : s \in SenderSetups}
  BY <1>1, <1>2
<1>3. CASE enc \in StrayEncs
  BY <1>3 DEF OverPq
<1>4. CASE enc \in UNION {Tampered(x) : x \in {s.enc : s \in SenderSetups}}
  BY <1>1, <1>4 DEF OverPq
<1> QED  BY <1>2, <1>3, <1>4 DEF AllEncs

\* What a private key is worth: whole, it is expanded; scrubbed, it is refused.
LEMMA PqKeys ==
    ASSUME NEW sk
    PROVE  /\ Whole(sk) => PqExpanded(sk, sk.seed) /\ sk.dk # Gone
           /\ Scrubbed(sk) => sk.seed = ZeroSeed /\ sk.dk = Gone
<1>1. \A x, y : <<"dk", x>> # Gone /\ (PqExpanded(y, x) => y.seed = x /\ y.dk = <<"dk", x>>)
  BY DEF Gone, PqExpanded
<1>2. Whole(sk) => PqExpanded(sk, sk.seed) /\ sk.dk # Gone
  BY <1>1, PqHeldIsExpanded DEF Whole
<1>3. Scrubbed(sk) => sk.seed = ZeroSeed /\ sk.dk = Gone
  BY DEF Scrubbed, PqZeroize
<1> QED  BY <1>2, <1>3

\* Decapsulation by a recipient's key: of a whole one, what PqBinds says.
LEMMA PqReceives ==
    ASSUME OverPq, NEW b \in ReceiverArgsFor(AllEncs),
           EncFromBytes(b.enc).ok, ReceiverKem(b).ok
    PROVE  /\ Whole(b.skR) /\ IsCiphertext(b.enc)
           /\ ReceiverKem(b).val = PqSecretOf(b.enc, b.skR.seed)
<1>1. b.skR \in RecipientSks /\ b.enc \in AllEncs
  <2> HIDE DEF AllEncs
  <2> QED  BY DEF ReceiverArgsFor
<1>2. EncFromBytes(b.enc).val = b.enc
  BY Results DEF OverPq, PqEncFromBytes
<1>3. ReceiverKem(b) = PqDecap(b.enc, b.skR)
  BY <1>2, PqModes DEF ReceiverKem, OverPq
<1>4. b.skR.dk # Gone
  BY <1>3, Results DEF PqDecap
<1>5. Whole(b.skR)
  BY <1>1, <1>4, PqKeys DEF OverPq
<1>6. ReceiverKem(b).val = PqSecretOf(b.enc, b.skR.seed)
  BY <1>3, <1>5, PqBinds DEF Whole
<1> QED  BY <1>1, <1>5, <1>6, PqEncs

\* pq.rs, encap and decap, as HpkeProofs wants them: the private key of a public
\* key that a sender holds is whole.
LEMMA PqFollows == OverPq => KemFollows
<1> SUFFICES ASSUME OverPq, NEW e \in Ephemerals, NEW pkR \in RecipientPks,
                    NEW skR \in RecipientSks, SkToPkBytes(skR) = PkBytes(pkR)
             PROVE  LET k   == KemEncap(e, pkR)
                        enc == EncFromBytes(k.val.enc)
                    IN  enc.ok /\ KemDecap(enc.val, skR) = Ok(k.val.ss)
  BY DEF KemFollows, OverPq
<1>1. PICK seed : seed # ZeroSeed /\ pkR = PqPublic(seed)
  BY DEF OverPq
<1> DEFINE ct == <<e, seed, "exact">>
           ss == <<"ss", seed, e>>
<1>2. skR.seed = seed
  <2>1. PqPublic(skR.seed) = PqPublic(seed)
    BY <1>1 DEF OverPq
  <2> QED  BY <2>1 DEF PqPublic
<1>3. Whole(skR)
  BY <1>1, <1>2, PqKeys DEF OverPq
<1>4. skR.dk = <<"dk", seed>> /\ skR.dk # Gone
  BY <1>2, <1>3, PqKeys DEF PqExpanded
<1>5. KemEncap(e, pkR) = Ok([ss |-> ss, enc |-> ct])
  BY <1>1 DEF OverPq, PqEncap, PqPublic
<1>6. EncFromBytes(ct) = Ok(ct)
  BY DEF OverPq, PqEncFromBytes
<1>7. KemDecap(ct, skR) = Ok(ss)
  <2>1. PqDecap(ct, skR) = Ok(Decapsulate(skR.dk, ct))
    BY <1>4 DEF PqDecap
  <2>2. Decapsulate(<<"dk", seed>>, ct) = ss
    BY DEF Decapsulate
  <2> QED  BY <1>4, <2>1, <2>2 DEF OverPq
<1> HIDE DEF ct, ss
<1> QED  BY <1>5, <1>6, <1>7, Results

\* What a set-up over these KEMs has for a shared secret.
LEMMA PqSecretIs ==
    ASSUME OverPq, NEW t, NEW ss, SecretOf(t, ss)
    PROVE  /\ IsCiphertext(t.enc) /\ t.pkS = NoKey
           /\ \E seed : t.pkR = PqPublic(seed) /\ ss = PqSecretOf(t.enc, seed)
<1>1. CASE \E e \in Ephemerals, a \in SenderArgs :
             LET k == SenderKem(e, a)
             IN  k.ok /\ ss = k.val.ss /\ t = SenderTranscript(a, k.val.enc)
  <2>1. PICK e \in Ephemerals, a \in SenderArgs :
          LET k == SenderKem(e, a)
          IN  k.ok /\ ss = k.val.ss /\ t = SenderTranscript(a, k.val.enc)
    BY <1>1
  <2>2. PICK seed : /\ a.pkR = PqPublic(seed)
                    /\ SenderKem(e, a) = Ok([ss |-> <<"ss", seed, e>>,
                                             enc |-> <<e, seed, "exact">>])
    BY PqSends
  <2>3. ss = <<"ss", seed, e>> /\ t = SenderTranscript(a, <<e, seed, "exact">>)
    BY <2>1, <2>2, Results
  <2>4. t.enc = <<e, seed, "exact">> /\ t.pkR = PqPublic(seed) /\ t.pkS = NoKey
    <3>1. PkBytes(a.pkR) = PqPublic(seed) /\ ~IsAuthMode(a.mode)
      BY <2>2, PqModes DEF OverPq
    <3> QED  BY <2>3, <3>1, TranscriptFields DEF SenderTranscript
  <2>5. PqSecretOf(<<e, seed, "exact">>, seed) = <<"ss", seed, e>>
    BY DEF PqSecretOf, Decapsulate
  <2> QED  BY <2>3, <2>4, <2>5 DEF IsCiphertext
<1>2. CASE \E b \in ReceiverArgsFor(AllEncs) :
             /\ EncFromBytes(b.enc).ok /\ ReceiverKem(b).ok
             /\ ss = ReceiverKem(b).val /\ t = ReceiverTranscript(b)
  <2>1. PICK b \in ReceiverArgsFor(AllEncs) :
          /\ EncFromBytes(b.enc).ok /\ ReceiverKem(b).ok
          /\ ss = ReceiverKem(b).val /\ t = ReceiverTranscript(b)
    BY <1>2
  <2>2. t.enc = b.enc /\ t.pkR = PqPublic(b.skR.seed) /\ t.pkS = NoKey
    <3>1. SkToPkBytes(b.skR) = PqPublic(b.skR.seed) /\ ~IsAuthMode(b.mode)
      BY PqModes DEF OverPq
    <3> QED  BY <2>1, <3>1, TranscriptFields DEF ReceiverTranscript
  <2>3. IsCiphertext(b.enc) /\ ss = PqSecretOf(b.enc, b.skR.seed)
    BY <2>1, PqReceives
  <2> QED  BY <2>2, <2>3
<1> QED  BY <1>1, <1>2 DEF SecretOf

\* Secrets name ciphertext and seed, implicitly rejected ones too.
LEMMA PqBindsTranscripts == OverPq => KemBinds
<1> SUFFICES ASSUME OverPq, NEW t, NEW u, NEW x, NEW y, SecretOf(t, x), SecretOf(u, y)
             PROVE  x = y <=> t.enc = u.enc /\ t.pkR = u.pkR /\ t.pkS = u.pkS
  BY DEF KemBinds
<1>1. t.pkS = NoKey /\ u.pkS = NoKey
  BY PqSecretIs
<1>2. PICK p : t.pkR = PqPublic(p) /\ x = PqSecretOf(t.enc, p)
  BY PqSecretIs
<1>3. PICK q : u.pkR = PqPublic(q) /\ y = PqSecretOf(u.enc, q)
  BY PqSecretIs
<1>4. IsCiphertext(t.enc) /\ IsCiphertext(u.enc)
  BY PqSecretIs
<1>5. t.pkR = u.pkR <=> p = q
  BY <1>2, <1>3 DEF PqPublic
<1>6. ASSUME x = y PROVE t.enc = u.enc /\ p = q
  <2>1. PICK a, s, f : t.enc = <<a, s, f>>
    BY <1>4 DEF IsCiphertext
  <2>2. PICK b, r, g : u.enc = <<b, r, g>>
    BY <1>4 DEF IsCiphertext
  <2>3. PqSecretOf(<<a, s, f>>, p) = PqSecretOf(<<b, r, g>>, q)
    BY <1>2, <1>3, <1>6, <2>1, <2>2
  <2>4. <<a, s, f>> = <<b, r, g>> /\ p = q
    BY <2>3, PqBinds
  <2> QED  BY <2>1, <2>2, <2>4
<1> QED  BY <1>1, <1>2, <1>3, <1>5, <1>6

\* A ciphertext names the randomness it was made with.
LEMMA PqEncsDiffer == OverPq => EncsDiffer
<1>1. ASSUME OverPq, NEW e, NEW a \in SenderArgs
      PROVE  \E seed : SenderKem(e, a).val.enc = <<e, seed, "exact">>
  <2>1. PICK seed :
          SenderKem(e, a) = Ok([ss |-> <<"ss", seed, e>>, enc |-> <<e, seed, "exact">>])
    BY <1>1, PqSends
  <2> QED  BY <2>1, Results
<1> QED  BY <1>1 DEF EncsDiffer

\* Encapsulation never fails; the other side fails with one of two errors.
PqErrorNames == {"DecapError", "InvalidEncappedKey"}

\* The post-quantum KEMs fail with the errors they name.
LEMMA PqFailures == OverPq => KemErrorsAre(PqErrorNames)
<1> USE DEF PqErrorNames
<1>1. ASSUME OverPq, NEW e, NEW a \in SenderArgs PROVE SenderKem(e, a).ok
  <2>1. \E x : SenderKem(e, a) = Ok(x)
    BY <1>1, PqSends
  <2> QED  BY <2>1, Results
<1>2. \A enc, sk : LET r == PqDecap(enc, sk) IN ~r.ok => r.err \in PqErrorNames
  BY Results DEF PqDecap
<1>3. \A b : LET r == PqEncFromBytes(b) IN ~r.ok => r.err \in PqErrorNames
  BY Results DEF PqEncFromBytes
<1>4. ASSUME OverPq, NEW b \in ReceiverArgsFor(AllEncs),
             NEW r \in {EncFromBytes(b.enc), ReceiverKem(b)}, ~r.ok
      PROVE  r.err \in PqErrorNames
  <2>1. ~IsAuthMode(b.mode)
    BY <1>4, PqModes
  <2> QED  BY <1>2, <1>3, <1>4, <2>1 DEF ReceiverKem, OverPq
<1> QED  BY <1>1, <1>4 DEF KemErrorsAre, KemCalls
----------------------------------------------------------------------------
\* The theorems about HPKE, over the KEMs of the crate.

\* kem/dh.rs keeps every promise that HPKE's theorems need of a KEM.
THEOREM DhIsAKem ==
    OverDh => KemFollows /\ KemBinds /\ EncsDiffer /\ KemErrors
<1>1. OverDh => KemErrors
  BY DhFailures DEF KemErrors, KemErrorsAre, DhErrorNames
<1> QED  BY <1>1, DhFollows, DhBindsTranscripts, DhEncsDiffer

\* kem/pq.rs does too.
THEOREM PqIsAKem ==
    OverPq => KemFollows /\ KemBinds /\ EncsDiffer /\ KemErrors
<1>1. OverPq => KemErrors
  BY PqFailures DEF KemErrors, KemErrorsAre, PqErrorNames
<1> QED  BY <1>1, PqFollows, PqBindsTranscripts, PqEncsDiffer

\* What either of them gives.
Over == OverDh \/ OverPq

\* lib.rs over kem/dh.rs or kem/pq.rs: keys name transcripts, the two roles
\* agree, no nonce is used twice and exports are kept apart, with nothing left
\* to assume of the KEM.
THEOREM HpkeIsSafe ==
    SuitesAreKnown /\ AbsentIsNone /\ NoncesAreBytes /\ Over =>
        (Spec => [](KeysBindTranscript /\ PeerCanFollow /\ NonceNeverReused
                      /\ ExportsSeparate /\ AeadInitErrorUnreachable))
<1> SUFFICES ASSUME SuitesAreKnown, AbsentIsNone, NoncesAreBytes, Over
             PROVE  Spec => [](KeysBindTranscript /\ PeerCanFollow /\ NonceNeverReused
                                 /\ ExportsSeparate /\ AeadInitErrorUnreachable)
  OBVIOUS
<1>1. KemFollows /\ KemBinds /\ EncsDiffer /\ KemErrors
  BY DhIsAKem, PqIsAKem DEF Over
<1>2. Spec => []KeysBindTranscript
  BY <1>1, Binding
<1>3. Spec => []PeerCanFollow
  BY <1>1, Agreement
<1>4. Spec => []NonceNeverReused
  BY <1>1, NonceUniqueness DEF Assumed
<1>5. Spec => []ExportsSeparate
  BY <1>1, Separation
<1>6. Spec => []AeadInitErrorUnreachable
  BY <1>1, KeysFit
<1> QED  BY <1>2, <1>3, <1>4, <1>5, <1>6, PTL

\* And HPKE over them is a secure channel.
THEOREM HpkeIsAChannel ==
    SuitesAreKnown /\ AbsentIsNone /\ NoncesAreBytes /\ Over /\ MaxSeq > 0 =>
        (Spec => ImplementsChannel)
<1>1. Over => KemBinds /\ EncsDiffer
  BY DhIsAKem, PqIsAKem DEF Over
<1> QED  BY <1>1, HpkeImplementsChannel DEF Assumed

\* Over them, what Session needs of set-ups is that every suite seals and that a
\* nonce can be expanded.
OverSession ==
    /\ SuitesAreKnown /\ AbsentIsNone /\ NoncesAreBytes /\ Over
    /\ \A suite \in Suites : CanSeal(suite)
    /\ NonceLen <= 255 * 32
    /\ \A k, n, x, s : [cipher |-> k, base_nonce |-> n, exporter_secret |-> x, seq |-> s] # Absent

\* That is all that SessionAssumed asks for.
LEMMA OverIsAssumed == OverSession => SessionAssumed
<1>1. Over => KemBinds /\ EncsDiffer
  BY DhIsAKem, PqIsAKem DEF Over
<1>2. Over =>
        KemErrorsAre({"EncapError", "DecapError", "InvalidPublicKey", "InvalidEncappedKey"})
  BY DhFailures, PqFailures DEF Over, KemErrorsAre, DhErrorNames, PqErrorNames
<1> QED  BY <1>1, <1>2 DEF OverSession, SessionAssumed, Assumed

\* The contexts that setup_* returns over them are those of module Session.
THEOREM HpkeIsASession == OverSession => (SessionSpec => ImplementsSession)
BY OverIsAssumed, HpkeImplementsSession

\* So they run out after exactly u64::MAX messages, and open in order.
THEOREM HpkeContextsAreSafe ==
    OverSession /\ DamagedIsNone =>
        (SessionSpec => [](Sess!LimitIsExact /\ Sess!OpenedInOrder))
BY OverIsAssumed, SetupContextsAreSafe

\* pq.rs:655-658: a zeroized private key sets no recipient up, whichever bytes
\* it is given, in any mode and suite.
THEOREM ZeroizedNeverReceives ==
    SuitesAreKnown /\ AbsentIsNone /\ OverPq => (Spec => []ZeroizedKeyIsRefused)
<1>1. ASSUME OverPq PROVE SetupInv => ZeroizedKeyIsRefused
  <2> SUFFICES ASSUME SetupInv, NEW r \in Receivers, tr[r] # Absent
               PROVE  tr[r].pkR # PqPublic(ZeroSeed)
    BY DEF ZeroizedKeyIsRefused
  <2>1. r \in Contexts /\ r \notin Senders
    BY ContextAssumption DEF Contexts
  <2>2. PICK x : ReceiverResult(tr[r], x)
    BY <2>1 DEF SetupInv, MadeBySetup, Result
  <2>3. PICK b \in ReceiverArgsFor(AllEncs) :
          SetupR(b).ok /\ tr[r] = ReceiverTranscript(b)
    BY <2>2 DEF ReceiverResult
  <2>4. EncFromBytes(b.enc).ok /\ ReceiverKem(b).ok
    <3> DEFINE enc == EncFromBytes(b.enc)
               k   == ReceiverKem(b)
               c   == KeySchedule(b.mode, b.suite, k.val, b.info, b.psk)
    <3>1. SetupR(b) = IF ~enc.ok THEN enc ELSE IF ~k.ok THEN k ELSE c
      BY ReceiverSetup
    <3> HIDE DEF enc, k, c
    <3>2. enc.ok /\ k.ok
      BY <2>3, <3>1
    <3> QED  BY <3>2 DEF enc, k
  <2>5. b.skR.seed # ZeroSeed
    BY <1>1, <2>4, PqReceives DEF Whole
  <2>6. tr[r].pkR = PqPublic(b.skR.seed)
    <3>1. SkToPkBytes(b.skR) = PqPublic(b.skR.seed)
      BY <1>1 DEF OverPq
    <3> QED  BY <2>3, <3>1, TranscriptFields DEF ReceiverTranscript
  <2> QED  BY <2>5, <2>6 DEF PqPublic
<1>2. ASSUME SuitesAreKnown, AbsentIsNone, OverPq PROVE Spec => []ZeroizedKeyIsRefused
  BY <1>1, <1>2, Invariance, PTL
<1> QED  BY <1>2
============================================================================
