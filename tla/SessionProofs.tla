--------------------------- MODULE SessionProofs ---------------------------
(***************************************************************************)
(* Theorems about Session, for every counter width, nonce length, set of   *)
(* contexts, keys and messages.                                            *)
(***************************************************************************)
EXTENDS Session, NonceProofs, TLAPS, SequenceTheorems

----------------------------------------------------------------------------
\* What the parts of a step do.

\* A ciphertext that opens is one that some sender returned.
LEMMA OpensSealed ==
    ASSUME NEW key, NEW nonce, NEW aad, NEW ct \in Network,
           AeadOpens(key, nonce, aad, ct)
    PROVE  /\ \E w \in Senders : \E i \in DOMAIN sealed[w] : ct = sealed[w][i]
           /\ ct.key = key /\ ct.nonce = nonce /\ ct.aad = aad
BY DEF AeadOpens, Network

\* A context below the limit that advances keeps its key and base nonce.
LEMMA AdvanceStep ==
    ASSUME TypeOK, NEW c \in Contexts, Live(c), ~AtLimit(c), Advance(c)
    PROVE  /\ ctx' \in [Contexts -> CtxState \cup {Absent}]
           /\ ctx'[c] \in CtxState /\ ctx'[c] # Absent
           /\ ctx'[c].seq = ctx[c].seq + 1
           /\ ctx'[c].cipher = ctx[c].cipher
           /\ ctx'[c].base_nonce = ctx[c].base_nonce
           /\ \A d \in Contexts : d # c => ctx'[d] = ctx[d]
<1>1. ctx \in [Contexts -> CtxState \cup {Absent}] /\ ctx[c] \in CtxState
  BY DEF TypeOK, Live
<1>2. ctx[c].seq \in SeqNo /\ ctx[c].seq # MaxSeq
  BY <1>1 DEF CtxState, AtLimit
<1>3. SeqSucc(ctx[c].seq) = ctx[c].seq + 1 /\ ctx[c].seq + 1 \in SeqNo
  <2>1. \A s \in SeqNo : s # MaxSeq => SeqSucc(s) = s + 1 /\ s + 1 \in SeqNo
    BY CounterAssumption DEF SeqSucc, SeqNo
  <2> QED  BY <1>2, <2>1
<1>4. /\ ctx' = [ctx EXCEPT ![c] = [ctx[c] EXCEPT !.seq = ctx[c].seq + 1]]
      /\ ctx'[c] = [ctx[c] EXCEPT !.seq = ctx[c].seq + 1]
  BY <1>1, <1>3 DEF Advance
<1>5. ctx'[c] \in CtxState
  BY <1>1, <1>3, <1>4 DEF CtxState
<1>6. ctx'[c] # Absent
  BY <1>5, SessionAssumption
<1>7. ctx' \in [Contexts -> CtxState \cup {Absent}]
  BY <1>1, <1>4, <1>5
<1>8. /\ ctx'[c].seq = ctx[c].seq + 1
      /\ ctx'[c].cipher = ctx[c].cipher
      /\ ctx'[c].base_nonce = ctx[c].base_nonce
  BY <1>1, <1>4 DEF CtxState
<1> QED  BY <1>1, <1>4, <1>5, <1>6, <1>7, <1>8

\* A set-up yields a context with its counter at zero.
LEMMA SetupStep ==
    ASSUME TypeOK, NEW c \in Contexts, NEW k \in AeadKey,
           ctx' = [ctx EXCEPT ![c] = ContextNew(k, BaseNonce[k], k)]
    PROVE  /\ ctx' \in [Contexts -> CtxState \cup {Absent}]
           /\ ctx'[c] # Absent
           /\ ctx'[c].seq = 0
           /\ ctx'[c].cipher = k
           /\ ctx'[c].base_nonce = PadNonce(BaseNonce[k])
           /\ \A d \in Contexts : d # c => ctx'[d] = ctx[d]
<1>1. ctx \in [Contexts -> CtxState \cup {Absent}]
  BY DEF TypeOK
<1>2. PadNonce(BaseNonce[k]) \in NonceBuf
  BY SessionAssumption, PadType
<1>3. ContextNew(k, BaseNonce[k], k) \in CtxState
  BY <1>2, CounterAssumption DEF ContextNew, CtxState, SeqNo
<1> QED  BY <1>1, <1>3, SessionAssumption DEF ContextNew

----------------------------------------------------------------------------
\* Type correctness.

\* Initially every variable has its type.
LEMMA TypeInit == Init => TypeOK
<1> SUFFICES ASSUME Init PROVE TypeOK
  OBVIOUS
<1>1. <<>> \in Seq(Ciphertext) /\ <<>> \in Seq(Message)
  OBVIOUS
<1> QED  BY <1>1 DEF Init, TypeOK

\* Every operation on a context keeps the types.
LEMMA TypeStep == TypeOK /\ [Next]_CtxVars => TypeOK'
<1> SUFFICES ASSUME TypeOK, [Next]_CtxVars PROVE TypeOK'
  OBVIOUS
<1> USE DEF TypeOK
<1>1. ASSUME NEW w \in Senders, NEW k \in AeadKey, SetupSender(w, k)
      PROVE  TypeOK'
  BY <1>1, SetupStep DEF SetupSender, Returns, Contexts
<1>2. ASSUME NEW r \in Receivers, NEW k \in AeadKey, SetupReceiver(r, k)
      PROVE  TypeOK'
  BY <1>2, SetupStep DEF SetupReceiver, Returns, Contexts
<1>3. ASSUME NEW w \in Senders, SealLimit(w)
      PROVE  TypeOK'
  BY <1>3 DEF SealLimit, Returns, Contexts
<1>4. ASSUME NEW w \in Senders, NEW pt \in Plaintext, SealError(w, pt)
      PROVE  TypeOK'
  BY <1>4 DEF SealError, Returns, Contexts
<1>5. ASSUME NEW w \in Senders, NEW aad \in Aad, NEW pt \in Plaintext,
             SealOk(w, aad, pt)
      PROVE  TypeOK'
  <2> DEFINE c == AeadSeal(ctx[w].cipher, NonceOf(w), aad, pt)
  <2>1. ctx[w] \in CtxState
    BY <1>5 DEF SealOk, Live, Contexts
  <2>2. c \in Ciphertext
    BY <2>1, NonceType DEF AeadSeal, NonceOf, Ciphertext, CtxState
  <2>3. sealed' \in [Senders -> Seq(Ciphertext)]
    <3> HIDE DEF c
    <3>1. sealed' = [sealed EXCEPT ![w] = Append(@, c)]
      BY <1>5 DEF SealOk, c
    <3>2. Append(sealed[w], c) \in Seq(Ciphertext)
      BY <2>2
    <3> QED  BY <3>1, <3>2
  <2>4. ctx' \in [Contexts -> CtxState \cup {Absent}]
    BY <1>5, AdvanceStep DEF SealOk, Contexts
  <2> QED  BY <1>5, <2>3, <2>4 DEF SealOk, Returns, Contexts
<1>6. ASSUME NEW r \in Receivers, OpenLimit(r)
      PROVE  TypeOK'
  BY <1>6 DEF OpenLimit, Returns, Contexts
<1>7. ASSUME NEW r \in Receivers, NEW aad \in Aad, NEW ct \in Network,
             OpenError(r, aad, ct)
      PROVE  TypeOK'
  BY <1>7 DEF OpenError, Returns, Contexts
<1>8. ASSUME NEW r \in Receivers, NEW aad \in Aad, NEW ct \in Network,
             OpenOk(r, aad, ct)
      PROVE  TypeOK'
  <2>1. \E w \in Senders : \E i \in DOMAIN sealed[w] : ct = sealed[w][i]
    BY <1>8, OpensSealed DEF OpenOk
  <2>2. ct \in Ciphertext
    BY <2>1
  <2>3. MessageOf(ct) \in Message
    BY <2>2 DEF Ciphertext, MessageOf, Message
  <2>4. Append(opened[r], MessageOf(ct)) \in Seq(Message)
    BY <2>3
  <2>5. opened' \in [Receivers -> Seq(Message)]
    BY <1>8, <2>4 DEF OpenOk
  <2>6. ctx' \in [Contexts -> CtxState \cup {Absent}]
    BY <1>8, AdvanceStep DEF OpenOk, Contexts
  <2> QED  BY <1>8, <2>5, <2>6 DEF OpenOk, Returns, Contexts
<1>9. CASE UNCHANGED CtxVars
  BY <1>9 DEF CtxVars
<1>10. ASSUME NEW c \in Contexts, NEW err \in SetupErrors, SetupFails(c, err)
       PROVE  TypeOK'
  BY <1>10 DEF SetupFails, Returns
<1>11. ASSUME NEW c \in Contexts, NEW res \in ExportResults, Export(c, res)
       PROVE  TypeOK'
  BY <1>11 DEF Export, Returns
<1> QED
  BY <1>1, <1>2, <1>3, <1>4, <1>5, <1>6, <1>7, <1>8, <1>9, <1>10, <1>11 DEF Next

\* Every variable keeps its type, for every value of the constants.
THEOREM TypeCorrect == Spec => []TypeOK
BY TypeInit, TypeStep, PTL DEF Spec

----------------------------------------------------------------------------
\* The inductive invariant, conjunct by conjunct.

\* The steps that only return something.
Refusal ==
    \/ \E c \in Contexts, err \in SetupErrors : SetupFails(c, err)
    \/ \E c \in Contexts, res \in ExportResults : Export(c, res)
    \/ \E w \in Senders : SealLimit(w)
    \/ \E w \in Senders, pt \in Plaintext : SealError(w, pt)
    \/ \E r \in Receivers : OpenLimit(r)
    \/ \E r \in Receivers, aad \in Aad, ct \in Network : OpenError(r, aad, ct)

\* Refused calls, failed set-ups and exports leave the contexts and what passed
\* through them as they were.
LEMMA RefusalStep ==
    ASSUME Refusal \/ UNCHANGED CtxVars
    PROVE  UNCHANGED <<ctx, sealed, opened>>
BY DEF Refusal, CtxVars, SetupFails, Export, SealLimit, SealError, OpenLimit,
       OpenError

\* The only steps that do more than return are set-ups and successful seals and
\* opens.
LEMMA NextCases ==
    ASSUME [Next]_CtxVars
    PROVE  \/ \E w \in Senders, k \in AeadKey : SetupSender(w, k)
           \/ \E r \in Receivers, k \in AeadKey : SetupReceiver(r, k)
           \/ \E w \in Senders, aad \in Aad, pt \in Plaintext : SealOk(w, aad, pt)
           \/ \E r \in Receivers, aad \in Aad, ct \in Network : OpenOk(r, aad, ct)
           \/ UNCHANGED <<ctx, sealed, opened>>
<1>1. \/ \E w \in Senders, k \in AeadKey : SetupSender(w, k)
      \/ \E r \in Receivers, k \in AeadKey : SetupReceiver(r, k)
      \/ \E w \in Senders, aad \in Aad, pt \in Plaintext : SealOk(w, aad, pt)
      \/ \E r \in Receivers, aad \in Aad, ct \in Network : OpenOk(r, aad, ct)
      \/ Refusal \/ UNCHANGED CtxVars
  BY Zenon DEF Next, Refusal
<1> QED  BY <1>1, RefusalStep

\* seal appends one ciphertext, made with the sender's key and current nonce.
LEMMA SealStep ==
    ASSUME TypeOK, NEW w \in Senders, NEW aad, NEW pt, SealOk(w, aad, pt)
    PROVE  /\ Len(sealed'[w]) = Len(sealed[w]) + 1
           /\ \A i \in DOMAIN sealed[w] : sealed'[w][i] = sealed[w][i]
           /\ sealed'[w][Len(sealed[w]) + 1] =
                AeadSeal(ctx[w].cipher, NonceOf(w), aad, pt)
           /\ DOMAIN sealed'[w] = 1 .. Len(sealed[w]) + 1
           /\ \A v \in Senders : v # w => sealed'[v] = sealed[v]
<1> DEFINE c == AeadSeal(ctx[w].cipher, NonceOf(w), aad, pt)
<1>1. sealed' = [sealed EXCEPT ![w] = Append(sealed[w], c)]
  BY DEF SealOk
<1> HIDE DEF c
<1>2. sealed[w] \in Seq(Ciphertext) /\ sealed \in [Senders -> Seq(Ciphertext)]
  BY DEF TypeOK
<1>3. sealed'[w] = Append(sealed[w], c)
  BY <1>1, <1>2
<1>4. /\ Len(Append(sealed[w], c)) = Len(sealed[w]) + 1
      /\ \A i \in 1 .. Len(sealed[w]) : Append(sealed[w], c)[i] = sealed[w][i]
      /\ Append(sealed[w], c)[Len(sealed[w]) + 1] = c
      /\ DOMAIN Append(sealed[w], c) = 1 .. Len(sealed[w]) + 1
      /\ DOMAIN sealed[w] = 1 .. Len(sealed[w])
  BY <1>2
<1>5. \A v \in Senders : v # w => sealed'[v] = sealed[v]
  BY <1>1, <1>2
<1> QED  BY <1>3, <1>4, <1>5 DEF c

\* open appends one message.
LEMMA OpenStep ==
    ASSUME TypeOK, NEW r \in Receivers, NEW aad, NEW ct \in Network,
           OpenOk(r, aad, ct)
    PROVE  /\ Len(opened'[r]) = Len(opened[r]) + 1
           /\ \A i \in DOMAIN opened[r] : opened'[r][i] = opened[r][i]
           /\ opened'[r][Len(opened[r]) + 1] = MessageOf(ct)
           /\ DOMAIN opened'[r] = 1 .. Len(opened[r]) + 1
           /\ DOMAIN opened[r] = 1 .. Len(opened[r])
           /\ \A q \in Receivers : q # r => opened'[q] = opened[q]
<1> DEFINE m == MessageOf(ct)
<1>1. opened' = [opened EXCEPT ![r] = Append(opened[r], m)]
  BY DEF OpenOk
<1> HIDE DEF m
<1>2. opened[r] \in Seq(Message) /\ opened \in [Receivers -> Seq(Message)]
  BY DEF TypeOK
<1>3. opened'[r] = Append(opened[r], m)
  BY <1>1, <1>2
<1>4. /\ Len(Append(opened[r], m)) = Len(opened[r]) + 1
      /\ \A i \in 1 .. Len(opened[r]) : Append(opened[r], m)[i] = opened[r][i]
      /\ Append(opened[r], m)[Len(opened[r]) + 1] = m
      /\ DOMAIN Append(opened[r], m) = 1 .. Len(opened[r]) + 1
      /\ DOMAIN opened[r] = 1 .. Len(opened[r])
  BY <1>2
<1>5. \A q \in Receivers : q # r => opened'[q] = opened[q]
  BY <1>1, <1>2
<1> QED  BY <1>3, <1>4, <1>5 DEF m

\* A counter moves exactly when a message passes through its context.
LEMMA CountersStep ==
    TypeOK /\ Counters /\ [Next]_CtxVars => Counters'
<1> SUFFICES ASSUME TypeOK, Counters, [Next]_CtxVars PROVE Counters'
  OBVIOUS
<1>a. \A c \in Senders : c \in Contexts /\ c \notin Receivers
  BY ContextAssumption DEF Contexts
<1>b. \A c \in Receivers : c \in Contexts /\ c \notin Senders
  BY ContextAssumption DEF Contexts
<1>1. ASSUME NEW w \in Senders, NEW k \in AeadKey, SetupSender(w, k)
      PROVE  Counters'
  <2>1. /\ ctx[w] = Absent
        /\ ctx' = [ctx EXCEPT ![w] = ContextNew(k, BaseNonce[k], k)]
        /\ sealed' = sealed /\ opened' = opened
    BY <1>1 DEF SetupSender
  <2>2. /\ ctx'[w] # Absent /\ ctx'[w].seq = 0
        /\ \A d \in Contexts : d # w => ctx'[d] = ctx[d]
    BY <2>1, <1>a, SetupStep
  <2>3. Len(sealed[w]) = 0
    BY <2>1 DEF Counters, Live
  <2> QED  BY <2>1, <2>2, <2>3, <1>a, <1>b DEF Counters, Live
<1>2. ASSUME NEW r \in Receivers, NEW k \in AeadKey, SetupReceiver(r, k)
      PROVE  Counters'
  <2>1. /\ ctx[r] = Absent
        /\ ctx' = [ctx EXCEPT ![r] = ContextNew(k, BaseNonce[k], k)]
        /\ sealed' = sealed /\ opened' = opened
    BY <1>2 DEF SetupReceiver
  <2>2. /\ ctx'[r] # Absent /\ ctx'[r].seq = 0
        /\ \A d \in Contexts : d # r => ctx'[d] = ctx[d]
    BY <2>1, <1>b, SetupStep
  <2>3. Len(opened[r]) = 0
    BY <2>1 DEF Counters, Live
  <2> QED  BY <2>1, <2>2, <2>3, <1>a, <1>b DEF Counters, Live
<1>3. ASSUME NEW w \in Senders, NEW aad \in Aad, NEW pt \in Plaintext,
             SealOk(w, aad, pt)
      PROVE  Counters'
  <2>1. Live(w) /\ ~AtLimit(w) /\ Advance(w) /\ opened' = opened
    BY <1>3 DEF SealOk
  <2>2. /\ ctx'[w] # Absent /\ ctx'[w].seq = ctx[w].seq + 1
        /\ \A d \in Contexts : d # w => ctx'[d] = ctx[d]
    BY <2>1, <1>a, AdvanceStep
  <2>3. /\ Len(sealed'[w]) = Len(sealed[w]) + 1
        /\ \A v \in Senders : v # w => sealed'[v] = sealed[v]
    BY <1>3, SealStep
  <2> QED  BY <2>1, <2>2, <2>3, <1>a, <1>b DEF Counters, Live
<1>4. ASSUME NEW r \in Receivers, NEW aad \in Aad, NEW ct \in Network,
             OpenOk(r, aad, ct)
      PROVE  Counters'
  <2>1. Live(r) /\ ~AtLimit(r) /\ Advance(r) /\ sealed' = sealed
    BY <1>4 DEF OpenOk
  <2>2. /\ ctx'[r] # Absent /\ ctx'[r].seq = ctx[r].seq + 1
        /\ \A d \in Contexts : d # r => ctx'[d] = ctx[d]
    BY <2>1, <1>b, AdvanceStep
  <2>3. /\ Len(opened'[r]) = Len(opened[r]) + 1
        /\ \A q \in Receivers : q # r => opened'[q] = opened[q]
    BY <1>4, OpenStep
  <2> QED  BY <2>1, <2>2, <2>3, <1>a, <1>b DEF Counters, Live
<1>5. CASE UNCHANGED <<ctx, sealed, opened>>
  BY <1>5 DEF Counters, Live
<1> QED  BY <1>1, <1>2, <1>3, <1>4, <1>5, NextCases

\* Every ciphertext carries its sender's key and the nonce of its position.
LEMMA ProducedStep ==
    TypeOK /\ Counters /\ Produced /\ [Next]_CtxVars => Produced'
<1> SUFFICES ASSUME TypeOK, Counters, Produced, [Next]_CtxVars PROVE Produced'
  OBVIOUS
<1>a. \A c \in Senders : c \in Contexts /\ c \notin Receivers
  BY ContextAssumption DEF Contexts
<1>b. \A c \in Receivers : c \in Contexts
  BY DEF Contexts
<1>1. ASSUME NEW w \in Senders, NEW k \in AeadKey, SetupSender(w, k)
      PROVE  Produced'
  <2>1. /\ ctx[w] = Absent
        /\ ctx' = [ctx EXCEPT ![w] = ContextNew(k, BaseNonce[k], k)]
        /\ sealed' = sealed
    BY <1>1 DEF SetupSender
  <2>2. \A v \in Senders : v # w => ctx'[v] = ctx[v]
    BY <2>1, <1>a, SetupStep
  <2>3. DOMAIN sealed[w] = {}
    BY <2>1 DEF Counters, Live
  <2> QED  BY <2>1, <2>2, <2>3 DEF Produced
<1>2. ASSUME NEW r \in Receivers, NEW k \in AeadKey, SetupReceiver(r, k)
      PROVE  Produced'
  <2>1. /\ ctx' = [ctx EXCEPT ![r] = ContextNew(k, BaseNonce[k], k)]
        /\ sealed' = sealed
    BY <1>2 DEF SetupReceiver
  <2>2. \A v \in Senders : ctx'[v] = ctx[v]
    BY <2>1, <1>a, <1>b, SetupStep
  <2> QED  BY <2>1, <2>2 DEF Produced
<1>3. ASSUME NEW w \in Senders, NEW aad \in Aad, NEW pt \in Plaintext,
             SealOk(w, aad, pt)
      PROVE  Produced'
  <2>1. Live(w) /\ ~AtLimit(w) /\ Advance(w)
    BY <1>3 DEF SealOk
  <2>2. /\ ctx'[w].cipher = ctx[w].cipher
        /\ ctx'[w].base_nonce = ctx[w].base_nonce
        /\ \A v \in Senders : v # w => ctx'[v] = ctx[v]
    BY <2>1, <1>a, AdvanceStep
  <2>3. ASSUME NEW v \in Senders, v # w, NEW i \in DOMAIN sealed'[v]
        PROVE  /\ sealed'[v][i].key = ctx'[v].cipher
               /\ sealed'[v][i].nonce = AeadNonce(ctx'[v].base_nonce, i - 1)
    BY <2>2, <2>3, <1>3, SealStep DEF Produced
  <2>4. ASSUME NEW i \in DOMAIN sealed'[w]
        PROVE  /\ sealed'[w][i].key = ctx'[w].cipher
               /\ sealed'[w][i].nonce = AeadNonce(ctx'[w].base_nonce, i - 1)
    <3> DEFINE n == Len(sealed[w])
    <3>1. n \in Nat /\ DOMAIN sealed[w] = 1 .. n
      BY DEF TypeOK
    <3>2. /\ \A j \in DOMAIN sealed[w] : sealed'[w][j] = sealed[w][j]
          /\ sealed'[w][n + 1] = AeadSeal(ctx[w].cipher, NonceOf(w), aad, pt)
          /\ DOMAIN sealed'[w] = 1 .. n + 1
      BY <1>3, SealStep
    <3>3. ctx[w].seq = n
      BY <2>1 DEF Counters
    <3>4. CASE i = n + 1
      <4>1. sealed'[w][i] = AeadSeal(ctx[w].cipher, NonceOf(w), aad, pt)
        BY <3>2, <3>4
      <4>2. i - 1 = ctx[w].seq
        BY <3>1, <3>3, <3>4
      <4> QED  BY <4>1, <4>2, <2>2 DEF AeadSeal, NonceOf
    <3>5. CASE i # n + 1
      <4>1. i \in DOMAIN sealed[w]
        BY <3>1, <3>2, <3>5
      <4> QED  BY <4>1, <3>2, <2>2 DEF Produced
    <3> QED  BY <3>4, <3>5
  <2> QED  BY <2>3, <2>4 DEF Produced
<1>4. ASSUME NEW r \in Receivers, NEW aad \in Aad, NEW ct \in Network,
             OpenOk(r, aad, ct)
      PROVE  Produced'
  <2>1. Live(r) /\ ~AtLimit(r) /\ Advance(r) /\ sealed' = sealed
    BY <1>4 DEF OpenOk
  <2>2. \A v \in Senders : ctx'[v] = ctx[v]
    BY <2>1, <1>a, <1>b, AdvanceStep
  <2> QED  BY <2>1, <2>2 DEF Produced
<1>5. CASE UNCHANGED <<ctx, sealed, opened>>
  BY <1>5 DEF Produced
<1> QED  BY <1>1, <1>2, <1>3, <1>4, <1>5, NextCases

\* What a step does to the keys: a context keeps its key and base nonce for
\* good, and the only context that may gain one is a single absent one.
LEMMA KeysStep ==
    ASSUME TypeOK, [Next]_CtxVars, NEW c \in Contexts
    PROVE  \/ ctx'[c] = ctx[c]
           \/ /\ Live(c) /\ ctx'[c] # Absent
              /\ ctx'[c].cipher = ctx[c].cipher
              /\ ctx'[c].base_nonce = ctx[c].base_nonce
           \/ \E k \in AeadKey :
                /\ ~Live(c) /\ ctx'[c] # Absent
                /\ ctx'[c].cipher = k
                /\ ctx'[c].base_nonce = PadNonce(BaseNonce[k])
                /\ \A d \in Contexts : d # c => ctx'[d] = ctx[d]
                /\ c \in Senders =>
                     \A v \in Senders : Live(v) => ctx[v].cipher # k
<1>1. ASSUME NEW w \in Senders, NEW k \in AeadKey, SetupSender(w, k), c = w
      PROVE  \E l \in AeadKey :
                /\ ~Live(c) /\ ctx'[c] # Absent
                /\ ctx'[c].cipher = l
                /\ ctx'[c].base_nonce = PadNonce(BaseNonce[l])
                /\ \A d \in Contexts : d # c => ctx'[d] = ctx[d]
                /\ c \in Senders =>
                     \A v \in Senders : Live(v) => ctx[v].cipher # l
  <2>1. /\ ~Live(c) /\ \A v \in Senders : Live(v) => ctx[v].cipher # k
        /\ ctx' = [ctx EXCEPT ![c] = ContextNew(k, BaseNonce[k], k)]
    BY <1>1 DEF SetupSender, Live
  <2> QED  BY <2>1, SetupStep
<1>2. ASSUME NEW r \in Receivers, NEW k \in AeadKey, SetupReceiver(r, k), c = r
      PROVE  \E l \in AeadKey :
                /\ ~Live(c) /\ ctx'[c] # Absent
                /\ ctx'[c].cipher = l
                /\ ctx'[c].base_nonce = PadNonce(BaseNonce[l])
                /\ \A d \in Contexts : d # c => ctx'[d] = ctx[d]
                /\ c \in Senders =>
                     \A v \in Senders : Live(v) => ctx[v].cipher # l
  <2>1. /\ ~Live(c) /\ c \notin Senders
        /\ ctx' = [ctx EXCEPT ![c] = ContextNew(k, BaseNonce[k], k)]
    BY <1>2, ContextAssumption DEF SetupReceiver, Live
  <2> QED  BY <2>1, SetupStep
<1>3. ASSUME NEW d \in Contexts, NEW k \in AeadKey,
             SetupSender(d, k) \/ SetupReceiver(d, k), c # d
      PROVE  ctx'[c] = ctx[c]
  <2>1. ctx' = [ctx EXCEPT ![d] = ContextNew(k, BaseNonce[k], k)]
    BY <1>3 DEF SetupSender, SetupReceiver
  <2> QED  BY <2>1, <1>3, SetupStep
<1>4. ASSUME NEW d \in Contexts, Live(d), ~AtLimit(d), Advance(d)
      PROVE  \/ ctx'[c] = ctx[c]
             \/ /\ Live(c) /\ ctx'[c] # Absent
                /\ ctx'[c].cipher = ctx[c].cipher
                /\ ctx'[c].base_nonce = ctx[c].base_nonce
  BY <1>4, AdvanceStep
<1>5. ASSUME NEW w \in Senders, NEW aad, NEW pt, SealOk(w, aad, pt)
      PROVE  w \in Contexts /\ Live(w) /\ ~AtLimit(w) /\ Advance(w)
  BY <1>5 DEF SealOk, Contexts
<1>6. ASSUME NEW r \in Receivers, NEW aad, NEW ct, OpenOk(r, aad, ct)
      PROVE  r \in Contexts /\ Live(r) /\ ~AtLimit(r) /\ Advance(r)
  BY <1>6 DEF OpenOk, Contexts
<1>7. CASE \E w \in Senders, k \in AeadKey : SetupSender(w, k)
  BY <1>7, <1>1, <1>3 DEF Contexts
<1>8. CASE \E r \in Receivers, k \in AeadKey : SetupReceiver(r, k)
  BY <1>8, <1>2, <1>3 DEF Contexts
<1>9. CASE \E w \in Senders, aad \in Aad, pt \in Plaintext : SealOk(w, aad, pt)
  BY <1>9, <1>4, <1>5
<1>10. CASE \E r \in Receivers, aad \in Aad, ct \in Network : OpenOk(r, aad, ct)
  BY <1>10, <1>4, <1>6
<1>11. CASE UNCHANGED <<ctx, sealed, opened>>
  BY <1>11
<1> QED  BY <1>7, <1>8, <1>9, <1>10, <1>11, NextCases

\* A key determines the base nonce it came with.
LEMMA DerivedStep ==
    TypeOK /\ Derived /\ [Next]_CtxVars => Derived'
<1> SUFFICES ASSUME TypeOK, Derived, [Next]_CtxVars, NEW c \in Contexts,
                    ctx'[c] # Absent
             PROVE  ctx'[c].base_nonce = PadNonce(BaseNonce[ctx'[c].cipher])
  BY DEF Derived, Live
<1> QED  BY KeysStep DEF Derived, Live

\* A key determines the sender that holds it.
LEMMA OneSenderStep ==
    TypeOK /\ OneSenderPerKey /\ [Next]_CtxVars => OneSenderPerKey'
<1> SUFFICES ASSUME TypeOK, OneSenderPerKey, [Next]_CtxVars,
                    NEW v \in Senders, NEW w \in Senders,
                    ctx'[v] # Absent, ctx'[w] # Absent,
                    ctx'[v].cipher = ctx'[w].cipher, v # w
             PROVE  FALSE
  BY DEF OneSenderPerKey, Live
<1>1. v \in Contexts /\ w \in Contexts
  BY DEF Contexts
<1>2. CASE ~Live(v)
  BY <1>1, <1>2, KeysStep DEF Live
<1>3. CASE ~Live(w)
  BY <1>1, <1>3, KeysStep DEF Live
<1>4. CASE Live(v) /\ Live(w)
  <2>1. ctx'[v].cipher = ctx[v].cipher /\ ctx'[w].cipher = ctx[w].cipher
    BY <1>1, <1>4, KeysStep
  <2> QED  BY <2>1, <1>4 DEF OneSenderPerKey
<1> QED  BY <1>2, <1>3, <1>4

\* A receiver that accepts a ciphertext is given the next one of the sender
\* that holds its key.
LEMMA OpensNext ==
    ASSUME TypeOK, Counters, Produced, Derived,
           NEW r \in Receivers, NEW aad \in Aad, NEW ct \in Network,
           OpenOk(r, aad, ct)
    PROVE  \E w \in Senders :
              /\ Live(w) /\ ctx[w].cipher = ctx[r].cipher
              /\ Len(opened[r]) + 1 \in DOMAIN sealed[w]
              /\ ct = sealed[w][Len(opened[r]) + 1]
<1>1. /\ Live(r) /\ AeadOpens(ctx[r].cipher, NonceOf(r), aad, ct)
      /\ r \in Contexts
  BY DEF OpenOk, Contexts
<1>0. PICK w \in Senders : \E i \in DOMAIN sealed[w] : ct = sealed[w][i]
  BY <1>1, OpensSealed
<1>2. PICK i \in DOMAIN sealed[w] : ct = sealed[w][i]
  BY <1>0
<1>3. ct.key = ctx[r].cipher /\ ct.nonce = AeadNonce(ctx[r].base_nonce, ctx[r].seq)
  BY <1>1, OpensSealed DEF NonceOf
<1>4. Live(w) /\ w \in Contexts
  BY <1>2 DEF Counters, Contexts
<1>5. /\ ctx[w].cipher = ctx[r].cipher
      /\ ct.nonce = AeadNonce(ctx[w].base_nonce, i - 1)
  BY <1>2, <1>3 DEF Produced
<1>6. ctx[w].base_nonce = ctx[r].base_nonce
  BY <1>1, <1>4, <1>5 DEF Derived
<1>7. ctx[r] \in CtxState /\ ctx[w] \in CtxState
  BY <1>1, <1>4 DEF TypeOK, Live
<1>8. /\ ctx[r].seq \in SeqNo /\ ctx[r].base_nonce \in NonceBuf
      /\ ctx[w].seq \in SeqNo
  BY <1>7 DEF CtxState
<1>9. ctx[r].seq = Len(opened[r]) /\ ctx[w].seq = Len(sealed[w])
  BY <1>1, <1>4 DEF Counters
<1>10. i \in 1 .. Len(sealed[w])
  BY <1>2 DEF TypeOK
<1>11. i - 1 \in SeqNo
  <2>1. Len(sealed[w]) \in SeqNo
    BY <1>8, <1>9
  <2> HIDE DEF SeqNo
  <2>2. \A n \in SeqNo : \A j \in 1 .. n : j - 1 \in SeqNo
    BY CounterAssumption DEF SeqNo
  <2> QED  BY <2>1, <2>2, <1>10
<1>12. i - 1 = ctx[r].seq
  BY <1>3, <1>5, <1>6, <1>8, <1>11, NonceInjective
<1>13. i = Len(opened[r]) + 1
  BY <1>9, <1>10, <1>12
<1> QED  BY <1>2, <1>4, <1>5, <1>13

\* Following survives every step that keeps both keys, lets the sender's
\* stream grow and leaves what the receiver has opened alone.
LEMMA FollowsStep ==
    ASSUME TypeOK, [Next]_CtxVars, NEW r \in Receivers, NEW w \in Senders,
           Live(r), Follows(r, w), opened'[r] = opened[r]
    PROVE  Follows(r, w)' /\ ctx'[r] # Absent
<1>1. /\ w \in Contexts /\ r \in Contexts /\ Live(w)
      /\ Len(sealed[w]) \in Nat /\ Len(opened[r]) \in Nat
      /\ DOMAIN opened[r] = 1 .. Len(opened[r])
      /\ DOMAIN sealed[w] = 1 .. Len(sealed[w])
  BY DEF Contexts, Follows, TypeOK
<1>2. /\ ctx'[w] # Absent /\ ctx'[r] # Absent
      /\ ctx'[w].cipher = ctx[w].cipher /\ ctx'[r].cipher = ctx[r].cipher
  BY <1>1, KeysStep DEF Live
<1>3. /\ Len(sealed'[w]) = Len(sealed[w]) \/ Len(sealed'[w]) = Len(sealed[w]) + 1
      /\ \A i \in DOMAIN sealed[w] : sealed'[w][i] = sealed[w][i]
  <2>1. CASE \E v \in Senders, aad \in Aad, pt \in Plaintext : SealOk(v, aad, pt)
    BY <2>1, SealStep
  <2>2. CASE sealed' = sealed
    BY <2>2
  <2> QED
    BY <2>1, <2>2, NextCases DEF SetupSender, SetupReceiver, OpenOk
<1>4. Len(opened[r]) <= Len(sealed'[w])
  BY <1>1, <1>3 DEF Follows
<1>5. \A n \in DOMAIN opened[r] : opened[r][n] = MessageOf(sealed'[w][n])
  BY <1>1, <1>3 DEF Follows
<1> QED  BY <1>2, <1>4, <1>5 DEF Follows, Live

\* open() appends the next message of the sender it follows, if any.
LEMMA OpenFollows ==
    ASSUME TypeOK, Counters, Produced, Derived, OneSenderPerKey, OpenedInOrder,
           NEW r \in Receivers, NEW aad \in Aad, NEW ct \in Network,
           OpenOk(r, aad, ct)
    PROVE  /\ Live(r) /\ ctx'[r] # Absent
           /\ \E w \in Senders : 
                /\ Live(w) /\ ctx[w].cipher = ctx[r].cipher
                /\ opened[r] # <<>> => Follows(r, w)
                /\ Len(opened[r]) + 1 \in DOMAIN sealed[w]
                /\ MessageOf(ct) = MessageOf(sealed[w][Len(opened[r]) + 1])
                /\ Follows(r, w)'
<1>1. PICK w \in Senders :
              /\ Live(w) /\ ctx[w].cipher = ctx[r].cipher
              /\ Len(opened[r]) + 1 \in DOMAIN sealed[w]
              /\ ct = sealed[w][Len(opened[r]) + 1]
  BY OpensNext
<1>2. opened[r] # <<>> => Follows(r, w)
  BY <1>1 DEF OpenedInOrder, Follows, OneSenderPerKey
<1>3. Live(r) /\ ~AtLimit(r) /\ Advance(r) /\ sealed' = sealed /\ r \in Contexts
  BY DEF OpenOk, Contexts
<1>4. /\ ctx'[r] # Absent /\ ctx'[r].cipher = ctx[r].cipher
      /\ ctx'[w] = ctx[w]
  BY <1>3, AdvanceStep, ContextAssumption DEF Contexts
<1>5. /\ Len(opened'[r]) = Len(opened[r]) + 1
      /\ \A i \in DOMAIN opened[r] : opened'[r][i] = opened[r][i]
      /\ opened'[r][Len(opened[r]) + 1] = MessageOf(ct)
      /\ DOMAIN opened'[r] = 1 .. Len(opened[r]) + 1
      /\ DOMAIN opened[r] = 1 .. Len(opened[r])
  BY OpenStep
<1>6. /\ Len(opened[r]) \in Nat /\ Len(sealed[w]) \in Nat
      /\ DOMAIN sealed[w] = 1 .. Len(sealed[w])
  BY DEF TypeOK
<1>7. Len(opened'[r]) <= Len(sealed[w])
  BY <1>1, <1>5, <1>6
<1>8. ASSUME NEW n \in DOMAIN opened'[r]
      PROVE  opened'[r][n] = MessageOf(sealed[w][n])
  <2>1. CASE n = Len(opened[r]) + 1
    BY <2>1, <1>1, <1>5
  <2>2. CASE n # Len(opened[r]) + 1
    <3>1. n \in DOMAIN opened[r]
      BY <2>2, <1>5, <1>6
    <3>2. opened[r] # <<>>
      BY <3>1
    <3> QED  BY <3>1, <3>2, <1>2, <1>5 DEF Follows
  <2> QED  BY <2>1, <2>2
<1>9. Follows(r, w)'
  BY <1>1, <1>3, <1>4, <1>7, <1>8 DEF Follows, Live
<1> QED  BY <1>1, <1>2, <1>3, <1>4, <1>9

\* What a receiver has opened stays a prefix of what its sender sealed.
LEMMA OpenedStep == IInv /\ [Next]_CtxVars => OpenedInOrder'
<1> SUFFICES ASSUME IInv, [Next]_CtxVars, NEW r \in Receivers,
                    opened'[r] # <<>>
             PROVE  (Live(r) /\ \E w \in Senders : Follows(r, w))'
  BY DEF OpenedInOrder
<1> USE DEF IInv
<1>1. CASE opened'[r] = opened[r]
  BY <1>1, FollowsStep DEF OpenedInOrder, Live
<1>2. CASE opened'[r] # opened[r]
  <2>1. PICK q \in Receivers, aad \in Aad, ct \in Network : OpenOk(q, aad, ct)
    BY <1>2, NextCases DEF SetupSender, SetupReceiver, SealOk
  <2>2. q = r
    BY <1>2, <2>1, OpenStep
  <2> QED  BY <2>1, <2>2, OpenFollows DEF Live
<1> QED  BY <1>1, <1>2

\* The inductive invariant holds before the first set-up.
LEMMA InvInit == Init => IInv
<1> SUFFICES ASSUME Init PROVE IInv
  OBVIOUS
<1>1. /\ \A c \in Contexts : ctx[c] = Absent
      /\ \A w \in Senders : sealed[w] = <<>>
      /\ \A r \in Receivers : opened[r] = <<>>
  BY DEF Init
<1>2. DOMAIN <<>> = {}
  OBVIOUS
<1>3. \A w \in Senders : w \in Contexts
  BY DEF Contexts
<1>4. \A r \in Receivers : r \in Contexts
  BY DEF Contexts
<1>5. Counters /\ Derived /\ OneSenderPerKey /\ OpenedInOrder
  BY <1>1, <1>3, <1>4
     DEF Counters, Derived, OneSenderPerKey, OpenedInOrder, Live
<1>6. Produced
  BY <1>1, <1>2 DEF Produced
<1> QED  BY <1>5, <1>6, TypeInit DEF IInv

\* The inductive invariant is preserved by every operation.
LEMMA InvStep == IInv /\ [Next]_CtxVars => IInv'
<1> SUFFICES ASSUME IInv, [Next]_CtxVars PROVE IInv'
  OBVIOUS
<1>1. TypeOK'
  BY TypeStep DEF IInv
<1>2. Counters'
  BY CountersStep DEF IInv
<1>3. Produced'
  BY ProducedStep DEF IInv
<1>4. Derived'
  BY DerivedStep DEF IInv
<1>5. OneSenderPerKey'
  BY OneSenderStep DEF IInv
<1>6. OpenedInOrder'
  BY OpenedStep
<1> QED  BY <1>1, <1>2, <1>3, <1>4, <1>5, <1>6 DEF IInv

\* The inductive invariant holds of every behaviour of the contexts.
THEOREM Invariance == Spec => []IInv
BY InvInit, InvStep, PTL DEF Spec

----------------------------------------------------------------------------
\* The safety properties.

\* Distinct ciphertexts differ in their sender, hence in their key, or in their
\* position, hence in their nonce.
LEMMA InvImpliesNonces == IInv => NonceNeverReused
<1> SUFFICES ASSUME IInv,
                    NEW v \in Senders, NEW w \in Senders,
                    NEW i \in DOMAIN sealed[v], NEW j \in DOMAIN sealed[w],
                    sealed[v][i].key = sealed[w][j].key,
                    sealed[v][i].nonce = sealed[w][j].nonce
             PROVE  v = w /\ i = j
  BY DEF NonceNeverReused
<1>1. Live(v) /\ Live(w) /\ v \in Contexts /\ w \in Contexts
  BY DEF IInv, Counters, Contexts
<1>2. ctx[v].cipher = ctx[w].cipher
  BY DEF IInv, Produced
<1>3. v = w
  BY <1>1, <1>2 DEF IInv, OneSenderPerKey
<1>4. AeadNonce(ctx[w].base_nonce, i - 1) = AeadNonce(ctx[w].base_nonce, j - 1)
  BY <1>3 DEF IInv, Produced
<1>5. ctx[w] \in CtxState
  BY <1>1 DEF IInv, TypeOK, Live
<1>6. ctx[w].base_nonce \in NonceBuf /\ ctx[w].seq \in SeqNo
  BY <1>5 DEF CtxState
<1>7. Len(sealed[w]) \in SeqNo
  BY <1>1, <1>6 DEF IInv, Counters
<1>8. i \in 1 .. Len(sealed[w]) /\ j \in 1 .. Len(sealed[w])
  BY <1>3 DEF IInv, TypeOK
<1>9. \A n \in SeqNo : \A m \in 1 .. n : m - 1 \in SeqNo
  BY CounterAssumption DEF SeqNo
<1>10. i - 1 \in SeqNo /\ j - 1 \in SeqNo
  BY <1>7, <1>8, <1>9
<1>11. i - 1 = j - 1
  BY <1>4, <1>6, <1>10, NonceInjective
<1>12. i = j
  BY <1>8, <1>11
<1> QED  BY <1>3, <1>12

\* No (key, nonce) pair is used twice, by one sender or by two, however long
\* the counter and whatever the base nonces (context.rs:160-176).
THEOREM NonceUniqueness == Spec => []NonceNeverReused
BY Invariance, InvImpliesNonces, PTL

\* What a receiver opened is a prefix of what one sender sealed, under loss,
\* replay, reordering, redirection and damage (context.rs:178-192).
THEOREM InOrderDelivery == Spec => []OpenedInOrder
<1>1. IInv => OpenedInOrder
  BY DEF IInv
<1> QED  BY <1>1, Invariance, PTL

\* Initially no context has answered MessageLimitReached.
LEMMA LimitInit == Init => LimitIsExact
BY DEF Init, LimitIsExact

\* MessageLimitReached is the answer of a context whose counter, hence whose
\* message count, is u64::MAX.
LEMMA LimitStep == IInv /\ LimitIsExact /\ [Next]_CtxVars => LimitIsExact'
<1> SUFFICES ASSUME IInv, LimitIsExact, [Next]_CtxVars PROVE LimitIsExact'
  OBVIOUS
<1>1. ASSUME NEW w \in Senders, SealLimit(w) PROVE LimitIsExact'
  <2>1. Len(sealed[w]) = MaxSeq
    BY <1>1 DEF SealLimit, AtLimit, IInv, Counters
  <2> QED  BY <2>1, <1>1 DEF SealLimit, Returns, LimitIsExact
<1>2. ASSUME NEW r \in Receivers, OpenLimit(r) PROVE LimitIsExact'
  <2>1. Len(opened[r]) = MaxSeq /\ r \notin Senders
    BY <1>2, ContextAssumption DEF OpenLimit, AtLimit, IInv, Counters
  <2> QED  BY <2>1, <1>2 DEF OpenLimit, Returns, LimitIsExact
<1>3. CASE UNCHANGED CtxVars
  BY <1>3 DEF CtxVars, LimitIsExact
<1>4. CASE ret'.res # "MessageLimitReached"
  BY <1>4 DEF LimitIsExact
<1>5. ASSUME NEW c, NEW k, SetupSender(c, k) \/ SetupReceiver(c, k)
      PROVE  ret'.res # "MessageLimitReached"
  BY <1>5 DEF SetupSender, SetupReceiver, Returns
<1>6. ASSUME NEW c, NEW aad, NEW x,
             \/ SealError(c, x) \/ SealOk(c, aad, x)
             \/ OpenError(c, aad, x) \/ OpenOk(c, aad, x)
      PROVE  ret'.res # "MessageLimitReached"
  BY <1>6 DEF SealError, SealOk, OpenError, OpenOk, Returns
<1>7. ASSUME NEW c, NEW res, res \in SetupErrors \cup ExportResults,
             SetupFails(c, res) \/ Export(c, res)
      PROVE  ret'.res # "MessageLimitReached"
  BY <1>7, SessionAssumption DEF SetupFails, Export, Returns, ExportResults
<1> QED  BY <1>1, <1>2, <1>3, <1>4, <1>5, <1>6, <1>7 DEF Next

\* MessageLimitReached is returned by contexts that have processed exactly
\* u64::MAX messages, and by no other (context.rs:169-171, 185-187).
THEOREM LimitExactness == Spec => []LimitIsExact
BY LimitInit, LimitStep, Invariance, PTL DEF Spec

----------------------------------------------------------------------------
\* Refinement.

\* A receiver that has opened anything has a source: the holder of its key.
LEMMA SourceIs ==
    ASSUME IInv, NEW r \in Receivers, NEW w \in Senders,
           opened[r] # <<>>, Live(w), ctx[w].cipher = ctx[r].cipher
    PROVE  Source(r) = w
BY DEF Source, IInv, OneSenderPerKey

\* The same after a step.
LEMMA SourceIsNext ==
    ASSUME IInv', NEW r \in Receivers, NEW w \in Senders,
           opened'[r] # <<>>, Live(w)', ctx'[w].cipher = ctx'[r].cipher
    PROVE  Source(r)' = w
BY DEF Source, IInv, OneSenderPerKey

\* A step that a receiver does not take leaves its source as it was.
LEMMA SourceStable ==
    ASSUME IInv, [Next]_CtxVars, NEW r \in Receivers, opened'[r] = opened[r]
    PROVE  Source(r)' = Source(r)
<1>1. CASE opened[r] = <<>>
  BY <1>1 DEF Source
<1>2. CASE opened[r] # <<>>
  <2>1. PICK w \in Senders : Live(r) /\ Follows(r, w)
    BY <1>2 DEF IInv, OpenedInOrder
  <2>2. Source(r) = w
    BY <2>1, <1>2, SourceIs DEF Follows
  <2>3. Follows(r, w)'
    BY <2>1, FollowsStep DEF IInv
  <2>4. IInv'
    BY InvStep
  <2>5. Source(r)' = w
    BY <2>3, <2>4, <1>2, SourceIsNext DEF Follows
  <2> QED  BY <2>2, <2>5
<1> QED  BY <1>1, <1>2

\* Initially nothing has been written or read.
LEMMA RefinesInit == Init => Chan!Init
<1> SUFFICES ASSUME Init PROVE Chan!Init
  OBVIOUS
<1>1. /\ \A w \in Senders : sealed[w] = <<>>
      /\ opened = [r \in Receivers |-> <<>>]
  BY DEF Init
<1>2. \A w \in Senders :
        [n \in DOMAIN sealed[w] |-> MessageOf(sealed[w][n])] = <<>>
  <2> TAKE w \in Senders
  <2>1. DOMAIN sealed[w] = {}
    BY <1>1
  <2> QED  BY <2>1
<1>3. Stream = [w \in Senders |-> <<>>]
  BY <1>2 DEF Stream
<1>4. \A r \in Receivers : Source(r) = Nobody
  BY <1>1 DEF Source
<1>5. [r \in Receivers |-> Source(r)] = [r \in Receivers |-> Nobody]
  BY <1>4
<1> QED  BY <1>1, <1>3, <1>5 DEF Chan!Init

\* A successful seal is a write, a successful open is a read of the next message
\* of the source, and every other operation is a stutter of the channel.
LEMMA RefinesStep == IInv /\ [Next]_CtxVars => [Chan!Next]_(Chan!chanVars)
<1> SUFFICES ASSUME IInv, [Next]_CtxVars PROVE [Chan!Next]_(Chan!chanVars)
  OBVIOUS
<1> DEFINE Src == [r \in Receivers |-> Source(r)]
<1>0. IInv'
  BY InvStep
<1>1. ASSUME opened' = opened PROVE Src' = Src
  BY <1>1, SourceStable
<1>2. ASSUME sealed' = sealed PROVE Stream' = Stream
  BY <1>2 DEF Stream
<1>3. ASSUME NEW w \in Senders, NEW aad \in Aad, NEW pt \in Plaintext,
             SealOk(w, aad, pt)
      PROVE  Chan!Write(w, [aad |-> aad, pt |-> pt])
  <2> DEFINE m == [aad |-> aad, pt |-> pt]
  <2>1. Live(w) /\ ~AtLimit(w) /\ opened' = opened /\ w \in Contexts
    BY <1>3 DEF SealOk, Contexts
  <2>2. sealed[w] \in Seq(Ciphertext) /\ sealed' \in [Senders -> Seq(Ciphertext)]
    BY <1>0 DEF IInv, TypeOK
  <2>3. Len(Stream[w]) = Len(sealed[w]) /\ Stream[w] \in Seq(Message)
    <3>1. DOMAIN Stream[w] = 1 .. Len(sealed[w])
      BY <2>2 DEF Stream
    <3>2. \A n \in 1 .. Len(sealed[w]) : Stream[w][n] \in Message
      <4>1. \A ct \in Ciphertext : MessageOf(ct) \in Message
        BY DEF Ciphertext, MessageOf, Message
      <4>2. \A n \in 1 .. Len(sealed[w]) : sealed[w][n] \in Ciphertext
        BY <2>2
      <4> QED  BY <3>1, <4>1, <4>2 DEF Stream
    <3>3. Len(sealed[w]) \in Nat
      BY <2>2
    <3>4. Stream[w] \in [1 .. Len(sealed[w]) -> Message]
      BY <3>1, <3>2 DEF Stream
    <3> QED  BY <3>3, <3>4
  <2>4. Len(sealed[w]) < MaxSeq
    <3>1. ctx[w].seq = Len(sealed[w])
      BY <2>1 DEF IInv, Counters
    <3>2. ctx[w] \in CtxState
      BY <2>1 DEF IInv, TypeOK, Live
    <3>3. ctx[w].seq \in SeqNo /\ ctx[w].seq # MaxSeq
      BY <2>1, <3>2 DEF CtxState, AtLimit
    <3> HIDE DEF SeqNo
    <3>4. \A n \in SeqNo : n # MaxSeq => n < MaxSeq
      BY CounterAssumption DEF SeqNo
    <3> QED  BY <3>1, <3>3, <3>4
  <2>5. Stream' = [Stream EXCEPT ![w] = Append(Stream[w], m)]
    <3>1. \A v \in Senders : v # w => sealed'[v] = sealed[v]
      BY <1>3, SealStep DEF IInv
    <3>2. Stream'[w] = Append(Stream[w], m)
      <4>1. /\ DOMAIN sealed'[w] = 1 .. Len(sealed[w]) + 1
            /\ \A i \in DOMAIN sealed[w] : sealed'[w][i] = sealed[w][i]
            /\ sealed'[w][Len(sealed[w]) + 1] =
                 AeadSeal(ctx[w].cipher, NonceOf(w), aad, pt)
        BY <1>3, SealStep DEF IInv
      <4>2. MessageOf(sealed'[w][Len(sealed[w]) + 1]) = m
        BY <4>1 DEF MessageOf, AeadSeal
      <4>3. /\ DOMAIN Append(Stream[w], m) = 1 .. Len(sealed[w]) + 1
            /\ \A i \in 1 .. Len(sealed[w]) : Append(Stream[w], m)[i] = Stream[w][i]
            /\ Append(Stream[w], m)[Len(sealed[w]) + 1] = m
            /\ Append(Stream[w], m) =
                 [i \in 1 .. Len(sealed[w]) + 1 |-> Append(Stream[w], m)[i]]
        BY <2>3
      <4>4. DOMAIN sealed[w] = 1 .. Len(sealed[w]) /\ Len(sealed[w]) \in Nat
        BY <2>2
      <4>5. ASSUME NEW i \in 1 .. Len(sealed[w]) + 1
            PROVE  MessageOf(sealed'[w][i]) = Append(Stream[w], m)[i]
        <5>1. CASE i = Len(sealed[w]) + 1
          BY <5>1, <4>2, <4>3
        <5>2. CASE i # Len(sealed[w]) + 1
          <6>1. i \in 1 .. Len(sealed[w])
            BY <5>2, <4>4
          <6>2. sealed'[w][i] = sealed[w][i]
            BY <6>1, <4>1, <4>4
          <6>3. Append(Stream[w], m)[i] = Stream[w][i]
            BY <6>1, <4>3
          <6>4. Stream[w][i] = MessageOf(sealed[w][i])
            BY <6>1, <4>4 DEF Stream
          <6> QED  BY <6>2, <6>3, <6>4
        <5> QED  BY <5>1, <5>2
      <4>6. Stream'[w] = [i \in 1 .. Len(sealed[w]) + 1 |-> MessageOf(sealed'[w][i])]
        BY <4>1 DEF Stream
      <4> HIDE DEF m
      <4> QED  BY <4>3, <4>5, <4>6
    <3>3. \A v \in Senders : v # w => Stream'[v] = Stream[v]
      BY <3>1 DEF Stream
    <3>4. DOMAIN Stream = Senders /\ DOMAIN Stream' = Senders
      BY DEF Stream
    <3>5. Stream = [v \in Senders |-> Stream[v]] /\ Stream' = [v \in Senders |-> Stream'[v]]
      BY DEF Stream
    <3> HIDE DEF m
    <3> QED  BY <3>2, <3>3, <3>4, <3>5
  <2> QED  BY <1>1, <2>1, <2>3, <2>4, <2>5 DEF Chan!Write
<1>4. ASSUME NEW r \in Receivers, NEW aad \in Aad, NEW ct \in Network,
             OpenOk(r, aad, ct)
      PROVE  \E w \in Senders : Chan!Read(r, w)
  <2>1. PICK w \in Senders :
                /\ Live(w) /\ ctx[w].cipher = ctx[r].cipher
                /\ opened[r] # <<>> => Follows(r, w)
                /\ Len(opened[r]) + 1 \in DOMAIN sealed[w]
                /\ MessageOf(ct) = MessageOf(sealed[w][Len(opened[r]) + 1])
                /\ Follows(r, w)'
    BY <1>4, OpenFollows DEF IInv
  <2>2. sealed' = sealed /\ Stream' = Stream
    BY <1>2, <1>4 DEF OpenOk
  <2>3. /\ opened' = [opened EXCEPT ![r] = Append(opened[r], MessageOf(ct))]
        /\ Len(opened'[r]) = Len(opened[r]) + 1
        /\ \A q \in Receivers : q # r => opened'[q] = opened[q]
    BY <1>4, OpenStep DEF OpenOk, IInv
  <2>4. Source(r) \in {Nobody, w}
    BY <2>1, SourceIs DEF Source
  <2>5. /\ Len(opened[r]) \in Nat /\ DOMAIN sealed[w] = 1 .. Len(sealed[w])
        /\ Len(sealed[w]) \in Nat
    BY DEF IInv, TypeOK
  <2>6. DOMAIN Stream[w] = 1 .. Len(sealed[w])
    BY <2>5 DEF Stream
  <2>7. Len(Stream[w]) = Len(sealed[w])
    BY <2>5, <2>6
  <2>8. Stream[w][Len(opened[r]) + 1] = MessageOf(ct)
    BY <2>1, <2>5 DEF Stream
  <2>9. opened'[r] # <<>>
    <3>1. opened'[r] \in Seq(Message)
      BY <1>0 DEF IInv, TypeOK
    <3> QED  BY <2>3, <2>5, <3>1
  <2>10. Source(r)' = w
    BY <1>0, <2>1, <2>9, SourceIsNext DEF Follows
  <2>11. \A q \in Receivers : q # r => Source(q)' = Source(q)
    BY <2>3, SourceStable
  <2>12. Src' = [Src EXCEPT ![r] = w]
    BY <2>10, <2>11
  <2>13. Len(opened[r]) < Len(Stream[w])
    BY <2>1, <2>5, <2>7
  <2>14. opened' = [opened EXCEPT ![r] = Append(@, Stream[w][Len(@) + 1])]
    BY <2>3, <2>8
  <2>15. Src[r] \in {Nobody, w}
    BY <2>4
  <2>16. Chan!Read(r, w)
    BY <2>2, <2>12, <2>13, <2>14, <2>15 DEF Chan!Read
  <2> QED  BY <2>16
<1>5. CASE sealed' = sealed /\ opened' = opened
  BY <1>1, <1>2, <1>5 DEF Chan!chanVars
<1>6. CASE \E w \in Senders, aad \in Aad, pt \in Plaintext : SealOk(w, aad, pt)
  BY <1>3, <1>6 DEF Chan!Next, Message
<1>7. CASE \E r \in Receivers, aad \in Aad, ct \in Network : OpenOk(r, aad, ct)
  BY <1>4, <1>7 DEF Chan!Next
<1> QED
  BY <1>5, <1>6, <1>7, NextCases DEF SetupSender, SetupReceiver

\* Contexts implement the secure channel, for every value of the constants:
\* each step is a write, a read or invisible to the channel's users.
THEOREM SessionImplementsChannel == Spec => ImplementsChannel
BY RefinesInit, RefinesStep, Invariance, PTL DEF Spec, ImplementsChannel, Chan!Spec
============================================================================
