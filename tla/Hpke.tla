-------------------------------- MODULE Hpke -------------------------------
(***************************************************************************)
(* The HPKE entry points of src/src/lib.rs over any KEM: set-ups in the    *)
(* four modes for both roles, the key schedule, the contexts they yield,   *)
(* export, and the single-shot calls.  Contexts come from module Context,  *)
(* a KEM (DhKem or PqKem) is given by the four Kem operators.              *)
(*                                                                         *)
(* tr[c] remembers what the application passed to and got from the set-up  *)
(* of c: RFC 9180's inputs that the two sides must agree on.  It is what   *)
(* the properties compare keys with; no action reads it to derive a key.   *)
(***************************************************************************)
EXTENDS Context, Psk, FiniteSets

CONSTANTS
    KemId,                      \* K::ID
    KemEncap(_, _),             \* K::encap(ephemeral, pk_r)
    KemDecap(_, _),             \* K::decap(enc, sk_r)
    KemAuthEncap(_, _, _),      \* K::auth_encap(ephemeral, pk_r, sk_s)
    KemAuthDecap(_, _, _),      \* K::auth_decap(enc, sk_r, pk_s)
    EncFromBytes(_),            \* K::enc_from_bytes
    PkBytes(_),                 \* pk_r.as_ref()
    SkToPkBytes(_),             \* the public key bytes of a private key
    Modes,                      \* the modes in use: Auth modes need an AuthKem
    Suites,                     \* [kdf, aead] pairs in use
    Ephemerals,                 \* outcomes of the random number generator
    RecipientPks,               \* public keys senders may hold for recipients
    RecipientSks,               \* recipients' private keys
    SenderSks,                  \* senders' private keys (Auth modes)
    SenderPks,                  \* public keys recipients may hold for senders
    Infos,                      \* info strings
    PskSecrets, PskIds,         \* byte strings offered to Psk::new
    ExporterContexts,           \* exporter contexts
    ExportLengths,              \* output lengths asked of export
    BaseNonceBytes(_),          \* the bytes of a derived base nonce
    Tampered(_),                \* what the network may turn an enc into
    StrayEncs,                  \* encs that come from no sender
    MaxExports,                 \* bound on the number of exports remembered
    NoPsk, NoKey                \* absent arguments

VARIABLES
    tr,             \* tr[c]: the transcript of the set-up of c, or Absent
    fresh,          \* randomness not drawn yet
    exported        \* what export calls returned, and to which question

hpkeVars == <<ctx, sealed, opened, ret, tr, fresh, exported>>

----------------------------------------------------------------------------
\* Suite identifiers and the AEAD table of src/src/aead.rs.

KeyLen == [ChaCha20Poly1305 |-> 32, Aes128Gcm |-> 16, Aes256Gcm |-> 32,
           ExportOnly |-> 0]
AeadNonceLen == [ChaCha20Poly1305 |-> NonceLen, Aes128Gcm |-> NonceLen,
                 Aes256Gcm |-> NonceLen, ExportOnly |-> 0]

\* A: SealingAead, the bound on seal, open and their single-shot forms.
CanSeal(suite) == suite.aead # "ExportOnly"

\* The length of a derived byte string.
ByteLen(t) == IF t = <<>> THEN 0 ELSE t[5]

\* A::init: every AEAD but ExportOnly wants a key of its own length.
AeadInitOk(suite, key) ==
    suite.aead = "ExportOnly" \/ ByteLen(key) = KeyLen[suite.aead]

\* ciphersuite::<K, F, A>()
Ciphersuite(suite) == <<"HPKE", KemId, suite.kdf, suite.aead>>

----------------------------------------------------------------------------
\* The key schedule.

IsPskMode(mode)  == mode \in {"Psk", "AuthPsk"}
IsAuthMode(mode) == mode \in {"Auth", "AuthPsk"}

\* The copy of base_nonce into the zeroed buffer of the context.
NonceBytes(t) == IF t = <<>> THEN [i \in 1 .. NonceLen |-> 0]
                 ELSE BaseNonceBytes(t)

\* Mutant: the key expanded to the length of the nonce.
ExpandedNonceLen(suite) == AeadNonceLen[suite.aead]

\* The length asked of the expansion that yields the AEAD key.
ExpandedKeyLen(suite) == KeyLen[suite.aead]

\* The three expansions, each with its early return, then Context::new.
DeriveContext(suite, secret, ks_context) ==
    LET id       == Ciphersuite(suite)
        key      == LabeledExpand(suite.kdf, secret, id, "key", ks_context,
                                  ExpandedKeyLen(suite))
        nonce    == LabeledExpand(suite.kdf, secret, id, "base_nonce",
                                  ks_context, AeadNonceLen[suite.aead])
        exporter == LabeledExpand(suite.kdf, secret, id, "exp", ks_context,
                                  HashLen[suite.kdf])
    IN  IF ~key.ok THEN key
        ELSE IF ~nonce.ok THEN nonce
        ELSE IF ~exporter.ok THEN exporter
        ELSE IF ~AeadInitOk(suite, key.val) THEN Err("AeadInitError")
        ELSE Ok(ContextNew(key.val, NonceBytes(nonce.val), exporter.val))

KeySchedulePskFree(mode, suite, shared_secret, info) ==
    LET id          == Ciphersuite(suite)
        psk_id_hash == LabeledExtract(suite.kdf, <<>>, id, "psk_id_hash", EmptyBytes)
        info_hash   == LabeledExtract(suite.kdf, <<>>, id, "info_hash", info)
        secret      == LabeledExtract(suite.kdf, shared_secret, id, "secret",
                                      EmptyBytes)
    IN  DeriveContext(suite, secret, <<mode, psk_id_hash, info_hash>>)

KeySchedulePsk(mode, suite, shared_secret, info, psk) ==
    LET id          == Ciphersuite(suite)
        psk_id_hash == LabeledExtract(suite.kdf, <<>>, id, "psk_id_hash", psk.id)
        info_hash   == LabeledExtract(suite.kdf, <<>>, id, "info_hash", info)
        secret      == LabeledExtract(suite.kdf, shared_secret, id, "secret",
                                      psk.secret)
    IN  DeriveContext(suite, secret, <<mode, psk_id_hash, info_hash>>)

\* The schedule that the M: PskFreeMode and M: PskMode bounds select.
KeySchedule(mode, suite, shared_secret, info, psk) ==
    IF IsPskMode(mode) THEN KeySchedulePsk(mode, suite, shared_secret, info, psk)
    ELSE KeySchedulePskFree(mode, suite, shared_secret, info)

----------------------------------------------------------------------------
\* Set-up.  The functions below are pure; what an application passes in is a
\* record of the arguments of setup_{sender,receiver}_{base,psk,auth,auth_psk}.

Psks == {x.val : x \in {y \in {PskNew(s, i) : s \in PskSecrets, i \in PskIds} : y.ok}}

SenderArgs ==
    UNION {[mode : {m}, suite : Suites, info : Infos,
            psk : IF IsPskMode(m) THEN Psks ELSE {NoPsk},
            pkR : RecipientPks,
            skS : IF IsAuthMode(m) THEN SenderSks ELSE {NoKey}] : m \in Modes}

\* Any bytes that may reach a recipient as an encapsulated key.
SentEncs  == {tr[w].enc : w \in {v \in Senders : tr[v] # Absent}}
Delivered == SentEncs \cup StrayEncs \cup UNION {Tampered(enc) : enc \in SentEncs}

ReceiverArgsFor(encs) ==
    UNION {[mode : {m}, suite : Suites, info : Infos,
            psk : IF IsPskMode(m) THEN Psks ELSE {NoPsk},
            enc : encs, skR : RecipientSks,
            pkS : IF IsAuthMode(m) THEN SenderPks ELSE {NoKey}] : m \in Modes}

ReceiverArgs == ReceiverArgsFor(Delivered)

\* setup_sender_*: encapsulate, then run the key schedule.
SetupS(e, a) ==
    LET k == IF IsAuthMode(a.mode) THEN KemAuthEncap(e, a.pkR, a.skS)
                                   ELSE KemEncap(e, a.pkR)
        c == KeySchedule(a.mode, a.suite, k.val.ss, a.info, a.psk)
    IN  IF ~k.ok THEN k
        ELSE IF ~c.ok THEN c
        ELSE Ok([enc |-> k.val.enc, ctx |-> c.val])

\* enc_from_bytes on the bytes received, then setup_receiver_*: decapsulate and
\* run the key schedule.
SetupR(b) ==
    LET enc == EncFromBytes(b.enc)
        ss  == IF IsAuthMode(b.mode) THEN KemAuthDecap(enc.val, b.skR, b.pkS)
                                     ELSE KemDecap(enc.val, b.skR)
    IN  IF ~enc.ok THEN enc
        ELSE IF ~ss.ok THEN ss
        ELSE KeySchedule(b.mode, b.suite, ss.val, b.info, b.psk)

Transcript(a, enc, pkR, pkS) ==
    [mode |-> a.mode, suite |-> a.suite, info |-> a.info, psk |-> a.psk,
     enc |-> enc, pkR |-> pkR, pkS |-> pkS]

SenderTranscript(a, enc) ==
    Transcript(a, enc, PkBytes(a.pkR),
               IF IsAuthMode(a.mode) THEN SkToPkBytes(a.skS) ELSE NoKey)
ReceiverTranscript(b) ==
    Transcript(b, b.enc, SkToPkBytes(b.skR),
               IF IsAuthMode(b.mode) THEN PkBytes(b.pkS) ELSE NoKey)

----------------------------------------------------------------------------
Init ==
    /\ ctx = [c \in Contexts |-> Absent]
    /\ sealed = [w \in Senders |-> <<>>]
    /\ opened = [r \in Receivers |-> <<>>]
    /\ ret = [ctx |-> Nobody, res |-> "Ok"]
    /\ tr = [c \in Contexts |-> Absent]
    /\ fresh = Ephemerals
    /\ exported = {}

\* Mutant: the generator may return what it returned before.
DrawAgain(e) == e \in Ephemerals /\ UNCHANGED fresh

\* encap draws from the generator before anything can fail.
Draw(e) == e \in fresh /\ fresh' = fresh \ {e}

SetupSenderOk(w, e, a) ==
    LET s == SetupS(e, a) IN
    /\ tr[w] = Absent
    /\ Draw(e)
    /\ s.ok
    /\ ctx' = [ctx EXCEPT ![w] = s.val.ctx]
    /\ tr' = [tr EXCEPT ![w] = SenderTranscript(a, s.val.enc)]
    /\ Returns(w, "Ok")
    /\ UNCHANGED <<sealed, opened, exported>>

SetupSenderError(w, e, a) ==
    LET s == SetupS(e, a) IN
    /\ tr[w] = Absent
    /\ Draw(e)
    /\ ~s.ok
    /\ Returns(w, s.err)
    /\ UNCHANGED <<ctx, sealed, opened, tr, exported>>

SetupReceiverOk(r, b) ==
    LET s == SetupR(b) IN
    /\ tr[r] = Absent
    /\ s.ok
    /\ ctx' = [ctx EXCEPT ![r] = s.val]
    /\ tr' = [tr EXCEPT ![r] = ReceiverTranscript(b)]
    /\ Returns(r, "Ok")
    /\ UNCHANGED <<sealed, opened, fresh, exported>>

SetupReceiverError(r, b) ==
    LET s == SetupR(b) IN
    /\ tr[r] = Absent
    /\ ~s.ok
    /\ Returns(r, s.err)
    /\ UNCHANGED <<ctx, sealed, opened, tr, fresh, exported>>

\* seal and open, on contexts of suites that have them.
Seal(w, aad, pt) ==
    /\ Live(w) /\ CanSeal(tr[w].suite)
    /\ SealLimit(w) \/ SealError(w, pt) \/ SealOk(w, aad, pt)
    /\ UNCHANGED <<tr, fresh, exported>>

Open(r, aad, ct) ==
    /\ Live(r) /\ CanSeal(tr[r].suite)
    /\ OpenLimit(r) \/ OpenError(r, aad, ct) \/ OpenOk(r, aad, ct)
    /\ UNCHANGED <<tr, fresh, exported>>

\* Context::export
ExportOf(suite, exporter_secret, ectx, len) ==
    LabeledExpand(suite.kdf, exporter_secret, Ciphersuite(suite), "sec", ectx, len)

Remember(t, ectx, len, out) ==
    /\ Cardinality(exported) < MaxExports
    /\ exported' = exported \cup
         {[tr |-> t, ectx |-> ectx, len |-> len, out |-> out]}

Export(c, ectx, len) ==
    LET x == ExportOf(tr[c].suite, ctx[c].exporter_secret, ectx, len) IN
    /\ Live(c)
    /\ \/ x.ok /\ Remember(tr[c], ectx, len, x.val) /\ Returns(c, "Ok")
       \/ ~x.ok /\ Returns(c, x.err) /\ UNCHANGED exported
    /\ UNCHANGED <<ctx, sealed, opened, tr, fresh>>

----------------------------------------------------------------------------
\* Single-shot calls: a set-up and one use of a context that is then dropped.
\* The identity keeps its transcript but never has a live context.

SealBaseEtc(w, e, a, aad, pt) ==
    LET s == SetupS(e, a) IN
    /\ tr[w] = Absent /\ CanSeal(a.suite)
    /\ Draw(e)
    /\ s.ok /\ pt \notin TooLong
    /\ sealed' = [sealed EXCEPT ![w] =
         <<AeadSeal(s.val.ctx.cipher,
                    AeadNonce(s.val.ctx.base_nonce, s.val.ctx.seq), aad, pt)>>]
    /\ tr' = [tr EXCEPT ![w] = SenderTranscript(a, s.val.enc)]
    /\ Returns(w, "Ok")
    /\ UNCHANGED <<ctx, opened, exported>>

SealBaseEtcError(w, e, a, pt) ==
    LET s == SetupS(e, a) IN
    /\ tr[w] = Absent /\ CanSeal(a.suite)
    /\ Draw(e)
    /\ \/ ~s.ok /\ Returns(w, s.err)
       \/ s.ok /\ pt \in TooLong /\ Returns(w, "SealError")
    /\ UNCHANGED <<ctx, sealed, opened, tr, exported>>

OpenBaseEtc(r, b, aad, ct) ==
    LET s == SetupR(b) IN
    /\ tr[r] = Absent /\ CanSeal(b.suite)
    /\ s.ok
    /\ AeadOpens(s.val.cipher, AeadNonce(s.val.base_nonce, s.val.seq), aad, ct)
    /\ opened' = [opened EXCEPT ![r] = <<MessageOf(ct)>>]
    /\ tr' = [tr EXCEPT ![r] = ReceiverTranscript(b)]
    /\ Returns(r, "Ok")
    /\ UNCHANGED <<ctx, sealed, fresh, exported>>

OpenBaseEtcError(r, b, aad, ct) ==
    LET s == SetupR(b) IN
    /\ tr[r] = Absent /\ CanSeal(b.suite)
    /\ \/ ~s.ok /\ Returns(r, s.err)
       \/ /\ s.ok
          /\ ~AeadOpens(s.val.cipher, AeadNonce(s.val.base_nonce, s.val.seq),
                        aad, ct)
          /\ Returns(r, "OpenError")
    /\ UNCHANGED <<ctx, sealed, opened, tr, fresh, exported>>

SendExport(w, e, a, ectx, len) ==
    LET s == SetupS(e, a)
        x == ExportOf(a.suite, s.val.ctx.exporter_secret, ectx, len)
    IN
    /\ tr[w] = Absent
    /\ Draw(e)
    /\ \/ /\ s.ok /\ x.ok
          /\ Remember(SenderTranscript(a, s.val.enc), ectx, len, x.val)
          /\ tr' = [tr EXCEPT ![w] = SenderTranscript(a, s.val.enc)]
          /\ Returns(w, "Ok")
       \/ ~s.ok /\ Returns(w, s.err) /\ UNCHANGED <<tr, exported>>
       \/ s.ok /\ ~x.ok /\ Returns(w, x.err) /\ UNCHANGED <<tr, exported>>
    /\ UNCHANGED <<ctx, sealed, opened>>

ReceiverExport(r, b, ectx, len) ==
    LET s == SetupR(b)
        x == ExportOf(b.suite, s.val.exporter_secret, ectx, len)
    IN
    /\ tr[r] = Absent
    /\ \/ /\ s.ok /\ x.ok
          /\ Remember(ReceiverTranscript(b), ectx, len, x.val)
          /\ tr' = [tr EXCEPT ![r] = ReceiverTranscript(b)]
          /\ Returns(r, "Ok")
       \/ ~s.ok /\ Returns(r, s.err) /\ UNCHANGED <<tr, exported>>
       \/ s.ok /\ ~x.ok /\ Returns(r, x.err) /\ UNCHANGED <<tr, exported>>
    /\ UNCHANGED <<ctx, sealed, opened, fresh>>

----------------------------------------------------------------------------
Setups ==
    \/ \E w \in Senders, e \in fresh, a \in SenderArgs :
         SetupSenderOk(w, e, a) \/ SetupSenderError(w, e, a)
    \/ \E r \in Receivers, b \in ReceiverArgs :
         SetupReceiverOk(r, b) \/ SetupReceiverError(r, b)

Messages ==
    \/ \E w \in Senders, aad \in Aad, pt \in Plaintext : Seal(w, aad, pt)
    \/ \E r \in Receivers, aad \in Aad, ct \in Network : Open(r, aad, ct)

Exports ==
    \E c \in Contexts, ectx \in ExporterContexts, len \in ExportLengths :
        Export(c, ectx, len)

SingleShots ==
    \/ \E w \in Senders, e \in fresh, a \in SenderArgs, pt \in Plaintext :
         \/ \E aad \in Aad : SealBaseEtc(w, e, a, aad, pt)
         \/ SealBaseEtcError(w, e, a, pt)
    \/ \E r \in Receivers, b \in ReceiverArgs, aad \in Aad, ct \in Network :
         OpenBaseEtc(r, b, aad, ct) \/ OpenBaseEtcError(r, b, aad, ct)
    \/ \E w \in Senders, e \in fresh, a \in SenderArgs,
          ectx \in ExporterContexts, len \in ExportLengths :
         SendExport(w, e, a, ectx, len)
    \/ \E r \in Receivers, b \in ReceiverArgs,
          ectx \in ExporterContexts, len \in ExportLengths :
         ReceiverExport(r, b, ectx, len)

Next == Setups \/ Messages \/ Exports \/ SingleShots

Spec == Init /\ [][Next]_hpkeVars

\* The system without the single-shot calls.
SessionNext == Setups \/ Messages \/ Exports
SessionSpec == Init /\ [][SessionNext]_hpkeVars

----------------------------------------------------------------------------
\* Every variable has its type; a live context has a transcript.
TypeOK ==
    /\ DOMAIN ctx = Contexts /\ DOMAIN tr = Contexts
    /\ \A c \in Contexts : Live(c) =>
         tr[c] # Absent /\ ctx[c].base_nonce \in NonceBuf /\ ctx[c].seq \in SeqNo
    /\ \A w \in Senders : Len(sealed[w]) <= MaxSeq
    /\ \A r \in Receivers : opened[r] \in Seq(Message)
    /\ fresh \subseteq Ephemerals
    /\ Cardinality(exported) <= MaxExports

\* RFC 9180's binding, which tests/negative.rs tries one field at a time: two
\* contexts have the same AEAD key, or the same exporter secret, exactly when
\* every input of their set-ups agrees: mode, suite, info, PSK and its
\* identifier, the bytes of enc and the keys of both parties.
KeysBindTranscript ==
    \A c, d \in Contexts : Live(c) /\ Live(d) =>
        /\ ctx[c].exporter_secret = ctx[d].exporter_secret <=> tr[c] = tr[d]
        /\ CanSeal(tr[c].suite) /\ CanSeal(tr[d].suite) =>
             (ctx[c].cipher = ctx[d].cipher <=> tr[c] = tr[d])

\* Whatever a sender's set-up returned, a recipient that holds the private key
\* and is given the same enc, info, PSK and sender key sets up without an error
\* and gets the same key, base nonce and exporter secret.
PeerCanFollow ==
    \A w \in Senders, skR \in RecipientSks : \A pkS \in SenderPks \cup {NoKey} :
        LET t == tr[w]
            b == [mode |-> t.mode, suite |-> t.suite, info |-> t.info,
                  psk |-> t.psk, enc |-> t.enc, skR |-> skR, pkS |-> pkS]
        IN  /\ Live(w)
            /\ SkToPkBytes(skR) = t.pkR
            /\ IF IsAuthMode(t.mode) THEN pkS # NoKey /\ PkBytes(pkS) = t.pkS
                                     ELSE pkS = NoKey
            => /\ SetupR(b).ok
               /\ [SetupR(b).val EXCEPT !.seq = ctx[w].seq] = ctx[w]

\* error.rs:20-26: the key schedule never hands Aead::init a key of the wrong
\* length, in any suite, so no call ever returns AeadInitError.
AeadInitErrorUnreachable == ret.res # "AeadInitError"

\* psk.rs:50-55: a context in a PSK mode rests on a secret of at least 32
\* bytes with an identifier, and in the other modes on none.
PskModesAreStrong ==
    \A c \in Contexts : tr[c] # Absent =>
        IF IsPskMode(tr[c].mode)
        THEN tr[c].psk.secret.len >= 32 /\ tr[c].psk.id.len > 0
        ELSE tr[c].psk = NoPsk

\* No two ciphertexts of any two senders, set up in any modes or by single-shot
\* calls, share a key and a nonce.
NonceNeverReused ==
    \A v, w \in Senders :
        \A i \in DOMAIN sealed[v], j \in DOMAIN sealed[w] :
            /\ sealed[v][i].key = sealed[w][j].key
            /\ sealed[v][i].nonce = sealed[w][j].nonce
            => v = w /\ i = j

\* Context::export and the single-shot exports agree across parties exactly
\* when the transcripts, exporter contexts and lengths agree, and otherwise
\* outputs are unrelated, not even one a prefix of the other
\* (tests/negative.rs:374-401).
ExportsSeparate ==
    \A x, y \in exported :
        x.len > 0 /\ y.len > 0 =>
            (SameStream(x.out, y.out) <=>
               x.tr = y.tr /\ x.ectx = y.ectx /\ x.len = y.len)

\* error.rs:49 "Requested KDF expansion would exceed `255 * Nh`": on a context
\* of any suite, an export-only one included, that limit alone decides, the
\* u16 that labeled_expand puts the length in (kdf.rs:153) is never the tighter
\* one, and what is returned has the length that was asked for, zero included.
ExportLimitIsExact ==
    \A c \in Contexts, ectx \in ExporterContexts, len \in ExportLengths :
        LET x == ExportOf(tr[c].suite, ctx[c].exporter_secret, ectx, len) IN
        Live(c) => IF len <= 255 * HashLen[tr[c].suite.kdf]
                   THEN x.ok /\ ByteLen(x.val) = len
                   ELSE x = Err("ExportLengthExceeded")

\* The refinement mapping: a reader's source is the writer it shares the
\* transcript with.
Source(r) ==
    IF opened[r] # <<>> /\ \E w \in Senders : tr[w] = tr[r]
    THEN CHOOSE w \in Senders : tr[w] = tr[r]
    ELSE Nobody

Chan == INSTANCE SecureChannel WITH
            Writers <- Senders, Readers <- Receivers, Msg <- Message,
            Limit <- MaxSeq,
            sent <- [w \in Senders |->
                       [n \in DOMAIN sealed[w] |-> MessageOf(sealed[w][n])]],
            rcvd <- opened,
            src <- [r \in Receivers |-> Source(r)]

\* Set up in any mode, or used in single-shot calls, HPKE is a secure channel
\* from a sender to the recipients that share its transcript.
ImplementsChannel == Chan!Spec

----------------------------------------------------------------------------
\* Session's view of this module: the contexts and keys that its set-ups can
\* derive, and no more than the cipher of a context for an exporter secret.
Oks(results) == {x.val : x \in {y \in results : y.ok}}

SenderSetups == Oks({SetupS(e, a) : e \in Ephemerals, a \in SenderArgs})
AllEncs ==
    LET encs == {s.enc : s \in SenderSetups}
    IN  encs \cup StrayEncs \cup (UNION {Tampered(enc) : enc \in encs})
DerivedContexts ==
    {s.ctx : s \in SenderSetups}
      \cup Oks({SetupR(b) : b \in ReceiverArgsFor(AllEncs)})
DerivedKeys == {c.cipher : c \in DerivedContexts}

SessionCtx ==
    [c \in Contexts |-> IF Live(c) THEN [ctx[c] EXCEPT !.exporter_secret = ctx[c].cipher]
                                   ELSE Absent]
DerivedNonce ==
    [k \in DerivedKeys |-> LET c == CHOOSE x \in DerivedContexts : x.cipher = k
                           IN  [i \in 1 .. NonceLen |-> c.base_nonce[i]]]

Sess == INSTANCE Session WITH
            ctx <- SessionCtx, AeadKey <- DerivedKeys, BaseNonce <- DerivedNonce,
            SetupErrors <- {"EncapError", "DecapError", "InvalidPublicKey",
                            "InvalidEncappedKey"}

\* What module Session assumes of set-ups is what these set-ups do: fresh
\* randomness gives every sender a key of its own, equal keys come with equal
\* base nonces, and a set-up fails only with the errors of the KEM.  So the
\* theorems of SessionProofs speak about contexts that setup_* returned.
ImplementsSession == Sess!Spec

\* error.rs:27-30 documents EncapError as "KEM encapsulation failed (e.g.
\* small-order receiver public key)" and has a DecapError for the other side:
\* a set-up that fails with EncapError would be a sender's.
EncapErrorOnlyFromSender == ret.res = "EncapError" => ret.ctx \in Senders

\* psk.rs:82 calls the PSK "used as the `secret` extraction salt"; a secret is
\* <<"prk", kdf, salt, ikm>>, and an exporter secret <<"okm", kdf, secret, ...>>.
PskIsTheSalt ==
    \A c \in Contexts : Live(c) /\ IsPskMode(tr[c].mode) =>
        LET secret == ctx[c].exporter_secret[3] IN secret[3] = tr[c].psk.secret
============================================================================
