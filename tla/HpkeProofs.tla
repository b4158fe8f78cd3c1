----------------------------- MODULE HpkeProofs -----------------------------
(***************************************************************************)
(* Theorems about Hpke, for any number of contexts, keys, inputs and       *)
(* messages, over every KEM that is correct and binding: KemFollows and    *)
(* KemBinds below.  HpkeChannelProofs shows that the crate's KEMs are.     *)
(***************************************************************************)
EXTENDS Hpke, NonceProofs

----------------------------------------------------------------------------
\* What is assumed.

\* A recipient with the right keys recovers a sender's secret.
KemFollows ==
    \A e \in Ephemerals, pkR \in RecipientPks, skR \in RecipientSks :
        SkToPkBytes(skR) = PkBytes(pkR) =>
            /\ LET k   == KemEncap(e, pkR)
                   enc == EncFromBytes(k.val.enc)
               IN  k.ok => enc.ok /\ KemDecap(enc.val, skR) = Ok(k.val.ss)
            /\ \A skS \in SenderSks, pkS \in SenderPks :
                 LET k   == KemAuthEncap(e, pkR, skS)
                     enc == EncFromBytes(k.val.enc)
                 IN  k.ok /\ PkBytes(pkS) = SkToPkBytes(skS) =>
                       enc.ok /\ KemAuthDecap(enc.val, skR, pkS) = Ok(k.val.ss)

\* The result of the KEM call of setup_sender_* and setup_receiver_*.
SenderKem(e, a) ==
    IF IsAuthMode(a.mode) THEN KemAuthEncap(e, a.pkR, a.skS) ELSE KemEncap(e, a.pkR)
ReceiverKem(b) ==
    LET enc == EncFromBytes(b.enc).val
    IN  IF IsAuthMode(b.mode) THEN KemAuthDecap(enc, b.skR, b.pkS)
                              ELSE KemDecap(enc, b.skR)

\* Some set-up with transcript t has the shared secret ss.
SecretOf(t, ss) ==
    \/ \E e \in Ephemerals, a \in SenderArgs :
         LET k == SenderKem(e, a)
         IN  k.ok /\ ss = k.val.ss /\ t = SenderTranscript(a, k.val.enc)
    \/ \E b \in ReceiverArgsFor(AllEncs) :
         /\ EncFromBytes(b.enc).ok /\ ReceiverKem(b).ok
         /\ ss = ReceiverKem(b).val /\ t = ReceiverTranscript(b)

\* Secrets are equal exactly when the bytes of enc and both public keys are.
KemBinds ==
    \A t, u, x, y : SecretOf(t, x) /\ SecretOf(u, y) =>
        (x = y <=> t.enc = u.enc /\ t.pkR = u.pkR /\ t.pkS = u.pkS)

\* The suites are combinations of the KDFs and AEADs of the crate.
SuitesAreKnown == Suites \subseteq [kdf : DOMAIN HashLen, aead : DOMAIN KeyLen]

\* A transcript is not the mark of a context that has none.
AbsentIsNone ==
    \A a, enc, pkR, pkS : Transcript(a, enc, pkR, pkS) # Absent

\* AeadInitError is not an error of the KEM calls that set-ups make.
KemCalls ==
    {SenderKem(e, a) : e \in Ephemerals, a \in SenderArgs}
      \cup UNION {{EncFromBytes(b.enc), ReceiverKem(b)} : b \in ReceiverArgsFor(AllEncs)}

KemErrors == \A k \in KemCalls : ~k.ok => k.err # "AeadInitError"

\* Lengths of byte strings are natural numbers.
LengthsAreNat == \A x \in PskSecrets \cup PskIds : x.len \in Nat

----------------------------------------------------------------------------
\* The key schedule.

Secret(mode, suite, ss, psk) ==
    LabeledExtract(suite.kdf, ss, Ciphersuite(suite), "secret",
                   IF IsPskMode(mode) THEN psk.secret ELSE EmptyBytes)
KsContext(mode, suite, info, psk) ==
    <<mode,
      LabeledExtract(suite.kdf, <<>>, Ciphersuite(suite), "psk_id_hash",
                     IF IsPskMode(mode) THEN psk.id ELSE EmptyBytes),
      LabeledExtract(suite.kdf, <<>>, Ciphersuite(suite), "info_hash", info)>>

\* The two key schedules are one derivation, of the PSK or of nothing.
LEMMA ScheduleIsDerivation ==
    ASSUME NEW mode, NEW suite, NEW ss, NEW info, NEW psk
    PROVE  KeySchedule(mode, suite, ss, info, psk)
             = DeriveContext(suite, Secret(mode, suite, ss, psk),
                             KsContext(mode, suite, info, psk))
BY DEF KeySchedule, KeySchedulePsk, KeySchedulePskFree, Secret, KsContext

\* The record of a context.
IsContext(x) ==
    x = [cipher |-> x.cipher, base_nonce |-> x.base_nonce,
         exporter_secret |-> x.exporter_secret, seq |-> x.seq]

\* Two contexts with the same keys, wherever their counters are.
SameKeys(x, y) ==
    /\ x.cipher = y.cipher /\ x.base_nonce = y.base_nonce
    /\ x.exporter_secret = y.exporter_secret

\* The bytes that an expansion of len bytes under a label yields.
Expanded(suite, secret, label, ksc, len) ==
    <<"okm", suite.kdf, secret,
      <<len, "HPKE-v1", Ciphersuite(suite), label, ksc>>, len>>

\* What Ok and Err return.
LEMMA Results ==
    /\ \A x : Ok(x).ok /\ Ok(x).val = x
    /\ \A x : ~Err(x).ok /\ Err(x).err = x
BY DEF Ok, Err

\* An expansion fails with ExportLengthExceeded or yields what it should.
LEMMA ExpandYields ==
    ASSUME NEW suite, NEW secret, NEW label, NEW ksc, NEW len
    PROVE  LET x == LabeledExpand(suite.kdf, secret, Ciphersuite(suite), label, ksc, len)
           IN  \/ x = Err("ExportLengthExceeded")
               \/ x = Ok(IF len = 0 THEN <<>> ELSE Expanded(suite, secret, label, ksc, len))
BY DEF LabeledExpand, Expand, Expanded

\* A hash length is always within the limits of an expansion.
LEMMA KnownLengths ==
    ASSUME SuitesAreKnown, NEW suite \in Suites
    PROVE  /\ HashLen[suite.kdf] \in {32, 48, 64}
           /\ KeyLen[suite.aead] \in {0, 16, 32}
           /\ CanSeal(suite) <=> KeyLen[suite.aead] # 0
           /\ suite = [kdf |-> suite.kdf, aead |-> suite.aead]
BY DEF SuitesAreKnown, HashLen, KeyLen, CanSeal

\* A derivation fails with ExportLengthExceeded, never with AeadInitError, or
\* yields a context whose keys name everything they were derived from.
LEMMA DerivedKeysName ==
    ASSUME SuitesAreKnown, NEW suite \in Suites, NEW secret, NEW ksc
    PROVE  LET x == DeriveContext(suite, secret, ksc) IN
           \/ x = Err("ExportLengthExceeded")
           \/ /\ x.ok /\ IsContext(x.val)
              /\ x.val.exporter_secret
                   = Expanded(suite, secret, "exp", ksc, HashLen[suite.kdf])
              /\ CanSeal(suite) =>
                   x.val.cipher = Expanded(suite, secret, "key", ksc, KeyLen[suite.aead])
<1> DEFINE id    == Ciphersuite(suite)
           key   == LabeledExpand(suite.kdf, secret, id, "key", ksc, KeyLen[suite.aead])
           nonce == LabeledExpand(suite.kdf, secret, id, "base_nonce", ksc,
                                  AeadNonceLen[suite.aead])
           exp   == LabeledExpand(suite.kdf, secret, id, "exp", ksc, HashLen[suite.kdf])
           x     == DeriveContext(suite, secret, ksc)
<1>1. \/ key = Err("ExportLengthExceeded")
      \/ key = Ok(IF KeyLen[suite.aead] = 0 THEN <<>>
                  ELSE Expanded(suite, secret, "key", ksc, KeyLen[suite.aead]))
  BY ExpandYields
<1>2. nonce.ok \/ nonce = Err("ExportLengthExceeded")
  <2> DEFINE len == AeadNonceLen[suite.aead]
             okm == IF len = 0 THEN <<>>
                    ELSE Expanded(suite, secret, "base_nonce", ksc, len)
  <2>1. nonce = Err("ExportLengthExceeded") \/ nonce = Ok(okm)
    BY ExpandYields
  <2> HIDE DEF okm, nonce
  <2> QED  BY <2>1, Results
<1>3. \/ exp = Err("ExportLengthExceeded")
      \/ exp = Ok(Expanded(suite, secret, "exp", ksc, HashLen[suite.kdf]))
  <2>1. HashLen[suite.kdf] # 0
    BY KnownLengths
  <2> QED  BY <2>1, ExpandYields
<1>4. key.ok => AeadInitOk(suite, key.val)
  <2>1. ByteLen(<<>>) = 0
    BY DEF ByteLen
  <2>2. \A len : ByteLen(Expanded(suite, secret, "key", ksc, len)) = len
    BY DEF ByteLen, Expanded
  <2> QED  BY <1>1, <2>1, <2>2, Results DEF AeadInitOk
<1>5. x = IF ~key.ok THEN key
          ELSE IF ~nonce.ok THEN nonce
          ELSE IF ~exp.ok THEN exp
          ELSE IF ~AeadInitOk(suite, key.val) THEN Err("AeadInitError")
          ELSE Ok(ContextNew(key.val, NonceBytes(nonce.val), exp.val))
  BY DEF DeriveContext, ExpandedKeyLen
<1> HIDE DEF key, nonce, exp, x, id
<1>6. ASSUME key.ok, nonce.ok, exp.ok
      PROVE  /\ x.ok /\ IsContext(x.val)
             /\ x.val.exporter_secret
                  = Expanded(suite, secret, "exp", ksc, HashLen[suite.kdf])
             /\ CanSeal(suite) =>
                  x.val.cipher = Expanded(suite, secret, "key", ksc, KeyLen[suite.aead])
  <2>1. x = Ok(ContextNew(key.val, NonceBytes(nonce.val), exp.val))
    BY <1>4, <1>5, <1>6
  <2>2. /\ x.ok /\ IsContext(x.val)
        /\ x.val.exporter_secret = exp.val /\ x.val.cipher = key.val
    BY <2>1, Results DEF ContextNew, IsContext
  <2>3. exp.val = Expanded(suite, secret, "exp", ksc, HashLen[suite.kdf])
    BY <1>3, <1>6, Results
  <2>4. CanSeal(suite) => key.val = Expanded(suite, secret, "key", ksc, KeyLen[suite.aead])
    BY <1>1, <1>6, Results, KnownLengths
  <2> QED  BY <2>2, <2>3, <2>4
<1>7. ~(key.ok /\ nonce.ok /\ exp.ok) => x = Err("ExportLengthExceeded")
  BY <1>1, <1>2, <1>3, <1>5, Results
<1> QED  BY <1>6, <1>7 DEF x

\* Equal exporter secrets were derived from equal inputs.
LEMMA ExpandedInjective ==
    ASSUME NEW s \in Suites, NEW t \in Suites, SuitesAreKnown,
           NEW x, NEW y, NEW ksc, NEW ksd, NEW label, NEW m, NEW n,
           Expanded(s, x, label, ksc, m) = Expanded(t, y, label, ksd, n)
    PROVE  s = t /\ x = y /\ ksc = ksd
<1>1. x = y /\ <<m, "HPKE-v1", Ciphersuite(s), label, ksc>>
                 = <<n, "HPKE-v1", Ciphersuite(t), label, ksd>>
  BY DEF Expanded
<1>2. Ciphersuite(s) = Ciphersuite(t) /\ ksc = ksd
  BY <1>1
<1>3. s.kdf = t.kdf /\ s.aead = t.aead
  BY <1>2 DEF Ciphersuite
<1> QED  BY <1>1, <1>2, <1>3, KnownLengths

\* Equal secrets and key schedule contexts come from equal inputs.
LEMMA ScheduleInjective ==
    ASSUME NEW suite \in Suites, NEW m, NEW n, NEW x, NEW y, NEW i, NEW j,
           NEW p \in IF IsPskMode(m) THEN Psks ELSE {NoPsk},
           NEW q \in IF IsPskMode(n) THEN Psks ELSE {NoPsk},
           Secret(m, suite, x, p) = Secret(n, suite, y, q),
           KsContext(m, suite, i, p) = KsContext(n, suite, j, q)
    PROVE  m = n /\ x = y /\ i = j /\ p = q
<1> DEFINE id    == Ciphersuite(suite)
           pid   == IF IsPskMode(m) THEN p.id ELSE EmptyBytes
           qid   == IF IsPskMode(n) THEN q.id ELSE EmptyBytes
           psec  == IF IsPskMode(m) THEN p.secret ELSE EmptyBytes
           qsec  == IF IsPskMode(n) THEN q.secret ELSE EmptyBytes
<1>1. \A l, a, b, k1, k2 :
        LabeledExtract(suite.kdf, a, id, l, k1) = LabeledExtract(suite.kdf, b, id, l, k2)
          => a = b /\ k1 = k2
  <2> SUFFICES ASSUME NEW l, NEW a, NEW b, NEW k1, NEW k2,
                      <<"prk", suite.kdf, a, <<"HPKE-v1", id, l, k1>>>>
                        = <<"prk", suite.kdf, b, <<"HPKE-v1", id, l, k2>>>>
               PROVE  a = b /\ k1 = k2
    BY DEF LabeledExtract, Extract
  <2>1. a = b /\ <<"HPKE-v1", id, l, k1>> = <<"HPKE-v1", id, l, k2>>
    OBVIOUS
  <2> QED  BY <2>1
<1>2. x = y /\ psec = qsec
  BY <1>1 DEF Secret
<1>3. m = n /\ pid = qid /\ i = j
  BY <1>1 DEF KsContext
<1>4. ASSUME IsPskMode(m) PROVE p = q
  <2>1. p \in Psks /\ q \in Psks
    BY <1>3, <1>4
  <2>2. p.id = q.id /\ p.secret = q.secret
    BY <1>2, <1>3, <1>4
  <2>3. \A r \in Psks : r = [secret |-> r.secret, id |-> r.id]
    BY DEF Psks, PskNew, Ok, Err
  <2> QED  BY <2>1, <2>2, <2>3
<1>5. ~IsPskMode(m) => p = q
  BY <1>3
<1> QED  BY <1>2, <1>3, <1>4, <1>5
----------------------------------------------------------------------------
\* Set-ups.

\* A set-up with transcript t returned the context x.
SenderResult(t, x) ==
    \E e \in Ephemerals, a \in SenderArgs :
        LET s == SetupS(e, a)
        IN  s.ok /\ t = SenderTranscript(a, s.val.enc) /\ x = s.val.ctx
ReceiverResult(t, x) ==
    \E b \in ReceiverArgsFor(AllEncs) :
        LET s == SetupR(b)
        IN  s.ok /\ t = ReceiverTranscript(b) /\ x = s.val

\* x is what the key schedule makes of ss and the rest of t.
Schedules(t, ss, x) ==
    LET c == DeriveContext(t.suite, Secret(t.mode, t.suite, ss, t.psk),
                           KsContext(t.mode, t.suite, t.info, t.psk))
    IN  c.ok /\ c.val = x

\* What a transcript holds, and that some secret led from it to x.
Keyed(t, x) ==
    /\ t.suite \in Suites
    /\ t.psk \in IF IsPskMode(t.mode) THEN Psks ELSE {NoPsk}
    /\ \E ss : SecretOf(t, ss) /\ Schedules(t, ss, x)

\* The fields of a transcript.
LEMMA TranscriptFields ==
    ASSUME NEW a, NEW enc, NEW pkR, NEW pkS
    PROVE  LET t == Transcript(a, enc, pkR, pkS)
           IN  /\ t.mode = a.mode /\ t.suite = a.suite /\ t.info = a.info
               /\ t.psk = a.psk /\ t.enc = enc /\ t.pkR = pkR /\ t.pkS = pkS
BY DEF Transcript

\* What the arguments of a set-up may be.
LEMMA SenderArgsHave ==
    ASSUME NEW a \in SenderArgs
    PROVE  /\ a.suite \in Suites /\ a.pkR \in RecipientPks
           /\ a.psk \in IF IsPskMode(a.mode) THEN Psks ELSE {NoPsk}
           /\ a.skS \in IF IsAuthMode(a.mode) THEN SenderSks ELSE {NoKey}
BY DEF SenderArgs

\* The same for the other side.
LEMMA ReceiverArgsHave ==
    ASSUME NEW encs, NEW b \in ReceiverArgsFor(encs)
    PROVE  /\ b.suite \in Suites
           /\ b.psk \in IF IsPskMode(b.mode) THEN Psks ELSE {NoPsk}
BY DEF ReceiverArgsFor

\* setup_sender_* runs the schedule on what the KEM call gave.
LEMMA SenderSetup ==
    ASSUME NEW e, NEW a
    PROVE  LET k == SenderKem(e, a)
               c == KeySchedule(a.mode, a.suite, k.val.ss, a.info, a.psk)
           IN  SetupS(e, a) = IF ~k.ok THEN k
                              ELSE IF ~c.ok THEN c
                              ELSE Ok([enc |-> k.val.enc, ctx |-> c.val])
BY DEF SetupS, SenderKem

\* So does setup_receiver_*, after reading enc.
LEMMA ReceiverSetup ==
    ASSUME NEW b
    PROVE  LET enc == EncFromBytes(b.enc)
               ss  == ReceiverKem(b)
           IN  SetupR(b) = IF ~enc.ok THEN enc
                           ELSE IF ~ss.ok THEN ss
                           ELSE KeySchedule(b.mode, b.suite, ss.val, b.info, b.psk)
BY DEF SetupR, ReceiverKem

\* A sender's context is keyed by its transcript.
LEMMA SenderKeyed ==
    ASSUME NEW t, NEW x, SenderResult(t, x) PROVE Keyed(t, x)
<1>1. PICK e \in Ephemerals, a \in SenderArgs :
        LET s == SetupS(e, a)
        IN  s.ok /\ t = SenderTranscript(a, s.val.enc) /\ x = s.val.ctx
  BY DEF SenderResult
<1> DEFINE k == SenderKem(e, a)
           c == KeySchedule(a.mode, a.suite, k.val.ss, a.info, a.psk)
<1>2. SetupS(e, a) = IF ~k.ok THEN k
                     ELSE IF ~c.ok THEN c
                     ELSE Ok([enc |-> k.val.enc, ctx |-> c.val])
  BY SenderSetup
<1> HIDE DEF k, c
<1>3. k.ok /\ c.ok /\ SetupS(e, a).val = [enc |-> k.val.enc, ctx |-> c.val]
  BY <1>1, <1>2, Results
<1>4. t = SenderTranscript(a, k.val.enc) /\ x = c.val
  BY <1>1, <1>3
<1>5. t.mode = a.mode /\ t.suite = a.suite /\ t.info = a.info /\ t.psk = a.psk
  BY <1>4, TranscriptFields DEF SenderTranscript
<1>6. SecretOf(t, k.val.ss)
  BY <1>3, <1>4 DEF SecretOf, k
<1>7. Schedules(t, k.val.ss, x)
  BY <1>3, <1>4, <1>5, ScheduleIsDerivation DEF Schedules, c
<1> QED  BY <1>5, <1>6, <1>7, SenderArgsHave DEF Keyed

\* So is a receiver's.
LEMMA ReceiverKeyed ==
    ASSUME NEW t, NEW x, ReceiverResult(t, x) PROVE Keyed(t, x)
<1>1. PICK b \in ReceiverArgsFor(AllEncs) :
        SetupR(b).ok /\ t = ReceiverTranscript(b) /\ x = SetupR(b).val
  BY DEF ReceiverResult
<1> DEFINE enc == EncFromBytes(b.enc)
           k   == ReceiverKem(b)
           c   == KeySchedule(b.mode, b.suite, k.val, b.info, b.psk)
<1>2. SetupR(b) = IF ~enc.ok THEN enc ELSE IF ~k.ok THEN k ELSE c
  BY ReceiverSetup
<1> HIDE DEF enc, k, c
<1>3. enc.ok /\ k.ok /\ c.ok /\ x = c.val
  BY <1>1, <1>2
<1>4. t.mode = b.mode /\ t.suite = b.suite /\ t.info = b.info /\ t.psk = b.psk
  BY <1>1, TranscriptFields DEF ReceiverTranscript
<1>5. SecretOf(t, k.val)
  BY <1>1, <1>3 DEF SecretOf, k, enc
<1>6. Schedules(t, k.val, x)
  BY <1>3, <1>4, ScheduleIsDerivation DEF Schedules, c
<1> QED  BY <1>4, <1>5, <1>6, ReceiverArgsHave DEF Keyed

\* A keyed context names all that it was derived from.
LEMMA KeyedNames ==
    ASSUME SuitesAreKnown, NEW t, NEW x, NEW ss, t.suite \in Suites, Schedules(t, ss, x)
    PROVE  LET sec == Secret(t.mode, t.suite, ss, t.psk)
               ksc == KsContext(t.mode, t.suite, t.info, t.psk)
           IN  /\ IsContext(x)
               /\ x.exporter_secret
                    = Expanded(t.suite, sec, "exp", ksc, HashLen[t.suite.kdf])
               /\ CanSeal(t.suite) =>
                    x.cipher = Expanded(t.suite, sec, "key", ksc, KeyLen[t.suite.aead])
<1> DEFINE sec == Secret(t.mode, t.suite, ss, t.psk)
           ksc == KsContext(t.mode, t.suite, t.info, t.psk)
           c   == DeriveContext(t.suite, sec, ksc)
<1>1. c.ok /\ c.val = x
  BY DEF Schedules
<1>2. c # Err("ExportLengthExceeded")
  BY <1>1, Results
<1>3. \/ c = Err("ExportLengthExceeded")
      \/ /\ c.ok /\ IsContext(c.val)
         /\ c.val.exporter_secret
              = Expanded(t.suite, sec, "exp", ksc, HashLen[t.suite.kdf])
         /\ CanSeal(t.suite) =>
              c.val.cipher = Expanded(t.suite, sec, "key", ksc, KeyLen[t.suite.aead])
  BY DerivedKeysName
<1> HIDE DEF c, sec, ksc
<1>4. /\ IsContext(x)
      /\ x.exporter_secret = Expanded(t.suite, sec, "exp", ksc, HashLen[t.suite.kdf])
      /\ CanSeal(t.suite) =>
           x.cipher = Expanded(t.suite, sec, "key", ksc, KeyLen[t.suite.aead])
  BY <1>1, <1>2, <1>3
<1> QED  BY <1>4 DEF sec, ksc

\* The record of a transcript.
LEMMA IsTranscript ==
    ASSUME NEW t, NEW ss, SecretOf(t, ss)
    PROVE  t = [mode |-> t.mode, suite |-> t.suite, info |-> t.info, psk |-> t.psk,
                enc |-> t.enc, pkR |-> t.pkR, pkS |-> t.pkS]
<1>1. \A a, enc, pkR, pkS :
        LET x == Transcript(a, enc, pkR, pkS)
        IN  x = [mode |-> x.mode, suite |-> x.suite, info |-> x.info, psk |-> x.psk,
                 enc |-> x.enc, pkR |-> x.pkR, pkS |-> x.pkS]
  BY DEF Transcript
<1>2. \E a, enc, pkR, pkS : t = Transcript(a, enc, pkR, pkS)
  BY DEF SecretOf, SenderTranscript, ReceiverTranscript
<1> QED  BY <1>1, <1>2

\* Contexts share a key exactly when they share a transcript.
LEMMA KeyedBinds ==
    ASSUME SuitesAreKnown, KemBinds, NEW t, NEW u, NEW x, NEW y, Keyed(t, x), Keyed(u, y)
    PROVE  /\ x.exporter_secret = y.exporter_secret <=> t = u
           /\ CanSeal(t.suite) /\ CanSeal(u.suite) => (x.cipher = y.cipher <=> t = u)
<1>1. PICK ss : SecretOf(t, ss) /\ Schedules(t, ss, x)
  BY DEF Keyed
<1>2. PICK sr : SecretOf(u, sr) /\ Schedules(u, sr, y)
  BY DEF Keyed
<1>3. /\ t.suite \in Suites /\ u.suite \in Suites
      /\ t.psk \in IF IsPskMode(t.mode) THEN Psks ELSE {NoPsk}
      /\ u.psk \in IF IsPskMode(u.mode) THEN Psks ELSE {NoPsk}
  BY DEF Keyed
<1>4. ss = sr <=> t.enc = u.enc /\ t.pkR = u.pkR /\ t.pkS = u.pkS
  BY <1>1, <1>2 DEF KemBinds
<1> DEFINE sec(v, s) == Secret(v.mode, v.suite, s, v.psk)
           ksc(v)    == KsContext(v.mode, v.suite, v.info, v.psk)
<1>5. ASSUME t = u PROVE x = y
  BY <1>1, <1>2, <1>4, <1>5 DEF Schedules
<1>6. ASSUME t.suite = u.suite, sec(t, ss) = sec(u, sr), ksc(t) = ksc(u) PROVE t = u
  <2>1. t.mode = u.mode /\ ss = sr /\ t.info = u.info /\ t.psk = u.psk
    BY <1>3, <1>6, ScheduleInjective
  <2>2. t.enc = u.enc /\ t.pkR = u.pkR /\ t.pkS = u.pkS
    BY <1>4, <2>1
  <2> QED  BY <1>1, <1>2, <1>6, <2>1, <2>2, IsTranscript
<1>7. /\ x.exporter_secret = Expanded(t.suite, sec(t, ss), "exp", ksc(t), HashLen[t.suite.kdf])
      /\ CanSeal(t.suite) =>
           x.cipher = Expanded(t.suite, sec(t, ss), "key", ksc(t), KeyLen[t.suite.aead])
  BY <1>1, <1>3, KeyedNames
<1>8. /\ y.exporter_secret = Expanded(u.suite, sec(u, sr), "exp", ksc(u), HashLen[u.suite.kdf])
      /\ CanSeal(u.suite) =>
           y.cipher = Expanded(u.suite, sec(u, sr), "key", ksc(u), KeyLen[u.suite.aead])
  BY <1>2, <1>3, KeyedNames
<1> HIDE DEF sec, ksc
<1>9. ASSUME NEW label, NEW m, NEW n,
             Expanded(t.suite, sec(t, ss), label, ksc(t), m)
               = Expanded(u.suite, sec(u, sr), label, ksc(u), n)
      PROVE  t = u
  BY <1>3, <1>6, <1>9, ExpandedInjective
<1> QED  BY <1>5, <1>7, <1>8, <1>9

----------------------------------------------------------------------------
\* Every context is what a set-up returned, whatever it was used for since.

Result(c, t, x) ==
    \/ c \in Senders /\ SenderResult(t, x)
    \/ c \in Receivers /\ ReceiverResult(t, x)

MadeBySetup(c) ==
    \E x : /\ Result(c, tr[c], x)
           /\ Live(c) => IsContext(ctx[c]) /\ SameKeys(ctx[c], x)

SetupInv ==
    /\ DOMAIN ctx = Contexts /\ DOMAIN tr = Contexts /\ fresh \subseteq Ephemerals
    /\ \A c \in Contexts : Live(c) => tr[c] # Absent
    /\ \A c \in Contexts : tr[c] # Absent => MadeBySetup(c)

\* Initially there are no contexts.
LEMMA SetupInvInit == Init => SetupInv
BY DEF Init, SetupInv, Live

\* Calls that touch neither contexts nor transcripts keep the invariant.
LEMMA NothingSetUp ==
    ASSUME SetupInv, ctx' = ctx, tr' = tr, fresh' \subseteq fresh
    PROVE  SetupInv'
BY DEF SetupInv, Live, MadeBySetup

\* A set-up that is remembered, its context kept or dropped.
LEMMA OneSetUp ==
    ASSUME SetupInv, AbsentIsNone, NEW c \in Contexts, NEW t, NEW x,
           tr[c] = Absent, Result(c, t, x), IsContext(x),
           \E a, enc, pkR, pkS : t = Transcript(a, enc, pkR, pkS),
           tr' = [tr EXCEPT ![c] = t],
           ctx' = ctx \/ ctx' = [ctx EXCEPT ![c] = x],
           fresh' \subseteq fresh
    PROVE  SetupInv'
<1>1. t # Absent
  BY DEF AbsentIsNone
<1>2. ~Live(c)
  BY DEF SetupInv
<1>3. DOMAIN ctx' = Contexts /\ DOMAIN tr' = Contexts /\ fresh' \subseteq Ephemerals
  BY DEF SetupInv
<1>4. ASSUME NEW d \in Contexts, d # c
      PROVE  ctx'[d] = ctx[d] /\ tr'[d] = tr[d]
  BY <1>4 DEF SetupInv
<1>5. tr'[c] = t /\ (ctx'[c] # Absent => ctx'[c] = x)
  BY <1>2 DEF SetupInv, Live
<1>6. MadeBySetup(c)'
  BY <1>5 DEF MadeBySetup, Live, SameKeys
<1>7. ASSUME NEW d \in Contexts, d # c, tr[d] # Absent
      PROVE  MadeBySetup(d)'
  BY <1>4, <1>7 DEF SetupInv, MadeBySetup, Live
<1>8. \A d \in Contexts : Live(d)' => tr'[d] # Absent
  BY <1>1, <1>4, <1>5 DEF SetupInv, Live
<1> QED  BY <1>3, <1>4, <1>6, <1>7, <1>8 DEF SetupInv

\* Advancing a counter leaves the keys alone.
LEMMA AdvanceKeeps ==
    ASSUME SetupInv, NEW c \in Contexts, Live(c), Advance(c), tr' = tr, fresh' = fresh
    PROVE  SetupInv'
<1>1. ctx' = [ctx EXCEPT ![c].seq = SeqSucc(@)]
  BY DEF Advance
<1>2. tr[c] # Absent /\ MadeBySetup(c) /\ c \in DOMAIN ctx
  BY DEF SetupInv
<1>3. IsContext(ctx[c])
  BY <1>2 DEF MadeBySetup
<1>4. ctx'[c] = [ctx[c] EXCEPT !.seq = SeqSucc(ctx[c].seq)]
  BY <1>1, <1>2
<1>5. IsContext(ctx'[c]) /\ SameKeys(ctx'[c], ctx[c])
  BY <1>3, <1>4 DEF IsContext, SameKeys
<1>6. \A d \in Contexts : d # c => ctx'[d] = ctx[d]
  BY <1>1 DEF SetupInv
<1>7. MadeBySetup(c)'
  BY <1>2, <1>5 DEF MadeBySetup, Live, SameKeys
<1>8. \A d \in Contexts : d # c /\ tr[d] # Absent => MadeBySetup(d)'
  BY <1>6 DEF SetupInv, MadeBySetup, Live
<1>9. \A d \in Contexts : Live(d)' => tr'[d] # Absent
  BY <1>2, <1>6 DEF SetupInv, Live
<1>10. DOMAIN ctx' = Contexts
  BY <1>1 DEF SetupInv
<1> QED  BY <1>2, <1>7, <1>8, <1>9, <1>10 DEF SetupInv

\* What a successful set-up returns satisfies OneSetUp's hypotheses.
LEMMA SenderSetUpOk ==
    ASSUME SuitesAreKnown, NEW w \in Senders, NEW e \in Ephemerals, NEW a \in SenderArgs,
           SetupS(e, a).ok
    PROVE  LET v == SetupS(e, a).val
               t == SenderTranscript(a, v.enc)
           IN  Result(w, t, v.ctx) /\ IsContext(v.ctx)
<1> DEFINE v == SetupS(e, a).val
           t == SenderTranscript(a, v.enc)
<1>1. SenderResult(t, v.ctx)
  BY DEF SenderResult
<1>2. Keyed(t, v.ctx)
  BY <1>1, SenderKeyed
<1>3. IsContext(v.ctx)
  BY <1>2, KeyedNames DEF Keyed
<1> QED  BY <1>1, <1>3 DEF Result

\* Whatever reaches a recipient comes from what some set-up can have returned.
LEMMA Delivers == ASSUME SetupInv PROVE ReceiverArgs \subseteq ReceiverArgsFor(AllEncs)
<1>1. ASSUME NEW w \in Senders, tr[w] # Absent PROVE tr[w].enc \in {s.enc : s \in SenderSetups}
  <2>1. w \in Contexts /\ w \notin Receivers
    BY ContextAssumption DEF Contexts
  <2>2. PICK x : SenderResult(tr[w], x)
    BY <1>1, <2>1 DEF SetupInv, MadeBySetup, Result
  <2>3. PICK e \in Ephemerals, a \in SenderArgs :
          SetupS(e, a).ok /\ tr[w] = SenderTranscript(a, SetupS(e, a).val.enc)
    BY <2>2 DEF SenderResult
  <2>4. tr[w].enc = SetupS(e, a).val.enc
    BY <2>3, TranscriptFields DEF SenderTranscript
  <2>5. SetupS(e, a).val \in SenderSetups
    BY <2>3 DEF SenderSetups, Oks
  <2> QED  BY <2>4, <2>5
<1>2. Delivered \subseteq AllEncs
  BY <1>1 DEF Delivered, SentEncs, AllEncs
<1> HIDE DEF AllEncs, Delivered
<1> QED  BY <1>2 DEF ReceiverArgs, ReceiverArgsFor

\* The same for a receiver.
LEMMA ReceiverSetUpOk ==
    ASSUME SuitesAreKnown, SetupInv, NEW r \in Receivers, NEW b \in ReceiverArgs, SetupR(b).ok
    PROVE  LET t == ReceiverTranscript(b)
           IN  Result(r, t, SetupR(b).val) /\ IsContext(SetupR(b).val)
<1> DEFINE t == ReceiverTranscript(b)
           x == SetupR(b).val
<1>1. ReceiverResult(t, x)
  BY Delivers DEF ReceiverResult
<1>2. Keyed(t, x)
  BY <1>1, ReceiverKeyed
<1>3. IsContext(x)
  BY <1>2, KeyedNames DEF Keyed
<1> QED  BY <1>1, <1>3 DEF Result

\* Every step keeps the invariant.
LEMMA SetupInvStep ==
    ASSUME SuitesAreKnown, AbsentIsNone, SetupInv, [Next]_hpkeVars
    PROVE  SetupInv'
<1>1. ASSUME NEW w \in Senders, NEW e \in fresh, NEW a \in SenderArgs,
             SetupS(e, a).ok, tr[w] = Absent,
             tr' = [tr EXCEPT ![w] = SenderTranscript(a, SetupS(e, a).val.enc)],
             ctx' = ctx \/ ctx' = [ctx EXCEPT ![w] = SetupS(e, a).val.ctx],
             fresh' \subseteq fresh
      PROVE  SetupInv'
  <2>1. w \in Contexts /\ e \in Ephemerals
    BY DEF SetupInv, Contexts
  <2>2. /\ Result(w, SenderTranscript(a, SetupS(e, a).val.enc), SetupS(e, a).val.ctx)
        /\ IsContext(SetupS(e, a).val.ctx)
    BY <1>1, <2>1, SenderSetUpOk
  <2>3. \E b, enc, pkR, pkS :
          SenderTranscript(a, SetupS(e, a).val.enc) = Transcript(b, enc, pkR, pkS)
    BY DEF SenderTranscript
  <2> QED  BY <1>1, <2>1, <2>2, <2>3, OneSetUp
<1>2. ASSUME NEW r \in Receivers, NEW b \in ReceiverArgs,
             SetupR(b).ok, tr[r] = Absent,
             tr' = [tr EXCEPT ![r] = ReceiverTranscript(b)],
             ctx' = ctx \/ ctx' = [ctx EXCEPT ![r] = SetupR(b).val],
             fresh' = fresh
      PROVE  SetupInv'
  <2>1. r \in Contexts
    BY DEF Contexts
  <2>2. Result(r, ReceiverTranscript(b), SetupR(b).val) /\ IsContext(SetupR(b).val)
    BY <1>2, ReceiverSetUpOk
  <2>3. \E a, enc, pkR, pkS : ReceiverTranscript(b) = Transcript(a, enc, pkR, pkS)
    BY DEF ReceiverTranscript
  <2> QED  BY <1>2, <2>1, <2>2, <2>3, OneSetUp
<1>3. CASE Setups
  <2>1. ASSUME NEW w \in Senders, NEW e \in fresh, NEW a \in SenderArgs,
               SetupSenderOk(w, e, a)
        PROVE  SetupInv'
    BY <1>1, <2>1 DEF SetupSenderOk, Draw
  <2>2. ASSUME NEW w \in Senders, NEW e \in fresh, NEW a \in SenderArgs,
               SetupSenderError(w, e, a)
        PROVE  SetupInv'
    BY <2>2, NothingSetUp DEF SetupSenderError, Draw
  <2>3. ASSUME NEW r \in Receivers, NEW b \in ReceiverArgs, SetupReceiverOk(r, b)
        PROVE  SetupInv'
    BY <1>2, <2>3 DEF SetupReceiverOk
  <2>4. ASSUME NEW r \in Receivers, NEW b \in ReceiverArgs, SetupReceiverError(r, b)
        PROVE  SetupInv'
    BY <2>4, NothingSetUp DEF SetupReceiverError
  <2> QED  BY <1>3, <2>1, <2>2, <2>3, <2>4 DEF Setups
<1>4. CASE Messages
  <2>1. ASSUME NEW w \in Senders, NEW aad \in Aad, NEW pt \in Plaintext, Seal(w, aad, pt)
        PROVE  SetupInv'
    <3>1. tr' = tr /\ fresh' = fresh /\ Live(w) /\ w \in Contexts
          /\ (ctx' = ctx \/ Advance(w))
      BY <2>1 DEF Seal, SealLimit, SealError, SealOk, Contexts
    <3> QED  BY <3>1, NothingSetUp, AdvanceKeeps
  <2>2. ASSUME NEW r \in Receivers, NEW aad \in Aad, NEW ct \in Network, Open(r, aad, ct)
        PROVE  SetupInv'
    <3>1. tr' = tr /\ fresh' = fresh /\ Live(r) /\ r \in Contexts
          /\ (ctx' = ctx \/ Advance(r))
      BY <2>2 DEF Open, OpenLimit, OpenError, OpenOk, Contexts
    <3> QED  BY <3>1, NothingSetUp, AdvanceKeeps
  <2> QED  BY <1>4, <2>1, <2>2 DEF Messages
<1>5. CASE Exports
  BY <1>5, NothingSetUp DEF Exports, Export
<1>6. CASE SingleShots
  <2>1. ASSUME NEW w \in Senders, NEW e \in fresh, NEW a \in SenderArgs,
               NEW aad \in Aad, NEW pt \in Plaintext, SealBaseEtc(w, e, a, aad, pt)
        PROVE  SetupInv'
    BY <1>1, <2>1 DEF SealBaseEtc, Draw
  <2>2. ASSUME NEW w \in Senders, NEW e \in fresh, NEW a \in SenderArgs,
               NEW pt \in Plaintext, SealBaseEtcError(w, e, a, pt)
        PROVE  SetupInv'
    BY <2>2, NothingSetUp DEF SealBaseEtcError, Draw
  <2>3. ASSUME NEW r \in Receivers, NEW b \in ReceiverArgs, NEW aad \in Aad,
               NEW ct \in Network, OpenBaseEtc(r, b, aad, ct)
        PROVE  SetupInv'
    BY <1>2, <2>3 DEF OpenBaseEtc
  <2>4. ASSUME NEW r \in Receivers, NEW b \in ReceiverArgs, NEW aad \in Aad,
               NEW ct \in Network, OpenBaseEtcError(r, b, aad, ct)
        PROVE  SetupInv'
    BY <2>4, NothingSetUp DEF OpenBaseEtcError
  <2>5. ASSUME NEW w \in Senders, NEW e \in fresh, NEW a \in SenderArgs,
               NEW ectx \in ExporterContexts, NEW len \in ExportLengths,
               SendExport(w, e, a, ectx, len)
        PROVE  SetupInv'
    <3>1. ctx' = ctx /\ fresh' \subseteq fresh /\ tr[w] = Absent
      BY <2>5 DEF SendExport, Draw
    <3>2. \/ /\ SetupS(e, a).ok
             /\ tr' = [tr EXCEPT ![w] = SenderTranscript(a, SetupS(e, a).val.enc)]
          \/ tr' = tr
      BY <2>5 DEF SendExport
    <3> QED  BY <3>1, <3>2, <1>1, NothingSetUp
  <2>6. ASSUME NEW r \in Receivers, NEW b \in ReceiverArgs,
               NEW ectx \in ExporterContexts, NEW len \in ExportLengths,
               ReceiverExport(r, b, ectx, len)
        PROVE  SetupInv'
    <3>1. ctx' = ctx /\ fresh' = fresh /\ tr[r] = Absent
      BY <2>6 DEF ReceiverExport
    <3>2. \/ SetupR(b).ok /\ tr' = [tr EXCEPT ![r] = ReceiverTranscript(b)]
          \/ tr' = tr
      BY <2>6 DEF ReceiverExport
    <3> QED  BY <3>1, <3>2, <1>2, NothingSetUp
  <2> QED  BY <1>6, <2>1, <2>2, <2>3, <2>4, <2>5, <2>6 DEF SingleShots
<1>7. CASE UNCHANGED hpkeVars
  BY <1>7, NothingSetUp DEF hpkeVars
<1> QED  BY <1>3, <1>4, <1>5, <1>6, <1>7 DEF Next

\* Contexts and transcripts belong together, in every state of lib.rs's calls.
THEOREM Invariance == SuitesAreKnown /\ AbsentIsNone => (Spec => []SetupInv)
<1>1. ASSUME SuitesAreKnown, AbsentIsNone PROVE SetupInv /\ [Next]_hpkeVars => SetupInv'
  BY <1>1, SetupInvStep
<1>2. ASSUME SuitesAreKnown, AbsentIsNone PROVE Spec => []SetupInv
  BY <1>1, <1>2, SetupInvInit, PTL DEF Spec
<1> QED  BY <1>2
----------------------------------------------------------------------------
\* What the invariant says of one context.
LEMMA ContextKeyed ==
    ASSUME SetupInv, NEW c \in Contexts, tr[c] # Absent
    PROVE  \E x : /\ Keyed(tr[c], x)
                  /\ Live(c) => IsContext(ctx[c]) /\ SameKeys(ctx[c], x)
<1>1. PICK x : /\ Result(c, tr[c], x)
               /\ Live(c) => IsContext(ctx[c]) /\ SameKeys(ctx[c], x)
  BY DEF SetupInv, MadeBySetup
<1>2. Keyed(tr[c], x)
  BY <1>1, SenderKeyed, ReceiverKeyed DEF Result
<1> QED  BY <1>1, <1>2

\* Keys name transcripts.
LEMMA InvBinds == SuitesAreKnown /\ KemBinds /\ SetupInv => KeysBindTranscript
<1> SUFFICES ASSUME SuitesAreKnown, KemBinds, SetupInv,
                    NEW c \in Contexts, NEW d \in Contexts, Live(c), Live(d)
             PROVE  /\ ctx[c].exporter_secret = ctx[d].exporter_secret <=> tr[c] = tr[d]
                    /\ CanSeal(tr[c].suite) /\ CanSeal(tr[d].suite) =>
                         (ctx[c].cipher = ctx[d].cipher <=> tr[c] = tr[d])
  BY DEF KeysBindTranscript
<1>1. tr[c] # Absent /\ tr[d] # Absent
  BY DEF SetupInv
<1>2. PICK x : Keyed(tr[c], x) /\ SameKeys(ctx[c], x)
  BY <1>1, ContextKeyed
<1>3. PICK y : Keyed(tr[d], y) /\ SameKeys(ctx[d], y)
  BY <1>1, ContextKeyed
<1>4. /\ x.exporter_secret = y.exporter_secret <=> tr[c] = tr[d]
      /\ CanSeal(tr[c].suite) /\ CanSeal(tr[d].suite) =>
           (x.cipher = y.cipher <=> tr[c] = tr[d])
  BY <1>2, <1>3, KeyedBinds
<1> QED  BY <1>2, <1>3, <1>4 DEF SameKeys

\* lib.rs:199-300: in the four modes and over all suites, the keys of two
\* contexts are the same exactly when every input of their set-ups is.
THEOREM Binding ==
    SuitesAreKnown /\ AbsentIsNone /\ KemBinds => (Spec => []KeysBindTranscript)
<1>1. ASSUME SuitesAreKnown, AbsentIsNone, KemBinds PROVE SetupInv => KeysBindTranscript
  BY <1>1, InvBinds
<1>2. ASSUME SuitesAreKnown, AbsentIsNone, KemBinds PROVE Spec => []KeysBindTranscript
  BY <1>1, <1>2, Invariance, PTL
<1> QED  BY <1>2

----------------------------------------------------------------------------
\* A recipient who is given what the sender used sets up the same context.
LEMMA InvFollows == SuitesAreKnown /\ KemFollows /\ SetupInv => PeerCanFollow
<1> SUFFICES ASSUME SuitesAreKnown, KemFollows, SetupInv,
                    NEW w \in Senders, NEW skR \in RecipientSks,
                    NEW pkS \in SenderPks \cup {NoKey},
                    Live(w), SkToPkBytes(skR) = tr[w].pkR,
                    IF IsAuthMode(tr[w].mode) THEN pkS # NoKey /\ PkBytes(pkS) = tr[w].pkS
                                              ELSE pkS = NoKey
             PROVE  LET t == tr[w]
                        b == [mode |-> t.mode, suite |-> t.suite, info |-> t.info,
                              psk |-> t.psk, enc |-> t.enc, skR |-> skR, pkS |-> pkS]
                    IN  /\ SetupR(b).ok
                        /\ [SetupR(b).val EXCEPT !.seq = ctx[w].seq] = ctx[w]
  BY DEF PeerCanFollow
<1> DEFINE t == tr[w]
           b == [mode |-> t.mode, suite |-> t.suite, info |-> t.info,
                 psk |-> t.psk, enc |-> t.enc, skR |-> skR, pkS |-> pkS]
<1>1. w \in Contexts /\ w \notin Receivers /\ t # Absent
  BY ContextAssumption DEF SetupInv, Contexts
<1>2. PICK x : SenderResult(t, x) /\ IsContext(ctx[w]) /\ SameKeys(ctx[w], x)
  BY <1>1 DEF SetupInv, MadeBySetup, Result
<1>3. PICK e \in Ephemerals, a \in SenderArgs :
        /\ SetupS(e, a).ok
        /\ t = SenderTranscript(a, SetupS(e, a).val.enc) /\ x = SetupS(e, a).val.ctx
  BY <1>2 DEF SenderResult
<1> DEFINE k == SenderKem(e, a)
           c == KeySchedule(a.mode, a.suite, k.val.ss, a.info, a.psk)
<1>4. k.ok /\ c.ok /\ t = SenderTranscript(a, k.val.enc) /\ x = c.val
  <2>1. SetupS(e, a) = IF ~k.ok THEN k
                       ELSE IF ~c.ok THEN c
                       ELSE Ok([enc |-> k.val.enc, ctx |-> c.val])
    BY SenderSetup
  <2> HIDE DEF k, c
  <2>2. k.ok /\ c.ok /\ SetupS(e, a).val = [enc |-> k.val.enc, ctx |-> c.val]
    BY <1>3, <2>1, Results
  <2> QED  BY <1>3, <2>2
<1>5. /\ t.mode = a.mode /\ t.suite = a.suite /\ t.info = a.info /\ t.psk = a.psk
      /\ t.enc = k.val.enc /\ t.pkR = PkBytes(a.pkR)
      /\ t.pkS = IF IsAuthMode(a.mode) THEN SkToPkBytes(a.skS) ELSE NoKey
  BY <1>4, TranscriptFields DEF SenderTranscript
<1>6. EncFromBytes(b.enc).ok /\ ReceiverKem(b) = Ok(k.val.ss)
  <2>1. a.pkR \in RecipientPks /\ (IsAuthMode(a.mode) => a.skS \in SenderSks)
    BY SenderArgsHave
  <2>2. b.enc = k.val.enc /\ b.skR = skR /\ b.pkS = pkS /\ b.mode = a.mode
    BY <1>5
  <2>3. SkToPkBytes(skR) = PkBytes(a.pkR)
    BY <1>5
  <2>4. CASE IsAuthMode(a.mode)
    <3>1. pkS \in SenderPks /\ PkBytes(pkS) = SkToPkBytes(a.skS)
      BY <1>5, <2>4
    <3>2. k = KemAuthEncap(e, a.pkR, a.skS)
      BY <2>4 DEF SenderKem
    <3>3. LET enc == EncFromBytes(k.val.enc)
          IN  enc.ok /\ KemAuthDecap(enc.val, skR, pkS) = Ok(k.val.ss)
      BY <1>4, <2>1, <2>3, <2>4, <3>1, <3>2 DEF KemFollows
    <3> QED  BY <2>2, <2>4, <3>3 DEF ReceiverKem
  <2>5. CASE ~IsAuthMode(a.mode)
    <3>1. k = KemEncap(e, a.pkR)
      BY <2>5 DEF SenderKem
    <3>2. LET enc == EncFromBytes(k.val.enc)
          IN  enc.ok /\ KemDecap(enc.val, skR) = Ok(k.val.ss)
      BY <1>4, <2>1, <2>3, <3>1 DEF KemFollows
    <3> QED  BY <2>2, <2>5, <3>2 DEF ReceiverKem
  <2> QED  BY <2>4, <2>5
<1>7. SetupR(b) = c
  <2>1. SetupR(b) = KeySchedule(b.mode, b.suite, k.val.ss, b.info, b.psk)
    BY <1>6, ReceiverSetup, Results
  <2> QED  BY <1>5, <2>1
<1>8. IsContext(x)
  BY <1>2, SenderKeyed, KeyedNames DEF Keyed
<1>9. [x EXCEPT !.seq = ctx[w].seq] = ctx[w]
  <2>1. [x EXCEPT !.seq = ctx[w].seq]
          = [cipher |-> x.cipher, base_nonce |-> x.base_nonce,
             exporter_secret |-> x.exporter_secret, seq |-> ctx[w].seq]
    BY <1>8 DEF IsContext
  <2> QED  BY <1>2, <2>1 DEF IsContext, SameKeys
<1> QED  BY <1>4, <1>7, <1>9

\* lib.rs, setup_sender_* and setup_receiver_*, written separately for the two
\* roles: they never disagree about a key, nonce or exporter secret.
THEOREM Agreement ==
    SuitesAreKnown /\ AbsentIsNone /\ KemFollows => (Spec => []PeerCanFollow)
<1>1. ASSUME SuitesAreKnown, AbsentIsNone, KemFollows PROVE SetupInv => PeerCanFollow
  BY <1>1, InvFollows
<1>2. ASSUME SuitesAreKnown, AbsentIsNone, KemFollows PROVE Spec => []PeerCanFollow
  BY <1>1, <1>2, Invariance, PTL
<1> QED  BY <1>2

----------------------------------------------------------------------------
\* Psk::new lets only long secrets with an identifier pass.
LEMMA PsksAreStrong ==
    ASSUME LengthsAreNat, NEW p \in Psks
    PROVE  p.secret.len >= 32 /\ p.id.len > 0
<1>1. PICK s \in PskSecrets, i \in PskIds : PskNew(s, i).ok /\ p = PskNew(s, i).val
  BY DEF Psks
<1>2. s.len \in Nat /\ i.len \in Nat
  BY DEF LengthsAreNat
<1>3. /\ p = [secret |-> s, id |-> i]
      /\ ~(s.len < MIN_PSK_LEN) /\ s.len # 0 /\ ((s.len = 0) <=> (i.len = 0))
  BY <1>1, Results DEF PskNew
<1> QED  BY <1>2, <1>3 DEF MIN_PSK_LEN

\* psk.rs:50-55: no context in a PSK mode rests on less than that.
THEOREM PskStrength ==
    SuitesAreKnown /\ AbsentIsNone /\ LengthsAreNat => (Spec => []PskModesAreStrong)
<1>1. ASSUME LengthsAreNat PROVE SetupInv => PskModesAreStrong
  <2> SUFFICES ASSUME SetupInv, NEW c \in Contexts, tr[c] # Absent
               PROVE  IF IsPskMode(tr[c].mode)
                      THEN tr[c].psk.secret.len >= 32 /\ tr[c].psk.id.len > 0
                      ELSE tr[c].psk = NoPsk
    BY DEF PskModesAreStrong
  <2>1. tr[c].psk \in IF IsPskMode(tr[c].mode) THEN Psks ELSE {NoPsk}
    BY ContextKeyed DEF Keyed
  <2> QED  BY <1>1, <2>1, PsksAreStrong
<1>2. ASSUME SuitesAreKnown, AbsentIsNone, LengthsAreNat
      PROVE  Spec => []PskModesAreStrong
  BY <1>1, <1>2, Invariance, PTL
<1> QED  BY <1>2
----------------------------------------------------------------------------
\* A set-up that fails does so with an error of the KEM or of an expansion.
LEMMA SetupErrors ==
    ASSUME SuitesAreKnown, KemErrors, SetupInv
    PROVE  /\ \A e \in Ephemerals, a \in SenderArgs :
                ~SetupS(e, a).ok => SetupS(e, a).err # "AeadInitError"
           /\ \A b \in ReceiverArgs : ~SetupR(b).ok => SetupR(b).err # "AeadInitError"
<1>1. ASSUME NEW mode, NEW suite \in Suites, NEW ss, NEW info, NEW psk
      PROVE  LET c == KeySchedule(mode, suite, ss, info, psk)
             IN  ~c.ok => c.err # "AeadInitError"
  <2> DEFINE c == KeySchedule(mode, suite, ss, info, psk)
  <2>1. c.ok \/ c = Err("ExportLengthExceeded")
    BY ScheduleIsDerivation, DerivedKeysName
  <2> HIDE DEF c
  <2>2. ~c.ok => c.err # "AeadInitError"
    BY <2>1, Results
  <2> QED  BY <2>2 DEF c
<1>2. ASSUME NEW e \in Ephemerals, NEW a \in SenderArgs, ~SetupS(e, a).ok
      PROVE  SetupS(e, a).err # "AeadInitError"
  <2> DEFINE k == SenderKem(e, a)
             c == KeySchedule(a.mode, a.suite, k.val.ss, a.info, a.psk)
  <2>1. SetupS(e, a) = IF ~k.ok THEN k
                       ELSE IF ~c.ok THEN c
                       ELSE Ok([enc |-> k.val.enc, ctx |-> c.val])
    BY SenderSetup
  <2>2. ~k.ok => k.err # "AeadInitError"
    BY DEF KemCalls, KemErrors
  <2>3. ~c.ok => c.err # "AeadInitError"
    BY <1>1, SenderArgsHave
  <2> HIDE DEF k, c
  <2> QED  BY <1>2, <2>1, <2>2, <2>3, Results
<1>3. ASSUME NEW b \in ReceiverArgs, ~SetupR(b).ok
      PROVE  SetupR(b).err # "AeadInitError"
  <2> DEFINE enc == EncFromBytes(b.enc)
             k   == ReceiverKem(b)
             c   == KeySchedule(b.mode, b.suite, k.val, b.info, b.psk)
  <2>1. SetupR(b) = IF ~enc.ok THEN enc ELSE IF ~k.ok THEN k ELSE c
    BY ReceiverSetup
  <2>2. (~enc.ok => enc.err # "AeadInitError") /\ (~k.ok => k.err # "AeadInitError")
    BY Delivers DEF KemCalls, KemErrors
  <2>3. b.suite \in Suites
    BY ReceiverArgsHave DEF ReceiverArgs
  <2>4. ~c.ok => c.err # "AeadInitError"
    BY <1>1, <2>3
  <2> HIDE DEF enc, k, c
  <2> QED  BY <1>3, <2>1, <2>2, <2>4
<1> QED  BY <1>2, <1>3

\* Exports fail with another error.
LEMMA ExportErrors ==
    ASSUME NEW suite, NEW secret, NEW ectx, NEW len
    PROVE  LET x == ExportOf(suite, secret, ectx, len)
           IN  ~x.ok => x.err # "AeadInitError"
<1> DEFINE x   == ExportOf(suite, secret, ectx, len)
           okm == IF len = 0 THEN <<>> ELSE Expanded(suite, secret, "sec", ectx, len)
<1>1. x = Err("ExportLengthExceeded") \/ x = Ok(okm)
  BY ExpandYields DEF ExportOf
<1> HIDE DEF x, okm
<1>2. ~x.ok => x.err # "AeadInitError"
  BY <1>1, Results
<1> QED  BY <1>2 DEF x

\* No step returns AeadInitError.
LEMMA NoAeadInitError ==
    ASSUME SuitesAreKnown, KemErrors, SetupInv, AeadInitErrorUnreachable,
           [Next]_hpkeVars
    PROVE  AeadInitErrorUnreachable'
<1> USE DEF AeadInitErrorUnreachable, Returns
<1>1. fresh \subseteq Ephemerals
  BY DEF SetupInv
<1>2. CASE Setups
  BY <1>1, <1>2, SetupErrors
     DEF Setups, SetupSenderOk, SetupSenderError, SetupReceiverOk, SetupReceiverError
<1>3. CASE Messages
  BY <1>3
     DEF Messages, Seal, Open, SealLimit, SealError, SealOk, OpenLimit, OpenError, OpenOk
<1>4. CASE Exports
  <2>1. PICK c \in Contexts, ectx \in ExporterContexts, len \in ExportLengths :
          Export(c, ectx, len)
    BY <1>4 DEF Exports
  <2> DEFINE x == ExportOf(tr[c].suite, ctx[c].exporter_secret, ectx, len)
  <2>2. ret'.res = "Ok" \/ (~x.ok /\ ret'.res = x.err)
    BY <2>1 DEF Export
  <2>3. ~x.ok => x.err # "AeadInitError"
    BY ExportErrors
  <2> QED  BY <2>2, <2>3
<1>5. CASE SingleShots
  <2>1. ASSUME NEW w \in Senders, NEW e \in fresh, NEW a \in SenderArgs, NEW pt, NEW aad,
               SealBaseEtc(w, e, a, aad, pt) \/ SealBaseEtcError(w, e, a, pt)
        PROVE  AeadInitErrorUnreachable'
    BY <1>1, <2>1, SetupErrors DEF SealBaseEtc, SealBaseEtcError
  <2>2. ASSUME NEW r \in Receivers, NEW b \in ReceiverArgs, NEW aad, NEW ct,
               OpenBaseEtc(r, b, aad, ct) \/ OpenBaseEtcError(r, b, aad, ct)
        PROVE  AeadInitErrorUnreachable'
    BY <2>2, SetupErrors DEF OpenBaseEtc, OpenBaseEtcError
  <2>3. ASSUME NEW w \in Senders, NEW e \in fresh, NEW a \in SenderArgs, NEW ectx, NEW len,
               SendExport(w, e, a, ectx, len)
        PROVE  AeadInitErrorUnreachable'
    <3> DEFINE x == ExportOf(a.suite, SetupS(e, a).val.ctx.exporter_secret, ectx, len)
    <3>1. \/ ret'.res = "Ok"
          \/ ~SetupS(e, a).ok /\ ret'.res = SetupS(e, a).err
          \/ ~x.ok /\ ret'.res = x.err
      BY <2>3 DEF SendExport
    <3>2. ~x.ok => x.err # "AeadInitError"
      BY ExportErrors
    <3> QED  BY <1>1, <3>1, <3>2, SetupErrors
  <2>4. ASSUME NEW r \in Receivers, NEW b \in ReceiverArgs, NEW ectx, NEW len,
               ReceiverExport(r, b, ectx, len)
        PROVE  AeadInitErrorUnreachable'
    <3> DEFINE x == ExportOf(b.suite, SetupR(b).val.exporter_secret, ectx, len)
    <3>1. \/ ret'.res = "Ok"
          \/ ~SetupR(b).ok /\ ret'.res = SetupR(b).err
          \/ ~x.ok /\ ret'.res = x.err
      BY <2>4 DEF ReceiverExport
    <3>2. ~x.ok => x.err # "AeadInitError"
      BY ExportErrors
    <3> QED  BY <3>1, <3>2, SetupErrors
  <2> QED  BY <1>5, <2>1, <2>2, <2>3, <2>4 DEF SingleShots
<1>6. CASE UNCHANGED hpkeVars
  BY <1>6 DEF hpkeVars
<1> QED  BY <1>2, <1>3, <1>4, <1>5, <1>6 DEF Next

\* error.rs:20-26: the key schedule hands every AEAD a key of its own length.
THEOREM KeysFit ==
    SuitesAreKnown /\ AbsentIsNone /\ KemErrors => (Spec => []AeadInitErrorUnreachable)
<1>1. Init => AeadInitErrorUnreachable
  BY DEF Init, AeadInitErrorUnreachable
<1>2. ASSUME SuitesAreKnown, AbsentIsNone, KemErrors
      PROVE  SetupInv /\ AeadInitErrorUnreachable /\ [Next]_hpkeVars
               => AeadInitErrorUnreachable'
  BY <1>2, NoAeadInitError
<1>3. ASSUME SuitesAreKnown, AbsentIsNone, KemErrors
      PROVE  Spec => []AeadInitErrorUnreachable
  BY <1>1, <1>2, <1>3, Invariance, PTL DEF Spec
<1> QED  BY <1>3
----------------------------------------------------------------------------
\* Exports.

\* x is what the keys of its transcript answer to its question.
Answered(x) ==
    \E k : /\ Keyed(x.tr, k)
           /\ ExportOf(x.tr.suite, k.exporter_secret, x.ectx, x.len) = Ok(x.out)

ExportedInv == SetupInv /\ \A x \in exported : Answered(x)

\* What an export that succeeded remembers.
LEMMA ExportAnswers ==
    ASSUME NEW t, NEW k, NEW ectx, NEW len, Keyed(t, k),
           ExportOf(t.suite, k.exporter_secret, ectx, len).ok,
           \A x \in exported : Answered(x),
           Remember(t, ectx, len, ExportOf(t.suite, k.exporter_secret, ectx, len).val)
    PROVE  \A x \in exported' : Answered(x)
<1> DEFINE out == ExportOf(t.suite, k.exporter_secret, ectx, len)
           new == [tr |-> t, ectx |-> ectx, len |-> len, out |-> out.val]
<1>1. exported' = exported \cup {new}
  BY DEF Remember
<1>2. out = Ok(out.val)
  <2> DEFINE okm == IF len = 0 THEN <<>> ELSE Expanded(t.suite, k.exporter_secret, "sec", ectx, len)
  <2>1. out = Err("ExportLengthExceeded") \/ out = Ok(okm)
    BY ExpandYields DEF ExportOf
  <2>2. out.ok
    OBVIOUS
  <2> HIDE DEF out, okm
  <2> QED  BY <2>1, <2>2, Results
<1>3. /\ new.tr = t /\ new.ectx = ectx /\ new.len = len /\ new.out = out.val
  OBVIOUS
<1>4. ExportOf(t.suite, k.exporter_secret, ectx, len) = Ok(new.out)
  BY <1>2, <1>3
<1> HIDE DEF new
<1>5. Answered(new)
  BY <1>3, <1>4 DEF Answered
<1> QED  BY <1>1, <1>5

\* Calls that export nothing.
LEMMA NothingExported ==
    ASSUME ExportedInv, SetupInv', exported' = exported
    PROVE  ExportedInv'
BY DEF ExportedInv, Answered

\* Every step keeps the invariant.
LEMMA ExportedInvStep ==
    ASSUME SuitesAreKnown, AbsentIsNone, ExportedInv, [Next]_hpkeVars
    PROVE  ExportedInv'
<1>1. SetupInv /\ SetupInv' /\ fresh \subseteq Ephemerals
  BY SetupInvStep DEF ExportedInv, SetupInv
<1>2. ASSUME \A x \in exported' : Answered(x) PROVE ExportedInv'
  BY <1>1, <1>2 DEF ExportedInv, Answered
<1>3. CASE Setups
  BY <1>1, <1>3, NothingExported
     DEF Setups, SetupSenderOk, SetupSenderError, SetupReceiverOk, SetupReceiverError
<1>4. CASE Messages
  BY <1>1, <1>4, NothingExported DEF Messages, Seal, Open
<1>5. CASE Exports
  <2>1. PICK c \in Contexts, ectx \in ExporterContexts, len \in ExportLengths :
          Export(c, ectx, len)
    BY <1>5 DEF Exports
  <2> DEFINE x == ExportOf(tr[c].suite, ctx[c].exporter_secret, ectx, len)
  <2>2. Live(c) /\ tr[c] # Absent
    BY <1>1, <2>1 DEF Export, SetupInv
  <2>3. PICK k : Keyed(tr[c], k) /\ SameKeys(ctx[c], k)
    BY <1>1, <2>2, ContextKeyed
  <2>4. CASE x.ok /\ Remember(tr[c], ectx, len, x.val)
    <3>1. \A y \in exported' : Answered(y)
      BY <2>3, <2>4, ExportAnswers DEF ExportedInv, SameKeys
    <3> QED  BY <3>1, <1>2
  <2>5. CASE exported' = exported
    BY <1>1, <2>5, NothingExported
  <2> QED  BY <2>1, <2>4, <2>5 DEF Export
<1>6. CASE SingleShots
  <2>1. ASSUME NEW w \in Senders, NEW e \in fresh, NEW a \in SenderArgs,
               NEW ectx \in ExporterContexts, NEW len \in ExportLengths,
               SendExport(w, e, a, ectx, len)
        PROVE  ExportedInv'
    <3> DEFINE s == SetupS(e, a)
               t == SenderTranscript(a, s.val.enc)
               x == ExportOf(a.suite, s.val.ctx.exporter_secret, ectx, len)
    <3>1. CASE s.ok /\ x.ok /\ Remember(t, ectx, len, x.val)
      <4>1. SenderResult(t, s.val.ctx)
        BY <1>1, <3>1 DEF SenderResult
      <4>2. Keyed(t, s.val.ctx) /\ t.suite = a.suite
        BY <4>1, SenderKeyed, TranscriptFields DEF SenderTranscript
      <4> HIDE DEF t
      <4>3. \A y \in exported' : Answered(y)
        BY <3>1, <4>2, ExportAnswers DEF ExportedInv
      <4> QED  BY <4>3, <1>2
    <3>2. CASE exported' = exported
      BY <1>1, <3>2, NothingExported
    <3> QED  BY <2>1, <3>1, <3>2 DEF SendExport
  <2>2. ASSUME NEW r \in Receivers, NEW b \in ReceiverArgs,
               NEW ectx \in ExporterContexts, NEW len \in ExportLengths,
               ReceiverExport(r, b, ectx, len)
        PROVE  ExportedInv'
    <3> DEFINE s == SetupR(b)
               t == ReceiverTranscript(b)
               x == ExportOf(b.suite, s.val.exporter_secret, ectx, len)
    <3>1. CASE s.ok /\ x.ok /\ Remember(t, ectx, len, x.val)
      <4>1. ReceiverResult(t, s.val)
        BY <1>1, <3>1, Delivers DEF ReceiverResult
      <4>2. Keyed(t, s.val) /\ t.suite = b.suite
        BY <4>1, ReceiverKeyed, TranscriptFields DEF ReceiverTranscript
      <4> HIDE DEF t
      <4>3. \A y \in exported' : Answered(y)
        BY <3>1, <4>2, ExportAnswers DEF ExportedInv
      <4> QED  BY <4>3, <1>2
    <3>2. CASE exported' = exported
      BY <1>1, <3>2, NothingExported
    <3> QED  BY <2>2, <3>1, <3>2 DEF ReceiverExport
  <2>3. CASE exported' = exported
    BY <1>1, <2>3, NothingExported
  <2> QED
    BY <1>6, <2>1, <2>2, <2>3
       DEF SingleShots, SealBaseEtc, SealBaseEtcError, OpenBaseEtc, OpenBaseEtcError
<1>7. CASE UNCHANGED hpkeVars
  BY <1>1, <1>7, NothingExported DEF hpkeVars
<1> QED  BY <1>3, <1>4, <1>5, <1>6, <1>7 DEF Next

\* The stream an expansion is read from names what was expanded, and for whom.
LEMMA StreamOf ==
    ASSUME NEW a, NEW b, NEW c, NEW d, NEW e
    PROVE  LET t == SubSeq(<<a, b, c, d, e>>, 1, 4) IN t[3] = c /\ t[4] = d
<1> DEFINE s == <<a, b, c, d, e>>
<1>1. s \in Seq({a, b, c, d, e}) /\ Len(s) = 5
  OBVIOUS
<1>2. \A i \in 1 .. 4 : SubSeq(s, 1, 4)[i] = s[i]
  BY <1>1
<1> QED  BY <1>2

\* Exports that are alike come from one question to one exporter secret.
LEMMA InvSeparates == SuitesAreKnown /\ KemBinds /\ ExportedInv => ExportsSeparate
<1> SUFFICES ASSUME SuitesAreKnown, KemBinds, ExportedInv,
                    NEW x \in exported, NEW y \in exported, x.len > 0, y.len > 0
             PROVE  SameStream(x.out, y.out) <=>
                      x.tr = y.tr /\ x.ectx = y.ectx /\ x.len = y.len
  BY DEF ExportsSeparate
<1>1. PICK k : /\ Keyed(x.tr, k)
               /\ ExportOf(x.tr.suite, k.exporter_secret, x.ectx, x.len) = Ok(x.out)
  BY DEF ExportedInv, Answered
<1>2. PICK l : /\ Keyed(y.tr, l)
               /\ ExportOf(y.tr.suite, l.exporter_secret, y.ectx, y.len) = Ok(y.out)
  BY DEF ExportedInv, Answered
<1> DEFINE okm(z, q) == Expanded(z.tr.suite, q.exporter_secret, "sec", z.ectx, z.len)
           info(z) == <<z.len, "HPKE-v1", Ciphersuite(z.tr.suite), "sec", z.ectx>>
<1>3. ASSUME NEW z, NEW q, z.len # 0,
             ExportOf(z.tr.suite, q.exporter_secret, z.ectx, z.len) = Ok(z.out)
      PROVE  z.out = okm(z, q)
  <2>1. \/ Ok(z.out) = Err("ExportLengthExceeded")
        \/ Ok(z.out) = Ok(okm(z, q))
    BY <1>3, ExpandYields DEF ExportOf
  <2> HIDE DEF okm
  <2> QED  BY <2>1, Results
<1>4. x.out = okm(x, k) /\ y.out = okm(y, l)
  <2>1. x.len # 0 /\ y.len # 0
    OBVIOUS
  <2> QED  BY <1>1, <1>2, <1>3, <2>1
<1>5. /\ x.out = <<"okm", x.tr.suite.kdf, k.exporter_secret, info(x), x.len>>
      /\ y.out = <<"okm", y.tr.suite.kdf, l.exporter_secret, info(y), y.len>>
  BY <1>4 DEF Expanded
<1> HIDE DEF okm, info
<1>6. /\ SubSeq(x.out, 1, 4)[3] = k.exporter_secret /\ SubSeq(x.out, 1, 4)[4] = info(x)
      /\ SubSeq(y.out, 1, 4)[3] = l.exporter_secret /\ SubSeq(y.out, 1, 4)[4] = info(y)
  BY <1>5, StreamOf
<1>7. x.out # <<>> /\ y.out # <<>> /\ x.out[1] = "okm" /\ y.out[1] = "okm"
  BY <1>5
<1>8. ASSUME SameStream(x.out, y.out)
      PROVE  x.tr = y.tr /\ x.ectx = y.ectx /\ x.len = y.len
  <2>1. k.exporter_secret = l.exporter_secret /\ info(x) = info(y)
    BY <1>6, <1>8 DEF SameStream
  <2>2. x.tr = y.tr
    BY <1>1, <1>2, <2>1, KeyedBinds
  <2>3. x.ectx = y.ectx /\ x.len = y.len
    BY <2>1 DEF info
  <2> QED  BY <2>2, <2>3
<1>9. ASSUME x.tr = y.tr, x.ectx = y.ectx, x.len = y.len
      PROVE  SameStream(x.out, y.out)
  <2>1. k.exporter_secret = l.exporter_secret
    BY <1>1, <1>2, <1>9, KeyedBinds
  <2>2. x.out = y.out
    BY <1>5, <1>9, <2>1 DEF info
  <2> QED  BY <1>7, <2>2 DEF SameStream
<1> QED  BY <1>8, <1>9

\* context.rs:91-106 and the single-shot exports of lib.rs: what is exported for
\* two transcripts, exporter contexts or lengths is never alike, whoever exports
\* it; for the same ones it is the same.
THEOREM Separation ==
    SuitesAreKnown /\ AbsentIsNone /\ KemBinds => (Spec => []ExportsSeparate)
<1>1. Init => ExportedInv
  BY SetupInvInit DEF Init, ExportedInv
<1>2. ASSUME SuitesAreKnown, AbsentIsNone
      PROVE  ExportedInv /\ [Next]_hpkeVars => ExportedInv'
  BY <1>2, ExportedInvStep
<1>3. ASSUME SuitesAreKnown, KemBinds PROVE ExportedInv => ExportsSeparate
  BY <1>3, InvSeparates
<1>4. ASSUME SuitesAreKnown, AbsentIsNone, KemBinds PROVE Spec => []ExportsSeparate
  BY <1>1, <1>2, <1>3, <1>4, PTL DEF Spec
<1> QED  BY <1>4

\* Lengths asked of export are natural numbers (usize).
ExportLengthsAreNat == ExportLengths \subseteq Nat

\* In every suite of the crate the limit of an expansion is below that of a u16,
\* and an export's length is the one asked for.
LEMMA ExportIsExact ==
    ASSUME SuitesAreKnown, NEW suite \in Suites, NEW secret, NEW ectx, NEW len \in Nat
    PROVE  LET x == ExportOf(suite, secret, ectx, len) IN
           IF len <= 255 * HashLen[suite.kdf]
           THEN x.ok /\ ByteLen(x.val) = len
           ELSE x = Err("ExportLengthExceeded")
<1> DEFINE x   == ExportOf(suite, secret, ectx, len)
           okm == Expanded(suite, secret, "sec", ectx, len)
<1>1. HashLen[suite.kdf] \in {32, 48, 64}
  BY KnownLengths
<1>2. CASE len <= 255 * HashLen[suite.kdf]
  <2>1. ~(len > MaxU16) /\ ~(len > 255 * HashLen[suite.kdf])
    BY <1>1, <1>2 DEF MaxU16
  <2>2. x = Ok(IF len = 0 THEN <<>> ELSE okm)
    BY <2>1 DEF ExportOf, LabeledExpand, Expand, Expanded
  <2>3. ByteLen(<<>>) = 0 /\ (len # 0 => ByteLen(okm) = len)
    BY DEF ByteLen, Expanded
  <2> HIDE DEF x, okm
  <2>4. x.ok /\ ByteLen(x.val) = len
    BY <2>2, <2>3, Results
  <2> QED  BY <1>2, <2>4 DEF x
<1>3. CASE ~(len <= 255 * HashLen[suite.kdf])
  <2>1. len > 255 * HashLen[suite.kdf]
    BY <1>1, <1>3
  <2> QED  BY <1>3, <2>1 DEF ExportOf, LabeledExpand, Expand
<1> QED  BY <1>2, <1>3

\* kdf.rs:62 and 153 behind context.rs:91-104: an export on any context fails
\* exactly past 255 * Nh, and otherwise has the length that was asked for.
THEOREM ExportLimits ==
    SuitesAreKnown /\ AbsentIsNone /\ ExportLengthsAreNat => (Spec => []ExportLimitIsExact)
<1>1. ASSUME SuitesAreKnown, ExportLengthsAreNat PROVE SetupInv => ExportLimitIsExact
  <2> SUFFICES ASSUME SetupInv, NEW c \in Contexts, NEW ectx \in ExporterContexts,
                      NEW len \in ExportLengths, Live(c)
               PROVE  LET x == ExportOf(tr[c].suite, ctx[c].exporter_secret, ectx, len)
                      IN  IF len <= 255 * HashLen[tr[c].suite.kdf]
                          THEN x.ok /\ ByteLen(x.val) = len
                          ELSE x = Err("ExportLengthExceeded")
    BY DEF ExportLimitIsExact
  <2>1. tr[c].suite \in Suites
    BY ContextKeyed DEF SetupInv, Keyed
  <2>2. len \in Nat
    BY <1>1 DEF ExportLengthsAreNat
  <2> QED  BY <1>1, <2>1, <2>2, ExportIsExact
<1>2. ASSUME SuitesAreKnown, AbsentIsNone, ExportLengthsAreNat
      PROVE  Spec => []ExportLimitIsExact
  BY <1>1, <1>2, Invariance, PTL
<1> QED  BY <1>2

----------------------------------------------------------------------------
\* Nonces: what is assumed besides.

\* Different randomness makes different encapsulated keys.
EncsDiffer ==
    \A e, f \in Ephemerals : \A a, b \in SenderArgs :
        e # f /\ SenderKem(e, a).ok /\ SenderKem(f, b).ok =>
            SenderKem(e, a).val.enc # SenderKem(f, b).val.enc

\* A base nonce is NONCE_LEN bytes.
NoncesAreBytes == \A t : BaseNonceBytes(t) \in NonceVal

Assumed ==
    SuitesAreKnown /\ AbsentIsNone /\ KemBinds /\ EncsDiffer /\ NoncesAreBytes

----------------------------------------------------------------------------
\* The invariant.

\* What w has sealed was sealed under the key that its set-up returned, each
\* message with the nonce of its position.
Sends(w) ==
    \E x : /\ SenderResult(tr[w], x)
           /\ Live(w) => /\ SameKeys(ctx[w], x)
                         /\ ctx[w].seq = Len(sealed[w]) /\ ctx[w].seq \in SeqNo
           /\ \A i \in DOMAIN sealed[w] :
                /\ i - 1 \in SeqNo
                /\ sealed[w][i].key = x.cipher
                /\ sealed[w][i].nonce = AeadNonce(x.base_nonce, i - 1)
                /\ CanSeal(tr[w].suite)

\* Encapsulated keys of two senders differ, and from any not yet drawn.
EncsDistinct ==
    \A w \in Senders : tr[w] # Absent =>
        /\ \A v \in Senders : v # w /\ tr[v] # Absent => tr[v].enc # tr[w].enc
        /\ \A e \in fresh, a \in SenderArgs :
             SenderKem(e, a).ok => SenderKem(e, a).val.enc # tr[w].enc

SealedInv ==
    /\ SetupInv
    /\ DOMAIN sealed = Senders
    /\ \A w \in Senders : \E S : sealed[w] \in Seq(S)
    /\ \A w \in Senders : tr[w] = Absent => sealed[w] = <<>>
    /\ \A w \in Senders : tr[w] # Absent => Sends(w)
    /\ EncsDistinct

\* A set-up returns a counter at zero and a base nonce that fills the buffer.
LEMMA FreshContext ==
    ASSUME NoncesAreBytes, NEW suite, NEW secret, NEW ksc,
           DeriveContext(suite, secret, ksc).ok
    PROVE  /\ DeriveContext(suite, secret, ksc).val.seq = 0
           /\ DeriveContext(suite, secret, ksc).val.base_nonce \in NonceBuf
           /\ \E n : DeriveContext(suite, secret, ksc).val.base_nonce = PadNonce(n)
<1>1. \A t : NonceBytes(t) \in NonceVal
  <2>1. [i \in 1 .. NonceLen |-> 0] \in NonceVal
    BY ByteAssumption DEF NonceVal
  <2> QED  BY <2>1 DEF NonceBytes, NoncesAreBytes
<1>2. \E k, n, x : DeriveContext(suite, secret, ksc) = Ok(ContextNew(k, NonceBytes(n), x))
  <2> DEFINE id    == Ciphersuite(suite)
             key   == LabeledExpand(suite.kdf, secret, id, "key", ksc,
                                    ExpandedKeyLen(suite))
             nonce == LabeledExpand(suite.kdf, secret, id, "base_nonce", ksc,
                                    AeadNonceLen[suite.aead])
             exp   == LabeledExpand(suite.kdf, secret, id, "exp", ksc, HashLen[suite.kdf])
             x     == DeriveContext(suite, secret, ksc)
  <2>1. x = IF ~key.ok THEN key
            ELSE IF ~nonce.ok THEN nonce
            ELSE IF ~exp.ok THEN exp
            ELSE IF ~AeadInitOk(suite, key.val) THEN Err("AeadInitError")
            ELSE Ok(ContextNew(key.val, NonceBytes(nonce.val), exp.val))
    BY DEF DeriveContext
  <2>2. x.ok
    OBVIOUS
  <2> HIDE DEF key, nonce, exp, x
  <2>3. x = Ok(ContextNew(key.val, NonceBytes(nonce.val), exp.val))
    BY <2>1, <2>2, Results
  <2> QED  BY <2>3 DEF x
<1>3. PICK k, n, x : DeriveContext(suite, secret, ksc) = Ok(ContextNew(k, NonceBytes(n), x))
  BY <1>2
<1>4. /\ ContextNew(k, NonceBytes(n), x).seq = 0
      /\ ContextNew(k, NonceBytes(n), x).base_nonce = PadNonce(NonceBytes(n))
  BY DEF ContextNew
<1> QED  BY <1>1, <1>3, <1>4, Results, PadType

\* So does every sender's set-up.
LEMMA FreshSender ==
    ASSUME Assumed, NEW t, NEW x, SenderResult(t, x)
    PROVE  Keyed(t, x) /\ IsContext(x) /\ x.seq = 0 /\ x.base_nonce \in NonceBuf
<1>1. Keyed(t, x)
  BY SenderKeyed
<1>2. PICK ss : Schedules(t, ss, x)
  BY <1>1 DEF Keyed
<1>3. IsContext(x)
  BY <1>1, <1>2, KeyedNames DEF Keyed, Assumed
<1>4. x.seq = 0 /\ x.base_nonce \in NonceBuf
  BY <1>2, FreshContext DEF Schedules, Assumed
<1> QED  BY <1>1, <1>3, <1>4
----------------------------------------------------------------------------
\* Steps.

\* Initially nothing is sealed.
LEMMA SealedInvInit == Init => SealedInv
<1> SUFFICES ASSUME Init PROVE SealedInv
  OBVIOUS
<1>1. \A w \in Senders : sealed[w] = <<>> /\ tr[w] = Absent
  BY DEF Init, Contexts
<1>2. \A w \in Senders : \E S : sealed[w] \in Seq(S)
  <2>1. <<>> \in Seq({})
    OBVIOUS
  <2> QED  BY <1>1, <2>1
<1>3. EncsDistinct
  BY <1>1 DEF EncsDistinct
<1> QED  BY <1>1, <1>2, <1>3, SetupInvInit DEF Init, SealedInv

\* Calls that leave senders and what they sealed alone keep the invariant.
LEMMA SendersStay ==
    ASSUME SealedInv, SetupInv', sealed' = sealed, fresh' \subseteq fresh,
           \A w \in Senders : tr'[w] = tr[w] /\ ctx'[w] = ctx[w]
    PROVE  SealedInv'
<1>1. EncsDistinct'
  BY DEF SealedInv, EncsDistinct
<1>2. ASSUME NEW w \in Senders, tr[w] # Absent PROVE Sends(w)'
  BY <1>2 DEF SealedInv, Sends, Live
<1>3. /\ DOMAIN sealed' = Senders
      /\ \A w \in Senders : \E S : sealed'[w] \in Seq(S)
      /\ \A w \in Senders : tr'[w] = Absent => sealed'[w] = <<>>
  BY DEF SealedInv
<1> QED  BY <1>1, <1>2, <1>3 DEF SealedInv

\* What a sender's successful set-up records: the transcript with the enc that
\* its KEM call returned.
LEMMA SenderEnc ==
    ASSUME NEW e, NEW a, SetupS(e, a).ok
    PROVE  /\ SenderKem(e, a).ok
           /\ SenderTranscript(a, SetupS(e, a).val.enc).enc = SenderKem(e, a).val.enc
           /\ SenderTranscript(a, SetupS(e, a).val.enc).suite = a.suite
<1> DEFINE k == SenderKem(e, a)
           c == KeySchedule(a.mode, a.suite, k.val.ss, a.info, a.psk)
<1>1. SetupS(e, a) = IF ~k.ok THEN k
                     ELSE IF ~c.ok THEN c
                     ELSE Ok([enc |-> k.val.enc, ctx |-> c.val])
  BY SenderSetup
<1> HIDE DEF k, c
<1>2. k.ok /\ SetupS(e, a).val.enc = k.val.enc
  BY <1>1, Results
<1> QED  BY <1>2, TranscriptFields DEF SenderTranscript, k

\* A sender's set-up keeps encapsulated keys apart.
LEMMA EncsStayDistinct ==
    ASSUME Assumed, SealedInv, NEW w \in Senders, NEW e \in fresh, NEW a \in SenderArgs,
           SetupS(e, a).ok, tr[w] = Absent, fresh' = fresh \ {e},
           tr' = [tr EXCEPT ![w] = SenderTranscript(a, SetupS(e, a).val.enc)]
    PROVE  EncsDistinct'
<1> DEFINE E == SenderKem(e, a).val.enc
<1>1. SenderKem(e, a).ok /\ tr'[w].enc = E
  BY SenderEnc DEF SealedInv, SetupInv, Contexts
<1>2. \A v \in Senders : v # w => tr'[v] = tr[v]
  BY DEF SealedInv, SetupInv, Contexts
<1>3. \A v \in Senders : tr[v] # Absent => tr[v].enc # E
  BY <1>1 DEF SealedInv, EncsDistinct
<1>4. ASSUME NEW f \in fresh', NEW b \in SenderArgs, SenderKem(f, b).ok
      PROVE  SenderKem(f, b).val.enc # E
  <2>1. e \in Ephemerals /\ f \in Ephemerals /\ f # e
    BY DEF SealedInv, SetupInv
  <2> QED  BY <1>1, <1>4, <2>1 DEF Assumed, EncsDiffer
<1> HIDE DEF E
<1>5. ASSUME NEW u \in Senders, tr'[u] # Absent
      PROVE  /\ \A v \in Senders : v # u /\ tr'[v] # Absent => tr'[v].enc # tr'[u].enc
             /\ \A f \in fresh', b \in SenderArgs :
                  SenderKem(f, b).ok => SenderKem(f, b).val.enc # tr'[u].enc
  <2>1. CASE u = w
    BY <1>1, <1>2, <1>3, <1>4, <2>1
  <2>2. CASE u # w
    <3>1. tr'[u] = tr[u] /\ tr[u] # Absent
      BY <1>2, <1>5, <2>2
    <3>2. \A v \in Senders : v # u /\ tr'[v] # Absent => tr'[v].enc # tr'[u].enc
      BY <1>1, <1>2, <1>3, <3>1 DEF SealedInv, EncsDistinct
    <3>3. \A f \in fresh', b \in SenderArgs :
            SenderKem(f, b).ok => SenderKem(f, b).val.enc # tr'[u].enc
      BY <3>1 DEF SealedInv, EncsDistinct
    <3> QED  BY <3>2, <3>3
  <2> QED  BY <2>1, <2>2
<1> QED  BY <1>5 DEF EncsDistinct

\* A sender's set-up, its context kept, or dropped after at most one message.
LEMMA SenderSetsUp ==
    ASSUME Assumed, SealedInv, SetupInv',
           NEW w \in Senders, NEW e \in fresh, NEW a \in SenderArgs,
           SetupS(e, a).ok, tr[w] = Absent, fresh' = fresh \ {e},
           tr' = [tr EXCEPT ![w] = SenderTranscript(a, SetupS(e, a).val.enc)],
           \/ /\ ctx' = [ctx EXCEPT ![w] = SetupS(e, a).val.ctx]
              /\ sealed' = sealed
           \/ ctx' = ctx /\ sealed' = sealed
           \/ /\ ctx' = ctx /\ CanSeal(a.suite)
              /\ \E aad, pt : sealed' = [sealed EXCEPT ![w] =
                   <<AeadSeal(SetupS(e, a).val.ctx.cipher,
                              AeadNonce(SetupS(e, a).val.ctx.base_nonce,
                                        SetupS(e, a).val.ctx.seq), aad, pt)>>]
    PROVE  SealedInv'
<1> DEFINE x == SetupS(e, a).val.ctx
           t == SenderTranscript(a, SetupS(e, a).val.enc)
<1>1. EncsDistinct'
  BY EncsStayDistinct
<1>2. SenderResult(t, x)
  BY DEF SealedInv, SetupInv, SenderResult
<1>3. IsContext(x) /\ x.seq = 0 /\ x.base_nonce \in NonceBuf
  BY <1>2, FreshSender
<1>4. t.suite = a.suite
  BY SenderEnc
<1> HIDE DEF x, t
<1>5. /\ w \in Contexts /\ sealed[w] = <<>> /\ ~Live(w)
      /\ tr'[w] = t /\ \A v \in Senders : v # w => tr'[v] = tr[v]
  BY DEF SealedInv, SetupInv, Contexts, t
<1>6. \A v \in Senders : v # w => ctx'[v] = ctx[v] /\ sealed'[v] = sealed[v]
  BY DEF SealedInv, SetupInv, Contexts
<1>7. \/ /\ ctx'[w] = x \/ ctx'[w] = Absent
         /\ sealed'[w] = <<>>
      \/ /\ ctx'[w] = Absent /\ CanSeal(a.suite)
         /\ \E aad, pt : sealed'[w] = <<AeadSeal(x.cipher, AeadNonce(x.base_nonce, 0), aad, pt)>>
  BY <1>3, <1>5 DEF SealedInv, SetupInv, Contexts, Live, x
<1>8. 0 \in SeqNo /\ 1 - 1 = 0
  BY CounterAssumption DEF SeqNo
<1>9. Sends(w)'
  <2>1. CASE (ctx'[w] = x \/ ctx'[w] = Absent) /\ sealed'[w] = <<>>
    <3>1. Len(<<>>) = 0 /\ DOMAIN <<>> = {}
      OBVIOUS
    <3>2. Live(w)' => SameKeys(ctx'[w], x) /\ ctx'[w].seq = 0
      BY <2>1, <1>3 DEF Live, SameKeys
    <3> QED  BY <1>2, <1>5, <1>8, <2>1, <3>1, <3>2 DEF Sends
  <2>2. ASSUME CanSeal(a.suite), ctx'[w] = Absent, NEW aad, NEW pt,
               sealed'[w] = <<AeadSeal(x.cipher, AeadNonce(x.base_nonce, 0), aad, pt)>>
        PROVE  Sends(w)'
    <3> DEFINE ct == AeadSeal(x.cipher, AeadNonce(x.base_nonce, 0), aad, pt)
    <3>1. ct.key = x.cipher /\ ct.nonce = AeadNonce(x.base_nonce, 0)
      BY DEF AeadSeal
    <3> HIDE DEF ct
    <3>2. \A i \in DOMAIN <<ct>> : i = 1 /\ <<ct>>[i] = ct
      OBVIOUS
    <3>3. sealed'[w] = <<ct>>
      BY <2>2 DEF ct
    <3>4. \A i \in DOMAIN sealed'[w] :
            /\ i - 1 \in SeqNo
            /\ sealed'[w][i].key = x.cipher
            /\ sealed'[w][i].nonce = AeadNonce(x.base_nonce, i - 1)
            /\ CanSeal(tr'[w].suite)
      BY <1>4, <1>5, <1>8, <2>2, <3>1, <3>2, <3>3
    <3>5. ~Live(w)'
      BY <2>2 DEF Live
    <3> QED  BY <1>2, <1>5, <3>4, <3>5 DEF Sends
  <2> QED  BY <1>7, <2>1, <2>2
<1>10. ASSUME NEW v \in Senders, v # w, tr[v] # Absent PROVE Sends(v)'
  <2>1. Sends(v)
    BY <1>10 DEF SealedInv
  <2>2. tr'[v] = tr[v] /\ ctx'[v] = ctx[v] /\ sealed'[v] = sealed[v]
    BY <1>5, <1>6, <1>10
  <2> QED  BY <2>1, <2>2 DEF Sends, Live
<1>11. \A v \in Senders : tr'[v] = Absent => sealed'[v] = <<>>
  <2>1. t # Absent
    BY DEF t, SenderTranscript, Assumed, AbsentIsNone
  <2> QED  BY <1>5, <1>6, <2>1 DEF SealedInv
<1>12. \A v \in Senders : \E S : sealed'[v] \in Seq(S)
  <2>1. <<>> \in Seq({}) /\ \A y : <<y>> \in Seq({y})
    OBVIOUS
  <2>2. \E S : sealed'[w] \in Seq(S)
    BY <1>7, <2>1
  <2> QED  BY <1>6, <2>2 DEF SealedInv
<1>13. DOMAIN sealed' = Senders
  BY DEF SealedInv
<1> QED  BY <1>1, <1>5, <1>9, <1>10, <1>11, <1>12, <1>13 DEF SealedInv
\* A successful seal extends what was sealed by the next nonce.
LEMMA SealExtends ==
    ASSUME SealedInv, SetupInv', NEW w \in Senders, NEW aad, NEW pt,
           SealOk(w, aad, pt), CanSeal(tr[w].suite), tr' = tr, fresh' = fresh
    PROVE  SealedInv'
<1> DEFINE ct == AeadSeal(ctx[w].cipher, NonceOf(w), aad, pt)
<1>1. /\ w \in Contexts /\ Live(w) /\ ctx[w].seq # MaxSeq
      /\ ctx' = [ctx EXCEPT ![w].seq = SeqSucc(@)]
      /\ sealed' = [sealed EXCEPT ![w] = Append(sealed[w], ct)]
  BY DEF SealOk, AtLimit, Advance, Contexts
<1>2. tr[w] # Absent /\ IsContext(ctx[w])
  BY <1>1 DEF SealedInv, SetupInv, MadeBySetup
<1>3. PICK x :
        /\ SenderResult(tr[w], x) /\ SameKeys(ctx[w], x)
        /\ ctx[w].seq = Len(sealed[w]) /\ ctx[w].seq \in SeqNo
        /\ \A i \in DOMAIN sealed[w] :
             /\ i - 1 \in SeqNo
             /\ sealed[w][i].key = x.cipher
             /\ sealed[w][i].nonce = AeadNonce(x.base_nonce, i - 1)
             /\ CanSeal(tr[w].suite)
  BY <1>1, <1>2 DEF SealedInv, Sends
<1> DEFINE n == Len(sealed[w])
<1>4. n \in SeqNo /\ n \in Nat /\ n + 1 \in SeqNo /\ SeqSucc(ctx[w].seq) = n + 1
  BY <1>1, <1>3, CounterAssumption DEF SeqNo, SeqSucc
<1>5. ct.key = x.cipher /\ ct.nonce = AeadNonce(x.base_nonce, n)
  BY <1>3 DEF AeadSeal, NonceOf, SameKeys
<1> HIDE DEF ct
<1>6. /\ ctx'[w] = [ctx[w] EXCEPT !.seq = n + 1]
      /\ \A v \in Senders : v # w => ctx'[v] = ctx[v] /\ sealed'[v] = sealed[v]
      /\ DOMAIN sealed' = Senders /\ sealed'[w] = Append(sealed[w], ct)
  BY <1>1, <1>4 DEF SealedInv, SetupInv, Contexts
<1>7. PICK S : sealed[w] \in Seq(S)
  BY DEF SealedInv
<1>8. /\ sealed'[w] \in Seq(S \cup {ct}) /\ Len(sealed'[w]) = n + 1
      /\ DOMAIN sealed'[w] = 1 .. n + 1 /\ DOMAIN sealed[w] = 1 .. n
      /\ sealed'[w][n + 1] = ct
      /\ \A i \in 1 .. n : sealed'[w][i] = sealed[w][i]
  <2>1. sealed[w] \in Seq(S \cup {ct})
    BY <1>7
  <2> QED  BY <1>6, <2>1
<1>9. \A i \in DOMAIN sealed'[w] :
        /\ i - 1 \in SeqNo
        /\ sealed'[w][i].key = x.cipher
        /\ sealed'[w][i].nonce = AeadNonce(x.base_nonce, i - 1)
        /\ CanSeal(tr[w].suite)
  <2> TAKE i \in DOMAIN sealed'[w]
  <2>1. CASE i \in 1 .. n
    BY <1>3, <1>8, <2>1
  <2>2. CASE i = n + 1
    <3>1. i - 1 = n
      BY <1>4, <2>2
    <3> QED  BY <1>4, <1>5, <1>8, <2>2, <3>1
  <2> QED  BY <1>4, <1>8, <2>1, <2>2
<1>10. SameKeys(ctx'[w], x) /\ ctx'[w].seq = n + 1
  <2>1. /\ ctx'[w].cipher = ctx[w].cipher /\ ctx'[w].base_nonce = ctx[w].base_nonce
        /\ ctx'[w].exporter_secret = ctx[w].exporter_secret /\ ctx'[w].seq = n + 1
    BY <1>2, <1>6 DEF IsContext
  <2> QED  BY <1>3, <2>1 DEF SameKeys
<1>11. Sends(w)'
  BY <1>3, <1>4, <1>8, <1>9, <1>10 DEF Sends
<1>12. ASSUME NEW v \in Senders, v # w, tr[v] # Absent PROVE Sends(v)'
  <2>1. Sends(v)
    BY <1>12 DEF SealedInv
  <2>2. tr'[v] = tr[v] /\ ctx'[v] = ctx[v] /\ sealed'[v] = sealed[v]
    BY <1>6, <1>12
  <2> QED  BY <2>1, <2>2 DEF Sends, Live
<1>13. \A v \in Senders : \E T : sealed'[v] \in Seq(T)
  BY <1>6, <1>8 DEF SealedInv
<1>14. \A v \in Senders : tr'[v] = Absent => sealed'[v] = <<>>
  BY <1>2, <1>6 DEF SealedInv
<1>15. EncsDistinct'
  BY DEF SealedInv, EncsDistinct
<1> QED  BY <1>6, <1>11, <1>12, <1>13, <1>14, <1>15 DEF SealedInv

\* Every step keeps the invariant.
LEMMA SealedInvStep ==
    ASSUME Assumed, SealedInv, [Next]_hpkeVars PROVE SealedInv'
<1>1. SetupInv'
  BY SetupInvStep DEF Assumed, SealedInv
<1>2. /\ DOMAIN ctx = Contexts /\ DOMAIN tr = Contexts
      /\ \A w \in Senders : w \in Contexts /\ w \notin Receivers
  BY ContextAssumption DEF SealedInv, SetupInv, Contexts
<1>3. ASSUME NEW w \in Senders, NEW e \in fresh, NEW a \in SenderArgs,
             \/ SetupSenderOk(w, e, a)
             \/ SetupSenderError(w, e, a)
      PROVE  SealedInv'
  <2>1. CASE SetupSenderOk(w, e, a)
    BY <1>1, <2>1, SenderSetsUp DEF SetupSenderOk, Draw
  <2>2. CASE SetupSenderError(w, e, a)
    BY <1>1, <2>2, SendersStay DEF SetupSenderError, Draw
  <2> QED  BY <1>3, <2>1, <2>2
<1>4. ASSUME NEW r \in Receivers, sealed' = sealed, fresh' = fresh,
             \A c \in Contexts : c # r => tr'[c] = tr[c] /\ ctx'[c] = ctx[c]
      PROVE  SealedInv'
  BY <1>1, <1>2, <1>4, SendersStay
<1>5. CASE Setups
  <2>1. ASSUME NEW r \in Receivers, NEW b \in ReceiverArgs,
               SetupReceiverOk(r, b) \/ SetupReceiverError(r, b)
        PROVE  SealedInv'
    <3>1. /\ sealed' = sealed /\ fresh' = fresh
          /\ \A c \in Contexts : c # r => tr'[c] = tr[c] /\ ctx'[c] = ctx[c]
      BY <1>2, <2>1 DEF SetupReceiverOk, SetupReceiverError
    <3> QED  BY <3>1, <1>4
  <2> QED  BY <1>3, <1>5, <2>1 DEF Setups
<1>6. CASE Messages
  <2>1. ASSUME NEW w \in Senders, NEW aad \in Aad, NEW pt \in Plaintext, Seal(w, aad, pt)
        PROVE  SealedInv'
    <3>1. CASE SealLimit(w) \/ SealError(w, pt)
      BY <1>1, <2>1, <3>1, SendersStay DEF Seal, SealLimit, SealError
    <3>2. CASE SealOk(w, aad, pt)
      BY <1>1, <2>1, <3>2, SealExtends DEF Seal
    <3> QED  BY <2>1, <3>1, <3>2 DEF Seal
  <2>2. ASSUME NEW r \in Receivers, NEW aad \in Aad, NEW ct \in Network, Open(r, aad, ct)
        PROVE  SealedInv'
    <3>1. /\ sealed' = sealed /\ fresh' = fresh /\ tr' = tr
          /\ ctx' = ctx \/ ctx' = [ctx EXCEPT ![r].seq = SeqSucc(@)]
      BY <2>2 DEF Open, OpenLimit, OpenError, OpenOk, Advance
    <3>2. \A c \in Contexts : c # r => ctx'[c] = ctx[c]
      BY <1>2, <3>1
    <3> QED  BY <3>1, <3>2, <1>4
  <2> QED  BY <1>6, <2>1, <2>2 DEF Messages
<1>7. CASE Exports
  BY <1>1, <1>7, SendersStay DEF Exports, Export
<1>8. CASE SingleShots
  <2>1. ASSUME NEW w \in Senders, NEW e \in fresh, NEW a \in SenderArgs,
               NEW aad \in Aad, NEW pt \in Plaintext, SealBaseEtc(w, e, a, aad, pt)
        PROVE  SealedInv'
    BY <1>1, <2>1, SenderSetsUp DEF SealBaseEtc, Draw
  <2>2. ASSUME NEW w \in Senders, NEW e \in fresh, NEW a \in SenderArgs,
               NEW pt \in Plaintext, SealBaseEtcError(w, e, a, pt)
        PROVE  SealedInv'
    BY <1>1, <2>2, SendersStay DEF SealBaseEtcError, Draw
  <2>3. ASSUME NEW r \in Receivers, NEW b \in ReceiverArgs, NEW aad \in Aad,
               NEW ct \in Network,
               OpenBaseEtc(r, b, aad, ct) \/ OpenBaseEtcError(r, b, aad, ct)
        PROVE  SealedInv'
    <3>1. /\ sealed' = sealed /\ fresh' = fresh
          /\ \A c \in Contexts : c # r => tr'[c] = tr[c] /\ ctx'[c] = ctx[c]
      BY <1>2, <2>3 DEF OpenBaseEtc, OpenBaseEtcError
    <3> QED  BY <3>1, <1>4
  <2>4. ASSUME NEW w \in Senders, NEW e \in fresh, NEW a \in SenderArgs,
               NEW ectx \in ExporterContexts, NEW len \in ExportLengths,
               SendExport(w, e, a, ectx, len)
        PROVE  SealedInv'
    <3>1. /\ ctx' = ctx /\ sealed' = sealed /\ tr[w] = Absent
          /\ fresh' = fresh \ {e}
      BY <2>4 DEF SendExport, Draw
    <3>2. \/ /\ SetupS(e, a).ok
             /\ tr' = [tr EXCEPT ![w] = SenderTranscript(a, SetupS(e, a).val.enc)]
          \/ tr' = tr
      BY <2>4 DEF SendExport
    <3> QED  BY <1>1, <3>1, <3>2, SenderSetsUp, SendersStay
  <2>5. ASSUME NEW r \in Receivers, NEW b \in ReceiverArgs,
               NEW ectx \in ExporterContexts, NEW len \in ExportLengths,
               ReceiverExport(r, b, ectx, len)
        PROVE  SealedInv'
    <3>1. /\ sealed' = sealed /\ fresh' = fresh
          /\ \A c \in Contexts : c # r => tr'[c] = tr[c] /\ ctx'[c] = ctx[c]
      BY <1>2, <2>5 DEF ReceiverExport
    <3> QED  BY <3>1, <1>4
  <2> QED  BY <1>8, <2>1, <2>2, <2>3, <2>4, <2>5 DEF SingleShots
<1>9. CASE UNCHANGED hpkeVars
  BY <1>1, <1>9, SendersStay DEF hpkeVars
<1> QED  BY <1>5, <1>6, <1>7, <1>8, <1>9 DEF Next

----------------------------------------------------------------------------
\* Two ciphertexts with one key have one sender, and with one nonce they are one.
LEMMA InvNonces == Assumed /\ SealedInv => NonceNeverReused
<1> SUFFICES ASSUME Assumed, SealedInv, NEW v \in Senders, NEW w \in Senders,
                    NEW i \in DOMAIN sealed[v], NEW j \in DOMAIN sealed[w],
                    sealed[v][i].key = sealed[w][j].key,
                    sealed[v][i].nonce = sealed[w][j].nonce
             PROVE  v = w /\ i = j
  BY DEF NonceNeverReused
<1>1. tr[v] # Absent /\ tr[w] # Absent
  <2>1. DOMAIN <<>> = {}
    OBVIOUS
  <2> QED  BY <2>1 DEF SealedInv
<1>2. Sends(v) /\ Sends(w)
  BY <1>1 DEF SealedInv
<1>3. PICK x : /\ SenderResult(tr[v], x)
               /\ \A n \in DOMAIN sealed[v] :
                    /\ n - 1 \in SeqNo
                    /\ sealed[v][n].key = x.cipher
                    /\ sealed[v][n].nonce = AeadNonce(x.base_nonce, n - 1)
                    /\ CanSeal(tr[v].suite)
  BY <1>2 DEF Sends
<1>4. PICK y : /\ SenderResult(tr[w], y)
               /\ \A n \in DOMAIN sealed[w] :
                    /\ n - 1 \in SeqNo
                    /\ sealed[w][n].key = y.cipher
                    /\ sealed[w][n].nonce = AeadNonce(y.base_nonce, n - 1)
                    /\ CanSeal(tr[w].suite)
  BY <1>2 DEF Sends
<1>5. Keyed(tr[v], x) /\ Keyed(tr[w], y)
  BY <1>3, <1>4, SenderKeyed
<1>6. tr[v] = tr[w]
  BY <1>3, <1>4, <1>5, KeyedBinds DEF Assumed
<1>7. v = w
  BY <1>1, <1>6 DEF SealedInv, EncsDistinct
<1>8. x.base_nonce \in NonceBuf
  BY <1>3, FreshSender
<1>9. /\ i - 1 \in SeqNo /\ j - 1 \in SeqNo
      /\ AeadNonce(x.base_nonce, i - 1) = AeadNonce(x.base_nonce, j - 1)
  BY <1>3, <1>7
<1>10. i - 1 = j - 1
  BY <1>8, <1>9, NonceInjective
<1>11. i \in Nat /\ j \in Nat
  <2>1. \A u \in Senders : DOMAIN sealed[u] \subseteq Nat
    BY DEF SealedInv
  <2> QED  BY <2>1
<1> QED  BY <1>7, <1>10, <1>11

\* context.rs:108-121 with lib.rs: whatever is set up, in any mode, and sealed in
\* contexts or single-shot calls, no key meets a nonce twice.
THEOREM NonceUniqueness == Assumed => (Spec => []NonceNeverReused)
<1>1. ASSUME Assumed PROVE SealedInv /\ [Next]_hpkeVars => SealedInv'
  BY <1>1, SealedInvStep
<1>2. ASSUME Assumed PROVE SealedInv => NonceNeverReused
  BY <1>2, InvNonces
<1>3. ASSUME Assumed PROVE Spec => []NonceNeverReused
  BY <1>1, <1>2, <1>3, SealedInvInit, PTL DEF Spec
<1> QED  BY <1>3
============================================================================
