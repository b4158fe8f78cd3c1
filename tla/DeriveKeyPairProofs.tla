------------------------ MODULE DeriveKeyPairProofs ------------------------
(***************************************************************************)
(* Theorems about DeriveKeyPair, for every set of callers, KEMs and key    *)
(* materials, and every end of the candidates' counter.                    *)
(***************************************************************************)
EXTENDS DeriveKeyPair, TLAPS

----------------------------------------------------------------------------
\* What is known of a candidate stays known.
Learns == \A x \in Candidates : grade[x] # Unknown => grade'[x] = grade[x]

\* Facts about grades outlive a step that only learns.
LEMMA KnownStays ==
    ASSUME TypeOK, Learns, NEW k \in Nist, NEW i \in Ikms, NEW c \in Nat,
           c <= MaxCounter + 1
    PROVE  /\ NoneBefore(k, i, c) => NoneBefore(k, i, c)'
           /\ c \in Counters /\ FirstIs(k, i, c) => FirstIs(k, i, c)'
<1>1. \A d \in 0 .. c - 1 : <<k, i, d>> \in Candidates
  BY DeriveAssumption DEF Candidates, Counters
<1>2. NoneBefore(k, i, c) => NoneBefore(k, i, c)'
  BY <1>1, DeriveAssumption DEF NoneBefore, Learns
<1>3. c \in Counters => <<k, i, c>> \in Candidates
  BY DEF Candidates
<1> QED  BY <1>2, <1>3, DeriveAssumption DEF FirstIs, Learns

\* One turn of the loop looks at one candidate.
LEMMA TryLearns ==
    ASSUME TypeOK, NEW p \in Callers, NEW g \in {"scalar", "no_scalar", "excess_bits"},
           Try(p, g)
    PROVE  LET x == <<kem[p], ikm[p], counter[p]>> IN
           /\ x \in Candidates /\ Learns
           /\ grade' \in [Candidates -> {"scalar", "no_scalar", "excess_bits", Unknown}]
           /\ grade'[x] = g
<1> DEFINE x == <<kem[p], ikm[p], counter[p]>>
<1>1. x \in Candidates
  BY DEF TypeOK, Try, Candidates
<1>2. grade' = [grade EXCEPT ![x] = g] /\ (grade[x] # Unknown => g = grade[x])
  BY DEF Try
<1> HIDE DEF x
<1> QED  BY <1>1, <1>2 DEF TypeOK, Learns, x

----------------------------------------------------------------------------
\* Type correctness.

\* Initially every variable has its type.
LEMMA TypeInit == Init => TypeOK
BY DeriveAssumption DEF Init, TypeOK, Counters

\* Every step keeps the types.
LEMMA TypeStep == TypeOK /\ [Next]_vars => TypeOK'
<1> SUFFICES ASSUME TypeOK, [Next]_vars PROVE TypeOK'
  OBVIOUS
<1> USE DEF TypeOK
<1>1. ASSUME NEW p \in Callers, NEW k \in Kems, NEW i \in Ikms, Call(p, k, i)
      PROVE  TypeOK'
  BY <1>1 DEF Call, Goto
<1>2. ASSUME NEW p \in Callers, NEW g \in {"scalar", "no_scalar", "excess_bits"},
             Try(p, g)
      PROVE  TypeOK'
  <2>1. /\ <<kem[p], ikm[p], counter[p]>> \in Candidates
        /\ grade' \in [Candidates -> {"scalar", "no_scalar", "excess_bits", Unknown}]
    BY <1>2, TryLearns
  <2>2. counter' \in [Callers -> Counters] /\ exhausted' \in [Callers -> BOOLEAN]
    <3>1. counter[p] < MaxCounter => counter[p] + 1 \in Counters
      BY DeriveAssumption DEF Counters
    <3> QED  BY <1>2, <3>1 DEF Try, Advance
  <2>3. CASE Accepts(g)
    BY <1>2, <2>1, <2>2, <2>3 DEF Try, Goto
  <2>4. CASE ~Accepts(g)
    BY <1>2, <2>1, <2>2, <2>4 DEF Try
  <2> QED  BY <2>3, <2>4
<1>3. ASSUME NEW p \in Callers, Exhaust(p)
      PROVE  TypeOK'
  BY <1>3 DEF Exhaust, Return, Goto
<1>4. ASSUME NEW p \in Callers, Parse(p)
      PROVE  TypeOK'
  BY <1>4 DEF Parse, Return, Goto
<1>5. ASSUME NEW p \in Callers, Derive(p)
      PROVE  TypeOK'
  BY <1>5 DEF Derive, Return, Goto
<1>6. CASE UNCHANGED vars
  BY <1>6 DEF vars
<1> QED  BY <1>1, <1>2, <1>3, <1>4, <1>5, <1>6 DEF Next, Step

\* Every variable keeps its type, for every value of the constants.
THEOREM TypeCorrect == Spec => []TypeOK
BY TypeInit, TypeStep, PTL DEF Spec

----------------------------------------------------------------------------
\* The loop.

\* What LoopInv and FirstCandidateWins say of one caller.
CallerInv(p) ==
    /\ pc[p] = "idle" => counter[p] = 0 /\ ~exhausted[p]
    /\ pc[p] = "loop" =>
         NoneBefore(kem[p], ikm[p],
                    IF exhausted[p] THEN MaxCounter + 1 ELSE counter[p])
    /\ pc[p] = "parse" =>
         \E c \in Counters :
             bytes[p] = <<kem[p], ikm[p], c>> /\ FirstIs(kem[p], ikm[p], c)
    /\ Done(p) /\ kem[p] \notin Nist => res[p] = Derived(kem[p], ikm[p])
    /\ Done(p) /\ kem[p] \in Nist =>
         \/ /\ res[p] = Err("DeriveKeyPairError")
            /\ NoneBefore(kem[p], ikm[p], MaxCounter + 1)
         \/ \E c \in Counters :
              /\ FirstIs(kem[p], ikm[p], c)
              /\ res[p] = Candidate(<<kem[p], ikm[p], c>>)

\* The invariant is what it says of each caller.
LEMMA CallerByCaller ==
    LoopInv /\ FirstCandidateWins <=> \A p \in Callers : CallerInv(p)
BY DEF LoopInv, FirstCandidateWins, CallerInv

\* A caller is not disturbed by the others, from whose candidates it can only
\* learn.
LEMMA OthersStay ==
    ASSUME TypeOK, Learns, NEW p \in Callers, CallerInv(p),
           UNCHANGED <<pc[p], kem[p], ikm[p], counter[p], exhausted[p],
                       bytes[p], res[p]>>
    PROVE  CallerInv(p)'
<1>1. pc[p] # "idle" => kem[p] \in Kems /\ ikm[p] \in Ikms
  BY DEF TypeOK
<1>2. \A c \in Nat : c <= MaxCounter + 1 /\ kem[p] \in Nist /\ ikm[p] \in Ikms =>
        /\ NoneBefore(kem[p], ikm[p], c) => NoneBefore(kem[p], ikm[p], c)'
        /\ c \in Counters /\ FirstIs(kem[p], ikm[p], c) =>
             FirstIs(kem[p], ikm[p], c)'
  <2> TAKE c \in Nat
  <2> HAVE c <= MaxCounter + 1 /\ kem[p] \in Nist /\ ikm[p] \in Ikms
  <2> DEFINE k == kem[p]  i == ikm[p]
  <2>1. /\ NoneBefore(k, i, c) => NoneBefore(k, i, c)'
        /\ c \in Counters /\ FirstIs(k, i, c) => FirstIs(k, i, c)'
    BY KnownStays, UNCHANGED <<kem[p], ikm[p]>> DEF NoneBefore, FirstIs, Learns
  <2> QED  BY <2>1
<1>3. \A c \in Counters : c \in Nat /\ c <= MaxCounter + 1
  BY DeriveAssumption DEF Counters
<1>4. MaxCounter + 1 \in Nat /\ counter[p] \in Counters
  BY DeriveAssumption DEF TypeOK
<1>5. pc[p] = "loop" => CallerInv(p)'
  BY <1>1, <1>2, <1>3, <1>4 DEF CallerInv, Done, TypeOK
<1>6. pc[p] = "parse" => CallerInv(p)'
  BY <1>1, <1>2, <1>3 DEF CallerInv, Done, TypeOK
<1>7. Done(p) => CallerInv(p)'
  BY <1>1, <1>2, <1>3, <1>4 DEF CallerInv, Done
<1>8. pc[p] = "idle" \/ pc[p] = "derive" => CallerInv(p)'
  BY DEF CallerInv, Done
<1> QED  BY <1>5, <1>6, <1>7, <1>8 DEF Done, TypeOK

\* A call starts the loop with no candidate behind it.
LEMMA CallEstablishes ==
    ASSUME TypeOK, NEW p \in Callers, NEW k \in Kems, NEW i \in Ikms, CallerInv(p),
           Call(p, k, i)
    PROVE  CallerInv(p)'
<1>1. /\ counter'[p] = 0 /\ ~exhausted'[p]
      /\ pc'[p] = IF k \in Nist THEN "loop" ELSE "derive"
  BY DEF TypeOK, Call, Goto, CallerInv
<1>2. \A d \in 0 .. 0 - 1 : grade'[<<kem'[p], ikm'[p], d>>] = "no_scalar"
  OBVIOUS
<1> QED  BY <1>1, <1>2 DEF CallerInv, Done, NoneBefore

\* A turn of the loop puts one more candidate behind the counter, or takes it.
LEMMA TryEstablishes ==
    ASSUME TypeOK, NEW p \in Callers, NEW g \in {"scalar", "no_scalar", "excess_bits"},
           CallerInv(p), Try(p, g)
    PROVE  CallerInv(p)'
<1> DEFINE k == kem[p]  i == ikm[p]  c == counter[p]
<1>1. k \in Nist /\ i \in Ikms /\ c \in Counters /\ c \in Nat /\ c <= MaxCounter
  BY DeriveAssumption DEF TypeOK, Try, Counters
<1>2. UNCHANGED <<kem, ikm, res>> /\ pc[p] = "loop" /\ ~exhausted[p]
  BY DEF Try
<1>3. Learns /\ grade'[<<k, i, c>>] = g
  BY TryLearns
<1>4. NoneBefore(k, i, c)
  BY <1>2 DEF CallerInv
<1>5. \A d \in 0 .. c - 1 : <<k, i, d>> \in Candidates /\ grade[<<k, i, d>>] = "no_scalar"
  BY <1>1, <1>4, DeriveAssumption DEF NoneBefore, Candidates, Counters
<1>6. \A d \in 0 .. c - 1 : grade'[<<k, i, d>>] = "no_scalar"
  BY <1>3, <1>5, DeriveAssumption DEF Learns
<1>7. CASE Accepts(g)
  <2>1. pc'[p] = "parse" /\ bytes'[p] = <<k, i, c>>
    BY <1>7 DEF Try, Goto, TypeOK
  <2>2. /\ \A d \in 0 .. c - 1 : grade'[<<kem'[p], ikm'[p], d>>] = "no_scalar"
        /\ grade'[<<kem'[p], ikm'[p], c>>] \in {"scalar", "excess_bits"}
    BY <1>2, <1>3, <1>6, <1>7 DEF Accepts
  <2>3. \E d \in Counters : bytes'[p] = <<kem'[p], ikm'[p], d>> /\
           (\A e \in 0 .. d - 1 : grade'[<<kem'[p], ikm'[p], e>>] = "no_scalar") /\
           grade'[<<kem'[p], ikm'[p], d>>] \in {"scalar", "excess_bits"}
    BY <1>1, <1>2, <2>1, <2>2
  <2> QED  BY <2>1, <2>3 DEF CallerInv, Done, FirstIs, NoneBefore
<1>8. CASE ~Accepts(g)
  <2>1. g = "no_scalar"
    BY <1>8 DEF Accepts
  <2>2. \A d \in 0 .. c : grade'[<<k, i, d>>] = "no_scalar"
    BY <1>1, <1>3, <1>6, <2>1
  <2>3. pc'[p] = "loop"
    BY <1>2, <1>8 DEF Try
  <2>4. (IF exhausted'[p] THEN MaxCounter + 1 ELSE counter'[p]) = c + 1
    <3>1. /\ counter'[p] = IF c < MaxCounter THEN c + 1 ELSE c
          /\ exhausted'[p] <=> c = MaxCounter
      BY DEF Try, Advance, TypeOK
    <3> QED  BY <1>1, <3>1, DeriveAssumption
  <2>5. \A d \in 0 .. (c + 1) - 1 : grade'[<<kem'[p], ikm'[p], d>>] = "no_scalar"
    BY <1>1, <1>2, <2>2
  <2> QED  BY <2>3, <2>4, <2>5 DEF CallerInv, Done, NoneBefore
<1> QED  BY <1>7, <1>8

\* An exhausted range means that no candidate was a scalar.
LEMMA ExhaustEstablishes ==
    ASSUME TypeOK, NEW p \in Callers, CallerInv(p), Exhaust(p)
    PROVE  CallerInv(p)'
<1>1. /\ pc'[p] = "done" /\ res'[p] = Err("DeriveKeyPairError")
      /\ kem[p] \in Nist /\ UNCHANGED <<kem, ikm, grade>>
  BY DEF TypeOK, Exhaust, Return, Goto
<1>2. NoneBefore(kem[p], ikm[p], MaxCounter + 1)
  BY DEF CallerInv, Exhaust
<1>3. NoneBefore(kem[p], ikm[p], MaxCounter + 1)'
  BY <1>1, <1>2 DEF NoneBefore
<1> QED  BY <1>1, <1>3 DEF CallerInv, Done

\* The candidate that was accepted parses again.
LEMMA ParseEstablishes ==
    ASSUME TypeOK, NEW p \in Callers, CallerInv(p), Parse(p)
    PROVE  CallerInv(p)'
<1>1. PICK c \in Counters :
        bytes[p] = <<kem[p], ikm[p], c>> /\ FirstIs(kem[p], ikm[p], c)
  BY DEF CallerInv, Parse
<1>2. /\ pc'[p] = "done" /\ kem[p] \in Nist /\ UNCHANGED <<kem, ikm, grade>>
      /\ res'[p] = Candidate(<<kem[p], ikm[p], c>>)
  BY <1>1 DEF TypeOK, Parse, Return, Goto, FirstIs, Accepts
<1>3. FirstIs(kem[p], ikm[p], c)'
  BY <1>1, <1>2 DEF FirstIs, NoneBefore
<1> QED  BY <1>2, <1>3 DEF CallerInv, Done

\* What needs no loop is what it computes.
LEMMA DeriveEstablishes ==
    ASSUME TypeOK, NEW p \in Callers, CallerInv(p), Derive(p)
    PROVE  CallerInv(p)'
<1>1. /\ pc'[p] = "done" /\ kem[p] \notin Nist /\ UNCHANGED <<kem, ikm>>
      /\ res'[p] = Derived(kem[p], ikm[p])
  BY DEF TypeOK, Derive, Return, Goto
<1> QED  BY <1>1 DEF CallerInv, Done

\* A step of one caller keeps what the invariant says of every caller.
LEMMA InvariantStep == IInv /\ [Next]_vars => IInv'
<1> SUFFICES ASSUME IInv, [Next]_vars PROVE IInv'
  OBVIOUS
<1>1. TypeOK /\ TypeOK'
  BY TypeStep DEF IInv
<1>2. \A q \in Callers : CallerInv(q)
  BY CallerByCaller DEF IInv
<1>3. ASSUME Learns, NEW p \in Callers, CallerInv(p)',
             \A q \in Callers \ {p} :
                UNCHANGED <<pc[q], kem[q], ikm[q], counter[q], exhausted[q],
                            bytes[q], res[q]>>
      PROVE  \A q \in Callers : CallerInv(q)'
  BY <1>1, <1>2, <1>3, OthersStay
<1>4. \A q \in Callers : CallerInv(q)'
  <2>1. ASSUME NEW p \in Callers, NEW k \in Kems, NEW i \in Ikms, Call(p, k, i)
        PROVE  \A q \in Callers : CallerInv(q)'
    <3>1. CallerInv(p)'
      BY <1>1, <1>2, <2>1, CallEstablishes
    <3>2. Learns
      BY <2>1 DEF Call, Learns
    <3>3. \A q \in Callers \ {p} :
             UNCHANGED <<pc[q], kem[q], ikm[q], counter[q], exhausted[q],
                         bytes[q], res[q]>>
      BY <1>1, <2>1 DEF Call, Goto, TypeOK
    <3> QED  BY <1>3, <3>1, <3>2, <3>3
  <2>2. ASSUME NEW p \in Callers, NEW g \in {"scalar", "no_scalar", "excess_bits"},
               Try(p, g)
        PROVE  \A q \in Callers : CallerInv(q)'
    <3>1. CallerInv(p)'
      BY <1>1, <1>2, <2>2, TryEstablishes
    <3>2. Learns
      BY <1>1, <2>2, TryLearns
    <3>3. \A q \in Callers \ {p} :
             UNCHANGED <<pc[q], kem[q], ikm[q], counter[q], exhausted[q],
                         bytes[q], res[q]>>
      BY <1>1, <2>2 DEF Try, Advance, Goto, TypeOK
    <3> QED  BY <1>3, <3>1, <3>2, <3>3
  <2>3. ASSUME NEW p \in Callers, Exhaust(p) \/ Parse(p) \/ Derive(p)
        PROVE  \A q \in Callers : CallerInv(q)'
    <3>1. CallerInv(p)'
      BY <1>1, <1>2, <2>3, ExhaustEstablishes, ParseEstablishes, DeriveEstablishes
    <3>2. Learns
      BY <2>3 DEF Exhaust, Parse, Derive, Learns
    <3>3. \A q \in Callers \ {p} :
             UNCHANGED <<pc[q], kem[q], ikm[q], counter[q], exhausted[q],
                         bytes[q], res[q]>>
      BY <1>1, <2>3 DEF Exhaust, Parse, Derive, Return, Goto, TypeOK
    <3> QED  BY <1>3, <3>1, <3>2, <3>3
  <2>4. CASE UNCHANGED vars
    <3>1. Learns
      BY <2>4 DEF vars, Learns
    <3>2. \A q \in Callers :
             UNCHANGED <<pc[q], kem[q], ikm[q], counter[q], exhausted[q],
                         bytes[q], res[q]>>
      BY <2>4 DEF vars
    <3> QED  BY <1>1, <1>2, <3>1, <3>2, OthersStay
  <2> QED  BY <2>1, <2>2, <2>3, <2>4 DEF Next, Step
<1>5. LoopInv' /\ FirstCandidateWins'
  BY <1>4 DEF LoopInv, FirstCandidateWins, CallerInv, Done, NoneBefore, FirstIs
<1> QED  BY <1>1, <1>5 DEF IInv

\* Initially nobody has called.
LEMMA InvariantInit == Init => IInv
BY TypeInit DEF Init, IInv, LoopInv, FirstCandidateWins, Done

\* The inductive invariant of the candidates' loop.
THEOREM Invariance == Spec => []IInv
BY InvariantInit, InvariantStep, PTL DEF Spec

\* dh.rs:206-209: on the NIST curves the first candidate that is a scalar is
\* the key, whatever the hash makes of them, and DeriveKeyPairError means that
\* none of them was.
THEOREM FirstCandidate == Spec => []FirstCandidateWins
<1>1. IInv => FirstCandidateWins
  BY DEF IInv
<1> QED  BY <1>1, Invariance, PTL

----------------------------------------------------------------------------
\* Reproducibility and separation.

\* What the table of KEMs is good for: lengths that every hash can expand to,
\* and no identifier used twice.
LEMMA Rows ==
    /\ \A k \in DOMAIN KemTable :
         /\ KemTable[k].nsk \in 1 .. 66
         /\ KemTable[k].family # "PQ" => KemTable[k].kdf \in DOMAIN HashLen
         /\ KemTable[k].mask # "shake256"
    /\ \A k, l \in DOMAIN KemTable : KemTable[k].id = KemTable[l].id => k = l
<1>1. DOMAIN KemTable = {"P256", "P384", "P521", "K256", "X25519", "X448",
                         "MlKem768", "MlKem1024", "XWing"}
  BY DEF KemTable
<1>2. /\ KemTable.P256.id = "0010" /\ KemTable.P384.id = "0011"
      /\ KemTable.P521.id = "0012" /\ KemTable.K256.id = "0016"
      /\ KemTable.X25519.id = "0020" /\ KemTable.X448.id = "0021"
      /\ KemTable.MlKem768.id = "0041" /\ KemTable.MlKem1024.id = "0042"
      /\ KemTable.XWing.id = "647A"
  BY DEF KemTable
<1>3. \A k \in DOMAIN KemTable :
         /\ KemTable[k].nsk \in 1 .. 66
         /\ KemTable[k].family # "PQ" => KemTable[k].kdf \in DOMAIN HashLen
         /\ KemTable[k].mask # "shake256"
  BY DEF KemTable, HashLen
<1>4. \A k, l \in DOMAIN KemTable : KemTable[k].id = KemTable[l].id => k = l
  BY <1>1, <1>2
<1> QED  BY <1>3, <1>4

\* A non-empty expansion within the cap never fails.
LEMMA Expands ==
    ASSUME NEW kdf, NEW prk, NEW suite, NEW label, NEW info,
           NEW len, len \in 1 .. 66, kdf \in DOMAIN HashLen
    PROVE  LabeledExpand(kdf, prk, suite, label, info, len) =
             Ok(<<"okm", kdf, prk, <<len, "HPKE-v1", suite, label, info>>, len>>)
<1>1. HashLen[kdf] \in Nat /\ HashLen[kdf] >= 32
  BY DEF HashLen
<1>2. ~(len > MaxU16) /\ len # 0
  BY DEF MaxU16
<1>3. ~(len > 255 * HashLen[kdf])
  BY <1>1
<1> QED  BY <1>2, <1>3 DEF LabeledExpand, Expand

\* The secret bytes with all that went into them.
Derivation(k, i, label, info) ==
    LET row   == KemTable[k]
        suite == <<"KEM", row.id>>
        prk   == <<"prk", row.kdf, <<>>, <<"HPKE-v1", suite, "dkp_prk", i>>>>
    IN  <<row.mask,
          <<"okm", row.kdf, prk, <<row.nsk, "HPKE-v1", suite, label, info>>, row.nsk>>>>

\* The expansions of a key derivation never fail.
LEMMA SecretValue ==
    ASSUME NEW k \in Kems, NEW i, NEW label, NEW info, KemTable[k].family # "PQ"
    PROVE  SecretBytes(k, i, label, info) = Ok(Derivation(k, i, label, info))
<1> DEFINE row   == KemTable[k]
           suite == <<"KEM", row.id>>
           prk   == <<"prk", row.kdf, <<>>, <<"HPKE-v1", suite, "dkp_prk", i>>>>
<1>1. row.nsk \in 1 .. 66 /\ row.kdf \in DOMAIN HashLen
  BY Rows, DeriveAssumption
<1>2. LabeledExpand(row.kdf, prk, suite, label, info, row.nsk) =
        Ok(<<"okm", row.kdf, prk, <<row.nsk, "HPKE-v1", suite, label, info>>, row.nsk>>)
  <2> DEFINE nsk == row.nsk  kdf == row.kdf
  <2>1. nsk \in 1 .. 66 /\ kdf \in DOMAIN HashLen
    BY <1>1
  <2> HIDE DEF nsk, kdf, prk, suite
  <2>2. LabeledExpand(kdf, prk, suite, label, info, nsk) =
          Ok(<<"okm", kdf, prk, <<nsk, "HPKE-v1", suite, label, info>>, nsk>>)
    BY <2>1, Expands
  <2> QED  BY <2>2 DEF nsk, kdf
<1>3. LabeledExtract(row.kdf, <<>>, suite, "dkp_prk", i) = prk
  BY DEF LabeledExtract, Extract
<1>4. \A v : Ok(v).ok /\ Ok(v).val = v
  BY DEF Ok
<1>5. Derivation(k, i, label, info) =
        <<row.mask, <<"okm", row.kdf, prk,
                      <<row.nsk, "HPKE-v1", suite, label, info>>, row.nsk>>>>
  BY DEF Derivation
<1>6. SecretBytes(k, i, label, info) =
        LET okm == LabeledExpand(row.kdf, prk, suite, label, info, row.nsk)
        IN  IF okm.ok THEN Ok(<<row.mask, okm.val>>) ELSE okm
  BY <1>3 DEF SecretBytes, KemSuiteId
<1> HIDE DEF row, prk, suite
<1> QED  BY <1>2, <1>4, <1>5, <1>6

\* Equal derivations are of one KEM, from one key material and by one loop.
LEMMA DerivationInjective ==
    ASSUME NEW k \in Kems, NEW l \in Kems, NEW i, NEW j,
           NEW m, NEW n, NEW u, NEW v
    PROVE  /\ Derivation(k, i, m, u) = Derivation(l, j, n, v) =>
                k = l /\ i = j /\ m = n
           /\ ShakeBytes(k, i) = ShakeBytes(l, j) => k = l /\ i = j
           /\ Derivation(k, i, m, u) # ShakeBytes(l, j)
<1>1. /\ KemTable[k].mask # "shake256"
      /\ KemTable[k].id = KemTable[l].id => k = l
  BY Rows, DeriveAssumption
<1>2. Derivation(k, i, m, u) = Derivation(l, j, n, v) =>
        KemTable[k].id = KemTable[l].id /\ i = j /\ m = n
  BY DEF Derivation
<1>3. ShakeBytes(k, i) = ShakeBytes(l, j) => KemTable[k].id = KemTable[l].id /\ i = j
  BY DEF ShakeBytes, KemSuiteId
<1>4. Derivation(k, i, m, u) # ShakeBytes(l, j)
  BY <1>1 DEF Derivation, ShakeBytes
<1> QED  BY <1>1, <1>2, <1>3, <1>4

\* A candidate is a derivation, and so is what needs no loop.
LEMMA Values ==
    ASSUME NEW k \in Kems, NEW i
    PROVE  /\ k \in Nist => \A c : Candidate(<<k, i, c>>) =
                                     Ok(Derivation(k, i, "candidate", <<c>>))
           /\ k \notin Nist => \/ Derived(k, i) = Ok(ShakeBytes(k, i))
                               \/ Derived(k, i) = Ok(Derivation(k, i, "sk", <<>>))
<1>1. ASSUME k \in Nist, NEW c
      PROVE  Candidate(<<k, i, c>>) = Ok(Derivation(k, i, "candidate", <<c>>))
  <2>1. KemTable[k].family # "PQ"
    BY <1>1 DEF Nist
  <2>2. Candidate(<<k, i, c>>) = SecretBytes(k, i, "candidate", <<c>>)
    BY DEF Candidate
  <2> QED  BY <2>1, <2>2, SecretValue
<1>2. CASE KemTable[k].family = "PQ"
  BY <1>1, <1>2 DEF Derived
<1>3. CASE KemTable[k].family # "PQ"
  <2>1. SecretBytes(k, i, "sk", <<>>) = Ok(Derivation(k, i, "sk", <<>>))
    BY <1>3, SecretValue
  <2> QED  BY <1>1, <1>3, <2>1 DEF Derived
<1> QED  BY <1>2, <1>3

\* Result::Ok keeps its value.
LEMMA OkKeeps == \A v, w : Ok(v).ok /\ Ok(v).val = v /\ (Ok(v) = Ok(w) => v = w)
BY DEF Ok

\* Equal candidates are of one KEM, from one key material.
LEMMA CandidatesDiffer ==
    ASSUME NEW k \in Kems, NEW l \in Kems, NEW i, NEW j, NEW c, NEW d,
           k \in Nist, l \in Nist, Candidate(<<k, i, c>>) = Candidate(<<l, j, d>>)
    PROVE  k = l /\ i = j
<1>1. /\ Candidate(<<k, i, c>>) = Ok(Derivation(k, i, "candidate", <<c>>))
      /\ Candidate(<<l, j, d>>) = Ok(Derivation(l, j, "candidate", <<d>>))
  BY Values
<1>2. Derivation(k, i, "candidate", <<c>>) = Derivation(l, j, "candidate", <<d>>)
  BY <1>1, OkKeeps
<1> QED  BY <1>2, DerivationInjective

\* No candidate is what another KEM derives without the loop.
LEMMA CandidateIsNotDerived ==
    ASSUME NEW k \in Kems, NEW l \in Kems, NEW i, NEW j, NEW c,
           k \in Nist, l \notin Nist
    PROVE  Candidate(<<k, i, c>>) # Derived(l, j)
<1>1. Candidate(<<k, i, c>>) = Ok(Derivation(k, i, "candidate", <<c>>))
  BY Values
<1>2. \/ Derived(l, j) = Ok(ShakeBytes(l, j))
      \/ Derived(l, j) = Ok(Derivation(l, j, "sk", <<>>))
  BY Values
<1>3. /\ Derivation(k, i, "candidate", <<c>>) # Derivation(l, j, "sk", <<>>)
      /\ Derivation(k, i, "candidate", <<c>>) # ShakeBytes(l, j)
  BY DerivationInjective
<1> QED  BY <1>1, <1>2, <1>3, OkKeeps

\* Equal keys of the other KEMs are of one KEM, from one key material.
LEMMA DerivedDiffer ==
    ASSUME NEW k \in Kems, NEW l \in Kems, NEW i, NEW j,
           k \notin Nist, l \notin Nist, Derived(k, i) = Derived(l, j)
    PROVE  k = l /\ i = j
<1>1. /\ \/ Derived(k, i) = Ok(ShakeBytes(k, i))
         \/ Derived(k, i) = Ok(Derivation(k, i, "sk", <<>>))
      /\ \/ Derived(l, j) = Ok(ShakeBytes(l, j))
         \/ Derived(l, j) = Ok(Derivation(l, j, "sk", <<>>))
  BY Values
<1>2. /\ Derivation(k, i, "sk", <<>>) = Derivation(l, j, "sk", <<>>) => k = l /\ i = j
      /\ ShakeBytes(k, i) = ShakeBytes(l, j) => k = l /\ i = j
      /\ Derivation(k, i, "sk", <<>>) # ShakeBytes(l, j)
      /\ ShakeBytes(k, i) # Derivation(l, j, "sk", <<>>)
  BY DerivationInjective
<1> QED  BY <1>1, <1>2, OkKeeps

\* A candidate is not an error.
LEMMA CandidateIsOk ==
    ASSUME NEW k \in Kems, NEW i, NEW c, k \in Nist
    PROVE  Candidate(<<k, i, c>>).ok
<1>1. Candidate(<<k, i, c>>) = Ok(Derivation(k, i, "candidate", <<c>>))
  BY Values
<1> QED  BY <1>1, OkKeeps

\* Only one candidate is the first.
LEMMA OneFirst ==
    ASSUME NEW k, NEW i, NEW c \in Counters, FirstIs(k, i, c)
    PROVE  /\ ~NoneBefore(k, i, MaxCounter + 1)
           /\ \A d \in Counters : FirstIs(k, i, d) => c = d
BY DeriveAssumption DEF FirstIs, NoneBefore, Counters

\* kem/mod.rs:17-19: whoever derives a key pair again gets it again, and two
\* KEMs never derive the same bytes, although they share hashes and lengths.
THEOREM Reproducibility == Spec => []ReproducibleAndSeparate
<1>1. IInv => ReproducibleAndSeparate
  <2> SUFFICES ASSUME IInv, NEW p \in Callers, NEW q \in Callers,
                      Done(p), Done(q), res[p].ok
               PROVE  res[p] = res[q] <=> kem[p] = kem[q] /\ ikm[p] = ikm[q]
    BY DEF ReproducibleAndSeparate
  <2>1. kem[p] \in Kems /\ kem[q] \in Kems
    BY DEF IInv, TypeOK, Done
  <2>2. ~Err("DeriveKeyPairError").ok
    BY DEF Err
  <2>3. \A r \in Callers : Done(r) =>
          IF kem[r] \in Nist
          THEN \/ /\ res[r] = Err("DeriveKeyPairError")
                  /\ NoneBefore(kem[r], ikm[r], MaxCounter + 1)
               \/ \E c \in Counters :
                    /\ FirstIs(kem[r], ikm[r], c)
                    /\ res[r] = Candidate(<<kem[r], ikm[r], c>>)
          ELSE res[r] = Derived(kem[r], ikm[r])
    BY DEF IInv, FirstCandidateWins, LoopInv
  <2>4. CASE kem[p] \in Nist
    <3>1. PICK c \in Counters : /\ FirstIs(kem[p], ikm[p], c)
                                /\ res[p] = Candidate(<<kem[p], ikm[p], c>>)
      BY <2>2, <2>3, <2>4
    <3>2. CASE kem[q] \notin Nist
      <4>1. res[q] = Derived(kem[q], ikm[q])
        BY <2>3, <3>2
      <4>2. Candidate(<<kem[p], ikm[p], c>>) # Derived(kem[q], ikm[q])
        BY <2>1, <2>4, <3>2, CandidateIsNotDerived
      <4> QED  BY <2>4, <3>1, <3>2, <4>1, <4>2
    <3>3. CASE kem[q] \in Nist /\ res[q].ok
      <4>1. PICK d \in Counters : /\ FirstIs(kem[q], ikm[q], d)
                                  /\ res[q] = Candidate(<<kem[q], ikm[q], d>>)
        BY <2>2, <2>3, <3>3
      <4>2. res[p] = res[q] => kem[p] = kem[q] /\ ikm[p] = ikm[q]
        BY <2>1, <2>4, <3>1, <3>3, <4>1, CandidatesDiffer
      <4>3. kem[p] = kem[q] /\ ikm[p] = ikm[q] => c = d
        BY <3>1, <4>1, OneFirst
      <4> QED  BY <3>1, <4>1, <4>2, <4>3
    <3>4. CASE kem[q] \in Nist /\ ~res[q].ok
      <4>1. \A c1 : Candidate(<<kem[q], ikm[q], c1>>).ok
        BY <2>1, <3>4, CandidateIsOk
      <4>2. NoneBefore(kem[q], ikm[q], MaxCounter + 1)
        BY <2>3, <3>4, <4>1
      <4> QED  BY <3>1, <3>4, <4>2, OneFirst
    <3> QED  BY <3>2, <3>3, <3>4
  <2>5. CASE kem[p] \notin Nist
    <3>1. res[p] = Derived(kem[p], ikm[p])
      BY <2>3, <2>5
    <3>2. CASE kem[q] \notin Nist
      BY <2>1, <2>3, <2>5, <3>1, <3>2, DerivedDiffer
    <3>3. CASE kem[q] \in Nist
      <4>1. \A c : Candidate(<<kem[q], ikm[q], c>>) # res[p]
        <5>1. \A c : Candidate(<<kem[q], ikm[q], c>>) # Derived(kem[p], ikm[p])
          BY <2>1, <2>5, <3>3, CandidateIsNotDerived
        <5> QED  BY <3>1, <5>1
      <4>2. res[p] # res[q]
        BY <2>2, <2>3, <3>3, <4>1
      <4> QED  BY <2>5, <3>3, <4>2
    <3> QED  BY <3>2, <3>3
  <2> QED  BY <2>4, <2>5
<1> QED  BY <1>1, Invariance, PTL

----------------------------------------------------------------------------
\* The refinement: interleaved calls are look-ups in one table.

\* An input is settled in one of three ways: it needs no candidate, none is a
\* scalar, or there is a first that is.
LEMMA EntryIs ==
    \A k \in Kems, i \in Ikms :
        /\ k \notin Nist => Settled(k, i) /\ Entry(k, i) = Derived(k, i)
        /\ k \in Nist /\ NoneBefore(k, i, MaxCounter + 1) =>
             Settled(k, i) /\ Entry(k, i) = Err("DeriveKeyPairError")
        /\ \A c \in Counters :
             k \in Nist /\ FirstIs(k, i, c) =>
               Settled(k, i) /\ Entry(k, i) = Candidate(<<k, i, c>>)
<1> TAKE k \in Kems, i \in Ikms
<1>1. k \notin Nist => Settled(k, i) /\ Entry(k, i) = Derived(k, i)
  BY DEF Settled, Entry
<1>2. k \in Nist /\ NoneBefore(k, i, MaxCounter + 1) =>
        Settled(k, i) /\ Entry(k, i) = Err("DeriveKeyPairError")
  BY DEF Settled, Entry
<1>3. ASSUME NEW c \in Counters, k \in Nist, FirstIs(k, i, c)
      PROVE  Settled(k, i) /\ Entry(k, i) = Candidate(<<k, i, c>>)
  <2>1. /\ ~NoneBefore(k, i, MaxCounter + 1)
        /\ \A d \in Counters : FirstIs(k, i, d) => c = d
    BY <1>3, OneFirst
  <2>2. (CHOOSE d \in Counters : FirstIs(k, i, d)) = c
    BY <1>3, <2>1
  <2> QED  BY <1>3, <2>1, <2>2 DEF Settled, Entry
<1> QED  BY <1>1, <1>2, <1>3

\* The same of the state after a step.
LEMMA EntryNext ==
    \A k \in Kems, i \in Ikms :
        /\ k \notin Nist => Settled(k, i)' /\ Entry(k, i)' = Derived(k, i)
        /\ k \in Nist /\ NoneBefore(k, i, MaxCounter + 1)' =>
             Settled(k, i)' /\ Entry(k, i)' = Err("DeriveKeyPairError")
        /\ \A c \in Counters :
             k \in Nist /\ FirstIs(k, i, c)' =>
               Settled(k, i)' /\ Entry(k, i)' = Candidate(<<k, i, c>>)
<1>1. (\A k \in Kems, i \in Ikms :
         /\ k \notin Nist => Settled(k, i) /\ Entry(k, i) = Derived(k, i)
         /\ k \in Nist /\ NoneBefore(k, i, MaxCounter + 1) =>
              Settled(k, i) /\ Entry(k, i) = Err("DeriveKeyPairError")
         /\ \A c \in Counters :
              k \in Nist /\ FirstIs(k, i, c) =>
                Settled(k, i) /\ Entry(k, i) = Candidate(<<k, i, c>>))'
  BY EntryIs, PTL
<1> QED  BY <1>1

\* An entry that is no error tells its KEM and its key material.
LEMMA EntriesDiffer ==
    ASSUME NEW k \in Kems, NEW l \in Kems, NEW i \in Ikms, NEW j \in Ikms,
           Settled(k, i), Settled(l, j), Entry(k, i).ok, Entry(k, i) = Entry(l, j)
    PROVE  k = l /\ i = j
<1>1. ~Err("DeriveKeyPairError").ok
  BY DEF Err
<1>2. /\ k \in Nist => \E c \in Counters : Entry(k, i) = Candidate(<<k, i, c>>)
      /\ l \in Nist => \E d \in Counters : Entry(l, j) = Candidate(<<l, j, d>>)
      /\ k \notin Nist => Entry(k, i) = Derived(k, i)
      /\ l \notin Nist => Entry(l, j) = Derived(l, j)
  BY <1>1, EntryIs DEF Settled
<1>3. CASE k \in Nist /\ l \in Nist
  <2>1. PICK c \in Counters : Entry(k, i) = Candidate(<<k, i, c>>)
    BY <1>2, <1>3
  <2>2. PICK d \in Counters : Entry(l, j) = Candidate(<<l, j, d>>)
    BY <1>2, <1>3
  <2>3. Candidate(<<k, i, c>>) = Candidate(<<l, j, d>>)
    BY <2>1, <2>2
  <2> QED  BY <1>3, <2>3, CandidatesDiffer
<1>4. CASE k \notin Nist /\ l \notin Nist
  BY <1>2, <1>4, DerivedDiffer
<1>5. CASE k \in Nist /\ l \notin Nist
  BY <1>2, <1>5, CandidateIsNotDerived
<1>6. CASE k \notin Nist /\ l \in Nist
  BY <1>2, <1>6, CandidateIsNotDerived
<1> QED  BY <1>3, <1>4, <1>5, <1>6

\* No state of the candidates puts a key into the table twice.
LEMMA NoKeyTwice == Table!Separate(Results)
<1> SUFFICES ASSUME NEW x \in DOMAIN Results, NEW y \in DOMAIN Results,
                    Results[x].ok, Results[x] = Results[y]
             PROVE  x = y
  BY DEF Table!Separate
<1>1. /\ x \in Kems \X Ikms /\ Settled(x[1], x[2]) /\ Results[x] = Entry(x[1], x[2])
      /\ y \in Kems \X Ikms /\ Settled(y[1], y[2]) /\ Results[y] = Entry(y[1], y[2])
  BY DEF Results
<1>2. x[1] = y[1] /\ x[2] = y[2]
  <2> DEFINE k == x[1]  i == x[2]  l == y[1]  j == y[2]
  <2>1. /\ k \in Kems /\ i \in Ikms /\ Settled(k, i)
        /\ l \in Kems /\ j \in Ikms /\ Settled(l, j)
        /\ Entry(k, i).ok /\ Entry(k, i) = Entry(l, j)
    BY <1>1
  <2> HIDE DEF k, i, l, j
  <2>2. k = l /\ i = j
    BY <2>1, EntriesDiffer
  <2> QED  BY <2>2 DEF k, i, l, j
<1> QED  BY <1>1, <1>2

\* What is settled stays settled, the same way.
LEMMA SettledStays ==
    ASSUME TypeOK, Learns, NEW k \in Kems, NEW i \in Ikms, Settled(k, i)
    PROVE  Settled(k, i)' /\ Entry(k, i)' = Entry(k, i)
<1>1. /\ k \notin Nist => Settled(k, i)' /\ Entry(k, i)' = Derived(k, i)
      /\ k \in Nist /\ NoneBefore(k, i, MaxCounter + 1)' =>
           Settled(k, i)' /\ Entry(k, i)' = Err("DeriveKeyPairError")
      /\ \A c \in Counters :
           k \in Nist /\ FirstIs(k, i, c)' =>
             Settled(k, i)' /\ Entry(k, i)' = Candidate(<<k, i, c>>)
  BY EntryNext
<1>2. CASE k \notin Nist
  BY <1>1, <1>2, EntryIs
<1>3. CASE k \in Nist /\ NoneBefore(k, i, MaxCounter + 1)
  <2>1. NoneBefore(k, i, MaxCounter + 1)'
    BY <1>3, KnownStays, DeriveAssumption
  <2> QED  BY <1>1, <1>3, <2>1, EntryIs
<1>4. ASSUME k \in Nist, NEW c \in Counters, FirstIs(k, i, c)
      PROVE  Settled(k, i)' /\ Entry(k, i)' = Entry(k, i)
  <2>1. c \in Nat /\ c <= MaxCounter + 1
    BY DeriveAssumption DEF Counters
  <2>2. FirstIs(k, i, c)'
    BY <1>4, <2>1, KnownStays
  <2> QED  BY <1>1, <1>4, <2>2, EntryIs
<1> QED  BY <1>2, <1>3, <1>4 DEF Settled

\* What the table, the questions and the answers are made of.
LEMMA MappedState ==
    /\ DOMAIN Results = {y \in Kems \X Ikms : Settled(y[1], y[2])}
    /\ \A k \in Kems, i \in Ikms :
         /\ <<k, i>> \in DOMAIN Results <=> Settled(k, i)
         /\ Settled(k, i) => Results[<<k, i>>] = Entry(k, i)
    /\ DOMAIN Asked = {q \in Callers : pc[q] # "idle"}
    /\ \A q \in DOMAIN Asked : Asked[q] = <<kem[q], ikm[q]>>
    /\ DOMAIN Got = {q \in Callers : pc[q] = "done"}
    /\ \A q \in DOMAIN Got : Got[q] = res[q]
BY DEF Results, Asked, Got, Done

\* The same of the state after a step.
LEMMA MappedNext ==
    /\ DOMAIN Results' = {y \in Kems \X Ikms : Settled(y[1], y[2])'}
    /\ \A k \in Kems, i \in Ikms :
         /\ <<k, i>> \in DOMAIN Results' <=> Settled(k, i)'
         /\ Settled(k, i)' => Results'[<<k, i>>] = Entry(k, i)'
    /\ DOMAIN Asked' = {q \in Callers : pc'[q] # "idle"}
    /\ \A q \in DOMAIN Asked' : Asked'[q] = <<kem'[q], ikm'[q]>>
    /\ DOMAIN Got' = {q \in Callers : pc'[q] = "done"}
    /\ \A q \in DOMAIN Got' : Got'[q] = res'[q]
<1>1. (/\ DOMAIN Results = {y \in Kems \X Ikms : Settled(y[1], y[2])}
       /\ \A k \in Kems, i \in Ikms :
            /\ <<k, i>> \in DOMAIN Results <=> Settled(k, i)
            /\ Settled(k, i) => Results[<<k, i>>] = Entry(k, i)
       /\ DOMAIN Asked = {q \in Callers : pc[q] # "idle"}
       /\ \A q \in DOMAIN Asked : Asked[q] = <<kem[q], ikm[q]>>
       /\ DOMAIN Got = {q \in Callers : pc[q] = "done"}
       /\ \A q \in DOMAIN Got : Got[q] = res[q])'
  BY MappedState, PTL
<1> QED  BY <1>1

\* A step that settles nothing new leaves the table as it is.
LEMMA TableStays ==
    ASSUME TypeOK, Learns,
           \A k \in Kems, i \in Ikms : Settled(k, i)' => Settled(k, i)
    PROVE  Results' = Results
<1>1. \A y \in Kems \X Ikms : Settled(y[1], y[2])' <=> Settled(y[1], y[2])
  <2> TAKE y \in Kems \X Ikms
  <2> DEFINE k == y[1]  i == y[2]
  <2>1. k \in Kems /\ i \in Ikms
    OBVIOUS
  <2> HIDE DEF k, i
  <2>2. Settled(k, i)' <=> Settled(k, i)
    BY <2>1, SettledStays
  <2> QED  BY <2>2 DEF k, i
<1>2. \A y \in Kems \X Ikms :
        Settled(y[1], y[2]) => Entry(y[1], y[2])' = Entry(y[1], y[2])
  <2> TAKE y \in Kems \X Ikms
  <2> DEFINE k == y[1]  i == y[2]
  <2>1. k \in Kems /\ i \in Ikms
    OBVIOUS
  <2> HIDE DEF k, i
  <2>2. Settled(k, i) => Entry(k, i)' = Entry(k, i)
    BY <2>1, SettledStays
  <2> QED  BY <2>2 DEF k, i
<1> QED  BY <1>1, <1>2 DEF Results

\* Initially nobody has called, and the table holds no key twice.
LEMMA TableInit == Init => Table!Init
<1> SUFFICES ASSUME Init PROVE Table!Init
  OBVIOUS
<1>1. DOMAIN Results \subseteq Kems \X Ikms
  BY DEF Results
<1>2. DOMAIN Asked = {} /\ DOMAIN Got = {}
  BY MappedState DEF Init
<1> QED  BY <1>1, <1>2, NoKeyTwice DEF Table!Init

\* A call asks.
LEMMA CallAsks ==
    ASSUME TypeOK, NEW p \in Callers, NEW k \in Kems, NEW i \in Ikms, Call(p, k, i)
    PROVE  Table!Ask(p, <<k, i>>)
<1>1. Results' = Results
  <2>1. Learns
    BY DEF Call, Learns
  <2>2. \A l \in Kems, j \in Ikms : Settled(l, j)' => Settled(l, j)
    BY DEF Call, Settled, NoneBefore, FirstIs
  <2> QED  BY <2>1, <2>2, TableStays
<1>2. /\ pc[p] = "idle" /\ pc'[p] \in {"loop", "derive"}
      /\ \A q \in Callers \ {p} : UNCHANGED <<pc[q], kem[q], ikm[q]>>
      /\ kem'[p] = k /\ ikm'[p] = i
  BY DEF TypeOK, Call, Goto
<1>3. p \notin DOMAIN Asked /\ DOMAIN Asked' = DOMAIN Asked \cup {p}
  BY <1>2, MappedState, MappedNext
<1>4. Asked'[p] = <<k, i>> /\ \A q \in DOMAIN Asked : Asked'[q] = Asked[q]
  BY <1>2, <1>3, MappedState, MappedNext
<1>5. Got' = Got
  <2>1. \A q \in Callers : pc'[q] = "done" <=> pc[q] = "done"
    BY <1>2
  <2> QED  BY <2>1 DEF Got, Done, Call
<1> QED  BY <1>1, <1>3, <1>4, <1>5 DEF Table!Ask, Table!Extends

\* A turn of the loop settles at most the result for its own arguments.
LEMMA TrySettles ==
    ASSUME TypeOK, NEW p \in Callers, NEW g \in {"scalar", "no_scalar", "excess_bits"},
           Try(p, g)
    PROVE  Table!Settle(<<kem[p], ikm[p]>>) \/ UNCHANGED Table!tableVars
<1> DEFINE x == <<kem[p], ikm[p], counter[p]>>
<1>1. kem[p] \in Kems /\ ikm[p] \in Ikms /\ Learns
  BY TryLearns DEF TypeOK, Try
<1>2. PICK k \in Kems, i \in Ikms : kem[p] = k /\ ikm[p] = i
  BY <1>1
<1>3. Asked' = Asked /\ Got' = Got
  <2>1. \A q \in Callers : /\ pc'[q] = "idle" <=> pc[q] = "idle"
                           /\ pc'[q] = "done" <=> pc[q] = "done"
    BY DEF TypeOK, Try, Goto
  <2> QED  BY <2>1 DEF Asked, Got, Done, Try
<1>4. \A l \in Kems, j \in Ikms : <<l, j>> # <<k, i>> => (Settled(l, j)' => Settled(l, j))
  <2> SUFFICES ASSUME NEW l \in Kems, NEW j \in Ikms, <<l, j>> # <<k, i>>,
                      l \in Nist
               PROVE  Settled(l, j)' => Settled(l, j)
    BY DEF Settled
  <2>1. grade' = [grade EXCEPT ![x] = g] /\ grade \in [Candidates -> {"scalar", "no_scalar", "excess_bits", Unknown}]
    BY DEF Try, TypeOK
  <2>2. \A c \in Counters : <<l, j, c>> \in Candidates /\ <<l, j, c>> # x
    BY <1>2 DEF Candidates
  <2>3. \A c \in Counters : grade'[<<l, j, c>>] = grade[<<l, j, c>>]
    BY <2>1, <2>2
  <2>4. \A c \in Counters : \A d \in 0 .. c - 1 : d \in Counters
    BY DeriveAssumption DEF Counters
  <2>5. \A d \in 0 .. (MaxCounter + 1) - 1 : d \in Counters
    BY DeriveAssumption DEF Counters
  <2>6. /\ NoneBefore(l, j, MaxCounter + 1)' => NoneBefore(l, j, MaxCounter + 1)
        /\ \A c \in Counters : FirstIs(l, j, c)' => FirstIs(l, j, c)
    BY <2>3, <2>4, <2>5 DEF NoneBefore, FirstIs
  <2> QED  BY <2>6 DEF Settled
<1>5. CASE Settled(k, i)' => Settled(k, i)
  <2>1. \A l \in Kems, j \in Ikms : Settled(l, j)' => Settled(l, j)
    BY <1>4, <1>5
  <2>2. Results' = Results
    BY <1>1, <2>1, TableStays
  <2> QED  BY <1>3, <2>2 DEF Table!tableVars
<1>6. CASE Settled(k, i)' /\ ~Settled(k, i)
  <2>1. Table!Separate(Results)'
    BY NoKeyTwice, PTL
  <2>2. <<k, i>> \notin DOMAIN Results
    BY <1>6, MappedState
  <2>3. \A l \in Kems, j \in Ikms :
          Settled(l, j)' <=> Settled(l, j) \/ <<l, j>> = <<k, i>>
    BY <1>1, <1>4, <1>6, SettledStays
  <2>4. DOMAIN Results' = DOMAIN Results \cup {<<k, i>>}
    <3>1. DOMAIN Results \subseteq Kems \X Ikms /\ DOMAIN Results' \subseteq Kems \X Ikms
      BY MappedState, MappedNext
    <3>2. \A l \in Kems, j \in Ikms :
            <<l, j>> \in DOMAIN Results' <=> <<l, j>> \in DOMAIN Results \cup {<<k, i>>}
      BY <2>3, MappedState, MappedNext
    <3> QED  BY <3>1, <3>2
  <2>5. \A y \in DOMAIN Results : Results'[y] = Results[y]
    <3> TAKE y \in DOMAIN Results
    <3>1. PICK l \in Kems, j \in Ikms : y = <<l, j>>
      BY MappedState
    <3>2. Settled(l, j)
      BY <3>1, MappedState
    <3>3. Settled(l, j)' /\ Entry(l, j)' = Entry(l, j)
      BY <1>1, <3>2, SettledStays
    <3> QED  BY <3>1, <3>2, <3>3, MappedState, MappedNext
  <2>6. Table!Settle(<<k, i>>)
    BY <1>3, <2>1, <2>2, <2>4, <2>5 DEF Table!Settle, Table!Extends
  <2> QED  BY <1>2, <2>6
<1> QED  BY <1>5, <1>6

\* A call that returns what the table holds for its arguments is answered.
LEMMA ReturnAnswers ==
    ASSUME TypeOK, NEW p \in Callers, NEW k \in Kems, NEW i \in Ikms,
           kem[p] = k, ikm[p] = i, pc[p] \notin {"idle", "done"},
           UNCHANGED <<kem, ikm, grade>>, NEW r, Return(p, r),
           Settled(k, i), Entry(k, i) = r
    PROVE  Table!Answer(p)
<1>1. Results' = Results
  <2>1. Learns
    BY DEF Learns
  <2>2. \A l \in Kems, j \in Ikms : Settled(l, j)' => Settled(l, j)
    BY DEF Settled, NoneBefore, FirstIs
  <2> QED  BY <2>1, <2>2, TableStays
<1>2. /\ pc'[p] = "done" /\ res'[p] = r
      /\ \A q \in Callers \ {p} : UNCHANGED <<pc[q], res[q]>>
  BY DEF TypeOK, Return, Goto
<1>3. Asked' = Asked
  <2>1. \A q \in Callers : pc'[q] = "idle" <=> pc[q] = "idle"
    BY <1>2
  <2> QED  BY <2>1 DEF Asked
<1>4. /\ p \in DOMAIN Asked /\ Asked[p] = <<k, i>> /\ p \notin DOMAIN Got
      /\ <<k, i>> \in DOMAIN Results /\ Results[<<k, i>>] = r
  BY MappedState
<1>5. DOMAIN Got' = DOMAIN Got \cup {p}
  BY <1>2, MappedState, MappedNext
<1>6. Got'[p] = r /\ \A q \in DOMAIN Got : Got'[q] = Got[q]
  BY <1>2, <1>4, <1>5, MappedState, MappedNext
<1> QED  BY <1>1, <1>3, <1>4, <1>5, <1>6 DEF Table!Answer, Table!Extends

\* However a call ends, it is answered.
LEMMA EndsAnswered ==
    ASSUME IInv, NEW p \in Callers, Exhaust(p) \/ Parse(p) \/ Derive(p)
    PROVE  Table!Answer(p)
<1>1. TypeOK /\ CallerInv(p)
  BY CallerByCaller DEF IInv
<1>2. kem[p] \in Kems /\ ikm[p] \in Ikms
  BY <1>1 DEF TypeOK, Exhaust, Parse, Derive
<1>3. PICK k \in Kems, i \in Ikms : kem[p] = k /\ ikm[p] = i
  BY <1>2
<1>4. CASE Exhaust(p)
  <2>1. k \in Nist /\ NoneBefore(k, i, MaxCounter + 1)
    BY <1>1, <1>3, <1>4 DEF CallerInv, Exhaust, TypeOK
  <2>2. Settled(k, i) /\ Entry(k, i) = Err("DeriveKeyPairError")
    BY <2>1, EntryIs
  <2>3. /\ Return(p, Err("DeriveKeyPairError")) /\ pc[p] \notin {"idle", "done"}
        /\ UNCHANGED <<kem, ikm, grade>>
    BY <1>4 DEF Exhaust
  <2> QED  BY <1>1, <1>3, <2>2, <2>3, ReturnAnswers
<1>5. CASE Parse(p)
  <2>1. PICK c \in Counters : bytes[p] = <<k, i, c>> /\ FirstIs(k, i, c)
    BY <1>1, <1>3, <1>5 DEF CallerInv, Parse
  <2>2. Settled(k, i) /\ Entry(k, i) = Candidate(<<k, i, c>>)
    BY <1>1, <1>3, <1>5, <2>1, EntryIs DEF TypeOK, Parse
  <2>3. Return(p, Candidate(<<k, i, c>>))
    BY <1>5, <2>1 DEF Parse, FirstIs, Accepts
  <2>4. pc[p] \notin {"idle", "done"} /\ UNCHANGED <<kem, ikm, grade>>
    BY <1>5 DEF Parse
  <2> QED  BY <1>1, <1>3, <2>2, <2>3, <2>4, ReturnAnswers
<1>6. CASE Derive(p)
  <2>1. Settled(k, i) /\ Entry(k, i) = Derived(k, i)
    BY <1>1, <1>3, <1>6, EntryIs DEF TypeOK, Derive
  <2>2. /\ Return(p, Derived(k, i)) /\ pc[p] \notin {"idle", "done"}
        /\ UNCHANGED <<kem, ikm, grade>>
    BY <1>3, <1>6 DEF Derive
  <2> QED  BY <1>1, <1>3, <2>1, <2>2, ReturnAnswers
<1> QED  BY <1>4, <1>5, <1>6

\* Every step of the calls is a step of the table, or none.
LEMMA TableStep == IInv /\ [Next]_vars => [Table!Next]_Table!tableVars
<1> SUFFICES ASSUME IInv, [Next]_vars PROVE [Table!Next]_Table!tableVars
  OBVIOUS
<1>0. TypeOK
  BY DEF IInv
<1>1. ASSUME NEW p \in Callers, NEW k \in Kems, NEW i \in Ikms, Call(p, k, i)
      PROVE  Table!Next
  <2>1. Table!Ask(p, <<k, i>>) /\ <<k, i>> \in Kems \X Ikms
    BY <1>0, <1>1, CallAsks
  <2> QED  BY <2>1 DEF Table!Next
<1>2. ASSUME NEW p \in Callers, NEW g \in {"scalar", "no_scalar", "excess_bits"},
             Try(p, g)
      PROVE  [Table!Next]_Table!tableVars
  <2>1. kem[p] \in Kems /\ ikm[p] \in Ikms
    BY <1>0, <1>2 DEF TypeOK, Try
  <2>2. Table!Settle(<<kem[p], ikm[p]>>) \/ UNCHANGED Table!tableVars
    BY <1>0, <1>2, TrySettles
  <2>3. CASE Table!Settle(<<kem[p], ikm[p]>>)
    <3>1. <<kem[p], ikm[p]>> \in Kems \X Ikms
      BY <2>1
    <3> QED  BY <2>3, <3>1 DEF Table!Next
  <2> QED  BY <2>2, <2>3
<1>3. ASSUME NEW p \in Callers, Exhaust(p) \/ Parse(p) \/ Derive(p)
      PROVE  Table!Next
  BY <1>3, EndsAnswered DEF Table!Next
<1>4. CASE UNCHANGED vars
  <2>1. Learns
    BY <1>4 DEF vars, Learns
  <2>2. \A l \in Kems, j \in Ikms : Settled(l, j)' => Settled(l, j)
    BY <1>4 DEF vars, Settled, NoneBefore, FirstIs
  <2>3. Results' = Results
    BY <1>0, <2>1, <2>2, TableStays
  <2>4. Asked' = Asked /\ Got' = Got
    BY <1>4 DEF vars, Asked, Got, Done
  <2> QED  BY <2>3, <2>4 DEF Table!tableVars
<1> QED  BY <1>1, <1>2, <1>3, <1>4 DEF Next, Step

\* kem/mod.rs:17-19, dh.rs:206-209: calls that run at the same time, over
\* whatever candidates the hash makes, are look-ups in one table that never
\* changes an entry and never holds a key twice.
THEOREM DeriveImplementsTable == Spec => ImplementsTable
<1>1. Spec => Table!Init
  BY TableInit DEF Spec
<1>2. IInv /\ [Next]_vars => [Table!Next]_Table!tableVars
  BY TableStep
<1> QED  BY <1>1, <1>2, Invariance, PTL DEF Spec, ImplementsTable, Table!Spec
============================================================================
