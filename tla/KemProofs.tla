----------------------------- MODULE KemProofs -----------------------------
(***************************************************************************)
(* Theorems about DhKem, on every curve of module Curves, and PqKem, in    *)
(* every variant, for every scalar, seed and randomness: private keys are  *)
(* read back from their bytes, recover what was encapsulated to their      *)
(* public keys, and shared secrets name what they were made of.            *)
(***************************************************************************)
EXTENDS DhKem, PqKem, TLAPS

----------------------------------------------------------------------------
\* What the two constructors of a Result return.
LEMMA OkErr ==
    /\ \A x : Ok(x).ok /\ Ok(x).val = x
    /\ \A x : ~Err(x).ok /\ Err(x).err = x
BY DEF Ok, Err

----------------------------------------------------------------------------
\* DHKEM.

\* The keys that generate, derive_key_pair and sk_from_bytes hand out.
DhHeld(sk) ==
    \/ \E k : sk = DhKeyPair(k) \/ sk = DhDerivePair(k)
    \/ \E k, form : DhLoad(<<k, form>>).ok /\ sk = DhLoad(<<k, form>>).val

\* A private key as it is stored: canonical, with its public key beside it.
DhStored(sk, k) == sk = [sk |-> <<k, "canonical">>, pk_bytes |-> <<k, "canonical">>]

\* A stored scalar's public key has the scalar's name and the canonical form.
LEMMA CanonicalPublic ==
    ASSUME NEW k
    PROVE  DhPrivateKey(<<k, "canonical">>)
             = [sk |-> <<k, "canonical">>, pk_bytes |-> <<k, "canonical">>]
<1>1. DhSkToPk(<<k, "canonical">>) = <<k, "canonical">>
  BY CurveAssumption DEF DhSkToPk, X25519SkToPk, X448SkToPk, NistSkToPk
<1> QED  BY <1>1 DEF DhPrivateKey

\* Every constructor stores the canonical form of the scalar it is given.
LEMMA DhMakes ==
    ASSUME NEW k
    PROVE  /\ DhStored(DhKeyPair(k), k) /\ DhStored(DhDerivePair(k), k)
           /\ \A form : DhLoad(<<k, form>>).ok => DhStored(DhLoad(<<k, form>>).val, k)
<1>1. DhScalar(k) = <<k, "canonical">> /\ DhDerivedScalar(k) = <<k, "canonical">>
  BY CurveAssumption
     DEF DhScalar, DhDerivedScalar, X25519Generate, X25519Derive, X25519Clamp,
         X448Generate, X448Derive, X448Clamp, NistGenerate, NistDerive
<1>2. ASSUME NEW form, DhSkFromBytes(<<k, form>>).ok
      PROVE  DhSkFromBytes(<<k, form>>).val = <<k, "canonical">>
  BY <1>2, CurveAssumption, OkErr
     DEF DhSkFromBytes, X25519SkFromBytes, X25519Clamp, X448SkFromBytes, X448Clamp,
         NistSkFromBytes
<1>3. DhStored(DhKeyPair(k), k) /\ DhStored(DhDerivePair(k), k)
  BY <1>1, CanonicalPublic DEF DhKeyPair, DhDerivePair, DhStored
<1>4. ASSUME NEW form, DhLoad(<<k, form>>).ok
      PROVE  DhStored(DhLoad(<<k, form>>).val, k)
  <2>1. /\ DhSkFromBytes(<<k, form>>).ok
        /\ DhLoad(<<k, form>>).val = DhPrivateKey(DhSkFromBytes(<<k, form>>).val)
    BY <1>4, OkErr DEF DhLoad
  <2> QED  BY <1>2, <2>1, CanonicalPublic DEF DhStored
<1> QED  BY <1>3, <1>4

\* So does whatever handed a key out.
LEMMA DhHeldIsStored == ASSUME NEW sk, DhHeld(sk) PROVE \E k : DhStored(sk, k)
BY DhMakes DEF DhHeld

----------------------------------------------------------------------------
\* dh.rs:575-578: what sk_to_bytes writes is read back as the same private key,
\* the cached public key included.
THEOREM DhReadsBack == \A sk : DhHeld(sk) => DhLoad(DhSave(sk)) = Ok(sk)
<1> SUFFICES ASSUME NEW sk, DhHeld(sk) PROVE DhLoad(DhSave(sk)) = Ok(sk)
  OBVIOUS
<1>1. PICK k : DhStored(sk, k)
  BY DhHeldIsStored
<1>2. DhSave(sk) = <<k, "canonical">>
  BY <1>1 DEF DhSave, DhStored
<1>3. DhSkFromBytes(<<k, "canonical">>) = Ok(<<k, "canonical">>)
  BY CurveAssumption
     DEF DhSkFromBytes, X25519SkFromBytes, X25519Clamp, X448SkFromBytes, X448Clamp,
         NistSkFromBytes
<1>4. DhLoad(<<k, "canonical">>) = Ok(DhPrivateKey(<<k, "canonical">>))
  BY <1>3, OkErr DEF DhLoad
<1> QED  BY <1>1, <1>2, <1>4, CanonicalPublic DEF DhStored

----------------------------------------------------------------------------
\* One exchange between canonical scalars, seen from either side.
LEMMA Exchange ==
    ASSUME NEW a, NEW b
    PROVE  /\ Dh(<<a, "canonical">>, <<b, "canonical">>)
                = RejectZero(Shared(<<a, "canonical">>, <<b, "canonical">>))
           /\ Dh(<<a, "canonical">>, <<b, "canonical">>)
                = Dh(<<b, "canonical">>, <<a, "canonical">>)
<1>1. \A x, y : Dh(<<x, "canonical">>, <<y, "canonical">>)
                  = RejectZero(Shared(<<x, "canonical">>, <<y, "canonical">>))
  BY CurveAssumption
     DEF Dh, X25519Dh, X25519SkToPk, X448Dh, X448SkToPk, NistDh, NistSkToPk
<1>2. Shared(<<a, "canonical">>, <<b, "canonical">>)
        = Shared(<<b, "canonical">>, <<a, "canonical">>)
  BY DEF Shared
<1> QED  BY <1>1, <1>2

\* A canonical public key is read as itself, unless the exchange refuses it too.
LEMMA ParsesBack ==
    ASSUME NEW a, NEW b, Dh(<<a, "canonical">>, <<b, "canonical">>).ok
    PROVE  /\ DhPkFromBytes(<<a, "canonical">>) = Ok(<<a, "canonical">>)
           /\ DhPkFromBytes(<<b, "canonical">>) = Ok(<<b, "canonical">>)
<1>1. Shared(<<a, "canonical">>, <<b, "canonical">>) # Zero
  BY Exchange, OkErr DEF RejectZero
<1>2. a # SmallOrder /\ b # SmallOrder
  BY <1>1 DEF Shared
<1> QED  BY <1>2, CurveAssumption
       DEF DhPkFromBytes, X25519PkFromBytes, X448PkFromBytes, NistPkFromBytes

\* A key that parses from canonical bytes is those bytes.
LEMMA ParsedIsBytes ==
    ASSUME NEW k, DhPkFromBytes(<<k, "canonical">>).ok
    PROVE  DhPkFromBytes(<<k, "canonical">>).val = <<k, "canonical">>
BY CurveAssumption, OkErr
   DEF DhPkFromBytes, X25519PkFromBytes, X448PkFromBytes, NistPkFromBytes

\* The ephemeral scalar is canonical, and so is enc.
LEMMA Ephemeral ==
    ASSUME NEW e
    PROVE  DhScalar(e) = <<e, "canonical">> /\ DhSkToPk(DhScalar(e)) = <<e, "canonical">>
BY CurveAssumption
   DEF DhScalar, DhSkToPk, X25519Generate, X25519Clamp, X25519SkToPk, X448Generate,
       X448Clamp, X448SkToPk, NistGenerate, NistSkToPk

\* A derived secret that is there is a Result with a value.
LEMMA SecretIsOk ==
    ASSUME NEW dhs, NEW pieces, ExtractAndExpand(dhs, pieces).ok
    PROVE  ExtractAndExpand(dhs, pieces) = Ok(ExtractAndExpand(dhs, pieces).val)
<1>1. \A kdf, prk, info, len :
        LET x == Expand(kdf, prk, info, len) IN x.ok => x = Ok(x.val)
  BY OkErr DEF Expand
<1>2. \A kdf, prk, suite, label, info, len :
        LET x == LabeledExpand(kdf, prk, suite, label, info, len) IN x.ok => x = Ok(x.val)
  BY <1>1, OkErr DEF LabeledExpand
<1> QED  BY <1>2 DEF ExtractAndExpand

\* dh.rs:861-863, KEM correctness: on every curve, the private key recovers
\* the secret of every encapsulation to its public key that succeeded.
THEOREM DhAgrees ==
    \A e, sk : DhHeld(sk) =>
        LET pk == DhPkFromBytes(sk.pk_bytes)
            r  == DhEncap(e, pk.val)
        IN  pk.ok /\ r.ok => DhDecap(r.val.enc, sk) = Ok(r.val.ss)
<1> SUFFICES ASSUME NEW e, NEW sk, DhHeld(sk),
                    DhPkFromBytes(sk.pk_bytes).ok,
                    DhEncap(e, DhPkFromBytes(sk.pk_bytes).val).ok
             PROVE  LET r == DhEncap(e, DhPkFromBytes(sk.pk_bytes).val)
                    IN  DhDecap(r.val.enc, sk) = Ok(r.val.ss)
  OBVIOUS
<1>1. PICK k : DhStored(sk, k)
  BY DhHeldIsStored
<1> DEFINE E  == <<e, "canonical">>
           R  == <<k, "canonical">>
           ss == ExtractAndExpand(<<Dh(E, R).val>>, <<E, R>>)
           r  == DhEncap(e, R)
<1>2. sk.sk = R /\ sk.pk_bytes = R /\ DhPkFromBytes(sk.pk_bytes).val = R
  BY <1>1, ParsedIsBytes DEF DhStored
<1>3. r = IF ~Dh(E, R).ok THEN Dh(E, R) ELSE WithEnc(ss, E)
  BY Ephemeral DEF DhEncap
<1>4. r.ok
  BY <1>2
<1>5. Dh(E, R).ok /\ ss.ok /\ r.val.enc = E /\ r.val.ss = ss.val
  <2>1. Dh(E, R).ok
    BY <1>3, <1>4
  <2>2. r = WithEnc(ss, E)
    BY <1>3, <2>1
  <2> HIDE DEF ss, r, E
  <2> QED  BY <1>4, <2>1, <2>2, OkErr DEF WithEnc
<1>6. DhPkFromBytes(E) = Ok(E)
  BY <1>5, ParsesBack
<1>7. Dh(R, E) = Dh(E, R)
  BY Exchange
<1>8. DhDecap(E, sk) = ss
  BY <1>2, <1>5, <1>6, <1>7, OkErr DEF DhDecap
<1>9. ss = Ok(ss.val)
  BY <1>5, SecretIsOk
<1> QED  BY <1>2, <1>5, <1>8, <1>9

\* dh.rs:861-863 for AuthKem: the same with the sender's exchange mixed in.
THEOREM DhAuthAgrees ==
    \A e, sk, skS : DhHeld(sk) /\ DhHeld(skS) =>
        LET pk  == DhPkFromBytes(sk.pk_bytes)
            pkS == DhPkFromBytes(skS.pk_bytes)
            r   == DhAuthEncap(e, pk.val, skS)
        IN  pk.ok /\ r.ok => DhAuthDecap(r.val.enc, sk, pkS.val) = Ok(r.val.ss)
<1> SUFFICES ASSUME NEW e, NEW sk, NEW skS, DhHeld(sk), DhHeld(skS),
                    DhPkFromBytes(sk.pk_bytes).ok,
                    DhAuthEncap(e, DhPkFromBytes(sk.pk_bytes).val, skS).ok
             PROVE  LET r == DhAuthEncap(e, DhPkFromBytes(sk.pk_bytes).val, skS)
                    IN  DhAuthDecap(r.val.enc, sk, DhPkFromBytes(skS.pk_bytes).val)
                          = Ok(r.val.ss)
  OBVIOUS
<1>1. PICK k : DhStored(sk, k)
  BY DhHeldIsStored
<1>2. PICK f : DhStored(skS, f)
  BY DhHeldIsStored
<1> DEFINE E  == <<e, "canonical">>
           R  == <<k, "canonical">>
           S  == <<f, "canonical">>
           ss == ExtractAndExpand(<<Dh(E, R).val, Dh(S, R).val>>, <<E, R, S>>)
           r  == DhAuthEncap(e, R, skS)
<1>3. sk.sk = R /\ sk.pk_bytes = R /\ DhPkFromBytes(sk.pk_bytes).val = R
  BY <1>1, ParsedIsBytes DEF DhStored
<1>4. skS.sk = S /\ skS.pk_bytes = S
  BY <1>2 DEF DhStored
<1>5. r = IF ~Dh(E, R).ok THEN Dh(E, R)
          ELSE IF ~Dh(S, R).ok THEN Dh(S, R)
          ELSE WithEnc(ss, E)
  BY <1>4, Ephemeral DEF DhAuthEncap
<1>6. r.ok
  BY <1>3
<1>7. Dh(E, R).ok /\ Dh(S, R).ok /\ ss.ok /\ r.val.enc = E /\ r.val.ss = ss.val
  <2>1. Dh(E, R).ok /\ Dh(S, R).ok
    BY <1>5, <1>6
  <2>2. r = WithEnc(ss, E)
    BY <1>5, <2>1
  <2> HIDE DEF ss, r, E
  <2> QED  BY <1>6, <2>1, <2>2, OkErr DEF WithEnc
<1>8. DhPkFromBytes(E) = Ok(E) /\ DhPkFromBytes(S) = Ok(S)
  BY <1>7, ParsesBack
<1>9. Dh(R, E) = Dh(E, R) /\ Dh(R, S) = Dh(S, R)
  BY Exchange
<1>10. DhAuthDecap(E, sk, S) = ss
  BY <1>3, <1>7, <1>8, <1>9, OkErr DEF DhAuthDecap
<1>11. ss = Ok(ss.val)
  BY <1>7, SecretIsOk
<1>12. DhPkFromBytes(skS.pk_bytes).val = S
  BY <1>4, <1>8, OkErr
<1> QED  BY <1>3, <1>7, <1>10, <1>11, <1>12
----------------------------------------------------------------------------
\* What the shared secrets of the two modes are: functions of the bytes of enc
\* and of the public keys, whichever side computes them.
DhBaseSecret(enc, pkR) ==
    ExtractAndExpand(<<{DhPkFromBytes(enc).val, pkR}>>, <<enc, pkR>>).val
DhAuthSecret(enc, pkR, pkS) ==
    ExtractAndExpand(<<{DhPkFromBytes(enc).val, pkR}, {pkS, pkR}>>,
                     <<enc, pkR, pkS>>).val

\* The exchange of a canonical scalar with a parsed key, if not refused.
LEMMA ExchangeIs ==
    ASSUME NEW a, NEW Q, Dh(<<a, "canonical">>, Q).ok
    PROVE  /\ Dh(<<a, "canonical">>, Q).val = {<<a, "canonical">>, Q}
           /\ a # SmallOrder
<1>1. Dh(<<a, "canonical">>, Q) = RejectZero(Shared(<<a, "canonical">>, Q))
  BY CurveAssumption
     DEF Dh, X25519Dh, X25519SkToPk, X448Dh, X448SkToPk, NistDh, NistSkToPk
<1>2. Shared(<<a, "canonical">>, Q) # Zero
  BY <1>1, OkErr DEF RejectZero
<1>3. a # SmallOrder /\ Shared(<<a, "canonical">>, Q) = {<<a, "canonical">>, Q}
  BY <1>2 DEF Shared
<1> QED  BY <1>1, <1>2, <1>3, OkErr DEF RejectZero

\* Any scalar's exchange is that of its public key.
LEMMA PointExchange ==
    ASSUME NEW a, NEW Q, Dh(a, Q).ok
    PROVE  Dh(a, Q).val = {DhSkToPk(a), Q}
<1>1. Dh(a, Q) = RejectZero(Shared(DhSkToPk(a), Q))
  BY CurveAssumption
     DEF Dh, DhSkToPk, X25519Dh, X448Dh, NistDh
<1>2. Shared(DhSkToPk(a), Q) # Zero
  BY <1>1, OkErr DEF RejectZero
<1>3. Shared(DhSkToPk(a), Q) = {DhSkToPk(a), Q}
  BY <1>2 DEF Shared
<1> QED  BY <1>1, <1>2, <1>3, OkErr DEF RejectZero

\* enc names a point of its own when the sender's exchange succeeded.
LEMMA EncParses ==
    ASSUME NEW a, a # SmallOrder
    PROVE  DhPkFromBytes(<<a, "canonical">>).val = <<a, "canonical">>
BY CurveAssumption, OkErr
   DEF DhPkFromBytes, X25519PkFromBytes, X448PkFromBytes, NistPkFromBytes

\* encap, auth_encap: the sender's side.
LEMMA SenderSecret ==
    ASSUME NEW e, NEW pkR, NEW skS, DhHeld(skS)
    PROVE  /\ LET r == DhEncap(e, pkR)
              IN  r.ok => r.val.ss = DhBaseSecret(r.val.enc, pkR)
           /\ LET r == DhAuthEncap(e, pkR, skS)
              IN  r.ok => r.val.ss = DhAuthSecret(r.val.enc, pkR, skS.pk_bytes)
<1> DEFINE E == <<e, "canonical">>
<1>1. PICK f : DhStored(skS, f)
  BY DhHeldIsStored
<1> DEFINE S == <<f, "canonical">>
<1>2. skS.sk = S /\ skS.pk_bytes = S
  BY <1>1 DEF DhStored
<1>3. ASSUME DhEncap(e, pkR).ok
      PROVE  DhEncap(e, pkR).val.ss = DhBaseSecret(DhEncap(e, pkR).val.enc, pkR)
  <2> DEFINE r == DhEncap(e, pkR)
             x == ExtractAndExpand(<<Dh(E, pkR).val>>, <<E, pkR>>)
  <2>1. r = IF ~Dh(E, pkR).ok THEN Dh(E, pkR) ELSE WithEnc(x, E)
    BY Ephemeral DEF DhEncap
  <2> HIDE DEF x, r, E
  <2>2. Dh(E, pkR).ok /\ r.val.enc = E /\ r.val.ss = x.val
    BY <1>3, <2>1, OkErr DEF WithEnc, r
  <2>3. Dh(E, pkR).val = {E, pkR} /\ DhPkFromBytes(E).val = E
    BY <2>2, ExchangeIs, EncParses DEF E
  <2> QED  BY <2>2, <2>3 DEF DhBaseSecret, x, r
<1>4. ASSUME DhAuthEncap(e, pkR, skS).ok
      PROVE  DhAuthEncap(e, pkR, skS).val.ss
               = DhAuthSecret(DhAuthEncap(e, pkR, skS).val.enc, pkR, skS.pk_bytes)
  <2> DEFINE r == DhAuthEncap(e, pkR, skS)
             x == ExtractAndExpand(<<Dh(E, pkR).val, Dh(S, pkR).val>>, <<E, pkR, S>>)
  <2>1. r = IF ~Dh(E, pkR).ok THEN Dh(E, pkR)
            ELSE IF ~Dh(S, pkR).ok THEN Dh(S, pkR)
            ELSE WithEnc(x, E)
    BY <1>2, Ephemeral DEF DhAuthEncap
  <2> HIDE DEF x, r, E, S
  <2>2. Dh(E, pkR).ok /\ Dh(S, pkR).ok /\ r.val.enc = E /\ r.val.ss = x.val
    BY <1>4, <2>1, OkErr DEF WithEnc, r
  <2>3. Dh(E, pkR).val = {E, pkR} /\ DhPkFromBytes(E).val = E
    BY <2>2, ExchangeIs, EncParses DEF E
  <2>4. Dh(S, pkR).val = {S, pkR}
    BY <2>2, ExchangeIs DEF S
  <2> QED  BY <1>2, <2>2, <2>3, <2>4 DEF DhAuthSecret, x, r
<1> QED  BY <1>3, <1>4

\* decap, auth_decap: the recipient's side.
LEMMA RecipientSecret ==
    ASSUME NEW enc, NEW skR, NEW pkS, DhHeld(skR)
    PROVE  /\ LET r == DhDecap(enc, skR)
              IN  r.ok => r.val = DhBaseSecret(enc, skR.pk_bytes)
           /\ LET r == DhAuthDecap(enc, skR, pkS)
              IN  r.ok => r.val = DhAuthSecret(enc, skR.pk_bytes, pkS)
<1>1. PICK k : DhStored(skR, k)
  BY DhHeldIsStored
<1> DEFINE R == <<k, "canonical">>
           P == DhPkFromBytes(enc)
<1>2. skR.sk = R /\ skR.pk_bytes = R
  BY <1>1 DEF DhStored
<1>3. ASSUME DhDecap(enc, skR).ok
      PROVE  DhDecap(enc, skR).val = DhBaseSecret(enc, R)
  <2>1. /\ Dh(R, P.val).ok
        /\ DhDecap(enc, skR) = ExtractAndExpand(<<Dh(R, P.val).val>>, <<enc, R>>)
    BY <1>2, <1>3 DEF DhDecap
  <2>2. Dh(R, P.val).val = {P.val, R}
    BY <2>1, ExchangeIs
  <2> QED  BY <2>1, <2>2 DEF DhBaseSecret
<1>4. ASSUME DhAuthDecap(enc, skR, pkS).ok
      PROVE  DhAuthDecap(enc, skR, pkS).val = DhAuthSecret(enc, R, pkS)
  <2>1. /\ Dh(R, P.val).ok /\ Dh(R, pkS).ok
        /\ DhAuthDecap(enc, skR, pkS)
             = ExtractAndExpand(<<Dh(R, P.val).val, Dh(R, pkS).val>>, <<enc, R, pkS>>)
    BY <1>2, <1>4 DEF DhAuthDecap
  <2>2. Dh(R, P.val).val = {P.val, R} /\ Dh(R, pkS).val = {pkS, R}
    BY <2>1, ExchangeIs
  <2> QED  BY <2>1, <2>2 DEF DhAuthSecret
<1> QED  BY <1>2, <1>3, <1>4

\* An encapsulation that succeeded made these exchanges, with whatever private
\* key of the sender's, and has this enc and this secret.
LEMMA DhEncapHas ==
    ASSUME NEW e, NEW pkR, NEW skS
    PROVE  LET E == <<e, "canonical">> IN
           /\ LET r == DhEncap(e, pkR)
              IN  r.ok => /\ Dh(E, pkR).ok /\ r.val.enc = E
                          /\ r.val.ss = ExtractAndExpand(<<Dh(E, pkR).val>>, <<E, pkR>>).val
           /\ LET r == DhAuthEncap(e, pkR, skS)
              IN  r.ok => /\ Dh(E, pkR).ok /\ Dh(skS.sk, pkR).ok /\ r.val.enc = E
                          /\ r.val.ss = ExtractAndExpand(
                                          <<Dh(E, pkR).val, Dh(skS.sk, pkR).val>>,
                                          <<E, pkR, skS.pk_bytes>>).val
<1> DEFINE E == <<e, "canonical">>
           x == ExtractAndExpand(<<Dh(E, pkR).val>>, <<E, pkR>>)
           y == ExtractAndExpand(<<Dh(E, pkR).val, Dh(skS.sk, pkR).val>>,
                                 <<E, pkR, skS.pk_bytes>>)
           r == DhEncap(e, pkR)
           a == DhAuthEncap(e, pkR, skS)
<1>1. \A z : WithEnc(z, E).ok => WithEnc(z, E).val.enc = E /\ WithEnc(z, E).val.ss = z.val
  BY OkErr DEF WithEnc
<1>2. r = IF ~Dh(E, pkR).ok THEN Dh(E, pkR) ELSE WithEnc(x, E)
  BY Ephemeral DEF DhEncap
<1>3. a = IF ~Dh(E, pkR).ok THEN Dh(E, pkR)
          ELSE IF ~Dh(skS.sk, pkR).ok THEN Dh(skS.sk, pkR)
          ELSE WithEnc(y, E)
  BY Ephemeral DEF DhAuthEncap
<1> HIDE DEF E, x, y, r, a
<1>4. r.ok => Dh(E, pkR).ok /\ r.val.enc = E /\ r.val.ss = x.val
  BY <1>1, <1>2
<1>5. a.ok => Dh(E, pkR).ok /\ Dh(skS.sk, pkR).ok /\ a.val.enc = E /\ a.val.ss = y.val
  BY <1>1, <1>3
<1> QED  BY <1>4, <1>5 DEF E, x, y, r, a

\* A decapsulation of such an enc that succeeds, with whatever private key.
LEMMA DhDecapHas ==
    ASSUME NEW e, e # SmallOrder, NEW skR, NEW pkS
    PROVE  LET E == <<e, "canonical">>
               P == DhSkToPk(skR.sk)
           IN
           /\ LET r == DhDecap(E, skR)
              IN  r.ok => r.val = ExtractAndExpand(<<{P, E}>>, <<E, skR.pk_bytes>>).val
           /\ LET r == DhAuthDecap(E, skR, pkS)
              IN  r.ok => r.val = ExtractAndExpand(<<{P, E}, {P, pkS}>>,
                                                   <<E, skR.pk_bytes, pkS>>).val
<1> DEFINE E == <<e, "canonical">>
           P == DhSkToPk(skR.sk)
           Q == DhPkFromBytes(E)
<1>1. Q.val = E
  BY EncParses
<1>2. ASSUME DhDecap(E, skR).ok
      PROVE  /\ Dh(skR.sk, Q.val).ok
             /\ DhDecap(E, skR) = ExtractAndExpand(<<Dh(skR.sk, Q.val).val>>,
                                                   <<E, skR.pk_bytes>>)
  BY <1>2 DEF DhDecap
<1>3. ASSUME DhAuthDecap(E, skR, pkS).ok
      PROVE  /\ Dh(skR.sk, Q.val).ok /\ Dh(skR.sk, pkS).ok
             /\ DhAuthDecap(E, skR, pkS)
                  = ExtractAndExpand(<<Dh(skR.sk, Q.val).val, Dh(skR.sk, pkS).val>>,
                                     <<E, skR.pk_bytes, pkS>>)
  BY <1>3 DEF DhAuthDecap
<1>4. \A pk : Dh(skR.sk, pk).ok => Dh(skR.sk, pk).val = {P, pk}
  BY PointExchange
<1> HIDE DEF E, P, Q
<1>5. ASSUME DhDecap(E, skR).ok
      PROVE  DhDecap(E, skR).val = ExtractAndExpand(<<{P, E}>>, <<E, skR.pk_bytes>>).val
  BY <1>1, <1>2, <1>4, <1>5
<1>6. ASSUME DhAuthDecap(E, skR, pkS).ok
      PROVE  DhAuthDecap(E, skR, pkS).val
               = ExtractAndExpand(<<{P, E}, {P, pkS}>>, <<E, skR.pk_bytes, pkS>>).val
  BY <1>1, <1>3, <1>4, <1>6
<1> QED  BY <1>5, <1>6 DEF E, P

\* extract_and_expand asks for no more than an expansion gives.
LEMMA ExpandsTo ==
    ASSUME NEW dhs, NEW pieces
    PROVE  LET suite == KemSuiteId(DhId)
               prk   == LabeledExtract(DhKdf, <<>>, suite, "eae_prk", dhs)
           IN  ExtractAndExpand(dhs, pieces)
                 = Ok(<<"okm", DhKdf, prk,
                        <<DhSecretLen, "HPKE-v1", suite, "shared_secret", pieces>>,
                        DhSecretLen>>)
<1>1. DhSecretLen \in {32, 64} /\ HashLen[DhKdf] \in {32, 64}
  BY CurveAssumption DEF DhSecretLen, DhKdf, HashLen
<1> QED  BY <1>1 DEF ExtractAndExpand, LabeledExpand, Expand, MaxU16

\* A secret names the exchanges and the kem_context it was made of.
LEMMA SecretNames ==
    ASSUME NEW d, NEW g, NEW x, NEW y,
           ExtractAndExpand(d, x).val = ExtractAndExpand(g, y).val
    PROVE  d = g /\ x = y
<1> DEFINE suite  == KemSuiteId(DhId)
           prk(z) == LabeledExtract(DhKdf, <<>>, suite, "eae_prk", z)
           okm(z, c) == <<"okm", DhKdf, prk(z),
                          <<DhSecretLen, "HPKE-v1", suite, "shared_secret", c>>,
                          DhSecretLen>>
<1>1. okm(d, x) = okm(g, y)
  <2>1. ExtractAndExpand(d, x) = Ok(okm(d, x)) /\ ExtractAndExpand(g, y) = Ok(okm(g, y))
    BY ExpandsTo
  <2> HIDE DEF okm
  <2> QED  BY <2>1, OkErr
<1>2. prk(d) = prk(g) /\ <<DhSecretLen, "HPKE-v1", suite, "shared_secret", x>>
                           = <<DhSecretLen, "HPKE-v1", suite, "shared_secret", y>>
  <2> HIDE DEF prk, suite
  <2> QED  BY <1>1
<1>3. x = y
  BY <1>2
<1>4. d = g
  <2>1. <<"HPKE-v1", suite, "eae_prk", d>> = <<"HPKE-v1", suite, "eae_prk", g>>
    BY <1>2 DEF LabeledExtract, Extract
  <2> QED  BY <2>1
<1> QED  BY <1>3, <1>4

\* dh.rs, kem_context: on every curve and for both sides, secrets are equal
\* exactly when the bytes of enc, the recipient's key and the sender's key (or
\* its absence) are.
THEOREM DhBinds ==
    /\ \A e, pkR, skS : DhHeld(skS) =>
         /\ LET r == DhEncap(e, pkR)
            IN  r.ok => r.val.ss = DhBaseSecret(r.val.enc, pkR)
         /\ LET r == DhAuthEncap(e, pkR, skS)
            IN  r.ok => r.val.ss = DhAuthSecret(r.val.enc, pkR, skS.pk_bytes)
    /\ \A enc, skR, pkS : DhHeld(skR) =>
         /\ LET r == DhDecap(enc, skR)
            IN  r.ok => r.val = DhBaseSecret(enc, skR.pk_bytes)
         /\ LET r == DhAuthDecap(enc, skR, pkS)
            IN  r.ok => r.val = DhAuthSecret(enc, skR.pk_bytes, pkS)
    /\ \A x, y, z, u, v, w :
         /\ DhBaseSecret(x, y) = DhBaseSecret(u, v) => x = u /\ y = v
         /\ DhAuthSecret(x, y, z) = DhAuthSecret(u, v, w) => x = u /\ y = v /\ z = w
         /\ DhBaseSecret(x, y) # DhAuthSecret(u, v, w)
<1>1. ASSUME NEW x, NEW y, NEW u, NEW v, DhBaseSecret(x, y) = DhBaseSecret(u, v)
      PROVE  x = u /\ y = v
  <2>1. <<x, y>> = <<u, v>>
    BY <1>1, SecretNames DEF DhBaseSecret
  <2> QED  BY <2>1
<1>2. ASSUME NEW x, NEW y, NEW z, NEW u, NEW v, NEW w,
             DhAuthSecret(x, y, z) = DhAuthSecret(u, v, w)
      PROVE  x = u /\ y = v /\ z = w
  <2>1. <<x, y, z>> = <<u, v, w>>
    BY <1>2, SecretNames DEF DhAuthSecret
  <2> QED  BY <2>1
<1>3. ASSUME NEW x, NEW y, NEW u, NEW v, NEW w, DhBaseSecret(x, y) = DhAuthSecret(u, v, w)
      PROVE  FALSE
  <2>1. <<x, y>> = <<u, v, w>>
    BY <1>3, SecretNames DEF DhBaseSecret, DhAuthSecret
  <2> QED  BY <2>1
<1> QED  BY <1>1, <1>2, <1>3, SenderSecret, RecipientSecret

----------------------------------------------------------------------------
\* The post-quantum KEMs.

\* The keys that generate, derive_key_pair and sk_from_bytes hand out.
PqHeld(sk) ==
    \/ \E seed : sk = PqGenerate(seed).sk \/ sk = PqDerive(seed).sk
    \/ \E seed, form : LET r == PqSkFromBytes(<<seed, form>>)
                       IN  r.ok /\ sk = r.val

\* A seed with the key expanded from it.
PqExpanded(sk, seed) == sk = [seed |-> seed, dk |-> <<"dk", seed>>]

\* Every constructor, X-Wing's of its own included, expands the seed it stores.
LEMMA PqMakes ==
    ASSUME NEW seed
    PROVE  /\ PqExpanded(PqGenerate(seed).sk, seed) /\ PqGenerate(seed).pk = PqPublic(seed)
           /\ PqExpanded(PqDerive(seed).sk, seed) /\ PqDerive(seed).pk = PqPublic(seed)
           /\ \A form : LET r == PqSkFromBytes(<<seed, form>>)
                        IN  r.ok => PqExpanded(r.val, seed)
<1>1. /\ PqExpanded(PqGenerate(seed).sk, seed) /\ PqGenerate(seed).pk = PqPublic(seed)
      /\ PqExpanded(PqDerive(seed).sk, seed) /\ PqDerive(seed).pk = PqPublic(seed)
  BY DEF PqGenerate, PqDerive, XWingGenerate, MlKemGenerate, XWingDerive, MlKemDerive,
         PqPair, PqFromSeed, PqExpanded
<1>2. ASSUME NEW form, PqSkFromBytes(<<seed, form>>).ok
      PROVE  PqExpanded(PqSkFromBytes(<<seed, form>>).val, seed)
  BY <1>2, OkErr
     DEF PqSkFromBytes, XWingSkFromBytes, MlKemSkFromBytes, MlKemGenerate, PqPair,
         PqFromSeed, PqExpanded
<1> QED  BY <1>1, <1>2

\* So does whatever handed a key out.
LEMMA PqHeldIsExpanded == ASSUME NEW sk, PqHeld(sk) PROVE \E seed : PqExpanded(sk, seed)
BY PqMakes DEF PqHeld

\* pq.rs, sk_to_bytes and sk_from_bytes: the stored seed gives the same key back.
THEOREM PqReadsBack == \A sk : PqHeld(sk) => PqSkFromBytes(PqSkToBytes(sk)) = Ok(sk)
<1> SUFFICES ASSUME NEW sk, PqHeld(sk) PROVE PqSkFromBytes(PqSkToBytes(sk)) = Ok(sk)
  OBVIOUS
<1>1. PICK seed : PqExpanded(sk, seed)
  BY PqHeldIsExpanded
<1>2. PqSkToBytes(sk) = <<seed, "exact">>
  BY <1>1 DEF PqSkToBytes, PqExpanded
<1>3. PqSkFromBytes(<<seed, "exact">>) = Ok([seed |-> seed, dk |-> <<"dk", seed>>])
  BY DEF PqSkFromBytes, XWingSkFromBytes, MlKemSkFromBytes, MlKemGenerate, PqPair, PqFromSeed
<1> QED  BY <1>1, <1>2, <1>3 DEF PqExpanded

\* pq.rs, encap and decap: the key of a seed recovers every secret that was
\* encapsulated to the seed's public key, read from its bytes.
THEOREM PqAgrees ==
    \A coins, seed, sk : PqHeld(sk) /\ sk.seed = seed =>
        LET pk == PqPkFromBytes(PqPublic(seed))
            r  == PqEncap(coins, pk.val)
        IN  pk.ok /\ r.ok /\ PqDecap(r.val.enc, sk) = Ok(r.val.ss)
<1> SUFFICES ASSUME NEW coins, NEW sk, PqHeld(sk)
             PROVE  LET pk == PqPkFromBytes(PqPublic(sk.seed))
                        r  == PqEncap(coins, pk.val)
                    IN  pk.ok /\ r.ok /\ PqDecap(r.val.enc, sk) = Ok(r.val.ss)
  OBVIOUS
<1>1. PICK seed : PqExpanded(sk, seed)
  BY PqHeldIsExpanded
<1> DEFINE ct == <<coins, seed, "exact">>
           ss == <<"ss", seed, coins>>
<1>2. sk.seed = seed /\ sk.dk = <<"dk", seed>> /\ sk.dk # Gone
  BY <1>1 DEF PqExpanded, Gone
<1>3. PqPkFromBytes(PqPublic(seed)) = Ok(<<seed, "exact">>)
  BY DEF PqPkFromBytes, PqPublic
<1>4. PqEncap(coins, <<seed, "exact">>) = Ok([ss |-> ss, enc |-> ct])
  BY DEF PqEncap
<1>5. PqDecap(ct, sk) = Ok(ss)
  BY <1>2 DEF PqDecap, Decapsulate
<1> QED  BY <1>2, <1>3, <1>4, <1>5, OkErr

\* pq.rs, encap and decap: secrets are a function of the bytes of enc and of
\* the recipient's key, which differs wherever one of the two does, with
\* implicit rejection for ciphertexts that nobody made.
PqSecretOf(enc, seed) == Decapsulate(<<"dk", seed>>, enc)

\* pq.rs: encap's secret is that function of its enc and the seed; two of its
\* values are equal exactly when enc and seed are.
THEOREM PqBinds ==
    /\ \A coins, seed :
         LET r == PqEncap(coins, PqPublic(seed))
         IN  r.val.ss = PqSecretOf(r.val.enc, seed)
    /\ \A enc, sk : PqHeld(sk) /\ PqDecap(enc, sk).ok =>
         PqDecap(enc, sk).val = PqSecretOf(enc, sk.seed)
    /\ \A a, s, f, p, b, t, g, q :
         PqSecretOf(<<a, s, f>>, p) = PqSecretOf(<<b, t, g>>, q) =>
           <<a, s, f>> = <<b, t, g>> /\ p = q
<1>1. ASSUME NEW coins, NEW seed
      PROVE  LET r == PqEncap(coins, PqPublic(seed))
             IN  r.val.ss = PqSecretOf(r.val.enc, seed)
  <2>1. PqEncap(coins, PqPublic(seed))
          = Ok([ss |-> <<"ss", seed, coins>>, enc |-> <<coins, seed, "exact">>])
    BY DEF PqEncap, PqPublic
  <2>2. PqSecretOf(<<coins, seed, "exact">>, seed) = <<"ss", seed, coins>>
    BY DEF PqSecretOf, Decapsulate
  <2> QED  BY <2>1, <2>2, OkErr
<1>2. ASSUME NEW enc, NEW sk, PqHeld(sk), PqDecap(enc, sk).ok
      PROVE  PqDecap(enc, sk).val = PqSecretOf(enc, sk.seed)
  <2>1. sk.dk = <<"dk", sk.seed>>
    BY <1>2, PqHeldIsExpanded DEF PqExpanded
  <2>2. PqDecap(enc, sk) = Ok(Decapsulate(sk.dk, enc))
    BY <1>2, OkErr DEF PqDecap
  <2> QED  BY <2>1, <2>2, OkErr DEF PqSecretOf
<1>3. ASSUME NEW a, NEW s, NEW f, NEW p, NEW b, NEW t, NEW g, NEW q,
             PqSecretOf(<<a, s, f>>, p) = PqSecretOf(<<b, t, g>>, q)
      PROVE  <<a, s, f>> = <<b, t, g>> /\ p = q
  <2>1. (IF s = p /\ f = "exact" THEN <<"ss", s, a>> ELSE <<"rejected", p, <<a, s, f>>>>)
          = (IF t = q /\ g = "exact" THEN <<"ss", t, b>> ELSE <<"rejected", q, <<b, t, g>>>>)
    BY <1>3 DEF PqSecretOf, Decapsulate
  <2>2. \A x, y, r, z : <<"ss", x, y>> # <<"rejected", r, z>>
    OBVIOUS
  <2>3. CASE s = p /\ f = "exact"
    <3>1. t = q /\ g = "exact"
      BY <2>1, <2>2, <2>3
    <3>2. <<"ss", s, a>> = <<"ss", t, b>>
      BY <2>1, <2>3, <3>1
    <3> QED  BY <2>3, <3>1, <3>2
  <2>4. CASE ~(s = p /\ f = "exact")
    <3>1. ~(t = q /\ g = "exact")
      BY <2>1, <2>2, <2>4
    <3>2. <<"rejected", p, <<a, s, f>>>> = <<"rejected", q, <<b, t, g>>>>
      BY <2>1, <2>4, <3>1
    <3> QED  BY <3>2
  <2> QED  BY <2>3, <2>4
<1> QED  BY <1>1, <1>2, <1>3
============================================================================
