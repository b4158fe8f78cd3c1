------------------------- MODULE KeyLifecycleProofs -------------------------
(***************************************************************************)
(* Theorems about KeyLifecycle, for any number of slots, seeds, key        *)
(* materials and encapsulations: first over every KEM that is correct      *)
(* (KemCorrect) and keeps its keys apart (KemSeparates), then over the     *)
(* crate's, which KemProofs shows to be so.                                *)
(***************************************************************************)
EXTENDS KeyLifecycle, KemProofs

----------------------------------------------------------------------------
\* The owner of another implementation's key is known by its record.
LEMMA ForeignIsOwn ==
    ASSUME NEW k \in Kems, NEW f \in Foreign(k)
    PROVE  /\ f.owner \in Owners
           /\ f.owner \in OwnersOf(k)
           /\ OwnSk(k, f.owner) = SkFromBytes(k, f.bytes)
           /\ OwnPk(k, f.owner) = f.pk
<1>1. f.owner \in Owners /\ f.owner \in OwnersOf(k)
  BY DEF Owners, OwnersOf
<1>2. f.owner \notin Seeds /\ f.owner \notin Ikms
  BY LifecycleAssumption
<1>3. ForeignOf(k, f.owner) = f
  <2>1. ForeignOf(k, f.owner) \in Foreign(k) /\ ForeignOf(k, f.owner).owner = f.owner
    BY DEF ForeignOf
  <2> QED  BY <2>1, LifecycleAssumption
<1> QED  BY <1>1, <1>2, <1>3 DEF OwnSk, OwnPk

\* Whoever is usable is an owner; keys made here always are.
LEMMA UsableOwners ==
    ASSUME NEW k \in Kems
    PROVE  /\ Usable(k) \subseteq OwnersOf(k) /\ OwnersOf(k) \subseteq Owners
           /\ Absent \notin Owners /\ Nobody \notin Owners
           /\ \A o \in Seeds : o \in Usable(k) /\ OwnSk(k, o) = Ok(Generate(k, o).sk)
                               /\ OwnPk(k, o) = Generate(k, o).pk
           /\ \A o \in Ikms : o \in Usable(k) /\ OwnSk(k, o) = Ok(DerivePair(k, o).sk)
                              /\ OwnPk(k, o) = DerivePair(k, o).pk
<1>1. Usable(k) \subseteq OwnersOf(k) /\ OwnersOf(k) \subseteq Owners
  BY DEF Usable, OwnersOf, Owners
<1>2. \A o \in Ikms : o \notin Seeds
  BY LifecycleAssumption
<1>3. \A x : Ok(x).ok
  BY DEF Ok
<1> QED  BY <1>1, <1>2, <1>3, LifecycleAssumption DEF Usable, OwnersOf, OwnSk, OwnPk

\* What Ok returns.
LEMMA OkVal == \A x : Ok(x).ok /\ Ok(x).val = x
BY DEF Ok

----------------------------------------------------------------------------
\* Initially the invariant holds.
LEMMA InvInit == Init => IInv
<1> SUFFICES ASSUME Init PROVE IInv
  OBVIOUS
<1>1. SlotsOwned /\ SentOwned
  BY DEF Init, SlotsOwned, SentOwned
<1>2. SavedOwned
  BY DEF Init, SavedOwned
<1>3. PublishedOwned
  BY DEF Init, PublishedOwned, OwnersOf
<1> QED  BY <1>1, <1>2, <1>3 DEF Init, IInv

\* A slot that is given its owner's key keeps the invariant.
LEMMA PutOwned ==
    ASSUME IInv, kem' = kem, NEW s \in Slots, NEW sk, NEW o, Put(s, sk, o),
           o # Nobody => o \in Usable(kem) /\ sk = OwnSk(kem, o).val
    PROVE  /\ SlotsOwned'
           /\ DOMAIN key' = Slots /\ DOMAIN owner' = Slots
<1>1. /\ DOMAIN key' = Slots /\ DOMAIN owner' = Slots
      /\ key'[s] = sk /\ owner'[s] = o
      /\ \A t \in Slots : t # s => key'[t] = key[t] /\ owner'[t] = owner[t]
  BY DEF Put, IInv
<1>2. ASSUME NEW t \in Slots, owner'[t] # Nobody
      PROVE  owner'[t] \in Usable(kem) /\ key'[t] = OwnSk(kem, owner'[t]).val
  BY <1>1, <1>2 DEF IInv, SlotsOwned
<1> QED  BY <1>1, <1>2 DEF SlotsOwned

\* What a sender to o keeps is what is encapsulated to o by its owner.
LEMMA SentOwnedStep ==
    ASSUME IInv, NEW c \in Coins, NEW o \in Owners, NEW from, NEW r,
           Sent(c, o, from, r),
           o \in OwnersOf(kem),
           from # Nobody =>
             /\ from # Absent => kem \in AuthKems /\ from \in Usable(kem)
             /\ PkFromBytes(kem, OwnPk(kem, o)).ok
             /\ r = OwnEncap(kem, c, o, from)
    PROVE  IInv'
<1> DEFINE new == [coins |-> c, to |-> o, from |-> from,
                   enc |-> r.val.enc, ss |-> r.val.ss]
<1>1. /\ kem' = kem /\ key' = key /\ owner' = owner
      /\ saved' = saved /\ published' = published
      /\ r.ok /\ sent' = sent \cup {new}
  BY DEF Sent
<1>2. SlotsOwned' /\ SavedOwned' /\ PublishedOwned'
  BY <1>1 DEF IInv, SlotsOwned, SavedOwned, PublishedOwned
<1>3. ASSUME NEW m \in sent', m.from # Nobody
      PROVE  /\ m.to \in OwnersOf(kem) /\ m.coins \in Coins
             /\ m.from # Absent => kem \in AuthKems /\ m.from \in Usable(kem)
             /\ PkFromBytes(kem, OwnPk(kem, m.to)).ok
             /\ LET e == OwnEncap(kem, m.coins, m.to, m.from)
                IN  e.ok /\ m.enc = e.val.enc /\ m.ss = e.val.ss
  <2>1. CASE m \in sent
    BY <2>1, <1>3 DEF IInv, SentOwned
  <2>2. CASE m = new
    BY <2>2, <1>1, <1>3
  <2> QED  BY <2>1, <2>2, <1>1
<1>4. SentOwned'
  BY <1>1, <1>3 DEF SentOwned
<1> QED  BY <1>1, <1>2, <1>4 DEF IInv

----------------------------------------------------------------------------
\* Every step keeps the invariant.
LEMMA InvStep == KemCorrect /\ IInv /\ [Next]_vars => IInv'
<1> SUFFICES ASSUME KemCorrect, IInv, [Next]_vars PROVE IInv'
  OBVIOUS
<1>0. kem \in Kems
  BY DEF IInv
<1>1. ASSUME NEW s \in Slots, NEW seed \in Seeds, GenerateKey(s, seed) PROVE IInv'
  <2>1. /\ kem' = kem /\ saved' = saved /\ sent' = sent
        /\ Put(s, Generate(kem, seed).sk, seed)
        /\ published' = [published EXCEPT ![seed] = Generate(kem, seed).pk]
    BY <1>1 DEF GenerateKey
  <2>2. SlotsOwned' /\ DOMAIN key' = Slots /\ DOMAIN owner' = Slots
    BY <1>0, <2>1, UsableOwners, OkVal, PutOwned
  <2>3. PublishedOwned' /\ DOMAIN published' = Owners
    BY <1>0, <2>1, UsableOwners DEF IInv, PublishedOwned
  <2>4. SavedOwned' /\ SentOwned'
    BY <2>1 DEF IInv, SavedOwned, SentOwned
  <2> QED  BY <1>0, <2>1, <2>2, <2>3, <2>4 DEF IInv
<1>2. ASSUME NEW s \in Slots, NEW i \in Ikms, DeriveKey(s, i) PROVE IInv'
  <2>1. /\ kem' = kem /\ saved' = saved /\ sent' = sent
        /\ Put(s, DerivePair(kem, i).sk, i)
        /\ published' = [published EXCEPT ![i] = DerivePair(kem, i).pk]
    BY <1>2 DEF DeriveKey
  <2>2. SlotsOwned' /\ DOMAIN key' = Slots /\ DOMAIN owner' = Slots
    BY <1>0, <2>1, UsableOwners, OkVal, PutOwned
  <2>3. PublishedOwned' /\ DOMAIN published' = Owners
    BY <1>0, <2>1, UsableOwners DEF IInv, PublishedOwned
  <2>4. SavedOwned' /\ SentOwned'
    BY <2>1 DEF IInv, SavedOwned, SentOwned
  <2> QED  BY <1>0, <2>1, <2>2, <2>3, <2>4 DEF IInv
<1>3. ASSUME NEW s \in Slots, NEW b \in saved, LoadKey(s, b) PROVE IInv'
  <2> DEFINE sk == SkFromBytes(kem, b.bytes)
  <2>1. /\ kem' = kem /\ saved' = saved /\ sent' = sent /\ published' = published
        /\ sk.ok /\ Put(s, sk.val, b.owner)
    BY <1>3 DEF LoadKey
  <2>2. b.owner # Nobody => b.owner \in Usable(kem) /\ sk.val = OwnSk(kem, b.owner).val
    <3>1. ASSUME b.owner \in Usable(kem),
                 b.bytes = SkToBytes(kem, OwnSk(kem, b.owner).val)
          PROVE  sk.val = OwnSk(kem, b.owner).val
      BY <1>0, <3>1, OkVal DEF KemCorrect, ReadsBack
    <3>2. ASSUME NEW f \in Foreign(kem), b.bytes = f.bytes, b.owner = f.owner
          PROVE  b.owner \in Usable(kem) /\ sk.val = OwnSk(kem, b.owner).val
      BY <1>0, <2>1, <3>2, ForeignIsOwn DEF Usable
    <3> QED  BY <3>1, <3>2 DEF IInv, SavedOwned
  <2>3. SlotsOwned' /\ DOMAIN key' = Slots /\ DOMAIN owner' = Slots
    BY <2>1, <2>2, PutOwned
  <2>4. SavedOwned' /\ PublishedOwned' /\ SentOwned'
    BY <2>1 DEF IInv, SavedOwned, PublishedOwned, SentOwned
  <2> QED  BY <1>0, <2>1, <2>3, <2>4 DEF IInv
<1>4. ASSUME NEW s \in Slots, SaveKey(s) PROVE IInv'
  <2>1. /\ kem' = kem /\ key' = key /\ owner' = owner
        /\ sent' = sent /\ published' = published
        /\ key[s] # Absent
        /\ saved' = saved \cup {[bytes |-> SkToBytes(kem, key[s]), owner |-> owner[s]]}
    BY <1>4 DEF SaveKey
  <2>2. SavedOwned'
    BY <2>1 DEF IInv, SavedOwned, SlotsOwned
  <2>3. SlotsOwned' /\ PublishedOwned' /\ SentOwned'
    BY <2>1 DEF IInv, SlotsOwned, PublishedOwned, SentOwned
  <2> QED  BY <1>0, <2>1, <2>2, <2>3 DEF IInv
<1>5. ASSUME NEW s \in Slots, ZeroizeKey(s) \/ DropKey(s) PROVE IInv'
  <2>1. /\ kem' = kem /\ saved' = saved /\ sent' = sent /\ published' = published
        /\ \E sk : Put(s, sk, Nobody)
    BY <1>5 DEF ZeroizeKey, DropKey
  <2>2. SlotsOwned' /\ DOMAIN key' = Slots /\ DOMAIN owner' = Slots
    BY <2>1, PutOwned
  <2>3. SavedOwned' /\ PublishedOwned' /\ SentOwned'
    BY <2>1 DEF IInv, SavedOwned, PublishedOwned, SentOwned
  <2> QED  BY <1>0, <2>1, <2>2, <2>3 DEF IInv
<1>6. ASSUME NEW c \in Coins, NEW o \in Owners, SendBase(c, o) PROVE IInv'
  <2> DEFINE pk == PkFromBytes(kem, published[o])
  <2>1. o \in OwnersOf(kem) /\ published[o] = OwnPk(kem, o) /\ pk.ok
        /\ Sent(c, o, Absent, Encap(kem, c, pk.val))
    BY <1>6 DEF SendBase, IInv, PublishedOwned
  <2>2. Encap(kem, c, pk.val) = OwnEncap(kem, c, o, Absent)
    BY <2>1 DEF OwnEncap
  <2> QED  BY <2>1, <2>2, SentOwnedStep
<1>7. ASSUME NEW c \in Coins, NEW o \in Owners, NEW s \in Slots, SendAuth(c, o, s)
      PROVE  IInv'
  <2> DEFINE pk == PkFromBytes(kem, published[o])
             r  == AuthEncap(kem, c, pk.val, key[s])
  <2>1. /\ o \in OwnersOf(kem) /\ published[o] = OwnPk(kem, o) /\ pk.ok
        /\ kem \in AuthKems /\ key[s] # Absent
        /\ Sent(c, o, owner[s], r)
    BY <1>7 DEF SendAuth, IInv, PublishedOwned
  <2>2. owner[s] # Nobody => owner[s] \in Usable(kem) /\ key[s] = OwnSk(kem, owner[s]).val
    BY <2>1 DEF IInv, SlotsOwned
  <2>3. owner[s] # Nobody => owner[s] # Absent /\ r = OwnEncap(kem, c, o, owner[s])
    BY <1>0, <2>1, <2>2, UsableOwners DEF OwnEncap
  <2> QED  BY <2>1, <2>2, <2>3, SentOwnedStep
<1>8. CASE UNCHANGED vars
  BY <1>8 DEF vars, IInv, SlotsOwned, SavedOwned, PublishedOwned, SentOwned
<1> QED  BY <1>1, <1>2, <1>3, <1>4, <1>5, <1>6, <1>7, <1>8 DEF Next

\* Whatever has an owner is the owner's, whichever way it came: generated,
\* derived, loaded, encapsulated (kem/dh.rs and kem/pq.rs behind kem/mod.rs).
THEOREM Invariance == KemCorrect => (Spec => []IInv)
<1>1. ASSUME KemCorrect PROVE IInv /\ [Next]_vars => IInv'
  BY <1>1, InvStep
<1>2. ASSUME KemCorrect PROVE Spec => []IInv
  BY <1>1, <1>2, InvInit, PTL DEF Spec
<1> QED  BY <1>2

----------------------------------------------------------------------------
\* The private key of a message's recipient recovers what its sender has.
LEMMA InvRecovers == KemCorrect /\ IInv => OwnersRecover
<1> SUFFICES ASSUME KemCorrect, IInv, NEW s \in Slots, NEW m \in sent,
                    key[s] # Absent, owner[s] = m.to, m.from \in Sources
             PROVE  Receive(s, m, m.from) = Ok(m.ss)
  BY DEF OwnersRecover
<1> DEFINE pk == PkFromBytes(kem, OwnPk(kem, m.to))
           r  == OwnEncap(kem, m.coins, m.to, m.from)
<1>1. kem \in Kems
  BY DEF IInv
<1>2. m.from # Nobody /\ (m.from # Absent => m.from \in Owners /\ published[m.from] # Absent)
  BY <1>1, UsableOwners, LifecycleAssumption DEF Sources
<1>3. /\ m.to \in OwnersOf(kem) /\ m.coins \in Coins
      /\ m.from # Absent => kem \in AuthKems /\ m.from \in Usable(kem)
      /\ pk.ok /\ r.ok /\ m.enc = r.val.enc /\ m.ss = r.val.ss
  BY <1>2 DEF IInv, SentOwned
<1>4. m.to \in Usable(kem) /\ key[s] = OwnSk(kem, m.to).val
  BY <1>1, <1>3, UsableOwners DEF IInv, SlotsOwned
<1>5. CASE m.from = Absent
  <2>1. r = Encap(kem, m.coins, pk.val)
    BY <1>5 DEF OwnEncap
  <2>2. Agrees(kem, m.coins, m.to)
    BY <1>1, <1>3, <1>4 DEF KemCorrect
  <2>3. Decap(kem, r.val.enc, OwnSk(kem, m.to).val) = Ok(r.val.ss)
    BY <2>1, <2>2, <1>3 DEF Agrees
  <2> QED  BY <2>3, <1>3, <1>4, <1>5 DEF Receive
<1>6. CASE m.from # Absent
  <2>1. r = AuthEncap(kem, m.coins, pk.val, OwnSk(kem, m.from).val)
    BY <1>6 DEF OwnEncap
  <2>2. AgreesAuth(kem, m.coins, m.to, m.from)
    BY <1>1, <1>3, <1>4, <1>6 DEF KemCorrect
  <2>3. AuthDecap(kem, r.val.enc, OwnSk(kem, m.to).val,
                  PkFromBytes(kem, OwnPk(kem, m.from)).val) = Ok(r.val.ss)
    BY <2>1, <2>2, <1>3 DEF AgreesAuth
  <2>4. published[m.from] = OwnPk(kem, m.from)
    BY <1>2, <1>6 DEF IInv, PublishedOwned
  <2> QED  BY <2>3, <2>4, <1>3, <1>4, <1>6 DEF Receive
<1> QED  BY <1>5, <1>6

\* Keys of one owner are one key, and read back from their bytes.
LEMMA InvOneForm == KemCorrect /\ IInv => OneStoredForm
<1> SUFFICES ASSUME KemCorrect, IInv PROVE OneStoredForm
  OBVIOUS
<1>1. kem \in Kems
  BY DEF IInv
<1>2. \A s, t \in Slots :
        owner[s] # Nobody /\ owner[s] = owner[t] => key[s] = key[t]
  BY DEF IInv, SlotsOwned
<1>3. ASSUME NEW s \in Slots, key[s] # Absent, owner[s] # Nobody
      PROVE  SkFromBytes(kem, SkToBytes(kem, key[s])) = Ok(key[s])
  BY <1>1, <1>3 DEF IInv, SlotsOwned, KemCorrect, ReadsBack
<1> QED  BY <1>2, <1>3 DEF OneStoredForm

\* dh.rs:94-98, dh.rs:861-863: an owner recovers every secret that was
\* encapsulated to the public key handed out for it, however its private key
\* was made, stored and loaded in between.
THEOREM Recovery == KemCorrect => (Spec => []OwnersRecover)
<1>1. ASSUME KemCorrect PROVE IInv => OwnersRecover
  BY <1>1, InvRecovers
<1>2. ASSUME KemCorrect PROVE Spec => []OwnersRecover
  BY <1>1, <1>2, Invariance, PTL
<1> QED  BY <1>2

\* dh.rs:575-578, kem/mod.rs:84-89: one key has one stored form.
THEOREM StoredOnce == KemCorrect => (Spec => []OneStoredForm)
<1>1. ASSUME KemCorrect PROVE IInv => OneStoredForm
  BY <1>1, InvOneForm
<1>2. ASSUME KemCorrect PROVE Spec => []OneStoredForm
  BY <1>1, <1>2, Invariance, PTL
<1> QED  BY <1>2

----------------------------------------------------------------------------
\* Zeroized keys.

\* The keys of nobody are closed under whatever is done with a private key.
LEMMA DeadStay ==
    ASSUME KemSeparates, NEW k \in Kems, NEW x \in DeadKeys(k)
    PROVE  LET r == SkFromBytes(k, SkToBytes(k, x))
           IN  Zeroize(k, x) \in DeadKeys(k) /\ (r.ok => r.val \in DeadKeys(k))
<1>1. Aftermath(k, DeadKeys(k)) = DeadKeys(k)
  BY DEF KemSeparates
<1> DEFINE D == DeadKeys(k)
           r == SkFromBytes(k, SkToBytes(k, x))
<1>2. x \in D /\ Aftermath(k, D) = D
  BY <1>1
<1> HIDE DEF D
<1>3. Zeroize(k, x) \in D /\ (r.ok => r.val \in D)
  BY <1>2 DEF Aftermath
<1> QED  BY <1>3 DEF D

\* A zeroized key of anybody is one of them.
LEMMA OwnDies ==
    ASSUME NEW k \in Kems, NEW o \in Usable(k)
    PROVE  Zeroize(k, OwnSk(k, o).val) \in DeadKeys(k)
BY DEF DeadKeys, Aftermath

\* Nothing is nobody's at first.
LEMMA DeadInit == Init => NobodysAreDead
<1> SUFFICES ASSUME Init PROVE NobodysAreDead
  OBVIOUS
<1>1. \A b \in saved : b.owner # Nobody
  BY ForeignIsOwn, UsableOwners DEF Init
<1> QED  BY <1>1 DEF Init, NobodysAreDead, SlotsDead, SavedDead, SentDead

\* A slot that is given a dead key, if nobody's, keeps the invariant.
LEMMA PutDead ==
    ASSUME IInv, SlotsDead, kem' = kem, NEW s \in Slots, NEW sk, NEW o, Put(s, sk, o),
           sk # Absent /\ o = Nobody => sk \in DeadKeys(kem)
    PROVE  SlotsDead'
<1>1. /\ key'[s] = sk /\ owner'[s] = o
      /\ \A t \in Slots : t # s => key'[t] = key[t] /\ owner'[t] = owner[t]
  BY DEF Put, IInv
<1> QED  BY <1>1 DEF SlotsDead

\* A message that is nobody's was made with a dead key.
LEMMA SentDeadStep ==
    ASSUME IInv, NobodysAreDead, NEW c \in Coins, NEW o \in OwnersOf(kem), NEW from, NEW r,
           Sent(c, o, from, r),
           from = Nobody =>
             LET pk == PkFromBytes(kem, OwnPk(kem, o)) IN
             /\ kem \in AuthKems /\ pk.ok
             /\ \E x \in DeadKeys(kem) : r = AuthEncap(kem, c, pk.val, x)
    PROVE  NobodysAreDead'
<1> DEFINE new == [coins |-> c, to |-> o, from |-> from,
                   enc |-> r.val.enc, ss |-> r.val.ss]
<1>1. /\ kem' = kem /\ key' = key /\ owner' = owner /\ saved' = saved
      /\ r.ok /\ sent' = sent \cup {new}
  BY DEF Sent
<1>2. SlotsDead' /\ SavedDead'
  BY <1>1 DEF NobodysAreDead, SlotsDead, SavedDead
<1>3. ASSUME NEW m \in sent', m.from = Nobody
      PROVE  LET pk == PkFromBytes(kem, OwnPk(kem, m.to)) IN
             /\ m.to \in OwnersOf(kem) /\ m.coins \in Coins
             /\ kem \in AuthKems /\ pk.ok
             /\ \E x \in DeadKeys(kem) :
                  LET e == AuthEncap(kem, m.coins, pk.val, x)
                  IN  e.ok /\ m.enc = e.val.enc /\ m.ss = e.val.ss
  <2>1. CASE m \in sent
    BY <2>1, <1>3 DEF NobodysAreDead, SentDead
  <2>2. CASE m = new
    BY <2>2, <1>1, <1>3
  <2> QED  BY <2>1, <2>2, <1>1
<1>4. SentDead'
  BY <1>1, <1>3 DEF SentDead
<1> QED  BY <1>2, <1>4 DEF NobodysAreDead

\* Every step leaves what is nobody's dead.
LEMMA DeadStep ==
    KemSeparates /\ IInv /\ NobodysAreDead /\ [Next]_vars => NobodysAreDead'
<1> SUFFICES ASSUME KemSeparates, IInv, NobodysAreDead, [Next]_vars PROVE NobodysAreDead'
  OBVIOUS
<1>0. kem \in Kems /\ SlotsDead /\ SavedDead /\ SentDead
  BY DEF IInv, NobodysAreDead
<1>1. ASSUME NEW s \in Slots, NEW o \in Owners, NEW sk, Put(s, sk, o),
             kem' = kem, saved' = saved, sent' = sent
      PROVE  NobodysAreDead'
  <2>1. o # Nobody
    BY <1>0, UsableOwners
  <2>2. SlotsDead'
    BY <1>0, <1>1, <2>1, PutDead
  <2> QED  BY <1>0, <1>1, <2>2 DEF NobodysAreDead, SavedDead, SentDead
<1>2. ASSUME NEW s \in Slots, NEW o \in Seeds \cup Ikms, GenerateKey(s, o) \/ DeriveKey(s, o)
      PROVE  NobodysAreDead'
  <2>1. o \in Owners
    BY DEF Owners
  <2>2. \E sk : Put(s, sk, o)
    BY <1>2 DEF GenerateKey, DeriveKey
  <2>3. kem' = kem /\ saved' = saved /\ sent' = sent
    BY <1>2 DEF GenerateKey, DeriveKey
  <2> QED  BY <1>1, <2>1, <2>2, <2>3
<1>3. ASSUME NEW s \in Slots, NEW b \in saved, LoadKey(s, b) PROVE NobodysAreDead'
  <2> DEFINE sk == SkFromBytes(kem, b.bytes)
  <2>1. /\ kem' = kem /\ saved' = saved /\ sent' = sent
        /\ sk.ok /\ Put(s, sk.val, b.owner)
    BY <1>3 DEF LoadKey
  <2>2. ASSUME b.owner = Nobody PROVE sk.val \in DeadKeys(kem)
    <3>1. PICK x \in DeadKeys(kem) : b.bytes = SkToBytes(kem, x)
      BY <1>0, <2>2 DEF SavedDead
    <3> QED  BY <1>0, <2>1, <3>1, DeadStay
  <2>3. SlotsDead'
    BY <1>0, <2>1, <2>2, PutDead
  <2> QED  BY <1>0, <2>1, <2>3 DEF NobodysAreDead, SavedDead, SentDead
<1>4. ASSUME NEW s \in Slots, SaveKey(s) PROVE NobodysAreDead'
  <2>1. /\ kem' = kem /\ key' = key /\ owner' = owner /\ sent' = sent
        /\ key[s] # Absent
        /\ saved' = saved \cup {[bytes |-> SkToBytes(kem, key[s]), owner |-> owner[s]]}
    BY <1>4 DEF SaveKey
  <2>2. SavedDead'
    BY <1>0, <2>1 DEF SavedDead, SlotsDead
  <2> QED  BY <1>0, <2>1, <2>2 DEF NobodysAreDead, SlotsDead, SentDead
<1>5. ASSUME NEW s \in Slots, ZeroizeKey(s) PROVE NobodysAreDead'
  <2>1. /\ kem' = kem /\ saved' = saved /\ sent' = sent /\ key[s] # Absent
        /\ Put(s, Zeroize(kem, key[s]), Nobody)
    BY <1>5 DEF ZeroizeKey
  <2>2. CASE owner[s] = Nobody
    <3>1. Zeroize(kem, key[s]) \in DeadKeys(kem)
      BY <1>0, <2>1, <2>2, DeadStay DEF SlotsDead
    <3>2. SlotsDead'
      BY <1>0, <2>1, <3>1, PutDead
    <3> QED  BY <1>0, <2>1, <3>2 DEF NobodysAreDead, SavedDead, SentDead
  <2>3. CASE owner[s] # Nobody
    <3>1. owner[s] \in Usable(kem) /\ key[s] = OwnSk(kem, owner[s]).val
      BY <2>3 DEF IInv, SlotsOwned
    <3>2. Zeroize(kem, key[s]) \in DeadKeys(kem)
      BY <1>0, <3>1, OwnDies
    <3>3. SlotsDead'
      BY <1>0, <2>1, <3>2, PutDead
    <3> QED  BY <1>0, <2>1, <3>3 DEF NobodysAreDead, SavedDead, SentDead
  <2> QED  BY <2>2, <2>3
<1>6. ASSUME NEW s \in Slots, DropKey(s) PROVE NobodysAreDead'
  <2>1. /\ kem' = kem /\ saved' = saved /\ sent' = sent
        /\ Put(s, Absent, Nobody)
    BY <1>6 DEF DropKey
  <2>2. SlotsDead'
    BY <1>0, <2>1, PutDead
  <2> QED  BY <1>0, <2>1, <2>2 DEF NobodysAreDead, SavedDead, SentDead
<1>7. ASSUME NEW c \in Coins, NEW o \in Owners, SendBase(c, o) PROVE NobodysAreDead'
  <2>1. o \in OwnersOf(kem)
    BY <1>7 DEF SendBase, IInv, PublishedOwned
  <2>2. \E r : Sent(c, o, Absent, r)
    BY <1>7 DEF SendBase
  <2> QED  BY <2>1, <2>2, SentDeadStep, LifecycleAssumption
<1>8. ASSUME NEW c \in Coins, NEW o \in Owners, NEW s \in Slots, SendAuth(c, o, s)
      PROVE  NobodysAreDead'
  <2> DEFINE pk == PkFromBytes(kem, OwnPk(kem, o))
             r  == AuthEncap(kem, c, pk.val, key[s])
  <2>1. /\ o \in OwnersOf(kem) /\ pk.ok /\ kem \in AuthKems /\ key[s] # Absent
        /\ Sent(c, o, owner[s], r)
    BY <1>8 DEF SendAuth, IInv, PublishedOwned
  <2>2. owner[s] = Nobody => key[s] \in DeadKeys(kem)
    BY <1>0, <2>1 DEF SlotsDead
  <2> QED  BY <2>1, <2>2, SentDeadStep
<1>9. CASE UNCHANGED vars
  BY <1>9, <1>0 DEF vars, NobodysAreDead, SlotsDead, SavedDead, SentDead
<1> QED  BY <1>2, <1>3, <1>4, <1>5, <1>6, <1>7, <1>8, <1>9 DEF Next

\* dh.rs and pq.rs, Zeroize::zeroize behind load, save, zeroize and send: what
\* is nobody's is one of the keys that zeroization leaves, or was made with one.
THEOREM Deadness ==
    KemCorrect /\ KemSeparates => (Spec => [](IInv /\ NobodysAreDead))
<1>1. ASSUME KemSeparates PROVE IInv /\ NobodysAreDead /\ [Next]_vars => NobodysAreDead'
  BY <1>1, DeadStep
<1>2. ASSUME KemCorrect, KemSeparates PROVE Spec => [](IInv /\ NobodysAreDead)
  BY <1>1, <1>2, Invariance, DeadInit, PTL DEF Spec
<1> QED  BY <1>2

\* A secret that is sent is kept from all but its recipient.
LEMMA InvSeparates == KemSeparates /\ IInv /\ NobodysAreDead => OthersDoNot
<1> SUFFICES ASSUME KemSeparates, IInv, NobodysAreDead,
                    NEW s \in Slots, NEW m \in sent, NEW f \in Sources,
                    key[s] # Absent, owner[s] # m.to \/ f # m.from
             PROVE  Receive(s, m, f) # Ok(m.ss)
  BY DEF OthersDoNot
<1> DEFINE pk == PkFromBytes(kem, OwnPk(kem, m.to))
           p  == owner[s]
           y  == key[s]
<1>1. kem \in Kems /\ SlotsDead /\ SentDead /\ SlotsOwned /\ SentOwned
  BY DEF IInv, NobodysAreDead
<1>2. Absent \notin OwnersOf(kem) /\ Nobody \notin OwnersOf(kem) /\ Absent # Nobody
  BY <1>1, UsableOwners, LifecycleAssumption
<1>3. p \in OwnersOf(kem) \cup {Nobody} /\ y \in KeysOf(kem, p)
  <2>1. CASE p = Nobody
    BY <1>1, <2>1 DEF SlotsDead, KeysOf
  <2>2. CASE p # Nobody
    <3>1. p \in Usable(kem) /\ y = OwnSk(kem, p).val
      BY <1>1, <2>2 DEF SlotsOwned
    <3> QED  BY <1>1, <2>2, <3>1, UsableOwners DEF KeysOf
  <2> QED  BY <2>1, <2>2
<1>4. m.to \in OwnersOf(kem) /\ m.coins \in Coins /\ pk.ok
  BY <1>1 DEF SentOwned, SentDead
<1>5. Separates(kem, m.coins, m.to, p, y)
  BY <1>1, <1>3, <1>4 DEF KemSeparates
<1>6. \/ f = Absent /\ Receive(s, m, f) = Decap(kem, m.enc, y)
      \/ /\ kem \in AuthKems /\ f \in OwnersOf(kem) /\ f # Absent
         /\ Receive(s, m, f) = AuthReceive(kem, m.enc, y, f)
  <2>1. CASE f = Absent
    BY <2>1 DEF Receive
  <2>2. CASE f # Absent
    <3>1. kem \in AuthKems /\ f \in Owners /\ published[f] # Absent
      BY <2>2 DEF Sources
    <3>2. f \in OwnersOf(kem) /\ published[f] = OwnPk(kem, f)
      BY <3>1 DEF IInv, PublishedOwned
    <3> QED  BY <2>2, <3>1, <3>2 DEF Receive, AuthReceive
  <2> QED  BY <2>1, <2>2
<1>7. CASE m.from = Absent
  <2> DEFINE r == Encap(kem, m.coins, pk.val)
  <2>1. r.ok /\ m.enc = r.val.enc /\ m.ss = r.val.ss
    BY <1>1, <1>2, <1>7 DEF SentOwned, OwnEncap
  <2>2. /\ p # m.to => Decap(kem, r.val.enc, y) # Ok(r.val.ss)
        /\ kem \in AuthKems => \A g \in OwnersOf(kem) :
             AuthReceive(kem, r.val.enc, y, g) # Ok(r.val.ss)
    BY <1>5, <2>1 DEF Separates
  <2> HIDE DEF r
  <2> QED  BY <1>6, <1>7, <2>1, <2>2
<1>8. CASE m.from # Absent
  <2>1. kem \in AuthKems /\ m.from \in OwnersOf(kem) \cup {Nobody}
    BY <1>1, <1>8, UsableOwners DEF SentOwned, SentDead
  <2>2. PICK x \in KeysOf(kem, m.from) :
          LET r == AuthEncap(kem, m.coins, pk.val, x)
          IN  r.ok /\ m.enc = r.val.enc /\ m.ss = r.val.ss
    <3>1. CASE m.from = Nobody
      BY <1>1, <3>1 DEF SentDead, KeysOf
    <3>2. CASE m.from # Nobody
      <4>1. m.from \in Usable(kem)
        BY <1>1, <1>8, <3>2 DEF SentOwned
      <4>2. OwnSk(kem, m.from).val \in KeysOf(kem, m.from)
        BY <3>2, <4>1 DEF KeysOf
      <4> QED  BY <1>1, <1>8, <3>2, <4>2 DEF SentOwned, OwnEncap
    <3> QED  BY <3>1, <3>2
  <2> DEFINE r == AuthEncap(kem, m.coins, pk.val, x)
  <2>3. /\ Decap(kem, r.val.enc, y) # Ok(r.val.ss)
        /\ \A g \in OwnersOf(kem) : p # m.to \/ g # m.from =>
             AuthReceive(kem, r.val.enc, y, g) # Ok(r.val.ss)
    BY <1>5, <2>1, <2>2 DEF Separates
  <2> HIDE DEF r
  <2> QED  BY <1>6, <2>2, <2>3 DEF r
<1> QED  BY <1>7, <1>8

\* dh.rs:94-98, pq.rs:655-658: no other key, zeroized, saved and loaded or of
\* somebody else, recovers a secret, and none as coming from anyone but its
\* sender, whatever a zeroized key was used to authenticate.
THEOREM Exclusion == KemCorrect /\ KemSeparates => (Spec => []OthersDoNot)
<1>1. ASSUME KemSeparates PROVE IInv /\ NobodysAreDead => OthersDoNot
  BY <1>1, InvSeparates
<1>2. ASSUME KemCorrect, KemSeparates PROVE Spec => []OthersDoNot
  BY <1>1, <1>2, Deadness, PTL
<1> QED  BY <1>2

----------------------------------------------------------------------------
\* When zeroizing twice is zeroizing once, and every zeroized key is loaded as
\* one key l, the keys of nobody are the zeroized ones, l and l zeroized.
LEMMA AftermathHas ==
    ASSUME NEW k, NEW S, NEW x
    PROVE  x \in Aftermath(k, S) <=>
             \/ x \in S
             \/ \E u \in S : x = Zeroize(k, u)
             \/ \E u \in S : LET r == SkFromBytes(k, SkToBytes(k, u)) IN r.ok /\ x = r.val
BY DEF Aftermath

\* Zeroized keys and what is loaded from their bytes are all that a dead key can
\* become.
LEMMA Closure ==
    ASSUME NEW k, NEW l,
           \A o \in Usable(k) : LET z == Zeroize(k, OwnSk(k, o).val) IN
             Zeroize(k, z) = z /\ SkFromBytes(k, SkToBytes(k, z)) = Ok(l),
           LET z == Zeroize(k, l) IN
             Zeroize(k, z) = z /\ SkFromBytes(k, SkToBytes(k, z)) = Ok(l),
           SkFromBytes(k, SkToBytes(k, l)) = Ok(l)
    PROVE  /\ Aftermath(k, DeadKeys(k)) = DeadKeys(k)
           /\ \A x \in DeadKeys(k) :
                \/ x \in {l, Zeroize(k, l)}
                \/ \E o \in Usable(k) : x = Zeroize(k, OwnSk(k, o).val)
<1> DEFINE Z == {Zeroize(k, OwnSk(k, o).val) : o \in Usable(k)}
           m == Zeroize(k, l)
           A == Aftermath(k, Z)
           D == Aftermath(k, A)
<1>1. /\ \A x \in Z : Zeroize(k, x) = x /\ SkFromBytes(k, SkToBytes(k, x)) = Ok(l)
      /\ Zeroize(k, m) = m /\ SkFromBytes(k, SkToBytes(k, m)) = Ok(l)
      /\ Zeroize(k, l) = m /\ SkFromBytes(k, SkToBytes(k, l)) = Ok(l)
      /\ Ok(l).ok /\ Ok(l).val = l
  BY OkErr
<1>2. DeadKeys(k) = D /\ \A x \in Z : \E o \in Usable(k) : x = Zeroize(k, OwnSk(k, o).val)
  BY DEF DeadKeys
<1> HIDE DEF Z, m
<1>3. CASE Z = {}
  <2>1. A = {}
    BY <1>3, AftermathHas
  <2>2. D = {}
    BY <2>1, AftermathHas
  <2>3. Aftermath(k, D) = D
    BY <2>2, AftermathHas
  <2> QED  BY <1>2, <2>2, <2>3
<1>4. CASE Z # {}
  <2>1. A = Z \cup {l}
    <3>1. \A x : x \in A <=> x \in Z \cup {l}
      BY <1>1, <1>4, AftermathHas
    <3> QED  BY <3>1
  <2> HIDE DEF A
  <2>2. D = Z \cup {l, m}
    <3>1. \A x : x \in D <=> x \in Z \cup {l, m}
      BY <1>1, <2>1, AftermathHas
    <3> QED  BY <3>1
  <2> HIDE DEF D
  <2>3. Aftermath(k, D) = D
    <3>1. \A x : x \in Aftermath(k, D) <=> x \in D
      BY <1>1, <2>2, AftermathHas
    <3> QED  BY <3>1
  <2> QED  BY <1>2, <2>2, <2>3 DEF m
<1> QED  BY <1>3, <1>4

----------------------------------------------------------------------------
\* DHKEM.

\* The program's Kem named Curve is DhKem.  Other implementations hand out the
\* public keys of the scalars they store, and no owner's scalar is one of those
\* that zeroization leaves or has a public key of small order.
ScrubbedNames == {"zero", "one", SmallOrder}

IsDh ==
    LET k == Curve IN
    /\ \A s : Generate(k, s) = [sk |-> DhKeyPair(s), pk |-> DhKeyPair(s).pk_bytes]
    /\ \A i : DerivePair(k, i) = [sk |-> DhDerivePair(i), pk |-> DhDerivePair(i).pk_bytes]
    /\ \A b : SkFromBytes(k, b) = DhLoad(b)
    /\ \A sk : SkToBytes(k, sk) = DhSave(sk)
    /\ \A sk : Zeroize(k, sk) = DhZeroize(sk)
    /\ \A b : PkFromBytes(k, b) = DhPkFromBytes(b)
    /\ \A c, pk : Encap(k, c, pk) = DhEncap(c, pk)
    /\ \A c, pk, sk : AuthEncap(k, c, pk, sk) = DhAuthEncap(c, pk, sk)
    /\ \A enc, sk : Decap(k, enc, sk) = DhDecap(enc, sk)
    /\ \A enc, sk, pk : AuthDecap(k, enc, sk, pk) = DhAuthDecap(enc, sk, pk)
    /\ \A f \in Foreign(k) : /\ \E form : f.bytes = <<f.owner, form>>
                             /\ f.pk = <<f.owner, "canonical">>
    /\ OwnersOf(k) \cap ScrubbedNames = {}

\* An owner's keys are the stored scalar with the owner's name and its point.
LEMMA DhOwn ==
    ASSUME IsDh, Curve \in Kems, NEW o \in OwnersOf(Curve)
    PROVE  /\ OwnPk(Curve, o) = <<o, "canonical">>
           /\ PkFromBytes(Curve, OwnPk(Curve, o)).val = <<o, "canonical">>
           /\ OwnSk(Curve, o).ok =>
                DhHeld(OwnSk(Curve, o).val) /\ DhStored(OwnSk(Curve, o).val, o)
<1> DEFINE sk   == OwnSk(Curve, o)
           Goal == /\ OwnPk(Curve, o) = <<o, "canonical">>
                   /\ sk.ok => DhHeld(sk.val) /\ DhStored(sk.val, o)
<1>1. ASSUME o \in Seeds PROVE Goal
  <2>1. sk = Ok(DhKeyPair(o)) /\ OwnPk(Curve, o) = DhKeyPair(o).pk_bytes
    <3>1. Generate(Curve, o) = [sk |-> DhKeyPair(o), pk |-> DhKeyPair(o).pk_bytes]
      BY DEF IsDh
    <3> QED  BY <1>1, <3>1 DEF OwnSk, OwnPk
  <2>2. DhStored(DhKeyPair(o), o) /\ DhHeld(DhKeyPair(o))
    BY DhMakes DEF DhHeld
  <2>3. DhKeyPair(o).pk_bytes = <<o, "canonical">>
    BY <2>2 DEF DhStored
  <2> QED  BY <2>1, <2>2, <2>3, OkErr
<1>2. ASSUME o \in Ikms, o \notin Seeds PROVE Goal
  <2>1. sk = Ok(DhDerivePair(o)) /\ OwnPk(Curve, o) = DhDerivePair(o).pk_bytes
    <3>1. DerivePair(Curve, o) = [sk |-> DhDerivePair(o), pk |-> DhDerivePair(o).pk_bytes]
      BY DEF IsDh
    <3> QED  BY <1>2, <3>1 DEF OwnSk, OwnPk
  <2>2. DhStored(DhDerivePair(o), o) /\ DhHeld(DhDerivePair(o))
    BY DhMakes DEF DhHeld
  <2>3. DhDerivePair(o).pk_bytes = <<o, "canonical">>
    BY <2>2 DEF DhStored
  <2> QED  BY <2>1, <2>2, <2>3, OkErr
<1>3. ASSUME \E f \in Foreign(Curve) : f.owner = o PROVE Goal
  <2>1. PICK f \in Foreign(Curve) : f.owner = o
    BY <1>3
  <2>2. PICK form : f.bytes = <<o, form>>
    BY <2>1 DEF IsDh
  <2>3. sk = DhLoad(<<o, form>>) /\ OwnPk(Curve, o) = <<o, "canonical">>
    <3>1. f.pk = <<o, "canonical">> /\ SkFromBytes(Curve, f.bytes) = DhLoad(<<o, form>>)
      BY <2>1, <2>2 DEF IsDh
    <3> QED  BY <2>1, <3>1, ForeignIsOwn
  <2>4. sk.ok => DhStored(sk.val, o)
    BY <2>3, DhMakes
  <2>5. sk.ok => DhHeld(sk.val)
    BY <2>3 DEF DhHeld
  <2> QED  BY <2>3, <2>4, <2>5
<1>4. Goal
  BY <1>1, <1>2, <1>3 DEF OwnersOf
<1>5. o # SmallOrder
  BY DEF IsDh, ScrubbedNames
<1>6. PkFromBytes(Curve, <<o, "canonical">>).val = <<o, "canonical">>
  BY <1>5, EncParses DEF IsDh
<1> QED  BY <1>4, <1>6

\* What zeroization leaves: the scalar zero, which X25519 clamps when it is used
\* and X448 does not, or one; loaded, a scalar that nobody stores.
LEMMA DhDead ==
    ASSUME IsDh, Curve \in Kems
    PROVE  /\ Aftermath(Curve, DeadKeys(Curve)) = DeadKeys(Curve)
           /\ \A x \in DeadKeys(Curve) :
                \E d \in ScrubbedNames : DhSkToPk(x.sk) = <<d, "canonical">>
<1> DEFINE n == IF Curve = "NIST" THEN "one" ELSE "zero"
           z == IF Curve = "NIST" THEN <<"one", "canonical">> ELSE <<"zero", "zero">>
           l == [sk |-> <<n, "canonical">>, pk_bytes |-> <<n, "canonical">>]
<1>1. \A sk : DhZeroizeSk(sk) = z
  BY CurveAssumption DEF DhZeroizeSk, X25519Zeroize, X448Zeroize, NistZeroize
<1>2. DhLoad(z) = Ok(l) /\ DhLoad(l.sk) = Ok(l)
  <2>1. DhSkFromBytes(z) = Ok(<<n, "canonical">>)
    BY CurveAssumption
       DEF DhSkFromBytes, X25519SkFromBytes, X25519Clamp, X448SkFromBytes, X448Clamp,
           NistSkFromBytes
  <2>2. DhSkFromBytes(<<n, "canonical">>) = Ok(<<n, "canonical">>)
    BY CurveAssumption
       DEF DhSkFromBytes, X25519SkFromBytes, X25519Clamp, X448SkFromBytes, X448Clamp,
           NistSkFromBytes
  <2>3. DhPrivateKey(<<n, "canonical">>) = l
    BY CanonicalPublic
  <2> HIDE DEF n, z
  <2> QED  BY <2>1, <2>2, <2>3, OkErr DEF DhLoad
<1>3. /\ \E d \in ScrubbedNames : DhSkToPk(z) = <<d, "canonical">>
      /\ \E d \in ScrubbedNames : DhSkToPk(l.sk) = <<d, "canonical">>
  BY CurveAssumption DEF DhSkToPk, X25519SkToPk, X448SkToPk, NistSkToPk, ScrubbedNames
<1>4. ASSUME NEW a, NEW b, NEW u, u = [sk |-> a, pk_bytes |-> b]
      PROVE  LET w == Zeroize(Curve, u) IN
             /\ w.sk = z /\ Zeroize(Curve, w) = w
             /\ SkFromBytes(Curve, SkToBytes(Curve, w)) = Ok(l)
  <2>1. \A c : DhZeroize([sk |-> c, pk_bytes |-> b]) = [sk |-> z, pk_bytes |-> b]
    BY <1>1 DEF DhZeroize
  <2>2. DhSave([sk |-> z, pk_bytes |-> b]) = z
    BY DEF DhSave
  <2> HIDE DEF z, l
  <2> QED  BY <1>2, <1>4, <2>1, <2>2 DEF IsDh
<1>5. \A o \in Usable(Curve) : \E a, b : OwnSk(Curve, o).val = [sk |-> a, pk_bytes |-> b]
  BY DhOwn DEF Usable, DhStored
<1>6. SkFromBytes(Curve, SkToBytes(Curve, l)) = Ok(l)
  <2> HIDE DEF l
  <2>1. SkToBytes(Curve, l) = l.sk
    BY DEF IsDh, DhSave
  <2> QED  BY <1>2, <2>1 DEF IsDh
<1>7. ASSUME NEW o \in Usable(Curve)
      PROVE  LET w == Zeroize(Curve, OwnSk(Curve, o).val) IN
             /\ w.sk = z /\ Zeroize(Curve, w) = w
             /\ SkFromBytes(Curve, SkToBytes(Curve, w)) = Ok(l)
  <2>1. PICK a, b : OwnSk(Curve, o).val = [sk |-> a, pk_bytes |-> b]
    BY <1>5
  <2> HIDE DEF z, l
  <2> QED  BY <1>4, <2>1
<1>8. LET w == Zeroize(Curve, l) IN
        /\ w.sk = z /\ Zeroize(Curve, w) = w
        /\ SkFromBytes(Curve, SkToBytes(Curve, w)) = Ok(l)
  BY <1>4
<1> HIDE DEF z, l
<1>9. /\ Aftermath(Curve, DeadKeys(Curve)) = DeadKeys(Curve)
      /\ \A x \in DeadKeys(Curve) :
           \/ x \in {l, Zeroize(Curve, l)}
           \/ \E o \in Usable(Curve) : x = Zeroize(Curve, OwnSk(Curve, o).val)
  BY <1>6, <1>7, <1>8, Closure
<1>10. \A x \in DeadKeys(Curve) : x.sk = z \/ x.sk = l.sk
  BY <1>7, <1>8, <1>9
<1> QED  BY <1>3, <1>9, <1>10

\* Every private key is one scalar's, its owner's if it has one.
LEMMA DhKeysOf ==
    ASSUME IsDh, Curve \in Kems, NEW p \in OwnersOf(Curve) \cup {Nobody},
           NEW y \in KeysOf(Curve, p)
    PROVE  \E d : /\ DhSkToPk(y.sk) = <<d, "canonical">>
                  /\ \A o \in OwnersOf(Curve) : p # o => d # o
<1>1. CASE p = Nobody
  <2>1. y \in DeadKeys(Curve)
    BY <1>1 DEF KeysOf
  <2>2. PICK d \in ScrubbedNames : DhSkToPk(y.sk) = <<d, "canonical">>
    BY <2>1, DhDead
  <2> QED  BY <2>2 DEF IsDh
<1>2. CASE p # Nobody
  <2>1. y = OwnSk(Curve, p).val /\ OwnSk(Curve, p).ok
    BY <1>2 DEF KeysOf, Usable
  <2>2. DhStored(y, p)
    BY <1>2, <2>1, DhOwn
  <2>3. DhSkToPk(y.sk) = <<p, "canonical">>
    <3>1. y.sk = <<p, "canonical">>
      BY <2>2 DEF DhStored
    <3> QED  BY <3>1, CurveAssumption DEF DhSkToPk, X25519SkToPk, X448SkToPk, NistSkToPk
  <2> QED  BY <2>3
<1> QED  BY <1>1, <1>2

\* The first exchange tells recipients apart, the second one senders.
LEMMA DhSeparates ==
    ASSUME IsDh, Curve \in Kems, NEW c \in Coins, NEW o \in OwnersOf(Curve),
           NEW p \in OwnersOf(Curve) \cup {Nobody}, NEW y \in KeysOf(Curve, p)
    PROVE  Separates(Curve, c, o, p, y)
<1> DEFINE E == <<c, "canonical">>
           R == <<o, "canonical">>
           Y == DhSkToPk(y.sk)
           base == ExtractAndExpand(<<{Y, E}>>, <<E, y.pk_bytes>>).val
           auth(F) == ExtractAndExpand(<<{Y, E}, {Y, F}>>, <<E, y.pk_bytes, F>>).val
<1>1. PICK d : Y = <<d, "canonical">> /\ \A u \in OwnersOf(Curve) : p # u => d # u
  BY DhKeysOf
<1>2. Y = R => p = o
  BY <1>1
<1>3. PkFromBytes(Curve, OwnPk(Curve, o)).val = R
  BY DhOwn
<1>4. ASSUME c # SmallOrder, NEW ss
      PROVE  /\ Decap(Curve, E, y) = Ok(ss) => ss = base
             /\ \A f \in OwnersOf(Curve) :
                  AuthReceive(Curve, E, y, f) = Ok(ss) => ss = auth(<<f, "canonical">>)
  <2>1. \A F : /\ DhDecap(E, y).ok => DhDecap(E, y).val = base
               /\ DhAuthDecap(E, y, F).ok => DhAuthDecap(E, y, F).val = auth(F)
    BY <1>4, DhDecapHas
  <2>2. Decap(Curve, E, y) = DhDecap(E, y)
    BY DEF IsDh
  <2>3. \A f \in OwnersOf(Curve) :
          AuthReceive(Curve, E, y, f) = DhAuthDecap(E, y, <<f, "canonical">>)
    BY DhOwn DEF AuthReceive, IsDh
  <2> HIDE DEF base, auth, E
  <2> QED  BY <2>1, <2>2, <2>3, OkErr
<1>5. {E, R} = {Y, E} => Y = R
  <2>1. \A a, b, z : {a, b} = {z, a} => z = b
    OBVIOUS
  <2> QED  BY <2>1
<1> HIDE DEF Y
<1>6. ASSUME Encap(Curve, c, R).ok
      PROVE  LET r == Encap(Curve, c, R) IN
             /\ p # o => Decap(Curve, r.val.enc, y) # Ok(r.val.ss)
             /\ \A f \in OwnersOf(Curve) : AuthReceive(Curve, r.val.enc, y, f) # Ok(r.val.ss)
  <2> DEFINE r  == DhEncap(c, R)
             ss == ExtractAndExpand(<<{E, R}>>, <<E, R>>).val
  <2>1. Encap(Curve, c, R) = r /\ r.ok
    BY <1>6 DEF IsDh
  <2>2. Dh(E, R).ok /\ r.val.enc = E
        /\ r.val.ss = ExtractAndExpand(<<Dh(E, R).val>>, <<E, R>>).val
    <3>1. \A a, b, x : LET q == DhEncap(a, b)
                           e == <<a, "canonical">>
                       IN  q.ok => /\ Dh(e, b).ok /\ q.val.enc = e
                                   /\ q.val.ss = ExtractAndExpand(<<Dh(e, b).val>>, <<e, b>>).val
      BY DhEncapHas
    <3> QED  BY <2>1, <3>1
  <2>3. Dh(E, R).val = {E, R} /\ c # SmallOrder
    BY <2>2, ExchangeIs
  <2>4. ss = base => {E, R} = {Y, E}
    <3>1. ss = base => <<{E, R}>> = <<{Y, E}>>
      BY SecretNames
    <3> QED  BY <3>1
  <2>5. \A F : ss # auth(F)
    <3>1. \A F : ss = auth(F) => <<{E, R}>> = <<{Y, E}, {Y, F}>>
      BY SecretNames
    <3> QED  BY <3>1
  <2>6. r.val.ss = ss
    BY <2>2, <2>3
  <2> HIDE DEF r, ss, base, auth, E, R
  <2> QED  BY <1>2, <1>4, <1>5, <2>1, <2>2, <2>3, <2>4, <2>5, <2>6
<1>7. ASSUME NEW from \in OwnersOf(Curve) \cup {Nobody}, NEW x \in KeysOf(Curve, from),
             AuthEncap(Curve, c, R, x).ok
      PROVE  LET r == AuthEncap(Curve, c, R, x) IN
             /\ Decap(Curve, r.val.enc, y) # Ok(r.val.ss)
             /\ \A f \in OwnersOf(Curve) : p # o \/ f # from =>
                  AuthReceive(Curve, r.val.enc, y, f) # Ok(r.val.ss)
  <2> DEFINE r  == DhAuthEncap(c, R, x)
             S  == DhSkToPk(x.sk)
             ss == ExtractAndExpand(<<{E, R}, {S, R}>>, <<E, R, x.pk_bytes>>).val
  <2>1. AuthEncap(Curve, c, R, x) = r /\ r.ok
    BY <1>7 DEF IsDh
  <2>2. Dh(E, R).ok /\ Dh(x.sk, R).ok /\ r.val.enc = E
        /\ r.val.ss = ExtractAndExpand(<<Dh(E, R).val, Dh(x.sk, R).val>>,
                                       <<E, R, x.pk_bytes>>).val
    <3>1. \A a, b, z : LET q == DhAuthEncap(a, b, z)
                           e == <<a, "canonical">>
                       IN  q.ok => /\ Dh(e, b).ok /\ Dh(z.sk, b).ok /\ q.val.enc = e
                                   /\ q.val.ss = ExtractAndExpand(
                                         <<Dh(e, b).val, Dh(z.sk, b).val>>,
                                         <<e, b, z.pk_bytes>>).val
      BY DhEncapHas
    <3> QED  BY <2>1, <3>1
  <2>3. Dh(E, R).val = {E, R} /\ Dh(x.sk, R).val = {S, R} /\ c # SmallOrder
    BY <2>2, ExchangeIs, PointExchange
  <2>4. ss # base
    <3>1. ss = base => <<{E, R}, {S, R}>> = <<{Y, E}>>
      BY SecretNames
    <3> QED  BY <3>1
  <2>5. ASSUME NEW f \in OwnersOf(Curve), ss = auth(<<f, "canonical">>)
        PROVE  p = o /\ f = from
    <3> DEFINE F == <<f, "canonical">>
    <3>1. <<{E, R}, {S, R}>> = <<{Y, E}, {Y, F}>>
      BY <2>5, SecretNames
    <3>2. {E, R} = {Y, E} /\ {S, R} = {Y, F}
      BY <3>1
    <3>3. Y = R
      BY <1>5, <3>2
    <3>4. S = F
      <4> HIDE DEF S, F, R
      <4> QED  BY <3>2, <3>3
    <3>5. PICK g : S = <<g, "canonical">> /\ \A u \in OwnersOf(Curve) : from # u => g # u
      BY DhKeysOf
    <3>6. g = f
      BY <3>4, <3>5
    <3> QED  BY <1>2, <3>3, <3>5, <3>6
  <2>6. r.val.ss = ss
    BY <2>2, <2>3
  <2> HIDE DEF r, ss, base, auth, E, R
  <2> QED  BY <1>4, <2>1, <2>2, <2>3, <2>4, <2>5, <2>6
<1> QED  BY <1>3, <1>6, <1>7 DEF Separates

\* kem/dh.rs is correct in the sense of KeyLifecycle.
LEMMA DhCorrect ==
    ASSUME IsDh, Curve \in Kems, NEW o \in Usable(Curve)
    PROVE  /\ ReadsBack(Curve, OwnSk(Curve, o).val)
           /\ \A c \in Coins : Agrees(Curve, c, o)
           /\ \A c \in Coins, f \in Usable(Curve) : AgreesAuth(Curve, c, o, f)
<1>1. ASSUME NEW u \in Usable(Curve)
      PROVE  LET x == OwnSk(Curve, u).val IN DhHeld(x) /\ OwnPk(Curve, u) = x.pk_bytes
  <2>1. u \in OwnersOf(Curve) /\ OwnSk(Curve, u).ok
    BY DEF Usable
  <2>2. /\ OwnPk(Curve, u) = <<u, "canonical">>
        /\ DhHeld(OwnSk(Curve, u).val) /\ DhStored(OwnSk(Curve, u).val, u)
    BY <2>1, DhOwn
  <2> QED  BY <2>2 DEF DhStored
<1> DEFINE sk == OwnSk(Curve, o).val
           pk == DhPkFromBytes(sk.pk_bytes)
<1>2. ReadsBack(Curve, sk)
  BY <1>1, DhReadsBack DEF ReadsBack, IsDh
<1>3. ASSUME NEW c \in Coins PROVE Agrees(Curve, c, o)
  <2>1. LET r == DhEncap(c, pk.val)
        IN  pk.ok /\ r.ok => DhDecap(r.val.enc, sk) = Ok(r.val.ss)
    BY <1>1, DhAgrees
  <2>2. PkFromBytes(Curve, OwnPk(Curve, o)) = pk
    BY <1>1 DEF IsDh
  <2> HIDE DEF pk, sk
  <2> QED  BY <2>1, <2>2 DEF Agrees, IsDh, sk
<1>4. ASSUME NEW c \in Coins, NEW f \in Usable(Curve) PROVE AgreesAuth(Curve, c, o, f)
  <2> DEFINE skF == OwnSk(Curve, f).val
             pkF == DhPkFromBytes(skF.pk_bytes)
  <2>1. LET r == DhAuthEncap(c, pk.val, skF)
        IN  pk.ok /\ r.ok => DhAuthDecap(r.val.enc, sk, pkF.val) = Ok(r.val.ss)
    BY <1>1, DhAuthAgrees
  <2>2. PkFromBytes(Curve, OwnPk(Curve, o)) = pk /\ PkFromBytes(Curve, OwnPk(Curve, f)) = pkF
    BY <1>1 DEF IsDh
  <2> HIDE DEF pk, sk, pkF, skF
  <2> QED  BY <2>1, <2>2 DEF AgreesAuth, IsDh, sk, skF
<1> QED  BY <1>2, <1>3, <1>4

----------------------------------------------------------------------------
\* The post-quantum KEMs.

\* The program's Kem named Variant is PqKem, which has no AuthKem, and no owner's
\* seed is all zero bytes.
IsPq ==
    LET k == Variant IN
    /\ k \notin AuthKems
    /\ \A s : Generate(k, s) = PqGenerate(s)
    /\ \A i : DerivePair(k, i) = PqDerive(i)
    /\ \A b : SkFromBytes(k, b) = PqSkFromBytes(b)
    /\ \A sk : SkToBytes(k, sk) = PqSkToBytes(sk)
    /\ \A sk : Zeroize(k, sk) = PqZeroize(sk)
    /\ \A b : PkFromBytes(k, b) = PqPkFromBytes(b)
    /\ \A c, pk : Encap(k, c, pk) = PqEncap(c, pk)
    /\ \A enc, sk : Decap(k, enc, sk) = PqDecap(enc, sk)
    /\ \A f \in Foreign(k) : /\ \E form : f.bytes = <<f.owner, form>>
                             /\ f.pk = PqPublic(f.owner)
    /\ ZeroSeed \notin OwnersOf(k)

\* An owner's keys are those of the seed with the owner's name.
LEMMA PqOwn ==
    ASSUME IsPq, Variant \in Kems, NEW o \in OwnersOf(Variant)
    PROVE  /\ PkFromBytes(Variant, OwnPk(Variant, o)) = Ok(<<o, "exact">>)
           /\ OwnSk(Variant, o).ok =>
                PqHeld(OwnSk(Variant, o).val) /\ PqExpanded(OwnSk(Variant, o).val, o)
<1> DEFINE sk   == OwnSk(Variant, o)
           Goal == /\ OwnPk(Variant, o) = PqPublic(o)
                   /\ sk.ok => PqHeld(sk.val) /\ PqExpanded(sk.val, o)
<1>1. ASSUME o \in Seeds PROVE Goal
  <2>1. sk = Ok(PqGenerate(o).sk) /\ OwnPk(Variant, o) = PqGenerate(o).pk
    BY <1>1 DEF OwnSk, OwnPk, IsPq
  <2> QED  BY <2>1, PqMakes, OkErr DEF PqHeld
<1>2. ASSUME o \in Ikms, o \notin Seeds PROVE Goal
  <2>1. sk = Ok(PqDerive(o).sk) /\ OwnPk(Variant, o) = PqDerive(o).pk
    BY <1>2 DEF OwnSk, OwnPk, IsPq
  <2> QED  BY <2>1, PqMakes, OkErr DEF PqHeld
<1>3. ASSUME \E f \in Foreign(Variant) : f.owner = o PROVE Goal
  <2>1. PICK f \in Foreign(Variant) : f.owner = o
    BY <1>3
  <2>2. PICK form : f.bytes = <<o, form>>
    BY <2>1 DEF IsPq
  <2>3. sk = PqSkFromBytes(<<o, form>>) /\ OwnPk(Variant, o) = PqPublic(o)
    <3>1. f.pk = PqPublic(o) /\ SkFromBytes(Variant, f.bytes) = PqSkFromBytes(<<o, form>>)
      BY <2>1, <2>2 DEF IsPq
    <3> QED  BY <2>1, <3>1, ForeignIsOwn
  <2> QED  BY <2>3, PqMakes DEF PqHeld
<1>4. Goal
  BY <1>1, <1>2, <1>3 DEF OwnersOf
<1>5. PkFromBytes(Variant, PqPublic(o)) = Ok(<<o, "exact">>)
  BY DEF IsPq, PqPkFromBytes, PqPublic
<1> QED  BY <1>4, <1>5

\* What zeroization leaves: no expanded key, or loaded, that of the zero seed.
LEMMA PqDead ==
    ASSUME IsPq, Variant \in Kems
    PROVE  /\ Aftermath(Variant, DeadKeys(Variant)) = DeadKeys(Variant)
           /\ \A x \in DeadKeys(Variant) : x.dk \in {Gone, <<"dk", ZeroSeed>>}
<1> DEFINE z == [seed |-> ZeroSeed, dk |-> Gone]
           l == [seed |-> ZeroSeed, dk |-> <<"dk", ZeroSeed>>]
<1>1. \A sk : Zeroize(Variant, sk) = z
  BY DEF IsPq, PqZeroize
<1>2. SkToBytes(Variant, z) = <<ZeroSeed, "exact">> /\ SkToBytes(Variant, l) = <<ZeroSeed, "exact">>
  BY DEF IsPq, PqSkToBytes
<1>3. SkFromBytes(Variant, <<ZeroSeed, "exact">>) = Ok(l)
  BY DEF IsPq, PqSkFromBytes, XWingSkFromBytes, MlKemSkFromBytes, MlKemGenerate, PqPair,
         PqFromSeed
<1>4. z.dk = Gone /\ l.dk = <<"dk", ZeroSeed>>
  OBVIOUS
<1> HIDE DEF z, l
<1>5. /\ Aftermath(Variant, DeadKeys(Variant)) = DeadKeys(Variant)
      /\ \A x \in DeadKeys(Variant) :
           \/ x \in {l, Zeroize(Variant, l)}
           \/ \E o \in Usable(Variant) : x = Zeroize(Variant, OwnSk(Variant, o).val)
  BY <1>1, <1>2, <1>3, Closure
<1> QED  BY <1>1, <1>4, <1>5

\* A ciphertext's secret is that of one seed; any other key's is a rejection.
LEMMA PqSeparates ==
    ASSUME IsPq, Variant \in Kems, NEW c \in Coins, NEW o \in OwnersOf(Variant),
           NEW p \in OwnersOf(Variant) \cup {Nobody}, NEW y \in KeysOf(Variant, p)
    PROVE  Separates(Variant, c, o, p, y)
<1> DEFINE ct == <<c, o, "exact">>
           ss == <<"ss", o, c>>
<1>1. Encap(Variant, c, PkFromBytes(Variant, OwnPk(Variant, o)).val)
        = Ok([ss |-> ss, enc |-> ct])
  <2>1. PkFromBytes(Variant, OwnPk(Variant, o)).val = <<o, "exact">>
    BY PqOwn, OkErr
  <2> QED  BY <2>1 DEF IsPq, PqEncap
<1>2. ASSUME p # o
      PROVE  y.dk = Gone \/ \E s : s # o /\ y.dk = <<"dk", s>>
  <2>1. CASE p = Nobody
    <3>1. y \in DeadKeys(Variant)
      BY <2>1 DEF KeysOf
    <3> QED  BY <3>1, PqDead DEF IsPq
  <2>2. CASE p # Nobody
    <3>1. y = OwnSk(Variant, p).val /\ OwnSk(Variant, p).ok
      BY <2>2 DEF KeysOf, Usable
    <3>2. PqExpanded(y, p)
      BY <2>2, <3>1, PqOwn
    <3> QED  BY <1>2, <3>2 DEF PqExpanded
  <2> QED  BY <2>1, <2>2
<1>3. ASSUME p # o PROVE Decap(Variant, ct, y) # Ok(ss)
  <2>1. CASE y.dk = Gone
    <3>1. Decap(Variant, ct, y) = Err("DecapError")
      BY <2>1 DEF IsPq, PqDecap
    <3> QED  BY <3>1, OkErr
  <2>2. CASE \E s : s # o /\ y.dk = <<"dk", s>>
    <3>1. PICK s : s # o /\ y.dk = <<"dk", s>>
      BY <2>2
    <3>2. y.dk # Gone
      BY <3>1 DEF Gone
    <3>3. Decap(Variant, ct, y) = Ok(Decapsulate(y.dk, ct))
      BY <3>2 DEF IsPq, PqDecap
    <3>4. Decapsulate(y.dk, ct) = <<"rejected", s, ct>>
      BY <3>1 DEF Decapsulate
    <3>5. <<"rejected", s, ct>> # ss
      OBVIOUS
    <3> QED  BY <3>3, <3>4, <3>5, OkErr
  <2> QED  BY <1>2, <1>3, <2>1, <2>2
<1> HIDE DEF ct, ss
<1>4. Variant \notin AuthKems
  BY DEF IsPq
<1> QED  BY <1>1, <1>3, <1>4, OkErr DEF Separates

\* kem/pq.rs is correct in the sense of KeyLifecycle.
LEMMA PqCorrect ==
    ASSUME IsPq, Variant \in Kems, NEW o \in Usable(Variant)
    PROVE  /\ ReadsBack(Variant, OwnSk(Variant, o).val)
           /\ \A c \in Coins : Agrees(Variant, c, o)
<1> DEFINE sk == OwnSk(Variant, o).val
<1>1. o \in OwnersOf(Variant) /\ OwnSk(Variant, o).ok
  BY DEF Usable
<1>2. PqHeld(sk) /\ sk.seed = o
  <2>1. PqHeld(sk) /\ PqExpanded(sk, o)
    BY <1>1, PqOwn
  <2> QED  BY <2>1 DEF PqExpanded
<1>3. ReadsBack(Variant, sk)
  BY <1>2, PqReadsBack DEF ReadsBack, IsPq
<1>4. ASSUME NEW c \in Coins PROVE Agrees(Variant, c, o)
  <2> DEFINE pk == PqPkFromBytes(PqPublic(o))
  <2>1. LET r == PqEncap(c, pk.val) IN PqDecap(r.val.enc, sk) = Ok(r.val.ss)
    BY <1>2, PqAgrees
  <2>2. PkFromBytes(Variant, OwnPk(Variant, o)) = pk
    BY <1>1, PqOwn DEF PqPkFromBytes, PqPublic
  <2> HIDE DEF pk, sk
  <2> QED  BY <2>1, <2>2 DEF Agrees, IsPq, sk
<1> QED  BY <1>3, <1>4

----------------------------------------------------------------------------
\* The theorems, over the KEMs of the crate.

\* A program's Kem is DHKEM on some curve or one of the post-quantum KEMs.
OverTheCrate ==
    /\ Kems \subseteq {Curve, Variant}
    /\ Curve \in Kems => IsDh
    /\ Variant \in Kems => IsPq

\* kem/dh.rs and kem/pq.rs are what the theorems above assume of a Kem.
THEOREM CrateKems == OverTheCrate => KemCorrect /\ KemSeparates
<1> SUFFICES ASSUME OverTheCrate, NEW k \in Kems
             PROVE  /\ \A o \in Usable(k) :
                         /\ ReadsBack(k, OwnSk(k, o).val)
                         /\ \A c \in Coins : Agrees(k, c, o)
                         /\ k \in AuthKems =>
                              \A c \in Coins, f \in Usable(k) : AgreesAuth(k, c, o, f)
                    /\ Aftermath(k, DeadKeys(k)) = DeadKeys(k)
                    /\ \A c \in Coins, o \in OwnersOf(k), p \in OwnersOf(k) \cup {Nobody} :
                         \A y \in KeysOf(k, p) : Separates(k, c, o, p, y)
  BY DEF KemCorrect, KemSeparates
<1>1. CASE k = Curve
  <2>1. IsDh /\ Curve \in Kems
    BY <1>1 DEF OverTheCrate
  <2> QED  BY <1>1, <2>1, DhCorrect, DhDead, DhSeparates
<1>2. CASE k = Variant
  <2>1. IsPq /\ Variant \in Kems /\ Variant \notin AuthKems
    BY <1>2 DEF OverTheCrate, IsPq
  <2> QED  BY <1>2, <2>1, PqCorrect, PqDead, PqSeparates
<1> QED  BY <1>1, <1>2 DEF OverTheCrate

\* So, with nothing left to assume of the KEM, the private key recovers what is
\* encapsulated to its public key, nothing else does, and it has one stored form.
THEOREM KeysAreSafe ==
    OverTheCrate => (Spec => [](OwnersRecover /\ OthersDoNot /\ OneStoredForm))
<1> SUFFICES ASSUME OverTheCrate
             PROVE  Spec => [](OwnersRecover /\ OthersDoNot /\ OneStoredForm)
  OBVIOUS
<1>1. KemCorrect /\ KemSeparates
  BY CrateKems
<1>2. Spec => []OwnersRecover
  BY <1>1, Recovery
<1>3. Spec => []OthersDoNot
  BY <1>1, Exclusion
<1>4. Spec => []OneStoredForm
  BY <1>1, StoredOnce
<1> QED  BY <1>2, <1>3, <1>4, PTL
============================================================================
