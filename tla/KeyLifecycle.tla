---------------------------- MODULE KeyLifecycle ----------------------------
(***************************************************************************)
(* The life of private keys, over any Kem: generated, derived, saved as    *)
(* bytes, loaded from bytes, zeroized (which Zeroize offers to callers     *)
(* while the value lives on) and dropped, while senders go on              *)
(* encapsulating to the public keys that were handed out.                  *)
(*                                                                         *)
(* owner[s] is a history variable: whose key is in slot s, by where its    *)
(* bytes came from.  A zeroized key, and what is loaded from its bytes, is *)
(* nobody's.                                                               *)
(***************************************************************************)
EXTENDS Kdf

CONSTANTS
    Kems, AuthKems,     \* the Kems, and those that implement AuthKem
    Generate(_, _),     \* K::generate on what the rng gives: [sk, pk]
    DerivePair(_, _),   \* K::derive_key_pair
    SkFromBytes(_, _),  \* K::sk_from_bytes
    SkToBytes(_, _),    \* K::sk_to_bytes
    Zeroize(_, _),      \* Zeroize::zeroize
    PkFromBytes(_, _),  \* K::pk_from_bytes
    Encap(_, _, _), AuthEncap(_, _, _, _),      \* as in Hpke
    Decap(_, _, _), AuthDecap(_, _, _, _),
    Foreign(_),         \* keys of other implementations: their bytes, owners
                        \* and public keys, as [bytes, owner, pk]
    Slots,              \* where the program keeps private keys
    Seeds,              \* what the generator gives, each value once
    Ikms,               \* input key materials
    Coins,              \* randomness of encapsulations
    Nobody, Absent

Owners == Seeds \cup Ikms \cup {f.owner : f \in UNION {Foreign(k) : k \in Kems}}

ASSUME LifecycleAssumption ==
    /\ AuthKems \subseteq Kems
    /\ Seeds \cap Ikms = {}
    /\ Absent # Nobody /\ {Absent, Nobody} \cap Owners = {}
    /\ \A k \in Kems : \A f, g \in Foreign(k) :
         f.owner \notin Seeds \cup Ikms /\ (f.owner = g.owner => f = g)

\* The private key of o, if the program can come to hold it, and its public key.
ForeignOf(k, o) == CHOOSE f \in Foreign(k) : f.owner = o
OwnSk(k, o) ==
    IF o \in Seeds THEN Ok(Generate(k, o).sk)
    ELSE IF o \in Ikms THEN Ok(DerivePair(k, o).sk)
    ELSE SkFromBytes(k, ForeignOf(k, o).bytes)
OwnPk(k, o) ==
    IF o \in Seeds THEN Generate(k, o).pk
    ELSE IF o \in Ikms THEN DerivePair(k, o).pk
    ELSE ForeignOf(k, o).pk
OwnersOf(k) == Seeds \cup Ikms \cup {f.owner : f \in Foreign(k)}
Usable(k)   == {o \in OwnersOf(k) : OwnSk(k, o).ok}

VARIABLES
    kem,        \* the type K of this program
    key,        \* the private key in each slot
    owner,      \* whose it is
    saved,      \* serialized private keys, each with its owner
    published,  \* the bytes of each owner's public key
    sent        \* encapsulations: [coins, to, from, enc, ss]

vars == <<kem, key, owner, saved, published, sent>>

----------------------------------------------------------------------------
Init ==
    /\ kem \in Kems
    /\ key = [s \in Slots |-> Absent]
    /\ owner = [s \in Slots |-> Nobody]
    /\ saved = {[bytes |-> f.bytes, owner |-> f.owner] : f \in Foreign(kem)}
    /\ published = [o \in Owners |->
                      IF \E f \in Foreign(kem) : f.owner = o
                      THEN OwnPk(kem, o) ELSE Absent]
    /\ sent = {}

Put(s, sk, o) ==
    key' = [key EXCEPT ![s] = sk] /\ owner' = [owner EXCEPT ![s] = o]

GenerateKey(s, seed) ==
    /\ key[s] = Absent /\ published[seed] = Absent
    /\ LET pair == Generate(kem, seed) IN
         /\ Put(s, pair.sk, seed)
         /\ published' = [published EXCEPT ![seed] = pair.pk]
    /\ UNCHANGED <<kem, saved, sent>>

DeriveKey(s, ikm) ==
    /\ key[s] = Absent
    /\ LET pair == DerivePair(kem, ikm) IN
         /\ Put(s, pair.sk, ikm)
         /\ published' = [published EXCEPT ![ikm] = pair.pk]
    /\ UNCHANGED <<kem, saved, sent>>

SaveKey(s) ==
    /\ key[s] # Absent
    /\ saved' = saved \cup {[bytes |-> SkToBytes(kem, key[s]), owner |-> owner[s]]}
    /\ UNCHANGED <<kem, key, owner, published, sent>>

LoadKey(s, b) ==
    LET sk == SkFromBytes(kem, b.bytes) IN
    /\ key[s] = Absent /\ sk.ok
    /\ Put(s, sk.val, b.owner)
    /\ UNCHANGED <<kem, saved, published, sent>>

\* Mutant: the value is left as it is.
ZeroizeKeyForgets(s) ==
    /\ key[s] # Absent
    /\ Put(s, key[s], Nobody)
    /\ UNCHANGED <<kem, saved, published, sent>>

ZeroizeKey(s) ==
    /\ key[s] # Absent
    /\ Put(s, Zeroize(kem, key[s]), Nobody)
    /\ UNCHANGED <<kem, saved, published, sent>>

DropKey(s) ==
    /\ key[s] # Absent
    /\ Put(s, Absent, Nobody)
    /\ UNCHANGED <<kem, saved, published, sent>>

\* What a sender to o keeps and sends; an error leaves nothing.
Sent(c, o, from, result) ==
    /\ result.ok
    /\ sent' = sent \cup {[coins |-> c, to |-> o, from |-> from,
                           enc |-> result.val.enc, ss |-> result.val.ss]}
    /\ UNCHANGED <<kem, key, owner, saved, published>>

Fresh(c) == \A m \in sent : m.coins # c

SendBase(c, o) ==
    /\ Fresh(c) /\ published[o] # Absent
    /\ LET pk == PkFromBytes(kem, published[o]) IN
         pk.ok /\ Sent(c, o, Absent, Encap(kem, c, pk.val))

SendAuth(c, o, s) ==
    /\ kem \in AuthKems /\ Fresh(c) /\ published[o] # Absent /\ key[s] # Absent
    /\ LET pk == PkFromBytes(kem, published[o]) IN
         pk.ok /\ Sent(c, o, owner[s], AuthEncap(kem, c, pk.val, key[s]))

Next ==
    \/ \E s \in Slots :
         \/ \E seed \in Seeds : GenerateKey(s, seed)
         \/ \E ikm \in Ikms : DeriveKey(s, ikm)
         \/ \E b \in saved : LoadKey(s, b)
         \/ SaveKey(s)
         \/ ZeroizeKey(s)
         \/ DropKey(s)
    \/ \E c \in Coins, o \in Owners :
         \/ SendBase(c, o)
         \/ \E s \in Slots : SendAuth(c, o, s)

Spec == Init /\ [][Next]_vars

----------------------------------------------------------------------------
\* What slot s makes of m, received in base mode or as coming from f.
Receive(s, m, f) ==
    IF f = Absent THEN Decap(kem, m.enc, key[s])
                  ELSE AuthDecap(kem, m.enc, key[s], PkFromBytes(kem, published[f]).val)

\* The modes m may be received in.
Sources ==
    {Absent} \cup IF kem \in AuthKems THEN {o \in Owners : published[o] # Absent} ELSE {}

\* dh.rs:94-98 and dh.rs:861-863: whatever made a private key, generation,
\* derivation or bytes in any form that is read, it recovers every secret that
\* was encapsulated to the public key handed out for it.
OwnersRecover ==
    \A s \in Slots, m \in sent :
        key[s] # Absent /\ owner[s] = m.to /\ m.from \in Sources =>
            Receive(s, m, m.from) = Ok(m.ss)

\* Nobody else does, not the key itself once it is zeroized or saved and loaded
\* after that, and nothing a zeroized key authenticates is taken for its former
\* owner's although it still carries that owner's public key.
OthersDoNot ==
    \A s \in Slots, m \in sent, f \in Sources :
        key[s] # Absent /\ (owner[s] # m.to \/ f # m.from) =>
            Receive(s, m, f) # Ok(m.ss)

\* dh.rs:575-578, kem/mod.rs:84-89: one key has one stored form; saving and
\* loading it, or deriving it again, gives the same private key, the cached
\* public key included.
OneStoredForm ==
    /\ \A s, t \in Slots :
         key[s] # Absent /\ owner[s] # Nobody /\ owner[s] = owner[t] =>
             key[s] = key[t]
    /\ \A s \in Slots :
         key[s] # Absent /\ owner[s] # Nobody =>
             SkFromBytes(kem, SkToBytes(kem, key[s])) = Ok(key[s])

\* What the proofs assume of a Kem: a private key is what is loaded from its
\* bytes, and it recovers what was encapsulated to its public key.
ReadsBack(k, sk) == SkFromBytes(k, SkToBytes(k, sk)) = Ok(sk)

Agrees(k, c, o) ==
    LET pk == PkFromBytes(k, OwnPk(k, o))
        r  == Encap(k, c, pk.val)
    IN  pk.ok /\ r.ok => Decap(k, r.val.enc, OwnSk(k, o).val) = Ok(r.val.ss)

AgreesAuth(k, c, o, f) ==
    LET pk == PkFromBytes(k, OwnPk(k, o))
        r  == AuthEncap(k, c, pk.val, OwnSk(k, f).val)
    IN  pk.ok /\ r.ok =>
          AuthDecap(k, r.val.enc, OwnSk(k, o).val, PkFromBytes(k, OwnPk(k, f)).val)
            = Ok(r.val.ss)

KemCorrect ==
    \A k \in Kems : \A o \in Usable(k) :
        /\ ReadsBack(k, OwnSk(k, o).val)
        /\ \A c \in Coins : Agrees(k, c, o)
        /\ k \in AuthKems => \A c \in Coins, f \in Usable(k) : AgreesAuth(k, c, o, f)

\* The inductive invariant behind OwnersRecover and OneStoredForm: whatever has
\* an owner is the owner's, by whichever way it came.
SlotsOwned ==
    \A s \in Slots : owner[s] # Nobody =>
        owner[s] \in Usable(kem) /\ key[s] = OwnSk(kem, owner[s]).val

SavedOwned ==
    \A b \in saved : b.owner # Nobody =>
        \/ b.owner \in Usable(kem) /\ b.bytes = SkToBytes(kem, OwnSk(kem, b.owner).val)
        \/ \E f \in Foreign(kem) : b.bytes = f.bytes /\ b.owner = f.owner

PublishedOwned ==
    \A o \in Owners : published[o] # Absent =>
        o \in OwnersOf(kem) /\ published[o] = OwnPk(kem, o)

\* What is encapsulated to o, authenticated by from or by nobody (Absent).
OwnEncap(k, c, o, from) ==
    LET pk == PkFromBytes(k, OwnPk(k, o)).val
    IN  IF from = Absent THEN Encap(k, c, pk) ELSE AuthEncap(k, c, pk, OwnSk(k, from).val)

SentOwned ==
    \A m \in sent : m.from # Nobody =>
        /\ m.to \in OwnersOf(kem) /\ m.coins \in Coins
        /\ m.from # Absent => kem \in AuthKems /\ m.from \in Usable(kem)
        /\ PkFromBytes(kem, OwnPk(kem, m.to)).ok
        /\ LET r == OwnEncap(kem, m.coins, m.to, m.from)
           IN  r.ok /\ m.enc = r.val.enc /\ m.ss = r.val.ss

IInv ==
    /\ kem \in Kems
    /\ DOMAIN key = Slots /\ DOMAIN owner = Slots /\ DOMAIN published = Owners
    /\ SlotsOwned /\ SavedOwned /\ PublishedOwned /\ SentOwned

----------------------------------------------------------------------------
\* What zeroizing keys, and saving and loading them, makes of them.
Aftermath(k, keys) ==
    keys \cup {Zeroize(k, x) : x \in keys}
         \cup {r.val : r \in {q \in {SkFromBytes(k, SkToBytes(k, x)) : x \in keys} : q.ok}}

\* The keys of nobody: what zeroization leaves of a key, and what comes of that.
DeadKeys(k) ==
    Aftermath(k, Aftermath(k, {Zeroize(k, OwnSk(k, o).val) : o \in Usable(k)}))

\* The private keys that o, or nobody, has.
KeysOf(k, o) ==
    IF o = Nobody THEN DeadKeys(k) ELSE {OwnSk(k, u).val : u \in Usable(k) \cap {o}}

\* The inductive invariant behind OthersDoNot, with IInv: whatever is nobody's
\* is or was made with a dead key, and no key comes back from the dead.
SlotsDead ==
    \A s \in Slots : key[s] # Absent /\ owner[s] = Nobody => key[s] \in DeadKeys(kem)

SavedDead ==
    \A b \in saved : b.owner = Nobody =>
        \E x \in DeadKeys(kem) : b.bytes = SkToBytes(kem, x)

SentDead ==
    \A m \in sent : m.from = Nobody =>
        LET pk == PkFromBytes(kem, OwnPk(kem, m.to)) IN
        /\ m.to \in OwnersOf(kem) /\ m.coins \in Coins
        /\ kem \in AuthKems /\ pk.ok
        /\ \E x \in DeadKeys(kem) :
             LET r == AuthEncap(kem, m.coins, pk.val, x)
             IN  r.ok /\ m.enc = r.val.enc /\ m.ss = r.val.ss

NobodysAreDead == SlotsDead /\ SavedDead /\ SentDead

\* What the proofs assume of a Kem besides: zeroized keys stay what they are,
\* and nobody (p) but the recipient o recovers a secret, nor does anybody
\* recover it as coming from anyone (f) but its sender.
AuthReceive(k, enc, y, f) == AuthDecap(k, enc, y, PkFromBytes(k, OwnPk(k, f)).val)

Separates(k, c, o, p, y) ==
    LET pk == PkFromBytes(k, OwnPk(k, o)).val IN
    /\ LET r == Encap(k, c, pk) IN r.ok =>
         /\ p # o => Decap(k, r.val.enc, y) # Ok(r.val.ss)
         /\ k \in AuthKems => \A f \in OwnersOf(k) :
              AuthReceive(k, r.val.enc, y, f) # Ok(r.val.ss)
    /\ k \in AuthKems =>
         \A from \in OwnersOf(k) \cup {Nobody} : \A x \in KeysOf(k, from) :
           LET r == AuthEncap(k, c, pk, x) IN r.ok =>
             /\ Decap(k, r.val.enc, y) # Ok(r.val.ss)
             /\ \A f \in OwnersOf(k) : p # o \/ f # from =>
                  AuthReceive(k, r.val.enc, y, f) # Ok(r.val.ss)

KemSeparates ==
    \A k \in Kems :
        /\ Aftermath(k, DeadKeys(k)) = DeadKeys(k)
        /\ \A c \in Coins, o \in OwnersOf(k), p \in OwnersOf(k) \cup {Nobody} :
             PkFromBytes(k, OwnPk(k, o)).ok =>
               \A y \in KeysOf(k, p) : Separates(k, c, o, p, y)
============================================================================
