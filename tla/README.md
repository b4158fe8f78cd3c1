# A TLA+ development for hpke-ng

`hpke-ng` is a Rust implementation of Hybrid Public Key Encryption (RFC 9180):
a sender encapsulates a secret to a recipient's public key, both sides derive
an AEAD key, a base nonce and an exporter secret from it, and then exchange
one-directional streams of messages or export further secrets. This directory
models the library, checks it on small instances with TLC and proves the most
important properties of its core for every instance with TLAPS.

The library starts no threads, keeps nothing on disk and blocks nowhere. What
is hard about it is not concurrency inside a call but the sequences of calls
that applications make on many contexts, with a network between them, and the
agreement between functions written separately for the two roles. Besides that,
keys live on for long: they are derived, stored, loaded and scrubbed by code of
their own on every curve, and what was computed from them is cached.

## Inventory

| component | state | operations | what makes it correct |
|---|---|---|---|
| contexts (`context.rs`) | cipher, base nonce, exporter secret, `u64` counter | `new`, `seal`, `open`, `export` | nonces never repeat under a key; a failed `open` or `seal` changes nothing; what is opened is a prefix of what was sealed; the limit is exact |
| entry points and key schedule (`lib.rs`) | none; hands out contexts | `setup_{sender,receiver}_{base,psk,auth,auth_psk}`, single-shot `seal_*`, `open_*`, `send_export_*`, `receiver_export_*` | keys agree exactly when all inputs of the two set-ups do; every set-up has randomness of its own; nothing is left behind by a failure |
| DHKEM (`kem/dh.rs`) | key pairs, with the public key's bytes cached in the private key | `encap`, `decap`, `auth_encap`, `auth_decap`, `derive_key_pair`, (de)serialization, `zeroize` | recipient recovers the sender's secret; the secret binds the bytes of `enc` and both parties' keys |
| post-quantum KEMs (`kem/pq.rs`) | seed and cached expanded key | the same without the authenticated forms | altered ciphertexts give unrelated secrets; a zeroized key is refused |
| PSKs (`psk.rs`) | none | `Psk::new` | a PSK mode never runs on less than 32 bytes with an identifier |
| KDFs (`kdf.rs`) | none | `extract`, `expand`, labeled forms | labels and lengths separate outputs; length limits |
| AEADs (`aead.rs`) | cipher | `init`, `seal`, `open` | `init` gets a key of its own length |
| errors (`error.rs`) | none | | the error says what failed |
| zeroization (`Zeroizing`, `ZeroizeOnDrop` throughout) | the secret buffers of a running call | every call | whichever step fails, each secret buffer is scrubbed before it is freed (one is not, see Findings) |
| sealed traits, type-level rules | none | | the compiler rejects roles, modes and suites that do not go together |

Components call one another in one direction: `lib.rs` calls the KEM, then the
key schedule (KDF), then `Context::new` (AEAD `init`); the context calls the
AEAD for `seal` and `open` and the KDF for `export`.

Hard behaviours, each with its line in `PROJECT.json` under `hazards`: the end
of the 64-bit counter; the offset at which it enters the nonce; replayed, early,
damaged and misdirected ciphertexts; failures between two steps of a set-up or
single-shot call; a receiver set up twice from one `enc`; randomness used twice;
the binding of every input; two encodings of one X25519 key; small-order and
malformed keys; two export limits; caches that outlive what they were computed
from; the candidate counter of `DeriveKeyPair` at its end; key material that
several KEMs share; three constructors of a scalar with one clamp each; a
zeroized key that is saved or used; errors that are returned while secrets are
held.

## Modules

| module | models | composes |
|---|---|---|
| `Nonce` | `compute_nonce` on buffers of any width, with its compile-time bound as an assumption | |
| `Context` | `Context::{new, seal, open}` one action per outcome, an ideal AEAD and the network | `Nonce` |
| `SecureChannel` | what users are promised: streams and their readers, no keys | |
| `Session` | contexts set up under keys that no two senders share, used in any order | `Context`, refines `SecureChannel` |
| `Kdf`, `Psk` | labeled extract and expand over an ideal HKDF, suite identifiers; `Psk::new` | |
| `Curves` | the `DiffieHellman` implementations: X25519, X448 and `nist_curve!` (P-256, P-384, P-521, secp256k1), with the forms scalars and points have as bytes, symbolic arithmetic | `Kdf` |
| `DhKem` | `DhKem<D, ..>` and `DhPrivateKey` over one of the curves: generation, derivation, (de)serialization, `zeroize`, encap and decap with their authenticated forms | `Curves` |
| `PqKem` | ML-KEM and X-Wing: the same operations, implicit rejection, zeroized keys | `Kdf` |
| `Hpke` | all of `lib.rs` over any KEM: set-ups, key schedules, contexts, export, single-shot calls | `Context`, `Psk`; refines `Session` and `SecureChannel` |
| `KeyTable` | what users are promised of key derivation: one table of results that every call is answered from, no key in it twice | |
| `DeriveKeyPair` | `derive_key_pair` of every KEM, with the rejection loop of `derive_p_curve_sk` step by step | `Kdf`, refines `KeyTable` |
| `KeyLifecycle` | a program's private keys over any KEM: generated, derived, saved, loaded, zeroized, dropped, while senders encapsulate to their public keys | `Kdf` |
| `Scrubbing` | the secret buffers of every call on every path: made, wrapped, copied, returned, scrubbed, freed | |
| `MCSession`, `MCHpkeDh`, `MCHpkePq`, `MCKeys` | constants for TLC; the last three put `DhKem` and `PqKem` under `Hpke` and `KeyLifecycle` | |
| `NonceProofs` | theorems about `Nonce`, used by the two below | `Nonce` |
| `SessionProofs` | theorems about `Session` | `Session`, `NonceProofs` |
| `HpkeProofs` | safety of `Hpke` over any KEM: keys, nonces, exports, errors | `Hpke`, `NonceProofs` |
| `HpkeChannelProofs` | `Hpke`'s types, its refinements of `SecureChannel` and `Session` and what follows from them, and all theorems about `Hpke` over the crate's KEMs | `HpkeProofs`, `KemProofs`, `SessionProofs` |
| `KemProofs` | the crate's KEMs read keys back, agree and bind | `DhKem`, `PqKem` |
| `DeriveKeyPairProofs` | theorems about `DeriveKeyPair` | `DeriveKeyPair` |
| `KeyLifecycleProofs` | theorems about `KeyLifecycle`, over any KEM and over the crate's | `KeyLifecycle`, `KemProofs` |
| `ScrubbingProofs` | theorems about `Scrubbing` | `Scrubbing` |

### How state and actions correspond to the code

* `ctx[c]` is the `Context` inside the `SenderContext` or `ReceiverContext` that
  the identity `c` stands for, `Absent` before a set-up returns it. An identity
  has one role for good, as the two types have (neither is `Clone`, and `seal`
  exists on one and `open` on the other).
* `seal` has three actions, one for each way out, in the order of the code:
  `SealLimit` (`seq == u64::MAX`, before the AEAD is called), `SealError` (the
  AEAD refuses; the counter stays) and `SealOk`. `open` likewise.
* `sealed[w]` and `opened[r]` are histories of what the calls returned; `ret` is
  the last call's outcome. The network (`Network`) may hand a receiver any
  ciphertext ever sealed by anybody, any number of times, with any associated
  data, or bytes nobody sealed. Losing a message is never delivering it.
* In `Hpke`, `SetupS` and `SetupR` compute what a set-up returns, error or
  context, with the early returns in the code's order; `SetupSenderOk`,
  `SetupSenderError` and their receiver forms make calls of it. A sender's call
  takes a value from `fresh`, the outcomes of the generator not drawn yet, even
  if it then fails. `tr[c]` is a history variable: the inputs that the
  application gave to the set-up and `enc`. Keys are never derived from it.
* A single-shot call is one action, since its context is local to it.
* Cryptography is symbolic. Key derivations, exchanges and ciphertexts are terms
  that are equal exactly when built from equal parts; what the code concatenates
  is the tuple of its pieces. An expansion is the beginning of a stream that is
  determined by hash, PRK and info, which is how one output can be a prefix of
  another. A wire key is a point and the form of its bytes.
* A scalar in `Curves` has a name and the form of its bytes; the point of the
  scalar `k` is named `k`. What is stored is canonical: a clamp (Montgomery) or
  a range check (NIST) is what makes it so, and each constructor calls its own.
  Arithmetic is taken to be what the curves define: an exchange is symmetric and
  is zero exactly if a point has small order; X25519 clamps a zeroized scalar
  into a working one whenever it is used, X448 uses it as zero, so that its
  exchanges come out zero and are refused, and the NIST curves replace it by one.
* `DeriveKeyPair` has a `pc` per caller. `counter` and `exhausted` are the state
  of the range `0u8..=255`; `Try` is one turn of the loop, `Exhaust` its way
  out, `Parse` the second parse in `derive`. `grade` is the ideal hash: whether
  a candidate is a scalar is chosen when it is first computed and then stays, for
  every caller. P-521 has a third grade, a scalar after the mask only.
* In `KeyLifecycle` a slot is a variable of the program that holds a private
  key. `owner` is a history variable that says where its bytes came from;
  `saved` starts with bytes that other programs stored, in the forms the KEM
  reads, unclamped scalars among them. `ZeroizeKey` leaves the value in the
  slot, as `Zeroize::zeroize` does, and makes it nobody's.
* `Scrubbing` gives each function of the library its sequence of steps that
  make, wrap or scrub a secret, call another function or may fail, and runs it
  on a stack of frames. A frame owns the names of its buffers, the bare ones and
  those in wrappers. `Call` passes nothing, `CallMoving` moves buffers into the
  function that is called, and `Held` puts what it returns into a wrapper of the
  caller's. `Return` moves the result to the caller and frees the rest; `Fail`
  and `Unwind` are the `?` operator, free what each frame owns, and scrub only
  what is wrapped. The buffers are those the crate names. The last use by value of
  a named buffer in a wrapper, a private key or the result moves it, as the crate
  itself counts ("The wrapper owns the only surviving copy", `pq.rs:212-213`), also
  where the type is `Copy` and the compiler may copy. So `seed`, the argument of
  both `from_seed` functions that ends in the private key, is one buffer; `ml_seed`
  (`pq.rs:521`), a conversion of it that is bound to a name of its own and never
  ends in a wrapper, is a second one.
* `Kdf.Expand` leaves out the error of `Hkdf::from_prk` (`kdf.rs:65-66`): every PRK
  in these models is an output of `extract` or an expansion to the length of the
  hash, so that it is never too short (`error.rs:55-59` says so of the crate).
* `KeyTable` is to `DeriveKeyPair` what `SecureChannel` is to `Session`. The
  mapping (`Settled`, `Entry`) reads the table off the candidates seen so far: a
  result is in it as soon as they determine it, whoever looked at them, also
  before anybody has returned it.

## Runs

| run | question | bounds, and why they are enough |
|---|---|---|
| `session` | `TypeOK`, `NonceNeverReused`, `OpenedInOrder`, `LimitIsExact`, `IInv`, `ImplementsChannel`, `EverythingIsOpened` | 2 senders, 1 receiver, 2 keys with the same base nonce; the two-byte counter has one bit per byte, so three messages reach its end as 2^64 - 1 do; nonce 3 of 4 buffer bytes, so that the offset and the padding exist; under `FairSpec`, and without symmetry, for the liveness property |
| `hpke_binding` | `KeysBindTranscript`, `PeerCanFollow`, `AeadInitErrorUnreachable`, `PskModesAreStrong` | one sender and one receiver are the pairs that the properties compare; X25519; all modes; AES-128 and AES-256, whose keys differ in length from each other and from a nonce; 2 values of every other input, a small-order point, both encodings of a key, PSK secrets of 0, 31 and 32 bytes |
| `hpke_pq` | `KeysBindTranscript`, `PeerCanFollow`, `ZeroizedKeyIsRefused` | the same over `PqKem`; 2 key pairs and a zeroized private key; altered and cut ciphertexts |
| `hpke_session` | `ImplementsSession` | 2 senders and 2 receivers on a NIST curve, 2 outcomes of the generator, off-curve and cut keys, counters to their end, exports within and past the limit |
| `hpke_channel` | `TypeOK`, `NonceNeverReused`, `ImplementsChannel` | 2 senders and 1 receiver on X25519 with the single-shot calls; two messages per context, told apart by their associated data, so that their order can be seen |
| `hpke_export` | `ExportsSeparate`, `ExportLimitIsExact` | three suites, one of them export-only; lengths 0, 32, 8160 and 8161 (255 blocks of SHA-256 and one byte more), 16320 and 16321 (of SHA-512) and 65536 (past a `u16`); 2 remembered outputs, which is what the property compares |
| `derive_key_pair` | `TypeOK`, `FirstCandidateWins`, `IInv`, `ReproducibleAndSeparate`, `ImplementsTable`, `EveryCallReturns` | 2 callers with any of 8 KEMs (P-384 differs from P-256 by its row of the table only) and 2 materials, so that calls coincide, share a hash or share nothing; counters end at 4, every outcome of the 5 candidates, enough for two callers that overtake each other in one loop or settle different entries; the real end, 255, is a case of the theorems, which hold for every `MaxCounter` |
| `keys` | `OwnersRecover`, `OthersDoNot`, `OneStoredForm`, `NobodysAreDead`, `IInv` | 5 KEMs, one curve for each way of clamping or checking; 2 slots (symmetric), so that two copies of a key or a key and its zeroized copy are there together; 2 seeds (symmetric too), 1 key material and the keys of other programs; 1 encapsulation, since the properties speak of one at a time |
| `scrubbing` | `NothingElseIsLeftBehind`, `OnlyTheResultSurvives` | every family of KEMs, every mode, all nine kinds of calls, every error; one call at a time, as calls share no buffers. The 256 turns of the candidate loop are any number, as a turn leaves nothing behind for the next |
| `ml_kem_seed` | `NothingIsLeftBehind` is violated | all calls over ML-KEM; see Findings |
| `encap_error_on_decap` | `EncapErrorOnlyFromSender` is violated | see Findings |
| `psk_is_the_salt` | `PskIsTheSalt` is violated | see Findings |

Named bounds: `MaxSeq` (the end of the counter), `MaxCounter` (the end of the
candidates' counter), `MaxExports` (exports remembered; the models' only
artificial guard), `Coins` and `Seeds` (encapsulations and generated keys, each
value once) and the finite sets of identities, keys, messages and inputs. Runs
over `Hpke`, `DeriveKeyPair` and `Scrubbing` say `CHECK_DEADLOCK FALSE`: once
every identity is set up and every export remembered, or every call has
returned, there is no call left in these instances.

`OthersDoNot` is about a key's bytes after `zeroize`. `DhPrivateKey::zeroize`
keeps the cached public key (`dh.rs:123`), and `sk_to_bytes` works on a zeroized
key of any KEM; the run shows that what such a key decapsulates,
authenticates or is saved and loaded as never passes for its former owner's.

`ImplementsSession` ties the two levels together. `Session` assumes that no two
senders hold one key and that a key has one base nonce; the run checks that the
real set-ups do this, so what is proved of `Session` holds of the contexts that
`setup_*` returns. Single-shot calls, which seal without ever having a context
in `ctx`, are outside this refinement; `hpke_channel` covers them.

### Fairness

The library never acts by itself, so liveness is a property of the transport
with the library: `Fairness` says that a receiver that stays able to open
something is eventually handed it (`WF` on a successful open). What the code adds is that a
refused ciphertext never destroys this ability, and `EverythingIsOpened` fails
as soon as it does. Nothing is assumed fair about senders.

In `DeriveKeyPair` the fairness is that a function that was called runs on (`WF`
on each caller's `Step`): the calls block on nothing, so the thread's scheduler is
all that it takes. Callers need not call. `EveryCallReturns` then says that the
loop ends, whatever the hash answers; it fails if the counter wraps.

## Findings

`encap_error_on_decap`: `D::dh` reports a zero shared secret as `EncapError`
for either role, so a receiver given a small-order `enc` is told that the
"KEM encapsulation failed (e.g. small-order receiver public key)"
(`error.rs:27`), while `DecapError`, documented for its side, is never returned
by a DHKEM.

`psk_is_the_salt`: `psk.rs:82` calls the PSK's bytes "the `secret` extraction
salt". In `key_schedule_psk_impl` (`lib.rs:249`) the salt is the KEM's shared
secret and the PSK the input key material, which is the order of RFC 9180: the
code is right and the comment is not.

`ml_kem_seed`: `$from_seed` of ML-KEM converts the private seed into
`let ml_seed: ml_kem::Seed` (`pq.rs:521`), a plain array of the upstream crate. It
is handed to `DecapsulationKey::from_seed` by value and never zeroized, so that
`generate`, `derive_key_pair` and `sk_from_bytes` of ML-KEM free a copy of the
whole private key as it is, when they succeed. `README.md:159` says that
"Everything this crate controls is scrubbed", seeds by wrappers and what lacks
zeroize-on-drop by hand. `NothingElseIsLeftBehind` is the same promise with this
one buffer excepted, in these three calls over ML-KEM only: it is what the run
`scrubbing` checks, and what is proved.

## Proofs

Eight modules hold theorems. They are about every value of the constants: any
number of contexts, keys, messages, callers and inputs, any counter width. What
a theorem needs to know about the world is an `ASSUME` of the module it is
about, which every run evaluates for its instance, or a hypothesis named in the
statement.

### Contexts: `SessionProofs`, `NonceProofs`

* `TypeCorrect`: `Spec => []TypeOK`;
* `Invariance`: `Spec => []IInv`;
* `NonceUniqueness`, `InOrderDelivery`, `LimitExactness`: the safety properties
  that the run `session` checks;
* `SessionImplementsChannel`: the refinement.

The assumptions: XOR with a fixed byte is injective; `to_be_bytes` is injective
and as wide as `SeqLen`; `SEQ_LEN <= NONCE_LEN <= MAX_NONCE_LEN` (which the code
checks at compile time); roles are disjoint; `Absent`, `Damaged` and `Nobody`
are not contexts, ciphertexts and identities; a set-up does not report the
message limit.

The argument. `NonceNeverReused` is not inductive: it says nothing of the next
nonce. The invariant adds what the counter means (`Counters`: it is the number
of messages that passed through), what a ciphertext was made with (`Produced`:
its sender's key, and the nonce of its position), where base nonces come from
(`Derived`) and who holds a key (`OneSenderPerKey`). Two ciphertexts with one
key then have one sender; with one nonce, they have one position, because
`NonceInjective` shows that `compute_nonce` is injective in the counter. For the
order of delivery, a ciphertext that opens is one that some sender made
(`OpensSealed`); its key names the sender, its nonce equals the receiver's
current one, and injectivity makes its position the receiver's counter plus one
(`OpensNext`): opening extends the prefix by exactly the next message. The same
lemma makes an open a `Read` in the refinement, whose mapping takes the holder
of a receiver's key for its source.

### KEMs: `KemProofs`

For the private keys that generation, derivation and loading hand out (`DhHeld`,
`PqHeld`): `DhReadsBack` and `PqReadsBack` (saved bytes give the same key),
`DhAgrees`, `DhAuthAgrees` and `PqAgrees` (decap gives encap's secret), `DhBinds`
and `PqBinds` (secrets are equal exactly when the bytes of `enc` and both public
keys are). They rest on the symbolic arithmetic of `Curves`, on which curve and
variant is meant (`CurveAssumption`, `VariantAssumption`) and on nothing else.
For any private key, a zeroized one included, `DhEncapHas` and `DhDecapHas` say
which exchanges a secret is made of and `SecretNames` that it names them.

### HPKE: `HpkeProofs`, `HpkeChannelProofs`

Over any KEM, from these hypotheses:

| hypothesis | says | where it comes from |
|---|---|---|
| `KemFollows` | decap recovers encap's secret, with and without authentication | proved of the crate's KEMs (below) |
| `KemBinds` | secrets of any two set-ups are equal exactly when `enc` and both public keys are | proved |
| `EncsDiffer` | different randomness, different `enc` | proved |
| `KemErrors` | no call of the KEM returns `AeadInitError` | proved |
| `SuitesAreKnown`, `LengthsAreNat`, `AbsentIsNone`, `NoncesAreBytes` | types of the constants | every instance |
| `MaxSeq > 0` (channel and types), `MaxExports \in Nat` (types) | a context seals at least one message; the bound on exports is a number | `u64::MAX`; bounds of the model |
| `SessionAssumed` (session) | every suite seals, a nonce can be expanded, `Absent` is no context, the KEM's errors are those `Session` names | the export-only suite has no `seal`; `NONCE_LEN` is 12 |

`Invariance` shows `SetupInv`: every live context is what a set-up of its role
returns for its transcript, with only the counter moved. From it:

* `Binding` (`KeysBindTranscript`): the secrets and the key schedule's context
  are terms that contain every input, so equal keys have equal transcripts; the
  converse is that both roles' set-ups depend on nothing else.
* `Agreement` (`PeerCanFollow`): a peer's set-up gets the sender's secret by
  `KemFollows` and then runs the same key schedule.
* `PskStrength` (`PskModesAreStrong`): what `Psk::new` lets through.
* `KeysFit` (`AeadInitErrorUnreachable`): the length of the expanded key is the
  suite's own, so that no set-up, single-shot call or export meets this error.
* `Separation` (`ExportsSeparate`): `ExportedInv` adds to `SetupInv` that every
  export is an expansion of its transcript's exporter secret. Two expansions are
  of one stream only with one secret and one info; the secret names the
  transcript (`Binding`), the info the exporter context and the length. It
  compares what was exported, at least one byte each, with what was exported; that
  the keys of contexts are kept apart from one another is `Binding`.
* `ExportLimits` (`ExportLimitIsExact`): by `SetupInv` a live context has one of
  the crate's suites, whose 255 hash lengths are always less than a `u16` holds.
  It assumes that lengths are natural numbers.
* `NonceUniqueness` (`NonceNeverReused`), under `KemBinds` and `EncsDiffer`,
  single-shot calls included, which the refinement into `Session` leaves out. Two
  keys that are equal come from transcripts with one `enc` (`Binding`); a sender's
  `enc` is from an ephemeral that nobody else can draw again (`EncsDistinct`,
  which is why the invariant speaks of the ephemerals not drawn yet too), so
  they are one sender's; within one sender `SealedInv` says that message *i* has
  the nonce of position *i*, and `NonceInjective` does the rest.
* `HpkeImplementsChannel` (`ImplementsChannel`): `DeliveryInv` adds to `SealedInv`
  that a recipient's counter is the number of messages it has opened and that
  these are a prefix of what a sender with its transcript sealed. A ciphertext
  that opens was sealed under the recipient's key, so by the one sender with its
  transcript, and with the recipient's nonce, so at its position: the step is a
  `Read` of the next message. Every other step writes one message or none.
* `Types` (`TypeOK`): from the same invariant.
* `HpkeImplementsSession` (`ImplementsSession`), of the runs of `SessionSpec`
  (no single-shot calls): a set-up is a set-up of `Session`, whose assumption
  that no two senders share a key is `EncsDistinct` with `Binding`, and whose
  map from keys to base nonces is well defined because both are expanded from
  one secret.
* `SetupContextsAreSafe`: so the theorems of `SessionProofs` hold of the contexts
  that set-ups return. `SessP` is `SessionProofs` with `Session`'s constants and
  variables replaced as in that refinement; what it assumes of them
  (`SessionAssumptions`, `SessionCounters`) is proved first, from
  `SessionAssumed` and that the mark of damaged bytes is no ciphertext. The
  results are `LimitIsExact`, which no run states of `Hpke`, and `OpenedInOrder`.

### HPKE over the crate's KEMs: `HpkeChannelProofs`

`OverDh` says that the operators `Hpke` takes as constants are those of `DhKem`
on some curve, with the private keys the crate hands out; `OverPq` that they are
those of `PqKem` in some variant, without `AuthKem`, with private keys that the
crate hands out or that are zeroized, and tampered or stray ciphertexts of any
content. `DhIsAKem` and `PqIsAKem` derive all four hypotheses about the KEM, so
that `HpkeIsSafe`, `HpkeIsAChannel`, `HpkeIsASession` and `HpkeContextsAreSafe`
state the theorems above with nothing left to assume of it. Under `OverPq`, `ZeroizedNeverReceives`
(`ZeroizedKeyIsRefused`): a set-up succeeds only with a key that `decap` expands,
and no such key has the zero seed. That nobody draws a seed of all zero bytes is
part of the hypothesis: such a key would be a working one.

`SecretOf` and the error hypothesis range over the recipients' calls with every
encapsulated key that can reach them (`AllEncs`), which `Delivers` shows the
invariant keeps to.

### Keys: `DeriveKeyPairProofs`, `KeyLifecycleProofs`

* `TypeCorrect`, `Invariance`, `FirstCandidate`, `Reproducibility` of
  `DeriveKeyPair`, for every set of KEMs of the table and every end of the
  counter. `FirstCandidateWins` speaks of calls that are over; `LoopInv` adds
  that all candidates behind the counter have been seen to be none, where the
  end of the range is told from its last value by `exhausted`. `Reproducibility`
  is by cases over the table: the KEM's identifier is part of what is derived.
* `DeriveImplementsTable` (`ImplementsTable`): a call is an `Ask`, a turn of the
  loop settles the entry for its own arguments or nothing (`TrySettles`), and
  every way out is an `Answer` (`EndsAnswered`, from `LoopInv`: what the caller
  has seen is what settles its entry). What one caller learns of a candidate
  never unsettles or changes an entry for another (`SettledStays`), since a
  candidate's grade stays and only one candidate is the first; no state of the
  candidates puts one key into two entries (`NoKeyTwice`).
* `Invariance`, `Recovery` (`OwnersRecover`) and `StoredOnce` (`OneStoredForm`)
  of `KeyLifecycle`, under `KemCorrect`: owned keys read back from their bytes
  and recover what was encapsulated to their public keys. The invariant `IInv`
  says that whatever has an owner (a slot, saved bytes, a public key, an
  encapsulation) is that owner's, so that a key is the same whichever way it
  came.
* `Deadness` (`NobodysAreDead`) and `Exclusion` (`OthersDoNot`), under
  `KemCorrect` and `KemSeparates`. `OthersDoNot` is about keys that were
  zeroized, of which `IInv` says nothing: a zeroized key can be saved, loaded,
  zeroized again and used to authenticate. The invariant needs a name for what
  such a key can become: `DeadKeys`, the zeroized keys, what is loaded from
  their bytes and those zeroized in turn; `KemSeparates` says that this is all
  there is, and that secrets tell these keys and the owners' apart.
* `CrateKems`: both hypotheses hold of `DhKem` on every curve and of `PqKem` in
  every variant. For DHKEM, `Closure` shows that `DeadKeys` is closed (the
  scalar zero or one with anybody's cached public key, and the key it is loaded
  as); the first exchange in a secret then names the recipient's scalar and the
  second one the sender's, although a zeroized key still carries its former
  owner's public key into `kem_context`. On X448 the zeroized scalar is not even
  that: its exchanges are refused. For the post-quantum KEMs a zeroized key has
  no decapsulation key, and what is loaded from its bytes rejects implicitly.
* `KeysAreSafe`: the three properties of the run `keys` over the crate's KEMs.
  `IsDh` and `IsPq` say that the operators are the crate's, that foreign
  implementations publish the public keys of what they store, and that nobody's
  scalar or seed is one that zeroization leaves, nor a public key of small
  order: an owner of such a key is outside the theorem, as is the collision that
  it stands for.

### Zeroization: `ScrubbingProofs`

`NothingElseLeft` (`NothingElseIsLeftBehind`) and `OnlyResult`
(`OnlyTheResultSurvives`), from `Invariance`, for every choice of KEMs and calls.

The argument is that of a proof of a program function by function. `Takes` and
`Gives` are a contract for each of the 22 functions: the buffers that its frame
starts with and those that it returns, bare or wrapped. An outline lists what a
frame owns before each step of the body; `Outlines` says that each step leads
from one entry to the next, that a step which may fail or call does so only
while the frame owns nothing bare, and that at the end the rest of the frame is
not bare either, or is `ml_seed` in a call that makes an ML-KEM key (`Unscrubbed`). A call is taken by its callee's contract, never by its body, so
there is one lemma per function (`KeepsExtract`, ..., `KeepsExport`) and none
about a stack of them; `Contracts` puts them together for whatever `call` is.
The only loop is the candidates', whose entry `Retry` has to lead back to.
A call goes to functions of `Reachable` only: over ML-KEM those that make a
private key call one another and nothing else calls them, which is why no other
call may leave `ml_seed`.

`IInv` then says of a stack that the frame which runs owns what its outline
says at its step (`Runs`), that each frame which waits owns what its outline
says less what it passed on, at a step that calls the frame above it (`Waits`),
and that nothing bare was freed that is not in `Unscrubbed`. There is one lemma for each action. When an
error unwinds, no frame on the way owns anything bare, which is what each call's
outline has asked for in advance. `Outline` is a `CHOOSE` over all sequences,
which TLC cannot evaluate, so no run checks `IInv` as it stands; the run
`scrubbing` checks the two properties on every KEM and call.

### Only model-checked

* Liveness, `EverythingIsOpened` and `EveryCallReturns`: the prover has no rules
  for fairness here, and none for `ENABLED`.
* The three properties of the runs that expect a violation: what they show is a
  counterexample.

## Not modelled

* The ciphers, hashes, curves and lattices: external, taken as ideal. Nothing
  here is about timing.
* What a move, an argument's unnamed copy or an upstream type's own copies leave on the
  machine's stack, and
  the state of HKDF and HMAC, which the repository's `README.md:161` says is not
  scrubbed: not visible in the source. `Scrubbing` is about the buffers the crate
  names.
* `encap_with_ikm` (a test feature), the `hazmat-*` accessors and injected key
  schedules: test harnesses.
* Sealed traits and bounds: the compiler checks them. The models take over what
  they guarantee.
* In-place AEAD buffers, the splitting of KDF inputs into pieces and their slot
  budgets: layout, without state between calls. The KDFs and AEADs are therefore
  listed as partly modelled.
* Threads: the API takes `&mut` for what changes, so two calls never run on one
  context at once; the interleavings here are of calls on several values.

## What is left

Every component with state is modelled, every safety property that a run
checks on an instance is a theorem, and so is every refinement. Left to TLC is
liveness. What is not connected by a proof is `DeriveKeyPair` with the symbolic
derivations of `DhKem` and `PqKem`: these take `derive_key_pair` for a free
function of the key material, which is what `DeriveImplementsTable` promises of
it, but the two levels speak of key bytes in different terms.
