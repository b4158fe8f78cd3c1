--------------------------- MODULE DeriveKeyPair ---------------------------
(***************************************************************************)
(* Kem::derive_key_pair of every KEM: key pairs computed from input key    *)
(* material, by several callers at once.  Montgomery curves and the        *)
(* post-quantum KEMs expand the material once; on the NIST curves and      *)
(* secp256k1 derive_p_curve_sk draws candidates under a one-byte counter   *)
(* until one is a scalar of the curve.                                     *)
(*                                                                         *)
(* Which candidates are scalars is the hash's doing: grade[x] is the       *)
(* candidate x's, chosen when the first caller computes it and the same    *)
(* for everyone after, as a random oracle's answers are.                   *)
(***************************************************************************)
EXTENDS Kdf

CONSTANTS
    Kems,           \* the KEMs in use, of DOMAIN KemTable
    Ikms,           \* input key materials
    Callers,        \* calls of derive_key_pair, one each
    MaxCounter,     \* u8::MAX, the last value of the candidates' counter
    Unknown         \* no value, no grade, no result yet

\* The arguments of nist_curve! and the constants of the other implementations:
\* K::ID, the hash, PRIVATE_KEY_LEN and the mask of a candidate's first byte.
KemTable ==
    LET Row(family, id, kdf, nsk, mask) ==
          [family |-> family, id |-> id, kdf |-> kdf, nsk |-> nsk, mask |-> mask]
    IN  [P256     |-> Row("NIST", "0010", "HkdfSha256", 32, "0xFF"),
         P384     |-> Row("NIST", "0011", "HkdfSha384", 48, "0xFF"),
         P521     |-> Row("NIST", "0012", "HkdfSha512", 66, "0x01"),
         K256     |-> Row("NIST", "0016", "HkdfSha256", 32, "0xFF"),
         X25519   |-> Row("Montgomery", "0020", "HkdfSha256", 32, "clamp"),
         X448     |-> Row("Montgomery", "0021", "HkdfSha512", 56, "clamp"),
         MlKem768 |-> Row("PQ", "0041", "Shake256", 64, "none"),
         MlKem1024 |-> Row("PQ", "0042", "Shake256", 64, "none"),
         XWing    |-> Row("PQ", "647A", "Shake256", 32, "none")]

Nist == {k \in Kems : KemTable[k].family = "NIST"}

ASSUME DeriveAssumption ==
    /\ Kems \subseteq DOMAIN KemTable
    /\ MaxCounter \in Nat
    /\ Unknown \notin {"scalar", "no_scalar", "excess_bits"}

VARIABLES
    pc,             \* where each caller is
    kem, ikm,       \* its arguments
    counter,        \* `for counter in 0u8..=255`: the range's next value
    exhausted,      \* and whether it has given out its last one
    bytes,          \* the candidate in hand
    grade,          \* what is known of the candidates
    res             \* what each caller was returned

vars == <<pc, kem, ikm, counter, exhausted, bytes, grade, res>>

Counters   == 0 .. MaxCounter
Candidates == Nist \X Ikms \X Counters

----------------------------------------------------------------------------
\* Derived bytes.

\* Mutant: the KEM's suite identifier left out of both labeled calls.
SecretBytesNoSuite(k, i, label, info) ==
    LET row == KemTable[k]
        prk == LabeledExtract(row.kdf, <<>>, <<>>, "dkp_prk", i)
        okm == LabeledExpand(row.kdf, prk, <<>>, label, info, row.nsk)
    IN  IF okm.ok THEN Ok(<<row.mask, okm.val>>) ELSE okm

\* labeled_extract under "dkp_prk", labeled_expand to nsk bytes, and the mask
\* of a candidate (`bytes[0] &= bitmask`) or the clamp of a Montgomery scalar.
SecretBytes(k, i, label, info) ==
    LET row   == KemTable[k]
        suite == KemSuiteId(row.id)
        prk   == LabeledExtract(row.kdf, <<>>, suite, "dkp_prk", i)
        okm   == LabeledExpand(row.kdf, prk, suite, label, info, row.nsk)
    IN  IF okm.ok THEN Ok(<<row.mask, okm.val>>) ELSE okm

\* Mutant: one seed for all KEMs that want one of this length.
ShakeBytesNoSuite(k, i) == <<"shake256", i, "HPKE-v1", KemTable[k].nsk>>

\* shake256_labeled_derive(kem_suite_id(ID), "DeriveKeyPair", ikm, seed)
ShakeBytes(k, i) ==
    <<"shake256", i, "HPKE-v1", KemSuiteId(KemTable[k].id), "DeriveKeyPair",
      KemTable[k].nsk>>

\* The bytes of a candidate x = <<kem, ikm, counter>>.
Candidate(x) == SecretBytes(x[1], x[2], "candidate", <<x[3]>>)

\* What may be known of a candidate: it is a scalar (from 1 to the order less
\* one), it is none, or it is one but for bits that P-521's mask clears.
Grades(k) ==
    {"scalar", "no_scalar"}
      \cup (IF KemTable[k].mask = "0x01" THEN {"excess_bits"} ELSE {})

\* Mutant: the bytes are parsed before they are masked.
AcceptsUnmasked(g) == g = "scalar"

\* D::sk_from_bytes and SecretKey::from_slice on bytes of nsk length, after
\* the mask.
Accepts(g) == g \in {"scalar", "excess_bits"}

----------------------------------------------------------------------------
Init ==
    /\ pc = [p \in Callers |-> "idle"]
    /\ kem = [p \in Callers |-> Unknown]
    /\ ikm = [p \in Callers |-> Unknown]
    /\ counter = [p \in Callers |-> 0]
    /\ exhausted = [p \in Callers |-> FALSE]
    /\ bytes = [p \in Callers |-> Unknown]
    /\ grade = [x \in Candidates |-> Unknown]
    /\ res = [p \in Callers |-> Unknown]

Goto(p, l) == pc' = [pc EXCEPT ![p] = l]

Return(p, r) == res' = [res EXCEPT ![p] = r] /\ Goto(p, "done")

Call(p, k, i) ==
    /\ pc[p] = "idle"
    /\ kem' = [kem EXCEPT ![p] = k]
    /\ ikm' = [ikm EXCEPT ![p] = i]
    /\ Goto(p, IF k \in Nist THEN "loop" ELSE "derive")
    /\ UNCHANGED <<counter, exhausted, bytes, grade, res>>

\* Mutants: a half-open range 0..255; a counter that wraps instead of ending;
\* one that runs past its type.
AdvanceHalfOpen(p) ==
    LET c == counter[p] IN
    /\ counter' = [counter EXCEPT ![p] = IF c + 1 < MaxCounter THEN c + 1 ELSE c]
    /\ exhausted' = [exhausted EXCEPT ![p] = c + 1 >= MaxCounter]
AdvanceWrapping(p) ==
    /\ counter' = [counter EXCEPT ![p] = (counter[p] + 1) % (MaxCounter + 1)]
    /\ UNCHANGED exhausted

AdvanceUnchecked(p) ==
    /\ counter' = [counter EXCEPT ![p] = counter[p] + 1]
    /\ UNCHANGED exhausted

\* RangeInclusive::next, having given out counter[p].
Advance(p) ==
    LET c == counter[p] IN
    /\ counter' = [counter EXCEPT ![p] = IF c < MaxCounter THEN c + 1 ELSE c]
    /\ exhausted' = [exhausted EXCEPT ![p] = c = MaxCounter]

\* One turn of the loop: the candidate of this counter, masked, and whether it
\* parses.
Try(p, g) ==
    LET x == <<kem[p], ikm[p], counter[p]>> IN
    /\ pc[p] = "loop" /\ ~exhausted[p]
    /\ g \in IF grade[x] = Unknown THEN Grades(kem[p]) ELSE {grade[x]}
    /\ grade' = [grade EXCEPT ![x] = g]
    /\ Advance(p)
    /\ IF Accepts(g)
       THEN bytes' = [bytes EXCEPT ![p] = x] /\ Goto(p, "parse")
       ELSE UNCHANGED <<bytes, pc>>
    /\ UNCHANGED <<kem, ikm, res>>

Exhaust(p) ==
    /\ pc[p] = "loop" /\ exhausted[p]
    /\ Return(p, Err("DeriveKeyPairError"))
    /\ UNCHANGED <<kem, ikm, counter, exhausted, bytes, grade>>

\* derive: the bytes that were accepted are parsed a second time, into the key.
Parse(p) ==
    /\ pc[p] = "parse"
    /\ Return(p, IF Accepts(grade[bytes[p]]) THEN Candidate(bytes[p])
                 ELSE Err("InvalidPrivateKey"))
    /\ UNCHANGED <<kem, ikm, counter, exhausted, bytes, grade>>

\* derive of X25519 and X448, derive_key_pair of the post-quantum KEMs.
Derived(k, i) ==
    IF KemTable[k].family = "PQ" THEN Ok(ShakeBytes(k, i))
                                 ELSE SecretBytes(k, i, "sk", <<>>)

Derive(p) ==
    /\ pc[p] = "derive"
    /\ Return(p, Derived(kem[p], ikm[p]))
    /\ UNCHANGED <<kem, ikm, counter, exhausted, bytes, grade>>

Step(p) ==
    \/ \E g \in {"scalar", "no_scalar", "excess_bits"} : Try(p, g)
    \/ Exhaust(p)
    \/ Parse(p)
    \/ Derive(p)

Next == \E p \in Callers : (\E k \in Kems, i \in Ikms : Call(p, k, i)) \/ Step(p)

Spec == Init /\ [][Next]_vars

\* A function that was called runs on.
FairSpec == Spec /\ \A p \in Callers : WF_vars(Step(p))

----------------------------------------------------------------------------
\* Every variable has its type, and a caller's arguments are there once it has
\* called.
TypeOK ==
    /\ pc \in [Callers -> {"idle", "loop", "parse", "derive", "done"}]
    /\ kem \in [Callers -> Kems \cup {Unknown}]
    /\ ikm \in [Callers -> Ikms \cup {Unknown}]
    /\ counter \in [Callers -> Counters]
    /\ exhausted \in [Callers -> BOOLEAN]
    /\ bytes \in [Callers -> Candidates \cup {Unknown}]
    /\ grade \in [Candidates -> {"scalar", "no_scalar", "excess_bits", Unknown}]
    /\ DOMAIN res = Callers
    /\ \A p \in Callers :
         /\ pc[p] # "idle" => kem[p] \in Kems /\ ikm[p] \in Ikms
         /\ pc[p] \in {"loop", "parse"} => kem[p] \in Nist
         /\ pc[p] = "derive" => kem[p] \notin Nist

\* No candidate before c is a scalar; c is the first that is.
NoneBefore(k, i, c) == \A d \in 0 .. c - 1 : grade[<<k, i, d>>] = "no_scalar"
FirstIs(k, i, c) ==
    NoneBefore(k, i, c) /\ grade[<<k, i, c>>] \in {"scalar", "excess_bits"}

Done(p) == pc[p] = "done"

\* dh.rs:206-209 and error.rs:54-57: on the NIST curves the result is the first
\* of the candidates 0..=255 that is a scalar, and DeriveKeyPairError exactly
\* when none of them is; the second parse of an accepted candidate never fails.
FirstCandidateWins ==
    \A p \in Callers :
        Done(p) /\ kem[p] \in Nist =>
            \/ /\ res[p] = Err("DeriveKeyPairError")
               /\ NoneBefore(kem[p], ikm[p], MaxCounter + 1)
            \/ \E c \in Counters :
                 /\ FirstIs(kem[p], ikm[p], c)
                 /\ res[p] = Candidate(<<kem[p], ikm[p], c>>)

\* The inductive invariant behind it: in the loop every candidate behind the
\* counter has been seen to be none, also when the range has come to its end;
\* the candidate in hand is the first; what needs no loop is what it computes.
LoopInv ==
    \A p \in Callers :
        /\ pc[p] = "idle" => counter[p] = 0 /\ ~exhausted[p]
        /\ pc[p] = "loop" =>
             NoneBefore(kem[p], ikm[p],
                        IF exhausted[p] THEN MaxCounter + 1 ELSE counter[p])
        /\ pc[p] = "parse" =>
             \E c \in Counters :
                 bytes[p] = <<kem[p], ikm[p], c>> /\ FirstIs(kem[p], ikm[p], c)
        /\ Done(p) /\ kem[p] \notin Nist => res[p] = Derived(kem[p], ikm[p])

IInv == TypeOK /\ LoopInv /\ FirstCandidateWins

\* kem/mod.rs:17-19: two calls return the same bytes exactly when both the KEM
\* and the key material are the same; whoever derives a key pair again gets it
\* again, and KEMs that share a hash or a seed length share no keys.
ReproducibleAndSeparate ==
    \A p, q \in Callers :
        Done(p) /\ Done(q) /\ res[p].ok =>
            (res[p] = res[q] <=> kem[p] = kem[q] /\ ikm[p] = ikm[q])

\* The refinement mapping.  What the candidates seen so far settle: a result that
\* needs no loop always is; on the NIST curves the first scalar, or that there is
\* none, settles it.
Settled(k, i) ==
    \/ k \notin Nist
    \/ NoneBefore(k, i, MaxCounter + 1)
    \/ \E c \in Counters : FirstIs(k, i, c)

Entry(k, i) ==
    IF k \notin Nist THEN Derived(k, i)
    ELSE IF NoneBefore(k, i, MaxCounter + 1) THEN Err("DeriveKeyPairError")
    ELSE Candidate(<<k, i, CHOOSE c \in Counters : FirstIs(k, i, c)>>)

Results == [x \in {y \in Kems \X Ikms : Settled(y[1], y[2])} |-> Entry(x[1], x[2])]
Asked   == [p \in {q \in Callers : pc[q] # "idle"} |-> <<kem[p], ikm[p]>>]
Got     == [p \in {q \in Callers : Done(q)} |-> res[p]]

Table == INSTANCE KeyTable WITH
            Inputs <- Kems \X Ikms, table <- Results, asked <- Asked, got <- Got

\* kem/mod.rs:17-19, dh.rs:206-209: interleaved calls are look-ups in one table
\* without repetitions: a candidate that one caller sees settles what every other
\* caller with these arguments returns, then and later, and settles nothing else.
ImplementsTable == Table!Spec

\* Every call returns, whichever candidates are scalars.
EveryCallReturns == \A p \in Callers : (pc[p] # "idle") ~> Done(p)
============================================================================
