----------------------------- MODULE Scrubbing -----------------------------
(***************************************************************************)
(* What becomes of the secret buffers that a call of the library makes, on *)
(* every path through it: the errors that `?` passes up free what each     *)
(* function on the way owns.  A buffer in a wrapper (Zeroizing, a type     *)
(* that is ZeroizeOnDrop) is scrubbed when it is freed, a bare one is not. *)
(*                                                                         *)
(* The body of a function is the sequence of its steps that make, move,    *)
(* wrap or scrub a secret or may fail.  A frame owns its local buffers.    *)
(* The buffers counted are those the crate names.  A named buffer's last   *)
(* use by value in a wrapper, a private key or the result moves it, as the *)
(* crate counts (pq.rs:212-213): an array that is Copy too.                *)
(*                                                                         *)
(* Not modelled: what a move, an argument's unnamed copy or an upstream    *)
(* type's own copies leave on the machine's stack, and the state of HMAC,  *)
(* which README.md:161 says is not scrubbed.                               *)
(***************************************************************************)
EXTENDS Naturals, SequencesExt

CONSTANTS
    Kems,           \* of DhCurves and PqKems
    Apis            \* the calls made, of EntryPoints

DhCurves == {"X25519", "X448", "NIST"}
PqKems   == {"XWing", "MlKem"}
EntryPoints ==
    {"generate", "derive_key_pair", "sk_from_bytes", "sk_to_bytes", "encap", "decap",
     "setup", "seal_or_open", "export"}
Modes    == {"Base", "Psk", "Auth", "AuthPsk"}
PrivateKey(k)  == IF k \in DhCurves THEN {"sk"} ELSE {"seed", "dk"}
ContextSecrets == {"cipher", "nonce", "exporter_secret"}

ASSUME ScrubbingAssumption ==
    /\ Kems \subseteq DhCurves \cup PqKems
    /\ Apis \subseteq EntryPoints

----------------------------------------------------------------------------
\* The steps.
AsItIs == "as_it_is"    \* what a call returns stays under its name
Bare(b)    == [op |-> "bare", b |-> b]      \* a new buffer that is not wrapped
Safe(b)    == [op |-> "safe", b |-> b]      \* one in a wrapper
Wrap(a, b) == [op |-> "wrap", from |-> a, b |-> b]      \* b = Zeroizing::new(a)
Scrub(b)   == [op |-> "scrub", b |-> b]     \* zeroize() on a local
Check      == [op |-> "check"]              \* goes on or returns an error
CallInto(f, bs, into) == [op |-> "call", f |-> f, moved |-> bs, into |-> into]
Call(f)    == CallInto(f, {}, AsItIs)               \* f(..)?
CallMoving(f, bs) == CallInto(f, bs, AsItIs)        \* bs passed by value
Held(f, b) == CallInto(f, {}, b)                    \* b = Zeroizing::new(f(..)?)
Raise      == [op |-> "raise"]              \* returns an error
Retry(b, n) == [op |-> "retry", b |-> b, to |-> n]      \* drop b, back to step n

\* A function: its body, and the buffers it returns.
Function(body, returns) == [body |-> body, returns |-> returns]

----------------------------------------------------------------------------
\* kdf.rs
Extract ==
    Function(<<Bare("prk"), Bare("result"), Scrub("prk")>>, {"result"})
Expand == Function(<<Check, Bare("okm")>>, {"okm"})

----------------------------------------------------------------------------
\* dh.rs: the curves, the bodies of their methods.
SaveArray ==
    <<Bare("array"), Wrap("array", "bytes"),
      Bare("vec"), Wrap("vec", "stored")>>

X25519 ==
    [generate |-> <<Safe("bytes"), Safe("sk")>>,
     derive   |-> <<Held("extract", "dkp_prk"), Held("expand", "sk_bytes"),
                    Safe("arr"), Safe("sk")>>,
     dh       |-> <<Safe("shared"), Check, Bare("dh")>>,
     load     |-> <<Check, Safe("arr"), Safe("sk"), Call("sk_to_pk")>>,
     save     |-> SaveArray,
     sk_to_pk |-> <<>>]

X448MultBase == Function(<<Bare("scalar"), Scrub("scalar")>>, {})
X448Mult ==
    Function(<<Bare("scalar"), Bare("result"), Bare("out"),
               Scrub("scalar"), Scrub("result")>>, {"out"})

X448 ==
    [generate |-> <<Safe("bytes"), Call("x448_mult_base"), Safe("sk")>>,
     derive   |-> <<Held("extract", "prk"), Held("expand", "bytes"), Safe("arr"),
                    Call("x448_mult_base"), Safe("sk")>>,
     dh       |-> <<Held("x448_mult", "shared"), Check, Bare("dh")>>,
     load     |-> <<Check, Safe("arr"), Safe("sk"), Call("sk_to_pk")>>,
     save     |-> <<Bare("vec"), Wrap("vec", "stored")>>,
     sk_to_pk |-> <<Call("x448_mult_base")>>]

Nist ==
    [generate |-> <<Safe("sk")>>,
     derive   |-> <<Call("derive_p_curve_sk"), Check, Safe("sk")>>,
     dh       |-> <<Safe("shared"), Check, Bare("dh")>>,
     load     |-> <<Check, Safe("sk"), Call("sk_to_pk")>>,
     save     |-> SaveArray,
     sk_to_pk |-> <<>>]

DerivePCurveSk ==
    Function(<<Held("extract", "dkp_prk"), Held("expand", "bytes"),
               Retry("bytes", 2), Raise>>, {"bytes"})

----------------------------------------------------------------------------
\* dh.rs: the Kem.
ExtractAndExpand == Function(<<Held("extract", "eae_prk"), Call("expand")>>, {"okm"})

EncapWith(auth) ==
    IF auth THEN <<Call("generate"), Held("dh", "dh1"), Held("dh", "dh2"),
                   Held("extract_and_expand", "ss")>>
            ELSE <<Call("generate"), Held("dh", "dh1"),
                   Held("extract_and_expand", "ss")>>

Decap     == <<Check, Held("dh", "dh"), Held("extract_and_expand", "ss")>>
AuthDecap ==
    <<Check, Held("dh", "dh1"), Held("dh", "dh2"), Held("extract_and_expand", "ss")>>

\* load is from_bytes and the public key that from_sk computes of what was loaded.
DhKem(curve, auth) ==
    [generate |-> curve.generate, derive |-> curve.derive,
     load |-> curve.load, save |-> curve.save,
     encap |-> EncapWith(auth), decap |-> IF auth THEN AuthDecap ELSE Decap]

----------------------------------------------------------------------------
\* pq.rs.  The seed is passed by value and becomes a part of the private key.
XWingFromSeed ==
    Function(<<Bare("arg"), Safe("dk"), Wrap("arg", "seed")>>, {"seed", "dk"})

\* ML-KEM first copies it into an upstream array, which nothing scrubs.
MlKemFromSeed ==
    Function(<<Bare("arg"), Bare("ml_seed"), Safe("dk"), Wrap("arg", "seed")>>,
             {"seed", "dk"})

\* The secret is copied out of an upstream array.
PqEncap ==
    <<Bare("upstream"), Bare("ss_bytes"), Scrub("upstream"),
      Wrap("ss_bytes", "ss")>>
PqDecap ==
    <<Check, Check, Bare("upstream"), Bare("ss_bytes"),
      Scrub("upstream"), Wrap("ss_bytes", "ss")>>

XWing ==
    [generate |-> <<Safe("staged"), Call("from_seed")>>,
     derive   |-> <<Safe("staged"), Check, Call("from_seed")>>,
     load     |-> <<Check, Safe("staged"), Safe("dk"), Safe("seed")>>,
     save     |-> <<Bare("vec"), Wrap("vec", "stored")>>,
     encap    |-> PqEncap, decap |-> PqDecap]

MlKem ==
    [generate |-> <<Safe("staged"), Call("from_seed")>>,
     derive   |-> <<Safe("staged"), Check, Call("from_seed")>>,
     load     |-> <<Check, Safe("staged"), Call("from_seed")>>,
     save     |-> <<Bare("vec"), Wrap("vec", "stored")>>,
     encap    |-> PqEncap, decap |-> PqDecap]

----------------------------------------------------------------------------
\* context.rs: the exporter secret comes by value.

\* Mutant: the raw key is kept in every build.
ContextNewRawKey ==
    Function(<<Check, Safe("cipher"), Safe("nonce"), Safe("raw_key")>>,
             ContextSecrets \cup {"raw_key"})

ContextNew ==
    Function(<<Check, Safe("cipher"), Safe("nonce")>>, ContextSecrets)

\* seal and open: the nonce of a message is a secret too.
ContextSeal ==
    Function(<<Check, Bare("array"), Wrap("array", "message_nonce"), Check>>, {})

\* lib.rs: the key schedules.

\* Mutant: the key is scrubbed by hand, once it has been used.
KeySchedulePskFreeByHand ==
    Function(<<Held("extract", "secret"), Call("expand"),
               Held("expand", "base_nonce"), Held("expand", "exporter_secret"),
               CallMoving("context_new", {"exporter_secret"}), Scrub("okm")>>,
             ContextNew.returns)

KeySchedulePskFree ==
    Function(<<Held("extract", "secret"), Held("expand", "key"),
               Held("expand", "base_nonce"), Held("expand", "exporter_secret"),
               CallMoving("context_new", {"exporter_secret"})>>,
             ContextNew.returns)

KeySchedulePsk ==
    Function(<<Held("extract", "secret"), Held("expand", "key"),
               Held("expand", "base_nonce"), Held("expand", "exporter_secret"),
               CallMoving("context_new", {"exporter_secret"})>>,
             ContextNew.returns)

\* lib.rs: set-up, single-shot seal and open, and single-shot export.
KeySchedule(m) ==
    IF m \in {"Psk", "AuthPsk"} THEN "key_schedule_psk" ELSE "key_schedule_psk_free"
SetupBody(role, m) ==
    <<Call(IF role = "sender" THEN "encap" ELSE "decap"), Call(KeySchedule(m))>>
SealOrOpen == Function(<<Call("setup"), Call("context_seal")>>, {})
Export     == Function(<<Call("setup"), Call("expand")>>, {"okm"})

----------------------------------------------------------------------------
VARIABLES
    call,       \* what is called: [api, kem, mode, role]
    top,        \* the frame that runs: [f, pc, own], own its buffers
    stack,      \* the frames that wait for it, newest last
    left,       \* what the caller of the library was returned
    freed,      \* what was freed as it was (bare) and scrubbed (safe)
    status      \* "running", "failing", "returned" or "failed"

vars == <<call, top, stack, left, freed, status>>

IsAuth(m) == m \in {"Auth", "AuthPsk"}

\* What the type parameters make of a call: the curve and the Kem.
Curve == [X25519 |-> X25519, X448 |-> X448, NIST |-> Nist]
K == CASE call.kem \in DhCurves -> DhKem(Curve[call.kem], IsAuth(call.mode))
       [] call.kem = "XWing"    -> XWing
       [] call.kem = "MlKem"    -> MlKem

\* The post-quantum KEMs have no curve.
OfCurve(method, returns) ==
    Function(IF call.kem \in DhCurves THEN Curve[call.kem][method] ELSE <<>>, returns)

Functions ==
    [extract |-> Extract, expand |-> Expand,
     x448_mult_base |-> X448MultBase, x448_mult |-> X448Mult,
     dh |-> OfCurve("dh", {"dh"}), sk_to_pk |-> OfCurve("sk_to_pk", {}),
     derive_p_curve_sk |-> DerivePCurveSk,
     extract_and_expand |-> ExtractAndExpand,
     from_seed |-> IF call.kem = "MlKem" THEN MlKemFromSeed ELSE XWingFromSeed,
     generate |-> Function(K.generate, PrivateKey(call.kem)),
     derive_key_pair |-> Function(K.derive, PrivateKey(call.kem)),
     sk_from_bytes |-> Function(K.load, PrivateKey(call.kem)),
     sk_to_bytes |-> Function(K.save, {"stored"}),
     encap |-> Function(K.encap, {"ss"}),
     decap |-> Function(K.decap, {"ss"}),
     context_new |-> ContextNew, context_seal |-> ContextSeal,
     key_schedule_psk_free |-> KeySchedulePskFree,
     key_schedule_psk |-> KeySchedulePsk,
     setup |-> Function(SetupBody(call.role, call.mode), KeySchedulePskFree.returns),
     seal_or_open |-> SealOrOpen, export |-> Export]

\* What its caller is left with.
Results ==
    [generate |-> PrivateKey(call.kem), derive_key_pair |-> PrivateKey(call.kem),
     sk_from_bytes |-> PrivateKey(call.kem), sk_to_bytes |-> {"stored"},
     encap |-> {"ss"}, decap |-> {"ss"}, setup |-> ContextSecrets,
     seal_or_open |-> {}, export |-> {"okm"}]

\* Buffers: the names of those that are bare and of those in wrappers.
Own(bare, safe)  == [bare |-> bare, safe |-> safe]
Nothing          == Own({}, {})
Join(o, p)       == Own(o.bare \cup p.bare, o.safe \cup p.safe)
Only(o, bs)      == Own(o.bare \cap bs, o.safe \cap bs)
Without(o, bs)   == Own(o.bare \ bs, o.safe \ bs)

Frame(f, own) == [f |-> f, pc |-> 1, own |-> own]

Init ==
    /\ call \in [api : Apis, kem : Kems, mode : Modes, role : {"sender", "receiver"}]
    /\ IsAuth(call.mode) => call.kem \in DhCurves
    /\ top = Frame(call.api, Nothing)
    /\ stack = <<>>
    /\ left = Nothing
    /\ freed = Nothing
    /\ status = "running"

Fn   == Functions[top.f]
Step == Fn.body[top.pc]

\* The step at hand is an op.
At(op) ==
    /\ status = "running"
    /\ top.pc <= Len(Fn.body) /\ Step.op = op

\* The frame goes on at n, owning what it then owns.
Goto(n, own) == top' = [top EXCEPT !.pc = n, !.own = own]

\* The step that a frame that waits is at.
StepOf(frame) == Functions[frame.f].body[frame.pc - 1]
Received(result, step) ==
    IF step.into = AsItIs THEN result ELSE Own({}, {step.into})

DoBare ==
    /\ At("bare") /\ Goto(top.pc + 1, Join(top.own, Own({Step.b}, {})))
    /\ UNCHANGED <<call, stack, left, freed, status>>

DoSafe ==
    /\ At("safe") /\ Goto(top.pc + 1, Join(top.own, Own({}, {Step.b})))
    /\ UNCHANGED <<call, stack, left, freed, status>>

DoWrap ==
    /\ At("wrap")
    /\ Goto(top.pc + 1, Join(Without(top.own, {Step.from}), Own({}, {Step.b})))
    /\ UNCHANGED <<call, stack, left, freed, status>>

DoScrub ==
    /\ At("scrub") /\ Goto(top.pc + 1, Without(top.own, {Step.b}))
    /\ freed' = Join(freed, Own({}, {Step.b}))
    /\ UNCHANGED <<call, stack, left, status>>

Pass ==
    /\ At("check") /\ Goto(top.pc + 1, top.own)
    /\ UNCHANGED <<call, stack, left, freed, status>>

Fail ==
    /\ At("check") \/ At("raise")
    /\ status' = "failing"
    /\ UNCHANGED <<call, top, stack, left, freed>>

\* The candidate is refused and freed: another turn, or, after the last one, the
\* error.
TryAgain ==
    /\ At("retry")
    /\ \E n \in {Step.to, top.pc + 1} : Goto(n, Without(top.own, {Step.b}))
    /\ freed' = Join(freed, Only(top.own, {Step.b}))
    /\ UNCHANGED <<call, stack, left, status>>

\* The candidate is returned: past the error.
Accept ==
    /\ At("retry") /\ Goto(top.pc + 2, top.own)
    /\ UNCHANGED <<call, stack, left, freed, status>>

DoCall ==
    /\ At("call")
    /\ stack' = Append(stack, [top EXCEPT !.pc = @ + 1,
                                         !.own = Without(@, Step.moved)])
    /\ top' = Frame(Step.f, Only(top.own, Step.moved))
    /\ UNCHANGED <<call, left, freed, status>>

\* What is returned goes to the caller, into the wrapper that the caller's step
\* has ready for it, if any; what else the frame owns is freed.
Return ==
    /\ status = "running" /\ top.pc > Len(Fn.body)
    /\ freed' = Join(freed, Without(top.own, Fn.returns))
    /\ LET result == Only(top.own, Fn.returns) IN
       IF stack = <<>>
       THEN /\ left' = result
            /\ status' = "returned"
            /\ UNCHANGED <<top, stack>>
       ELSE /\ top' = [Last(stack) EXCEPT
                          !.own = Join(@, Received(result, StepOf(Last(stack))))]
            /\ stack' = Front(stack)
            /\ UNCHANGED <<left, status>>
    /\ UNCHANGED call

\* `?` returns the error from one function after the other.
Unwind ==
    /\ status = "failing"
    /\ freed' = Join(freed, top.own)
    /\ IF stack = <<>>
       THEN /\ status' = "failed"
            /\ UNCHANGED <<top, stack>>
       ELSE /\ top' = Last(stack)
            /\ stack' = Front(stack)
            /\ UNCHANGED status
    /\ UNCHANGED <<call, left>>

Next ==
    \/ DoBare \/ DoSafe \/ DoWrap \/ DoScrub
    \/ Pass \/ Fail \/ TryAgain \/ Accept
    \/ DoCall \/ Return \/ Unwind

Spec == Init /\ [][Next]_vars

----------------------------------------------------------------------------
\* README.md:159: "Everything this crate controls is scrubbed" (lib.rs:189-190
\* says it of a key schedule): whichever step of a call fails, and when none
\* does, no secret buffer is freed before it is scrubbed.  It is violated: the
\* ML-KEM array ml_seed is freed as it is (pq.rs:521).
NothingIsLeftBehind == freed.bare = {}

\* The calls that make an ML-KEM private key.
MakesMlKemKey ==
    /\ call.kem = "MlKem"
    /\ call.api \in {"generate", "derive_key_pair", "sk_from_bytes"}
Unscrubbed == IF MakesMlKemKey THEN {"ml_seed"} ELSE {}

\* README.md:159, lib.rs:189-190, with the exception of pq.rs:521: whichever step
\* of a call fails, and when none does, no secret buffer but ml_seed is freed
\* before it is scrubbed, and that one by no call but those that make an ML-KEM key.
NothingElseIsLeftBehind == freed.bare \subseteq Unscrubbed

\* context.rs:25-27, README.md:159: a call that is over leaves its caller the
\* secrets of its result, in wrappers, and no others: a context holds cipher
\* state and not the key it was made from.  A failed call leaves nothing.
OnlyTheResultSurvives ==
    status \in {"returned", "failed"} =>
        /\ left.bare \cup left.safe =
             IF status = "returned" THEN Results[call.api] ELSE {}
        /\ call.api # "export" => left.bare = {}
============================================================================
