-------------------------- MODULE ScrubbingProofs --------------------------
(***************************************************************************)
(* Theorems about Scrubbing: no call of the library leaves a secret behind *)
(* but those that make an ML-KEM key, which leave ml_seed.                 *)
(* Each function keeps a contract, which says what it takes from its       *)
(* caller and what it gives back; an outline, the buffers its frame owns   *)
(* before each of its steps, shows that it does.                           *)
(***************************************************************************)
EXTENDS Scrubbing, TLAPS

Names ==
    {"extract", "expand", "x448_mult_base", "x448_mult", "dh", "sk_to_pk",
     "derive_p_curve_sk", "extract_and_expand", "from_seed", "generate",
     "derive_key_pair", "sk_from_bytes", "sk_to_bytes", "encap", "decap",
     "context_new", "context_seal", "key_schedule_psk_free", "key_schedule_psk",
     "setup", "seal_or_open", "export"}

\* The functions that a call may reach: those that make an ML-KEM key are not
\* reached by the others.
Makers    == {"from_seed", "generate", "derive_key_pair", "sk_from_bytes"}
Reachable == {f \in Names : f \in Makers /\ call.kem = "MlKem" => MakesMlKemKey}

----------------------------------------------------------------------------
\* The contracts.

Takes == [f \in Names |-> IF f = "context_new" THEN Own({}, {"exporter_secret"})
                                               ELSE Nothing]
Gives ==
    [extract |-> Own({"result"}, {}), expand |-> Own({"okm"}, {}),
     x448_mult_base |-> Nothing, x448_mult |-> Own({"out"}, {}),
     dh |-> IF call.kem \in DhCurves THEN Own({"dh"}, {}) ELSE Nothing,
     sk_to_pk |-> Nothing,
     derive_p_curve_sk |-> Own({}, {"bytes"}),
     extract_and_expand |-> Own({"okm"}, {}),
     from_seed |-> Own({}, {"seed", "dk"}),
     generate |-> Own({}, PrivateKey(call.kem)),
     derive_key_pair |-> Own({}, PrivateKey(call.kem)),
     sk_from_bytes |-> Own({}, PrivateKey(call.kem)),
     sk_to_bytes |-> Own({}, {"stored"}),
     encap |-> Own({}, {"ss"}), decap |-> Own({}, {"ss"}),
     context_new |-> Own({}, ContextSecrets), context_seal |-> Nothing,
     key_schedule_psk_free |-> Own({}, ContextSecrets),
     key_schedule_psk |-> Own({}, ContextSecrets),
     setup |-> Own({}, ContextSecrets),
     seal_or_open |-> Nothing, export |-> Own({"okm"}, {})]

\* A step takes a frame from owning o to owning p, and if it may fail then only
\* while nothing in the frame is bare.
Yields(s, o, p) ==
    CASE s.op = "bare"  -> p = Join(o, Own({s.b}, {}))
      [] s.op = "safe"  -> p = Join(o, Own({}, {s.b}))
      [] s.op = "wrap"  -> p = Join(Without(o, {s.from}), Own({}, {s.b}))
      [] s.op = "scrub" -> p = Without(o, {s.b})
      [] s.op = "check" -> o.bare = {} /\ p = o
      [] s.op = "call"  -> /\ s.f \in Reachable
                           /\ Without(o, s.moved).bare = {}
                           /\ Only(o, s.moved) = Takes[s.f]
                           /\ p = Join(Without(o, s.moved), Received(Gives[s.f], s))
      [] OTHER          -> FALSE

\* The same of the n-th step of a body, given what is owned before each step.
Follows(body, n, ann) ==
    LET s == body[n] IN
    \/ Yields(s, ann[n], ann[n + 1])
    \/ s.op = "raise" /\ ann[n].bare = {}
    \/ /\ s.op = "retry" /\ ann[n].bare = {}
       /\ s.to \in 1 .. Len(body) /\ n + 2 \in 1 .. Len(body) + 1
       /\ ann[s.to] = Without(ann[n], {s.b})
       /\ ann[n + 1] = Without(ann[n], {s.b})
       /\ ann[n + 2] = ann[n]

\* An outline of F: it starts with what F takes, every step follows it, and at
\* its end F returns what it gives, and of what else it owns only what the call
\* leaves unscrubbed is bare.
Outlines(ann, F, takes, gives) ==
    LET end == Len(F.body) + 1 IN
    /\ Len(F.body) \in Nat
    /\ ann[1] = takes
    /\ \A n \in 1 .. Len(F.body) : Follows(F.body, n, ann)
    /\ Only(ann[end], F.returns) = gives
    /\ Without(ann[end], F.returns).bare \subseteq Unscrubbed

Keeps(F, takes, gives) == \E ann : Outlines(ann, F, takes, gives)
KeepsContract(f)       == Keeps(Functions[f], Takes[f], Gives[f])

Outline(f) == CHOOSE ann : Outlines(ann, Functions[f], Takes[f], Gives[f])

----------------------------------------------------------------------------
\* The invariant.

Called ==
    /\ call \in [api : Apis, kem : Kems, mode : Modes, role : {"sender", "receiver"}]
    /\ IsAuth(call.mode) => call.kem \in DhCurves

IsFrame(frame) ==
    /\ frame = [f |-> frame.f, pc |-> frame.pc, own |-> frame.own]
    /\ frame.f \in Reachable /\ frame.pc \in Nat

\* The frame that runs owns what the outline says; one that waits owns that less
\* what it has passed by value, and waits for the function it called.
Runs(frame) ==
    /\ frame.pc \in 1 .. Len(Functions[frame.f].body) + 1
    /\ frame.own = Outline(frame.f)[frame.pc]

Waits(frame, f) ==
    /\ frame.pc - 1 \in 1 .. Len(Functions[frame.f].body)
    /\ StepOf(frame).op = "call" /\ StepOf(frame).f = f
    /\ frame.own = Without(Outline(frame.f)[frame.pc - 1], StepOf(frame).moved)

\* The function that the i-th frame waits for; the one that was called first.
Above(i) == IF i = Len(stack) THEN top.f ELSE stack[i + 1].f
Bottom   == IF stack = <<>> THEN top.f ELSE stack[1].f

Typed ==
    /\ Called
    /\ IsFrame(top)
    /\ \E S : stack \in Seq(S)
    /\ \A i \in 1 .. Len(stack) : IsFrame(stack[i])
    /\ status \in {"running", "failing", "returned", "failed"}

IInv ==
    /\ Typed
    /\ freed.bare \subseteq Unscrubbed
    /\ status = "running" => Runs(top)
    /\ status = "failing" => top.own.bare = {}
    /\ status \in {"running", "failing"} => Bottom = call.api
    /\ \A i \in 1 .. Len(stack) : Waits(stack[i], Above(i))
    /\ left = IF status = "returned" THEN Gives[call.api] ELSE Nothing

----------------------------------------------------------------------------
\* Buffers.

\* Freeing what is bare only where the call may leave it so adds nothing else.
LEMMA FreedClean ==
    ASSUME NEW o, NEW p, o.bare \subseteq Unscrubbed, p.bare \subseteq Unscrubbed
    PROVE  Join(o, p).bare \subseteq Unscrubbed
BY DEF Join, Own

\* An outline is one.
LEMMA OutlineIs ==
    ASSUME NEW f \in Reachable, KeepsContract(f)
    PROVE  Outlines(Outline(f), Functions[f], Takes[f], Gives[f])
BY DEF KeepsContract, Keeps, Outline

----------------------------------------------------------------------------
\* An outline of a body.
LEMMA OutlineOf ==
    ASSUME NEW body, NEW returns, NEW ann, NEW takes, NEW gives,
           NEW k \in Nat, Len(body) = k,
           \A n \in 1 .. k : Follows(body, n, ann),
           ann[1] = takes,
           Only(ann[k + 1], returns) = gives,
           Without(ann[k + 1], returns).bare \subseteq Unscrubbed
    PROVE  Outlines(ann, Function(body, returns), takes, gives)
<1>1. /\ Function(body, returns).body = body
      /\ Function(body, returns).returns = returns
  BY DEF Function
<1> QED  BY <1>1 DEF Outlines

\* Straight-line bodies: an outline from what each step does.

\* A body without steps.
LEMMA Straight0 ==
    ASSUME NEW o1, NEW returns, NEW gives,
           Only(o1, returns) = gives, Without(o1, returns).bare \subseteq Unscrubbed
    PROVE  Keeps(Function(<<>>, returns), o1, gives)
<1> DEFINE body == <<>>
           ann  == <<o1>>
<1>1. Len(body) = 0
  OBVIOUS
<1>2. /\ ann[1] = o1
  OBVIOUS
<1> HIDE DEF body, ann
<1>3. \A n \in 1 .. 0 : Follows(body, n, ann)
  BY <1>1, <1>2 DEF Follows
<1>4. /\ Only(ann[0 + 1], returns) = gives
      /\ Without(ann[0 + 1], returns).bare \subseteq Unscrubbed
  BY <1>2
<1>5. Outlines(ann, Function(body, returns), o1, gives)
  BY <1>1, <1>2, <1>3, <1>4, OutlineOf
<1> QED  BY <1>5 DEF body, Keeps

\* One of 1 step.
LEMMA Straight1 ==
    ASSUME NEW s1, NEW o1, NEW o2, NEW returns, NEW gives,
           Yields(s1, o1, o2),
           Only(o2, returns) = gives, Without(o2, returns).bare \subseteq Unscrubbed
    PROVE  Keeps(Function(<<s1>>, returns), o1, gives)
<1> DEFINE body == <<s1>>
           ann  == <<o1, o2>>
<1>1. /\ Len(body) = 1 /\ body[1] = s1
  OBVIOUS
<1>2. /\ ann[1] = o1 /\ ann[2] = o2
  OBVIOUS
<1> HIDE DEF body, ann
<1>3. \A n \in 1 .. 1 : Follows(body, n, ann)
  BY <1>1, <1>2 DEF Follows
<1>4. /\ Only(ann[1 + 1], returns) = gives
      /\ Without(ann[1 + 1], returns).bare \subseteq Unscrubbed
  BY <1>2
<1>5. Outlines(ann, Function(body, returns), o1, gives)
  BY <1>1, <1>2, <1>3, <1>4, OutlineOf
<1> QED  BY <1>5 DEF body, Keeps

\* One of 2 steps.
LEMMA Straight2 ==
    ASSUME NEW s1, NEW s2, NEW o1, NEW o2, NEW o3, NEW returns, NEW gives,
           Yields(s1, o1, o2), Yields(s2, o2, o3),
           Only(o3, returns) = gives, Without(o3, returns).bare \subseteq Unscrubbed
    PROVE  Keeps(Function(<<s1, s2>>, returns), o1, gives)
<1> DEFINE body == <<s1, s2>>
           ann  == <<o1, o2, o3>>
<1>1. /\ Len(body) = 2 /\ body[1] = s1 /\ body[2] = s2
  OBVIOUS
<1>2. /\ ann[1] = o1 /\ ann[2] = o2 /\ ann[3] = o3
  OBVIOUS
<1> HIDE DEF body, ann
<1>3. \A n \in 1 .. 2 : Follows(body, n, ann)
  BY <1>1, <1>2 DEF Follows
<1>4. /\ Only(ann[2 + 1], returns) = gives
      /\ Without(ann[2 + 1], returns).bare \subseteq Unscrubbed
  BY <1>2
<1>5. Outlines(ann, Function(body, returns), o1, gives)
  BY <1>1, <1>2, <1>3, <1>4, OutlineOf
<1> QED  BY <1>5 DEF body, Keeps

\* One of 3 steps.
LEMMA Straight3 ==
    ASSUME NEW s1, NEW s2, NEW s3, NEW o1, NEW o2, NEW o3, NEW o4, NEW returns,
           NEW gives,
           Yields(s1, o1, o2), Yields(s2, o2, o3), Yields(s3, o3, o4),
           Only(o4, returns) = gives, Without(o4, returns).bare \subseteq Unscrubbed
    PROVE  Keeps(Function(<<s1, s2, s3>>, returns), o1, gives)
<1> DEFINE body == <<s1, s2, s3>>
           ann  == <<o1, o2, o3, o4>>
<1>1. /\ Len(body) = 3 /\ body[1] = s1 /\ body[2] = s2 /\ body[3] = s3
  OBVIOUS
<1>2. /\ ann[1] = o1 /\ ann[2] = o2 /\ ann[3] = o3 /\ ann[4] = o4
  OBVIOUS
<1> HIDE DEF body, ann
<1>3. \A n \in 1 .. 3 : Follows(body, n, ann)
  BY <1>1, <1>2 DEF Follows
<1>4. /\ Only(ann[3 + 1], returns) = gives
      /\ Without(ann[3 + 1], returns).bare \subseteq Unscrubbed
  BY <1>2
<1>5. Outlines(ann, Function(body, returns), o1, gives)
  BY <1>1, <1>2, <1>3, <1>4, OutlineOf
<1> QED  BY <1>5 DEF body, Keeps

\* One of 4 steps.
LEMMA Straight4 ==
    ASSUME NEW s1, NEW s2, NEW s3, NEW s4, NEW o1, NEW o2, NEW o3, NEW o4, NEW o5,
           NEW returns, NEW gives,
           Yields(s1, o1, o2), Yields(s2, o2, o3), Yields(s3, o3, o4),
           Yields(s4, o4, o5),
           Only(o5, returns) = gives, Without(o5, returns).bare \subseteq Unscrubbed
    PROVE  Keeps(Function(<<s1, s2, s3, s4>>, returns), o1, gives)
<1> DEFINE body == <<s1, s2, s3, s4>>
           ann  == <<o1, o2, o3, o4, o5>>
<1>1. /\ Len(body) = 4 /\ body[1] = s1 /\ body[2] = s2 /\ body[3] = s3 /\ body[4] = s4
  OBVIOUS
<1>2. /\ ann[1] = o1 /\ ann[2] = o2 /\ ann[3] = o3 /\ ann[4] = o4 /\ ann[5] = o5
  OBVIOUS
<1> HIDE DEF body, ann
<1>3. \A n \in 1 .. 4 : Follows(body, n, ann)
  BY <1>1, <1>2 DEF Follows
<1>4. /\ Only(ann[4 + 1], returns) = gives
      /\ Without(ann[4 + 1], returns).bare \subseteq Unscrubbed
  BY <1>2
<1>5. Outlines(ann, Function(body, returns), o1, gives)
  BY <1>1, <1>2, <1>3, <1>4, OutlineOf
<1> QED  BY <1>5 DEF body, Keeps

\* One of 5 steps.
LEMMA Straight5 ==
    ASSUME NEW s1, NEW s2, NEW s3, NEW s4, NEW s5, NEW o1, NEW o2, NEW o3, NEW o4,
           NEW o5, NEW o6, NEW returns, NEW gives,
           Yields(s1, o1, o2), Yields(s2, o2, o3), Yields(s3, o3, o4),
           Yields(s4, o4, o5), Yields(s5, o5, o6),
           Only(o6, returns) = gives, Without(o6, returns).bare \subseteq Unscrubbed
    PROVE  Keeps(Function(<<s1, s2, s3, s4, s5>>, returns), o1, gives)
<1> DEFINE body == <<s1, s2, s3, s4, s5>>
           ann  == <<o1, o2, o3, o4, o5, o6>>
<1>1. /\ Len(body) = 5 /\ body[1] = s1 /\ body[2] = s2 /\ body[3] = s3 /\ body[4] = s4
      /\ body[5] = s5
  OBVIOUS
<1>2. /\ ann[1] = o1 /\ ann[2] = o2 /\ ann[3] = o3 /\ ann[4] = o4 /\ ann[5] = o5
      /\ ann[6] = o6
  OBVIOUS
<1> HIDE DEF body, ann
<1>3. \A n \in 1 .. 5 : Follows(body, n, ann)
  BY <1>1, <1>2 DEF Follows
<1>4. /\ Only(ann[5 + 1], returns) = gives
      /\ Without(ann[5 + 1], returns).bare \subseteq Unscrubbed
  BY <1>2
<1>5. Outlines(ann, Function(body, returns), o1, gives)
  BY <1>1, <1>2, <1>3, <1>4, OutlineOf
<1> QED  BY <1>5 DEF body, Keeps

\* One of 6 steps.
LEMMA Straight6 ==
    ASSUME NEW s1, NEW s2, NEW s3, NEW s4, NEW s5, NEW s6, NEW o1, NEW o2, NEW o3,
           NEW o4, NEW o5, NEW o6, NEW o7, NEW returns, NEW gives,
           Yields(s1, o1, o2), Yields(s2, o2, o3), Yields(s3, o3, o4),
           Yields(s4, o4, o5), Yields(s5, o5, o6), Yields(s6, o6, o7),
           Only(o7, returns) = gives, Without(o7, returns).bare \subseteq Unscrubbed
    PROVE  Keeps(Function(<<s1, s2, s3, s4, s5, s6>>, returns), o1, gives)
<1> DEFINE body == <<s1, s2, s3, s4, s5, s6>>
           ann  == <<o1, o2, o3, o4, o5, o6, o7>>
<1>1. /\ Len(body) = 6 /\ body[1] = s1 /\ body[2] = s2 /\ body[3] = s3 /\ body[4] = s4
      /\ body[5] = s5 /\ body[6] = s6
  OBVIOUS
<1>2. /\ ann[1] = o1 /\ ann[2] = o2 /\ ann[3] = o3 /\ ann[4] = o4 /\ ann[5] = o5
      /\ ann[6] = o6 /\ ann[7] = o7
  OBVIOUS
<1> HIDE DEF body, ann
<1>3. \A n \in 1 .. 6 : Follows(body, n, ann)
  BY <1>1, <1>2 DEF Follows
<1>4. /\ Only(ann[6 + 1], returns) = gives
      /\ Without(ann[6 + 1], returns).bare \subseteq Unscrubbed
  BY <1>2
<1>5. Outlines(ann, Function(body, returns), o1, gives)
  BY <1>1, <1>2, <1>3, <1>4, OutlineOf
<1> QED  BY <1>5 DEF body, Keeps

----------------------------------------------------------------------------
\* Steps that call.

\* Only the context takes a buffer of its caller's.
LEMMA TakesNothing ==
    ASSUME NEW f \in Names, f # "context_new"
    PROVE  Takes[f] = Nothing
BY DEF Takes

\* f(..)? leaves what the call gives next to what the frame owns.
LEMMA CallYields ==
    ASSUME NEW f \in Reachable, f # "context_new", NEW safe, NEW to,
           to = Own(Gives[f].bare, safe \cup Gives[f].safe)
    PROVE  Yields(Call(f), Own({}, safe), to)
<1>1. /\ Call(f).op = "call" /\ Call(f).f = f /\ Call(f).moved = {}
      /\ Call(f).into = AsItIs
  BY DEF Call, CallInto
<1>2. /\ Without(Own({}, safe), {}) = Own({}, safe)
      /\ Only(Own({}, safe), {}) = Takes[f]
  BY TakesNothing DEF Without, Only, Own, Nothing, Reachable
<1>3. Join(Own({}, safe), Received(Gives[f], Call(f))) = to
  BY <1>1 DEF Join, Received, Own
<1>4. Own({}, safe).bare = {}
  BY DEF Own
<1> QED  BY <1>1, <1>2, <1>3, <1>4 DEF Yields

\* b = Zeroizing::new(f(..)?) leaves its wrapper, whatever the call gives.
LEMMA HeldYields ==
    ASSUME NEW f \in Reachable, f # "context_new", NEW safe, NEW b, NEW to,
           to = Own({}, safe \cup {b}), b # AsItIs
    PROVE  Yields(Held(f, b), Own({}, safe), to)
<1>1. /\ Held(f, b).op = "call" /\ Held(f, b).f = f /\ Held(f, b).moved = {}
      /\ Held(f, b).into = b
  BY DEF Held, CallInto
<1>2. /\ Without(Own({}, safe), {}) = Own({}, safe)
      /\ Only(Own({}, safe), {}) = Takes[f]
  BY TakesNothing DEF Without, Only, Own, Nothing, Reachable
<1>3. Join(Own({}, safe), Received(Gives[f], Held(f, b))) = to
  BY <1>1 DEF Join, Received, Own
<1>4. Own({}, safe).bare = {}
  BY DEF Own
<1> QED  BY <1>1, <1>2, <1>3, <1>4 DEF Yields

----------------------------------------------------------------------------
\* kdf.rs

\* kdf.rs: extract scrubs its copy of the PRK.
LEMMA KeepsExtract == Keeps(Extract, Nothing, Own({"result"}, {}))
<1>1. Extract = Function(<<Bare("prk"), Bare("result"), Scrub("prk")>>, {"result"})
  BY DEF Extract
<1>2. /\ Yields(Bare("prk"), Nothing, Own({"prk"}, {}))
      /\ Yields(Bare("result"), Own({"prk"}, {}), Own({"prk", "result"}, {}))
      /\ Yields(Scrub("prk"), Own({"prk", "result"}, {}), Own({"result"}, {}))
  BY DEF Yields, Own, Nothing, Join, Without, Bare, Scrub
<1>3. /\ Only(Own({"result"}, {}), {"result"}) = Own({"result"}, {})
      /\ Without(Own({"result"}, {}), {"result"}).bare = {}
  BY DEF Only, Without, Own, Nothing
<1> QED  BY <1>1, <1>2, <1>3, Straight3

\* kdf.rs: expand fails before it has made its output.
LEMMA KeepsExpand == Keeps(Expand, Nothing, Own({"okm"}, {}))
<1>1. Expand = Function(<<Check, Bare("okm")>>, {"okm"})
  BY DEF Expand
<1>2. /\ Yields(Check, Nothing, Nothing)
      /\ Yields(Bare("okm"), Nothing, Own({"okm"}, {}))
  BY DEF Yields, Own, Nothing, Join, Bare, Check
<1>3. /\ Only(Own({"okm"}, {}), {"okm"}) = Own({"okm"}, {})
      /\ Without(Own({"okm"}, {}), {"okm"}).bare = {}
  BY DEF Only, Without, Own, Nothing
<1> QED  BY <1>1, <1>2, <1>3, Straight2

\* dh.rs, the curves.

\* dh.rs, X448: scalars are copied for the ladder and scrubbed.
LEMMA KeepsX448MultBase == Keeps(X448MultBase, Nothing, Nothing)
<1>1. X448MultBase = Function(<<Bare("scalar"), Scrub("scalar")>>, {})
  BY DEF X448MultBase
<1>2. /\ Yields(Bare("scalar"), Nothing, Own({"scalar"}, {}))
      /\ Yields(Scrub("scalar"), Own({"scalar"}, {}), Nothing)
  BY DEF Yields, Own, Nothing, Join, Without, Bare, Scrub
<1>3. /\ Only(Nothing, {}) = Nothing
      /\ Without(Nothing, {}).bare = {}
  BY DEF Only, Without, Own, Nothing
<1> QED  BY <1>1, <1>2, <1>3, Straight2

\* So is its intermediate result; the product is the caller's to wrap.
LEMMA KeepsX448Mult == Keeps(X448Mult, Nothing, Own({"out"}, {}))
<1>1. X448Mult =
        Function(<<Bare("scalar"), Bare("result"), Bare("out"), Scrub("scalar"),
        Scrub("result")>>, {"out"})
  BY DEF X448Mult
<1>2. /\ Yields(Bare("scalar"), Nothing, Own({"scalar"}, {}))
      /\ Yields(Bare("result"), Own({"scalar"}, {}), Own({"scalar", "result"}, {}))
      /\ Yields(Bare("out"), Own({"scalar", "result"}, {}),
                Own({"scalar", "result", "out"}, {}))
      /\ Yields(Scrub("scalar"), Own({"scalar", "result", "out"}, {}),
                Own({"result", "out"}, {}))
      /\ Yields(Scrub("result"), Own({"result", "out"}, {}), Own({"out"}, {}))
  BY DEF Yields, Own, Nothing, Join, Without, Bare, Scrub
<1>3. /\ Only(Own({"out"}, {}), {"out"}) = Own({"out"}, {})
      /\ Without(Own({"out"}, {}), {"out"}).bare = {}
  BY DEF Only, Without, Own, Nothing
<1> QED  BY <1>1, <1>2, <1>3, Straight5

\* dh.rs: generation stages bytes in wrappers only.
LEMMA KeepsX25519Generate ==
    Keeps(Function(X25519.generate, {"sk"}), Nothing, Own({}, {"sk"}))
<1>1. X25519.generate = <<Safe("bytes"), Safe("sk")>>
  BY DEF X25519
<1>2. /\ Yields(Safe("bytes"), Nothing, Own({}, {"bytes"}))
      /\ Yields(Safe("sk"), Own({}, {"bytes"}), Own({}, {"bytes", "sk"}))
  BY DEF Yields, Own, Nothing, Join, Safe
<1>3. /\ Only(Own({}, {"bytes", "sk"}), {"sk"}) = Own({}, {"sk"})
      /\ Without(Own({}, {"bytes", "sk"}), {"sk"}).bare = {}
  BY DEF Only, Without, Own, Nothing
<1> QED  BY <1>1, <1>2, <1>3, Straight2

\* X448 multiplies on the way.
LEMMA KeepsX448Generate ==
    Keeps(Function(X448.generate, {"sk"}), Nothing, Own({}, {"sk"}))
<1>1. X448.generate = <<Safe("bytes"), Call("x448_mult_base"), Safe("sk")>>
  BY DEF X448
<1>2. /\ Yields(Safe("bytes"), Nothing, Own({}, {"bytes"}))
      /\ Yields(Safe("sk"), Own({}, {"bytes"}), Own({}, {"bytes", "sk"}))
  BY DEF Yields, Own, Nothing, Join, Safe
<1>3. Yields(Call("x448_mult_base"), Own({}, {"bytes"}), Own({}, {"bytes"}))
  BY CallYields DEF Reachable, Makers, Names, Gives, Own, Nothing
<1>4. /\ Only(Own({}, {"bytes", "sk"}), {"sk"}) = Own({}, {"sk"})
      /\ Without(Own({}, {"bytes", "sk"}), {"sk"}).bare = {}
  BY DEF Only, Without, Own, Nothing
<1> QED  BY <1>1, <1>2, <1>3, <1>4, Straight3

\* The NIST curves stage nothing.
LEMMA KeepsNistGenerate ==
    Keeps(Function(Nist.generate, {"sk"}), Nothing, Own({}, {"sk"}))
<1>1. Nist.generate = <<Safe("sk")>>
  BY DEF Nist
<1>2. /\ Yields(Safe("sk"), Nothing, Own({}, {"sk"}))
  BY DEF Yields, Own, Nothing, Join, Safe
<1>3. /\ Only(Own({}, {"sk"}), {"sk"}) = Own({}, {"sk"})
      /\ Without(Own({}, {"sk"}), {"sk"}).bare = {}
  BY DEF Only, Without, Own, Nothing
<1> QED  BY <1>1, <1>2, <1>3, Straight1

\* dh.rs: derivation holds what the KDF returns in wrappers.
LEMMA KeepsX25519Derive ==
    Keeps(Function(X25519.derive, {"sk"}), Nothing, Own({}, {"sk"}))
<1>1. X25519.derive =
        <<Held("extract", "dkp_prk"), Held("expand", "sk_bytes"), Safe("arr"),
        Safe("sk")>>
  BY DEF X25519
<1>2. /\ Yields(Safe("arr"), Own({}, {"dkp_prk", "sk_bytes"}),
                Own({}, {"dkp_prk", "sk_bytes", "arr"}))
      /\ Yields(Safe("sk"), Own({}, {"dkp_prk", "sk_bytes", "arr"}),
                Own({}, {"dkp_prk", "sk_bytes", "arr", "sk"}))
  BY DEF Yields, Own, Nothing, Join, Safe
<1>3. Yields(Held("extract", "dkp_prk"), Nothing, Own({}, {"dkp_prk"}))
  BY HeldYields DEF Reachable, Makers, Names, Own, Nothing, AsItIs
<1>4. Yields(Held("expand", "sk_bytes"), Own({}, {"dkp_prk"}),
             Own({}, {"dkp_prk", "sk_bytes"}))
  BY HeldYields DEF Reachable, Makers, Names, Own, Nothing, AsItIs
<1>5. /\ Only(Own({}, {"dkp_prk", "sk_bytes", "arr", "sk"}), {"sk"}) = Own({}, {"sk"})
      /\ Without(Own({}, {"dkp_prk", "sk_bytes", "arr", "sk"}), {"sk"}).bare = {}
  BY DEF Only, Without, Own, Nothing
<1> QED  BY <1>1, <1>2, <1>3, <1>4, <1>5, Straight4

\* The same on X448.
LEMMA KeepsX448Derive ==
    Keeps(Function(X448.derive, {"sk"}), Nothing, Own({}, {"sk"}))
<1>1. X448.derive =
        <<Held("extract", "prk"), Held("expand", "bytes"), Safe("arr"),
        Call("x448_mult_base"), Safe("sk")>>
  BY DEF X448
<1>2. /\ Yields(Safe("arr"), Own({}, {"prk", "bytes"}),
                Own({}, {"prk", "bytes", "arr"}))
      /\ Yields(Safe("sk"), Own({}, {"prk", "bytes", "arr"}),
                Own({}, {"prk", "bytes", "arr", "sk"}))
  BY DEF Yields, Own, Nothing, Join, Safe
<1>3. Yields(Held("extract", "prk"), Nothing, Own({}, {"prk"}))
  BY HeldYields DEF Reachable, Makers, Names, Own, Nothing, AsItIs
<1>4. Yields(Held("expand", "bytes"), Own({}, {"prk"}), Own({}, {"prk", "bytes"}))
  BY HeldYields DEF Reachable, Makers, Names, Own, Nothing, AsItIs
<1>5. Yields(Call("x448_mult_base"), Own({}, {"prk", "bytes", "arr"}),
             Own({}, {"prk", "bytes", "arr"}))
  BY CallYields DEF Reachable, Makers, Names, Gives, Own, Nothing
<1>6. /\ Only(Own({}, {"prk", "bytes", "arr", "sk"}), {"sk"}) = Own({}, {"sk"})
      /\ Without(Own({}, {"prk", "bytes", "arr", "sk"}), {"sk"}).bare = {}
  BY DEF Only, Without, Own, Nothing
<1> QED  BY <1>1, <1>2, <1>3, <1>4, <1>5, <1>6, Straight5

\* The NIST curves get a candidate in its wrapper.
LEMMA KeepsNistDerive ==
    Keeps(Function(Nist.derive, {"sk"}), Nothing, Own({}, {"sk"}))
<1>1. Nist.derive = <<Call("derive_p_curve_sk"), Check, Safe("sk")>>
  BY DEF Nist
<1>2. /\ Yields(Check, Own({}, {"bytes"}), Own({}, {"bytes"}))
      /\ Yields(Safe("sk"), Own({}, {"bytes"}), Own({}, {"bytes", "sk"}))
  BY DEF Yields, Own, Nothing, Join, Safe, Check
<1>3. Yields(Call("derive_p_curve_sk"), Nothing, Own({}, {"bytes"}))
  BY CallYields DEF Reachable, Makers, Names, Gives, Own, Nothing
<1>4. /\ Only(Own({}, {"bytes", "sk"}), {"sk"}) = Own({}, {"sk"})
      /\ Without(Own({}, {"bytes", "sk"}), {"sk"}).bare = {}
  BY DEF Only, Without, Own, Nothing
<1> QED  BY <1>1, <1>2, <1>3, <1>4, Straight3

\* dh.rs: the exchange is refused before it is copied out of its wrapper.
LEMMA KeepsSharedDh == Keeps(Function(X25519.dh, {"dh"}), Nothing, Own({"dh"}, {}))
<1>1. X25519.dh = <<Safe("shared"), Check, Bare("dh")>>
  BY DEF X25519
<1>2. /\ Yields(Safe("shared"), Nothing, Own({}, {"shared"}))
      /\ Yields(Check, Own({}, {"shared"}), Own({}, {"shared"}))
      /\ Yields(Bare("dh"), Own({}, {"shared"}), Own({"dh"}, {"shared"}))
  BY DEF Yields, Own, Nothing, Join, Bare, Safe, Check
<1>3. /\ Only(Own({"dh"}, {"shared"}), {"dh"}) = Own({"dh"}, {})
      /\ Without(Own({"dh"}, {"shared"}), {"dh"}).bare = {}
  BY DEF Only, Without, Own, Nothing
<1> QED  BY <1>1, <1>2, <1>3, Straight3

\* The same on X448, whose product is wrapped first.
LEMMA KeepsX448Dh == Keeps(Function(X448.dh, {"dh"}), Nothing, Own({"dh"}, {}))
<1>1. X448.dh = <<Held("x448_mult", "shared"), Check, Bare("dh")>>
  BY DEF X448
<1>2. /\ Yields(Check, Own({}, {"shared"}), Own({}, {"shared"}))
      /\ Yields(Bare("dh"), Own({}, {"shared"}), Own({"dh"}, {"shared"}))
  BY DEF Yields, Own, Nothing, Join, Bare, Check
<1>3. Yields(Held("x448_mult", "shared"), Nothing, Own({}, {"shared"}))
  BY HeldYields DEF Reachable, Makers, Names, Own, Nothing, AsItIs
<1>4. /\ Only(Own({"dh"}, {"shared"}), {"dh"}) = Own({"dh"}, {})
      /\ Without(Own({"dh"}, {"shared"}), {"dh"}).bare = {}
  BY DEF Only, Without, Own, Nothing
<1> QED  BY <1>1, <1>2, <1>3, <1>4, Straight3

\* dh.rs: bytes that are refused are refused before they are copied.
LEMMA KeepsMontgomeryLoad ==
    Keeps(Function(X25519.load, {"sk"}), Nothing, Own({}, {"sk"}))
<1>1. X25519.load = <<Check, Safe("arr"), Safe("sk"), Call("sk_to_pk")>>
  BY DEF X25519
<1>2. /\ Yields(Check, Nothing, Nothing)
      /\ Yields(Safe("arr"), Nothing, Own({}, {"arr"}))
      /\ Yields(Safe("sk"), Own({}, {"arr"}), Own({}, {"arr", "sk"}))
  BY DEF Yields, Own, Nothing, Join, Safe, Check
<1>3. Yields(Call("sk_to_pk"), Own({}, {"arr", "sk"}), Own({}, {"arr", "sk"}))
  BY CallYields DEF Reachable, Makers, Names, Gives, Own, Nothing
<1>4. /\ Only(Own({}, {"arr", "sk"}), {"sk"}) = Own({}, {"sk"})
      /\ Without(Own({}, {"arr", "sk"}), {"sk"}).bare = {}
  BY DEF Only, Without, Own, Nothing
<1> QED  BY <1>1, <1>2, <1>3, <1>4, Straight4

\* The same on the NIST curves.
LEMMA KeepsNistLoad == Keeps(Function(Nist.load, {"sk"}), Nothing, Own({}, {"sk"}))
<1>1. Nist.load = <<Check, Safe("sk"), Call("sk_to_pk")>>
  BY DEF Nist
<1>2. /\ Yields(Check, Nothing, Nothing)
      /\ Yields(Safe("sk"), Nothing, Own({}, {"sk"}))
  BY DEF Yields, Own, Nothing, Join, Safe, Check
<1>3. Yields(Call("sk_to_pk"), Own({}, {"sk"}), Own({}, {"sk"}))
  BY CallYields DEF Reachable, Makers, Names, Gives, Own, Nothing
<1>4. /\ Only(Own({}, {"sk"}), {"sk"}) = Own({}, {"sk"})
      /\ Without(Own({}, {"sk"}), {"sk"}).bare = {}
  BY DEF Only, Without, Own, Nothing
<1> QED  BY <1>1, <1>2, <1>3, <1>4, Straight3

\* dh.rs: an array that a key is saved into is wrapped, and so is its copy.
LEMMA KeepsSaveArray ==
    Keeps(Function(SaveArray, {"stored"}), Nothing, Own({}, {"stored"}))
<1>1. SaveArray =
        <<Bare("array"), Wrap("array", "bytes"), Bare("vec"), Wrap("vec",
        "stored")>>
  BY DEF SaveArray
<1>2. /\ Yields(Bare("array"), Nothing, Own({"array"}, {}))
      /\ Yields(Wrap("array", "bytes"), Own({"array"}, {}), Own({}, {"bytes"}))
      /\ Yields(Bare("vec"), Own({}, {"bytes"}), Own({"vec"}, {"bytes"}))
      /\ Yields(Wrap("vec", "stored"), Own({"vec"}, {"bytes"}),
                Own({}, {"bytes", "stored"}))
  BY DEF Yields, Own, Nothing, Join, Without, Bare, Wrap
<1>3. /\ Only(Own({}, {"bytes", "stored"}), {"stored"}) = Own({}, {"stored"})
      /\ Without(Own({}, {"bytes", "stored"}), {"stored"}).bare = {}
  BY DEF Only, Without, Own, Nothing
<1> QED  BY <1>1, <1>2, <1>3, Straight4

\* X448 and the post-quantum KEMs need no array.
LEMMA KeepsSaveVec ==
    Keeps(Function(X448.save, {"stored"}), Nothing, Own({}, {"stored"}))
<1>1. X448.save = <<Bare("vec"), Wrap("vec", "stored")>>
  BY DEF X448
<1>2. /\ Yields(Bare("vec"), Nothing, Own({"vec"}, {}))
      /\ Yields(Wrap("vec", "stored"), Own({"vec"}, {}), Own({}, {"stored"}))
  BY DEF Yields, Own, Nothing, Join, Without, Bare, Wrap
<1>3. /\ Only(Own({}, {"stored"}), {"stored"}) = Own({}, {"stored"})
      /\ Without(Own({}, {"stored"}), {"stored"}).bare = {}
  BY DEF Only, Without, Own, Nothing
<1> QED  BY <1>1, <1>2, <1>3, Straight2

\* X448 multiplies for the public key.
LEMMA KeepsX448SkToPk == Keeps(Function(X448.sk_to_pk, {}), Nothing, Nothing)
<1>1. X448.sk_to_pk = <<Call("x448_mult_base")>>
  BY DEF X448
<1>2. Yields(Call("x448_mult_base"), Nothing, Nothing)
  BY CallYields DEF Reachable, Makers, Names, Gives, Own, Nothing
<1>3. /\ Only(Nothing, {}) = Nothing
      /\ Without(Nothing, {}).bare = {}
  BY DEF Only, Without, Own, Nothing
<1> QED  BY <1>1, <1>2, <1>3, Straight1

\* The other curves make no buffer for it.
LEMMA KeepsNone == Keeps(Function(X25519.sk_to_pk, {}), Nothing, Nothing)
<1>1. X25519.sk_to_pk = <<>>
  BY DEF X25519
<1>3. /\ Only(Nothing, {}) = Nothing
      /\ Without(Nothing, {}).bare = {}
  BY DEF Only, Without, Own, Nothing
<1> QED  BY <1>1, <1>3, Straight0

\* dh.rs, the Kem.

\* dh.rs: extract_and_expand holds its PRK in a wrapper.
LEMMA KeepsExtractAndExpand == Keeps(ExtractAndExpand, Nothing, Own({"okm"}, {}))
<1>1. ExtractAndExpand =
        Function(<<Held("extract", "eae_prk"), Call("expand")>>, {"okm"})
  BY DEF ExtractAndExpand
<1>2. Yields(Held("extract", "eae_prk"), Nothing, Own({}, {"eae_prk"}))
  BY HeldYields DEF Reachable, Makers, Names, Own, Nothing, AsItIs
<1>3. Yields(Call("expand"), Own({}, {"eae_prk"}), Own({"okm"}, {"eae_prk"}))
  BY CallYields DEF Reachable, Makers, Names, Gives, Own, Nothing
<1>4. /\ Only(Own({"okm"}, {"eae_prk"}), {"okm"}) = Own({"okm"}, {})
      /\ Without(Own({"okm"}, {"eae_prk"}), {"okm"}).bare = {}
  BY DEF Only, Without, Own, Nothing
<1> QED  BY <1>1, <1>2, <1>3, <1>4, Straight2

\* dh.rs: whichever exchange fails, those before it are in wrappers.
LEMMA KeepsEncap ==
    ASSUME call.kem \in DhCurves
    PROVE  Keeps(Function(EncapWith(FALSE), {"ss"}), Nothing, Own({}, {"ss"}))
<1>1. EncapWith(FALSE) =
        <<Call("generate"), Held("dh", "dh1"), Held("extract_and_expand", "ss")>>
  BY DEF EncapWith
<1>2. Yields(Call("generate"), Nothing, Own({}, {"sk"}))
  BY CallYields DEF Reachable, Makers, Names, DhCurves, Gives, Own, Nothing, PrivateKey
<1>3. Yields(Held("dh", "dh1"), Own({}, {"sk"}), Own({}, {"sk", "dh1"}))
  BY HeldYields DEF Reachable, Makers, Names, Own, Nothing, AsItIs
<1>4. Yields(Held("extract_and_expand", "ss"), Own({}, {"sk", "dh1"}),
             Own({}, {"sk", "dh1", "ss"}))
  BY HeldYields DEF Reachable, Makers, Names, Own, Nothing, AsItIs
<1>5. /\ Only(Own({}, {"sk", "dh1", "ss"}), {"ss"}) = Own({}, {"ss"})
      /\ Without(Own({}, {"sk", "dh1", "ss"}), {"ss"}).bare = {}
  BY DEF Only, Without, Own, Nothing
<1> QED  BY <1>1, <1>2, <1>3, <1>4, <1>5, Straight3

\* The same with authentication.
LEMMA KeepsAuthEncap ==
    ASSUME call.kem \in DhCurves
    PROVE  Keeps(Function(EncapWith(TRUE), {"ss"}), Nothing, Own({}, {"ss"}))
<1>1. EncapWith(TRUE) =
        <<Call("generate"), Held("dh", "dh1"), Held("dh", "dh2"),
        Held("extract_and_expand", "ss")>>
  BY DEF EncapWith
<1>2. Yields(Call("generate"), Nothing, Own({}, {"sk"}))
  BY CallYields DEF Reachable, Makers, Names, DhCurves, Gives, Own, Nothing, PrivateKey
<1>3. Yields(Held("dh", "dh1"), Own({}, {"sk"}), Own({}, {"sk", "dh1"}))
  BY HeldYields DEF Reachable, Makers, Names, Own, Nothing, AsItIs
<1>4. Yields(Held("dh", "dh2"), Own({}, {"sk", "dh1"}),
             Own({}, {"sk", "dh1", "dh2"}))
  BY HeldYields DEF Reachable, Makers, Names, Own, Nothing, AsItIs
<1>5. Yields(Held("extract_and_expand", "ss"), Own({}, {"sk", "dh1", "dh2"}),
             Own({}, {"sk", "dh1", "dh2", "ss"}))
  BY HeldYields DEF Reachable, Makers, Names, Own, Nothing, AsItIs
<1>6. /\ Only(Own({}, {"sk", "dh1", "dh2", "ss"}), {"ss"}) = Own({}, {"ss"})
      /\ Without(Own({}, {"sk", "dh1", "dh2", "ss"}), {"ss"}).bare = {}
  BY DEF Only, Without, Own, Nothing
<1> QED  BY <1>1, <1>2, <1>3, <1>4, <1>5, <1>6, Straight4

\* The recipient's side.
LEMMA KeepsDecap ==
    ASSUME call.kem \in DhCurves
    PROVE  Keeps(Function(Decap, {"ss"}), Nothing, Own({}, {"ss"}))
<1>1. Decap = <<Check, Held("dh", "dh"), Held("extract_and_expand", "ss")>>
  BY DEF Decap
<1>2. Yields(Check, Nothing, Nothing)
  BY DEF Yields, Own, Nothing, Join, Check
<1>3. Yields(Held("dh", "dh"), Nothing, Own({}, {"dh"}))
  BY HeldYields DEF Reachable, Makers, Names, Own, Nothing, AsItIs
<1>4. Yields(Held("extract_and_expand", "ss"), Own({}, {"dh"}),
             Own({}, {"dh", "ss"}))
  BY HeldYields DEF Reachable, Makers, Names, Own, Nothing, AsItIs
<1>5. /\ Only(Own({}, {"dh", "ss"}), {"ss"}) = Own({}, {"ss"})
      /\ Without(Own({}, {"dh", "ss"}), {"ss"}).bare = {}
  BY DEF Only, Without, Own, Nothing
<1> QED  BY <1>1, <1>2, <1>3, <1>4, <1>5, Straight3

\* And its side with authentication.
LEMMA KeepsAuthDecap ==
    ASSUME call.kem \in DhCurves
    PROVE  Keeps(Function(AuthDecap, {"ss"}), Nothing, Own({}, {"ss"}))
<1>1. AuthDecap =
        <<Check, Held("dh", "dh1"), Held("dh", "dh2"), Held("extract_and_expand",
        "ss")>>
  BY DEF AuthDecap
<1>2. Yields(Check, Nothing, Nothing)
  BY DEF Yields, Own, Nothing, Join, Check
<1>3. Yields(Held("dh", "dh1"), Nothing, Own({}, {"dh1"}))
  BY HeldYields DEF Reachable, Makers, Names, Own, Nothing, AsItIs
<1>4. Yields(Held("dh", "dh2"), Own({}, {"dh1"}), Own({}, {"dh1", "dh2"}))
  BY HeldYields DEF Reachable, Makers, Names, Own, Nothing, AsItIs
<1>5. Yields(Held("extract_and_expand", "ss"), Own({}, {"dh1", "dh2"}),
             Own({}, {"dh1", "dh2", "ss"}))
  BY HeldYields DEF Reachable, Makers, Names, Own, Nothing, AsItIs
<1>6. /\ Only(Own({}, {"dh1", "dh2", "ss"}), {"ss"}) = Own({}, {"ss"})
      /\ Without(Own({}, {"dh1", "dh2", "ss"}), {"ss"}).bare = {}
  BY DEF Only, Without, Own, Nothing
<1> QED  BY <1>1, <1>2, <1>3, <1>4, <1>5, <1>6, Straight4

\* pq.rs

\* pq.rs: the seed that comes by value ends in the private key.
LEMMA KeepsXWingFromSeed == Keeps(XWingFromSeed, Nothing, Own({}, {"seed", "dk"}))
<1>1. XWingFromSeed =
        Function(<<Bare("arg"), Safe("dk"), Wrap("arg", "seed")>>, {"seed", "dk"})
  BY DEF XWingFromSeed
<1>2. /\ Yields(Bare("arg"), Nothing, Own({"arg"}, {}))
      /\ Yields(Safe("dk"), Own({"arg"}, {}), Own({"arg"}, {"dk"}))
      /\ Yields(Wrap("arg", "seed"), Own({"arg"}, {"dk"}), Own({}, {"dk", "seed"}))
  BY DEF Yields, Own, Nothing, Join, Without, Bare, Safe, Wrap
<1>3. /\ Only(Own({}, {"dk", "seed"}), {"seed", "dk"}) = Own({}, {"seed", "dk"})
      /\ Without(Own({}, {"dk", "seed"}), {"seed", "dk"}).bare = {}
  BY DEF Only, Without, Own, Nothing
<1> QED  BY <1>1, <1>2, <1>3, Straight3

\* pq.rs:521: so it does for ML-KEM, and the copy that is left bare is ml_seed.
LEMMA KeepsMlKemFromSeed ==
    ASSUME MakesMlKemKey
    PROVE  Keeps(MlKemFromSeed, Nothing, Own({}, {"seed", "dk"}))
<1> DEFINE end == Own({"ml_seed"}, {"dk", "seed"})
<1>1. MlKemFromSeed =
        Function(<<Bare("arg"), Bare("ml_seed"), Safe("dk"), Wrap("arg", "seed")>>,
        {"seed", "dk"})
  BY DEF MlKemFromSeed
<1>2. /\ Yields(Bare("arg"), Nothing, Own({"arg"}, {}))
      /\ Yields(Bare("ml_seed"), Own({"arg"}, {}), Own({"arg", "ml_seed"}, {}))
      /\ Yields(Safe("dk"), Own({"arg", "ml_seed"}, {}),
                Own({"arg", "ml_seed"}, {"dk"}))
      /\ Yields(Wrap("arg", "seed"), Own({"arg", "ml_seed"}, {"dk"}), end)
  BY DEF Yields, Own, Nothing, Join, Without, Bare, Safe, Wrap
<1>3. /\ Only(end, {"seed", "dk"}) = Own({}, {"seed", "dk"})
      /\ Without(end, {"seed", "dk"}).bare \subseteq Unscrubbed
  BY DEF Only, Without, Own, Unscrubbed
<1> HIDE DEF end
<1> QED  BY <1>1, <1>2, <1>3, Straight4

\* pq.rs: generation.
LEMMA KeepsPqGenerate ==
    ASSUME "from_seed" \in Reachable
    PROVE  Keeps(Function(XWing.generate, {"seed", "dk"}),
                 Nothing, Own({}, {"seed", "dk"}))
<1>1. XWing.generate = <<Safe("staged"), Call("from_seed")>>
  BY DEF XWing
<1>2. Yields(Safe("staged"), Nothing, Own({}, {"staged"}))
  BY DEF Yields, Own, Nothing, Join, Safe
<1>3. Yields(Call("from_seed"), Own({}, {"staged"}),
             Own({}, {"staged", "dk", "seed"}))
  BY CallYields DEF Gives, Own, Nothing
<1>4. /\ Only(Own({}, {"staged", "dk", "seed"}), {"seed", "dk"}) =
           Own({}, {"seed", "dk"})
      /\ Without(Own({}, {"staged", "dk", "seed"}), {"seed", "dk"}).bare = {}
  BY DEF Only, Without, Own, Nothing
<1> QED  BY <1>1, <1>2, <1>3, <1>4, Straight2

\* pq.rs: derivation.
LEMMA KeepsPqDerive ==
    ASSUME "from_seed" \in Reachable
    PROVE  Keeps(Function(XWing.derive, {"seed", "dk"}),
                 Nothing, Own({}, {"seed", "dk"}))
<1>1. XWing.derive = <<Safe("staged"), Check, Call("from_seed")>>
  BY DEF XWing
<1>2. /\ Yields(Safe("staged"), Nothing, Own({}, {"staged"}))
      /\ Yields(Check, Own({}, {"staged"}), Own({}, {"staged"}))
  BY DEF Yields, Own, Nothing, Join, Safe, Check
<1>3. Yields(Call("from_seed"), Own({}, {"staged"}),
             Own({}, {"staged", "dk", "seed"}))
  BY CallYields DEF Gives, Own, Nothing
<1>4. /\ Only(Own({}, {"staged", "dk", "seed"}), {"seed", "dk"}) =
           Own({}, {"seed", "dk"})
      /\ Without(Own({}, {"staged", "dk", "seed"}), {"seed", "dk"}).bare = {}
  BY DEF Only, Without, Own, Nothing
<1> QED  BY <1>1, <1>2, <1>3, <1>4, Straight3

\* pq.rs: X-Wing's private key from its bytes.
LEMMA KeepsXWingLoad ==
    Keeps(Function(XWing.load, {"seed", "dk"}), Nothing, Own({}, {"seed", "dk"}))
<1>1. XWing.load = <<Check, Safe("staged"), Safe("dk"), Safe("seed")>>
  BY DEF XWing
<1>2. /\ Yields(Check, Nothing, Nothing)
      /\ Yields(Safe("staged"), Nothing, Own({}, {"staged"}))
      /\ Yields(Safe("dk"), Own({}, {"staged"}), Own({}, {"staged", "dk"}))
      /\ Yields(Safe("seed"), Own({}, {"staged", "dk"}),
                Own({}, {"staged", "dk", "seed"}))
  BY DEF Yields, Own, Nothing, Join, Safe, Check
<1>3. /\ Only(Own({}, {"staged", "dk", "seed"}), {"seed", "dk"}) =
           Own({}, {"seed", "dk"})
      /\ Without(Own({}, {"staged", "dk", "seed"}), {"seed", "dk"}).bare = {}
  BY DEF Only, Without, Own, Nothing
<1> QED  BY <1>1, <1>2, <1>3, Straight4

\* pq.rs: ML-KEM's.
LEMMA KeepsMlKemLoad ==
    ASSUME "from_seed" \in Reachable
    PROVE  Keeps(Function(MlKem.load, {"seed", "dk"}),
                 Nothing, Own({}, {"seed", "dk"}))
<1>1. MlKem.load = <<Check, Safe("staged"), Call("from_seed")>>
  BY DEF MlKem
<1>2. /\ Yields(Check, Nothing, Nothing)
      /\ Yields(Safe("staged"), Nothing, Own({}, {"staged"}))
  BY DEF Yields, Own, Nothing, Join, Safe, Check
<1>3. Yields(Call("from_seed"), Own({}, {"staged"}),
             Own({}, {"staged", "dk", "seed"}))
  BY CallYields DEF Gives, Own, Nothing
<1>4. /\ Only(Own({}, {"staged", "dk", "seed"}), {"seed", "dk"}) =
           Own({}, {"seed", "dk"})
      /\ Without(Own({}, {"staged", "dk", "seed"}), {"seed", "dk"}).bare = {}
  BY DEF Only, Without, Own, Nothing
<1> QED  BY <1>1, <1>2, <1>3, <1>4, Straight3

\* pq.rs: the upstream secret is scrubbed once it is copied.
LEMMA KeepsPqEncap == Keeps(Function(PqEncap, {"ss"}), Nothing, Own({}, {"ss"}))
<1>1. PqEncap =
        <<Bare("upstream"), Bare("ss_bytes"), Scrub("upstream"), Wrap("ss_bytes",
        "ss")>>
  BY DEF PqEncap
<1>2. /\ Yields(Bare("upstream"), Nothing, Own({"upstream"}, {}))
      /\ Yields(Bare("ss_bytes"), Own({"upstream"}, {}),
                Own({"upstream", "ss_bytes"}, {}))
      /\ Yields(Scrub("upstream"), Own({"upstream", "ss_bytes"}, {}),
                Own({"ss_bytes"}, {}))
      /\ Yields(Wrap("ss_bytes", "ss"), Own({"ss_bytes"}, {}), Own({}, {"ss"}))
  BY DEF Yields, Own, Nothing, Join, Without, Bare, Wrap, Scrub
<1>3. /\ Only(Own({}, {"ss"}), {"ss"}) = Own({}, {"ss"})
      /\ Without(Own({}, {"ss"}), {"ss"}).bare = {}
  BY DEF Only, Without, Own, Nothing
<1> QED  BY <1>1, <1>2, <1>3, Straight4

\* The same for the recipient, after both refusals.
LEMMA KeepsPqDecap == Keeps(Function(PqDecap, {"ss"}), Nothing, Own({}, {"ss"}))
<1>1. PqDecap =
        <<Check, Check, Bare("upstream"), Bare("ss_bytes"), Scrub("upstream"),
        Wrap("ss_bytes", "ss")>>
  BY DEF PqDecap
<1>2. /\ Yields(Check, Nothing, Nothing)
      /\ Yields(Check, Nothing, Nothing)
      /\ Yields(Bare("upstream"), Nothing, Own({"upstream"}, {}))
      /\ Yields(Bare("ss_bytes"), Own({"upstream"}, {}),
                Own({"upstream", "ss_bytes"}, {}))
      /\ Yields(Scrub("upstream"), Own({"upstream", "ss_bytes"}, {}),
                Own({"ss_bytes"}, {}))
      /\ Yields(Wrap("ss_bytes", "ss"), Own({"ss_bytes"}, {}), Own({}, {"ss"}))
  BY DEF Yields, Own, Nothing, Join, Without, Bare, Wrap, Scrub, Check
<1>3. /\ Only(Own({}, {"ss"}), {"ss"}) = Own({}, {"ss"})
      /\ Without(Own({}, {"ss"}), {"ss"}).bare = {}
  BY DEF Only, Without, Own, Nothing
<1> QED  BY <1>1, <1>2, <1>3, Straight6

\* context.rs and lib.rs

\* context.rs: the exporter secret that comes by value ends in the context.
LEMMA KeepsContextNew ==
    Keeps(ContextNew, Own({}, {"exporter_secret"}), Own({}, ContextSecrets))
<1>1. ContextNew = Function(<<Check, Safe("cipher"), Safe("nonce")>>, ContextSecrets)
  BY DEF ContextNew, ContextSecrets
<1>2. /\ Yields(Check, Own({}, {"exporter_secret"}), Own({}, {"exporter_secret"}))
      /\ Yields(Safe("cipher"), Own({}, {"exporter_secret"}),
                Own({}, {"exporter_secret", "cipher"}))
      /\ Yields(Safe("nonce"), Own({}, {"exporter_secret", "cipher"}),
                Own({}, {"exporter_secret", "cipher", "nonce"}))
  BY DEF Yields, Own, Nothing, Join, Safe, Check
<1>3. /\ Only(Own({}, {"exporter_secret", "cipher", "nonce"}), ContextSecrets) =
           Own({}, ContextSecrets)
      /\ Without(Own({}, {"exporter_secret", "cipher", "nonce"}), ContextSecrets).bare = {}
  BY DEF Only, Without, Own, Nothing, ContextSecrets
<1> QED  BY <1>1, <1>2, <1>3, Straight3

\* context.rs: a message's nonce is in a wrapper when the AEAD fails.
LEMMA KeepsContextSeal == Keeps(ContextSeal, Nothing, Nothing)
<1>1. ContextSeal =
        Function(<<Check, Bare("array"), Wrap("array", "message_nonce"), Check>>,
        {})
  BY DEF ContextSeal
<1>2. /\ Yields(Check, Nothing, Nothing)
      /\ Yields(Bare("array"), Nothing, Own({"array"}, {}))
      /\ Yields(Wrap("array", "message_nonce"), Own({"array"}, {}),
                Own({}, {"message_nonce"}))
      /\ Yields(Check, Own({}, {"message_nonce"}), Own({}, {"message_nonce"}))
  BY DEF Yields, Own, Nothing, Join, Without, Bare, Wrap, Check
<1>3. /\ Only(Own({}, {"message_nonce"}), {}) = Nothing
      /\ Without(Own({}, {"message_nonce"}), {}).bare = {}
  BY DEF Only, Without, Own, Nothing
<1> QED  BY <1>1, <1>2, <1>3, Straight4

\* lib.rs: the key schedule holds all that it derives in wrappers.
LEMMA KeepsKeySchedulePskFree ==
    Keeps(KeySchedulePskFree, Nothing, Own({}, ContextSecrets))
<1> DEFINE used == {"secret", "key", "base_nonce"}
           end  == used \cup ContextSecrets
<1>1. KeySchedulePskFree =
        Function(<<Held("extract", "secret"), Held("expand", "key"),
                   Held("expand", "base_nonce"), Held("expand", "exporter_secret"),
                   CallMoving("context_new", {"exporter_secret"})>>, ContextSecrets)
  BY DEF KeySchedulePskFree, ContextNew, Function
<1>2. Yields(Held("extract", "secret"), Nothing, Own({}, {"secret"}))
  BY HeldYields DEF Reachable, Makers, Names, Own, Nothing, AsItIs
<1>3. Yields(Held("expand", "key"), Own({}, {"secret"}), Own({}, {"secret", "key"}))
  BY HeldYields DEF Reachable, Makers, Names, Own, Nothing, AsItIs
<1>4. Yields(Held("expand", "base_nonce"), Own({}, {"secret", "key"}),
             Own({}, used))
  BY HeldYields DEF Reachable, Makers, Names, Own, Nothing, AsItIs
<1>5. Yields(Held("expand", "exporter_secret"), Own({}, used),
             Own({}, used \cup {"exporter_secret"}))
  BY HeldYields DEF Reachable, Makers, Names, Own, Nothing, AsItIs
<1>6. Yields(CallMoving("context_new", {"exporter_secret"}),
             Own({}, used \cup {"exporter_secret"}), Own({}, end))
  <2> DEFINE call_new == CallMoving("context_new", {"exporter_secret"})
             before   == Own({}, used \cup {"exporter_secret"})
  <2>1. /\ call_new.op = "call" /\ call_new.f = "context_new"
        /\ call_new.moved = {"exporter_secret"} /\ call_new.into = AsItIs
    BY DEF CallMoving, CallInto
  <2>2. /\ "context_new" \in Reachable
        /\ Takes["context_new"] = Own({}, {"exporter_secret"})
        /\ Gives["context_new"] = Own({}, ContextSecrets)
    BY DEF Reachable, Makers, Names, Takes, Gives
  <2>3. /\ Without(before, {"exporter_secret"}) = Own({}, used)
        /\ Only(before, {"exporter_secret"}) = Own({}, {"exporter_secret"})
        /\ Own({}, used).bare = {}
    BY DEF Without, Only, Own
  <2>4. Join(Own({}, used), Received(Own({}, ContextSecrets), call_new)) = Own({}, end)
    BY <2>1 DEF Join, Received, Own
  <2> HIDE DEF call_new, before, end, used
  <2> QED  BY <2>1, <2>2, <2>3, <2>4 DEF Yields, call_new, before
<1>7. /\ Only(Own({}, end), ContextSecrets) = Own({}, ContextSecrets)
      /\ Without(Own({}, end), ContextSecrets).bare = {}
  BY DEF Only, Without, Own, ContextSecrets
<1> QED  BY <1>1, <1>2, <1>3, <1>4, <1>5, <1>6, <1>7, Straight5

\* The same with a PSK.
LEMMA KeepsKeySchedulePsk ==
    Keeps(KeySchedulePsk, Nothing, Own({}, ContextSecrets))
<1>1. KeySchedulePsk = KeySchedulePskFree
  BY DEF KeySchedulePsk, KeySchedulePskFree
<1> QED  BY <1>1, KeepsKeySchedulePskFree

\* lib.rs: a single-shot call drops its context.
LEMMA KeepsSealOrOpen == Keeps(SealOrOpen, Nothing, Nothing)
<1>1. SealOrOpen = Function(<<Call("setup"), Call("context_seal")>>, {})
  BY DEF SealOrOpen
<1>2. Yields(Call("setup"), Nothing,
             Own({}, {"cipher", "exporter_secret", "nonce"}))
  BY CallYields DEF Reachable, Makers, Names, Gives, Own, Nothing, ContextSecrets
<1>3. Yields(Call("context_seal"), Own({}, {"cipher", "exporter_secret", "nonce"}),
             Own({}, {"cipher", "exporter_secret", "nonce"}))
  BY CallYields DEF Reachable, Makers, Names, Gives, Own, Nothing
<1>4. /\ Only(Own({}, {"cipher", "exporter_secret", "nonce"}), {}) = Nothing
      /\ Without(Own({}, {"cipher", "exporter_secret", "nonce"}), {}).bare = {}
  BY DEF Only, Without, Own, Nothing
<1> QED  BY <1>1, <1>2, <1>3, <1>4, Straight2

\* lib.rs: a single-shot export drops it too and returns the output bare.
LEMMA KeepsExport == Keeps(Export, Nothing, Own({"okm"}, {}))
<1>1. Export = Function(<<Call("setup"), Call("expand")>>, {"okm"})
  BY DEF Export
<1>2. Yields(Call("setup"), Nothing,
             Own({}, {"cipher", "exporter_secret", "nonce"}))
  BY CallYields DEF Reachable, Makers, Names, Gives, Own, Nothing, ContextSecrets
<1>3. Yields(Call("expand"), Own({}, {"cipher", "exporter_secret", "nonce"}),
             Own({"okm"}, {"cipher", "exporter_secret", "nonce"}))
  BY CallYields DEF Reachable, Makers, Names, Gives, Own, Nothing
<1>4. /\ Only(Own({"okm"}, {"cipher", "exporter_secret", "nonce"}), {"okm"}) =
           Own({"okm"}, {})
      /\ Without(Own({"okm"}, {"cipher", "exporter_secret", "nonce"}), {"okm"}).bare = {}
  BY DEF Only, Without, Own, Nothing
<1> QED  BY <1>1, <1>2, <1>3, <1>4, Straight2

\* lib.rs: a set-up drops the KEM's secret.
LEMMA KeepsSetup ==
    ASSUME NEW kem \in {"encap", "decap"},
           NEW ks \in {"key_schedule_psk", "key_schedule_psk_free"}
    PROVE  Keeps(Function(<<Call(kem), Call(ks)>>, ContextSecrets),
                 Nothing, Own({}, ContextSecrets))
<1> DEFINE all == {"ss"} \cup ContextSecrets
<1>1. kem \in Reachable /\ ks \in Reachable /\ Takes[kem] = Nothing /\ Takes[ks] = Nothing
  BY DEF Reachable, Makers, Names, Takes
<1>2. Gives[kem] = Own({}, {"ss"}) /\ Gives[ks] = Own({}, ContextSecrets)
  BY DEF Gives
<1>3. Yields(Call(kem), Nothing, Own({}, {"ss"}))
  BY <1>1, <1>2 DEF Yields, Own, Nothing, Join, Without, Only, Received, CallInto, Call
<1>4. Yields(Call(ks), Own({}, {"ss"}), Own({}, all))
  BY <1>1, <1>2 DEF Yields, Own, Nothing, Join, Without, Only, Received, CallInto, Call
<1>5. /\ Only(Own({}, all), ContextSecrets) = Own({}, ContextSecrets)
      /\ Without(Own({}, all), ContextSecrets).bare = {}
  BY DEF Only, Without, Own, ContextSecrets
<1> QED  BY <1>3, <1>4, <1>5, Straight2

\* The retries: whichever candidate is refused, the next one starts from the same
\* buffers.
LEMMA KeepsDerivePCurveSk == Keeps(DerivePCurveSk, Nothing, Own({}, {"bytes"}))
<1> DEFINE body == <<Held("extract", "dkp_prk"), Held("expand", "bytes"),
                     Retry("bytes", 2), Raise>>
           prk  == Own({}, {"dkp_prk"})
           both == Own({}, {"dkp_prk", "bytes"})
           ann  == <<Nothing, prk, both, prk, both>>
<1>1. /\ Yields(Held("extract", "dkp_prk"), Nothing, prk)
      /\ Yields(Held("expand", "bytes"), prk, both)
  BY DEF Yields, Own, Nothing, Join, Without, Only, Reachable, Makers, Names, Takes, Gives,
         Received, AsItIs, CallInto, Held
<1>2. Without(both, {"bytes"}) = prk /\ both.bare = {} /\ prk.bare = {}
  BY DEF Without, Own
<1>3. /\ Only(both, {"bytes"}) = Own({}, {"bytes"})
      /\ Without(both, {"bytes"}).bare = {}
  BY DEF Only, Without, Own
<1>4. /\ Retry("bytes", 2).op = "retry" /\ Retry("bytes", 2).b = "bytes"
      /\ Retry("bytes", 2).to = 2 /\ Raise.op = "raise"
  BY DEF Retry, Raise
<1>5. DerivePCurveSk = Function(body, {"bytes"})
  BY DEF DerivePCurveSk
<1>6. /\ Len(body) = 4
      /\ body[1] = Held("extract", "dkp_prk") /\ body[2] = Held("expand", "bytes")
      /\ body[3] = Retry("bytes", 2) /\ body[4] = Raise
  OBVIOUS
<1>7. ann[1] = Nothing /\ ann[2] = prk /\ ann[3] = both /\ ann[4] = prk /\ ann[5] = both
  OBVIOUS
<1> HIDE DEF body, prk, both, ann
<1>8. Follows(body, 1, ann) /\ Follows(body, 2, ann)
  BY <1>1, <1>6, <1>7 DEF Follows
<1>9. Follows(body, 3, ann)
  BY <1>2, <1>4, <1>6, <1>7 DEF Follows
<1>10. Follows(body, 4, ann)
  BY <1>2, <1>4, <1>6, <1>7 DEF Follows
<1>11. \A n \in 1 .. 4 : Follows(body, n, ann)
  BY <1>8, <1>9, <1>10
<1>12. /\ Only(ann[4 + 1], {"bytes"}) = Own({}, {"bytes"})
       /\ Without(ann[4 + 1], {"bytes"}).bare = {}
  BY <1>3, <1>7
<1>13. Outlines(ann, Function(body, {"bytes"}), Nothing, Own({}, {"bytes"}))
  BY <1>6, <1>7, <1>11, <1>12, OutlineOf
<1> QED  BY <1>5, <1>13 DEF Keeps

----------------------------------------------------------------------------
\* Every function keeps its contract, whatever is called.

\* What the type parameters make of the functions: a curve, and a post-quantum KEM.
LEMMA OfDh ==
    ASSUME NEW curve, call.kem \in DhCurves, Curve[call.kem] = curve
    PROVE  /\ Functions["generate"] = Function(curve.generate, {"sk"})
           /\ Functions["derive_key_pair"] = Function(curve.derive, {"sk"})
           /\ Functions["sk_from_bytes"] = Function(curve.load, {"sk"})
           /\ Functions["sk_to_bytes"] = Function(curve.save, {"stored"})
           /\ Functions["dh"] = Function(curve.dh, {"dh"})
           /\ Functions["sk_to_pk"] = Function(curve.sk_to_pk, {})
           /\ Functions["encap"] = Function(EncapWith(IsAuth(call.mode)), {"ss"})
           /\ Functions["decap"] =
                Function(IF IsAuth(call.mode) THEN AuthDecap ELSE Decap, {"ss"})
<1>1. K = DhKem(curve, IsAuth(call.mode))
  BY DEF K, DhCurves
<1>2. /\ K.generate = curve.generate /\ K.derive = curve.derive
      /\ K.load = curve.load /\ K.save = curve.save
      /\ K.encap = EncapWith(IsAuth(call.mode))
      /\ K.decap = IF IsAuth(call.mode) THEN AuthDecap ELSE Decap
  BY <1>1 DEF DhKem
<1>3. PrivateKey(call.kem) = {"sk"}
  BY DEF PrivateKey
<1>4. /\ OfCurve("dh", {"dh"}) = Function(curve["dh"], {"dh"})
      /\ OfCurve("sk_to_pk", {}) = Function(curve["sk_to_pk"], {})
  BY DEF OfCurve
<1> QED  BY <1>2, <1>3, <1>4 DEF Functions

\* The methods of a post-quantum KEM.
LEMMA OfPq ==
    ASSUME NEW kem,
           \/ call.kem = "XWing" /\ kem = XWing
           \/ call.kem = "MlKem" /\ kem = MlKem
    PROVE  /\ Functions["generate"] = Function(kem.generate, {"seed", "dk"})
           /\ Functions["derive_key_pair"] = Function(kem.derive, {"seed", "dk"})
           /\ Functions["sk_from_bytes"] = Function(kem.load, {"seed", "dk"})
           /\ Functions["sk_to_bytes"] = Function(kem.save, {"stored"})
           /\ Functions["dh"] = Function(<<>>, {"dh"})
           /\ Functions["sk_to_pk"] = Function(<<>>, {})
           /\ Functions["encap"] = Function(PqEncap, {"ss"})
           /\ Functions["decap"] = Function(PqDecap, {"ss"})
<1>1. K = kem
  BY DEF K, DhCurves
<1>2. kem.encap = PqEncap /\ kem.decap = PqDecap
  BY DEF XWing, MlKem
<1>3. PrivateKey(call.kem) = {"seed", "dk"}
  BY DEF PrivateKey, DhCurves
<1>4. /\ OfCurve("dh", {"dh"}) = Function(<<>>, {"dh"})
      /\ OfCurve("sk_to_pk", {}) = Function(<<>>, {})
  BY DEF OfCurve, DhCurves
<1> QED  BY <1>1, <1>2, <1>3, <1>4 DEF Functions

Methods == {"generate", "derive_key_pair", "sk_from_bytes", "sk_to_bytes",
            "dh", "sk_to_pk", "encap", "decap"}

\* A curve whose methods keep their contracts makes a Kem that does.
LEMMA DhContracts ==
    ASSUME NEW curve, call.kem \in DhCurves, Curve[call.kem] = curve,
           Keeps(Function(curve.generate, {"sk"}), Nothing, Own({}, {"sk"})),
           Keeps(Function(curve.derive, {"sk"}), Nothing, Own({}, {"sk"})),
           Keeps(Function(curve.load, {"sk"}), Nothing, Own({}, {"sk"})),
           Keeps(Function(curve.save, {"stored"}), Nothing, Own({}, {"stored"})),
           Keeps(Function(curve.dh, {"dh"}), Nothing, Own({"dh"}, {})),
           Keeps(Function(curve.sk_to_pk, {}), Nothing, Nothing)
    PROVE  \A f \in Methods : KeepsContract(f)
<1>1. PrivateKey(call.kem) = {"sk"}
  BY DEF PrivateKey
<1>2. /\ Gives["generate"] = Own({}, {"sk"})
      /\ Gives["derive_key_pair"] = Own({}, {"sk"})
      /\ Gives["sk_from_bytes"] = Own({}, {"sk"})
      /\ Gives["sk_to_bytes"] = Own({}, {"stored"})
      /\ Gives["dh"] = Own({"dh"}, {}) /\ Gives["sk_to_pk"] = Nothing
      /\ Gives["encap"] = Own({}, {"ss"}) /\ Gives["decap"] = Own({}, {"ss"})
  BY <1>1 DEF Gives
<1>3. \A f \in Methods : Takes[f] = Nothing
  BY DEF Takes, Methods, Names
<1>4. /\ KeepsContract("generate") /\ KeepsContract("derive_key_pair")
      /\ KeepsContract("sk_from_bytes") /\ KeepsContract("sk_to_bytes")
      /\ KeepsContract("dh") /\ KeepsContract("sk_to_pk")
  BY <1>2, <1>3, OfDh DEF KeepsContract, Methods
<1>5. KeepsContract("encap")
  <2>1. CASE IsAuth(call.mode)
    BY <1>2, <1>3, <2>1, OfDh, KeepsAuthEncap DEF KeepsContract, Methods, EncapWith
  <2>2. CASE ~IsAuth(call.mode)
    BY <1>2, <1>3, <2>2, OfDh, KeepsEncap DEF KeepsContract, Methods, EncapWith
  <2> QED  BY <2>1, <2>2
<1>6. KeepsContract("decap")
  BY <1>2, <1>3, OfDh, KeepsDecap, KeepsAuthDecap DEF KeepsContract, Methods
<1> QED  BY <1>4, <1>5, <1>6 DEF Methods

\* They keep their contracts.
LEMMA PqContracts ==
    ASSUME NEW kem,
           \/ call.kem = "XWing" /\ kem = XWing
           \/ call.kem = "MlKem" /\ kem = MlKem
    PROVE  \A f \in Methods \cap Reachable : KeepsContract(f)
<1>1. PrivateKey(call.kem) = {"seed", "dk"} /\ call.kem \notin DhCurves
  BY DEF PrivateKey, DhCurves
<1>2. /\ Gives["generate"] = Own({}, {"seed", "dk"})
      /\ Gives["derive_key_pair"] = Own({}, {"seed", "dk"})
      /\ Gives["sk_from_bytes"] = Own({}, {"seed", "dk"})
      /\ Gives["sk_to_bytes"] = Own({}, {"stored"})
      /\ Gives["dh"] = Nothing /\ Gives["sk_to_pk"] = Nothing
      /\ Gives["encap"] = Own({}, {"ss"}) /\ Gives["decap"] = Own({}, {"ss"})
  BY <1>1 DEF Gives
<1>3. \A f \in Methods : Takes[f] = Nothing
  BY DEF Takes, Methods, Names
<1>4. /\ kem.generate = XWing.generate /\ kem.derive = XWing.derive
      /\ kem.save = X448.save
      /\ kem = XWing \/ kem = MlKem
  BY DEF XWing, MlKem, X448
<1>5. Keeps(Function(<<>>, {"dh"}), Nothing, Nothing)
  <2>1. Only(Nothing, {"dh"}) = Nothing /\ Without(Nothing, {"dh"}).bare = {}
    BY DEF Only, Without, Own, Nothing
  <2> QED  BY <2>1, Straight0
<1>6. Keeps(Function(<<>>, {}), Nothing, Nothing)
  BY KeepsNone DEF X25519
<1>7. ASSUME "from_seed" \in Reachable
      PROVE  /\ KeepsContract("generate") /\ KeepsContract("derive_key_pair")
             /\ KeepsContract("sk_from_bytes")
  <2>1. KeepsContract("generate") /\ KeepsContract("derive_key_pair")
    BY <1>2, <1>3, <1>4, <1>7, OfPq, KeepsPqGenerate, KeepsPqDerive
    DEF KeepsContract, Methods
  <2>2. KeepsContract("sk_from_bytes")
    BY <1>2, <1>3, <1>4, <1>7, OfPq, KeepsXWingLoad, KeepsMlKemLoad
    DEF KeepsContract, Methods
  <2> QED  BY <2>1, <2>2
<1>8. "from_seed" \in Reachable \/ Makers \cap Reachable = {}
  BY DEF Reachable, Makers, Names
<1>9. KeepsContract("sk_to_bytes")
  BY <1>2, <1>3, <1>4, OfPq, KeepsSaveVec DEF KeepsContract, Methods
<1>10. KeepsContract("dh") /\ KeepsContract("sk_to_pk")
  BY <1>2, <1>3, <1>5, <1>6, OfPq DEF KeepsContract, Methods
<1>11. KeepsContract("encap") /\ KeepsContract("decap")
  BY <1>2, <1>3, OfPq, KeepsPqEncap, KeepsPqDecap DEF KeepsContract, Methods
<1> QED  BY <1>7, <1>8, <1>9, <1>10, <1>11 DEF Methods, Makers

\* So every KEM's methods do.
LEMMA KemContracts ==
    ASSUME Called
    PROVE  \A f \in Methods \cap Reachable : KeepsContract(f)
<1>1. call.kem \in DhCurves \cup PqKems
  BY ScrubbingAssumption DEF Called
<1>2. CASE call.kem = "X25519"
  <2>1. call.kem \in DhCurves /\ Curve[call.kem] = X25519
    BY <1>2 DEF DhCurves, Curve
  <2>2. X25519.save = SaveArray
    BY DEF X25519
  <2> QED  BY <2>1, <2>2, DhContracts, KeepsX25519Generate, KeepsX25519Derive,
              KeepsMontgomeryLoad, KeepsSaveArray, KeepsSharedDh, KeepsNone
<1>3. CASE call.kem = "X448"
  <2>1. call.kem \in DhCurves /\ Curve[call.kem] = X448
    BY <1>3 DEF DhCurves, Curve
  <2>2. X448.load = X25519.load
    BY DEF X448, X25519
  <2> QED  BY <2>1, <2>2, DhContracts, KeepsX448Generate, KeepsX448Derive,
              KeepsMontgomeryLoad, KeepsSaveVec, KeepsX448Dh, KeepsX448SkToPk
<1>4. CASE call.kem = "NIST"
  <2>1. call.kem \in DhCurves /\ Curve[call.kem] = Nist
    BY <1>4 DEF DhCurves, Curve
  <2>2. Nist.save = SaveArray /\ Nist.dh = X25519.dh /\ Nist.sk_to_pk = X25519.sk_to_pk
    BY DEF Nist, X25519
  <2> QED  BY <2>1, <2>2, DhContracts, KeepsNistGenerate, KeepsNistDerive,
              KeepsNistLoad, KeepsSaveArray, KeepsSharedDh, KeepsNone
<1>5. CASE call.kem \in PqKems
  BY <1>5, PqContracts DEF PqKems
<1> QED  BY <1>1, <1>2, <1>3, <1>4, <1>5 DEF DhCurves

\* And set-ups, in either role and every mode.
LEMMA SetupContract ==
    ASSUME Called
    PROVE  KeepsContract("setup")
<1>1. Functions["setup"] =
        Function(SetupBody(call.role, call.mode), KeySchedulePskFree.returns)
  BY DEF Functions
<1>2. KeySchedulePskFree.returns = ContextSecrets
  BY DEF KeySchedulePskFree, ContextNew, ContextSecrets, Function
<1>3. /\ Takes["setup"] = Nothing
      /\ Gives["setup"] = Own({}, ContextSecrets)
  BY DEF Takes, Gives, Names, ContextSecrets
<1>4. PICK kem \in {"encap", "decap"},
           ks \in {"key_schedule_psk", "key_schedule_psk_free"} :
        SetupBody(call.role, call.mode) = <<Call(kem), Call(ks)>>
  BY DEF SetupBody, KeySchedule
<1> QED  BY <1>1, <1>2, <1>3, <1>4, KeepsSetup DEF KeepsContract

\* Every function keeps its contract.
LEMMA Contracts ==
    ASSUME Called
    PROVE  \A f \in Reachable : KeepsContract(f)
<1>1. /\ Functions["extract"] = Extract /\ Functions["expand"] = Expand
      /\ Functions["x448_mult_base"] = X448MultBase /\ Functions["x448_mult"] = X448Mult
      /\ Functions["derive_p_curve_sk"] = DerivePCurveSk
      /\ Functions["extract_and_expand"] = ExtractAndExpand
      /\ Functions["from_seed"] =
           IF call.kem = "MlKem" THEN MlKemFromSeed ELSE XWingFromSeed
      /\ Functions["context_new"] = ContextNew /\ Functions["context_seal"] = ContextSeal
      /\ Functions["key_schedule_psk_free"] = KeySchedulePskFree
      /\ Functions["key_schedule_psk"] = KeySchedulePsk
      /\ Functions["seal_or_open"] = SealOrOpen /\ Functions["export"] = Export
  BY DEF Functions
<1>2. /\ Gives["extract"] = Own({"result"}, {}) /\ Gives["expand"] = Own({"okm"}, {})
      /\ Gives["x448_mult_base"] = Nothing /\ Gives["x448_mult"] = Own({"out"}, {})
      /\ Gives["derive_p_curve_sk"] = Own({}, {"bytes"})
      /\ Gives["extract_and_expand"] = Own({"okm"}, {})
      /\ Gives["from_seed"] = Own({}, {"seed", "dk"})
      /\ Gives["context_new"] = Own({}, ContextSecrets)
      /\ Gives["context_seal"] = Nothing
      /\ Gives["key_schedule_psk_free"] = Own({}, ContextSecrets)
      /\ Gives["key_schedule_psk"] = Own({}, ContextSecrets)
      /\ Gives["seal_or_open"] = Nothing /\ Gives["export"] = Own({"okm"}, {})
  BY DEF Gives, ContextSecrets
<1>3. /\ \A f \in Names \ {"context_new"} : Takes[f] = Nothing
      /\ Takes["context_new"] = Own({}, {"exporter_secret"})
  BY DEF Takes, Names
<1>4. /\ KeepsContract("extract") /\ KeepsContract("expand")
      /\ KeepsContract("x448_mult_base") /\ KeepsContract("x448_mult")
      /\ KeepsContract("derive_p_curve_sk")
  BY <1>1, <1>2, <1>3, KeepsExtract, KeepsExpand, KeepsX448MultBase, KeepsX448Mult,
     KeepsDerivePCurveSk DEF KeepsContract, Names
<1>5. /\ KeepsContract("extract_and_expand") /\ KeepsContract("context_new")
      /\ KeepsContract("context_seal")
  BY <1>1, <1>2, <1>3, KeepsExtractAndExpand, KeepsContextNew, KeepsContextSeal
  DEF KeepsContract, Names
<1>6. /\ KeepsContract("key_schedule_psk_free") /\ KeepsContract("key_schedule_psk")
      /\ KeepsContract("seal_or_open") /\ KeepsContract("export")
  BY <1>1, <1>2, <1>3, KeepsKeySchedulePskFree, KeepsKeySchedulePsk,
     KeepsSealOrOpen, KeepsExport DEF KeepsContract, Names
<1>7. "from_seed" \in Reachable => KeepsContract("from_seed")
  <2>1. "from_seed" \in Reachable /\ call.kem = "MlKem" => MakesMlKemKey
    BY DEF Reachable, Makers
  <2> QED  BY <1>1, <1>2, <1>3, <2>1, KeepsXWingFromSeed, KeepsMlKemFromSeed
           DEF KeepsContract, Names
<1>8. \A f \in Reachable : f \in Names
  BY DEF Reachable
<1> QED  BY <1>4, <1>5, <1>6, <1>7, <1>8, KemContracts, SetupContract DEF Names, Methods

----------------------------------------------------------------------------
\* The invariant holds.

\* What a step does not change.
LEMMA Unmoved ==
    ASSUME call' = call
    PROVE  /\ Functions' = Functions /\ Gives' = Gives
           /\ Unscrubbed' = Unscrubbed /\ Reachable' = Reachable
           /\ \A f : Outline(f)' = Outline(f)
           /\ Called' <=> Called
<1>1. K' = K
  BY DEF K
<1>2. /\ OfCurve("dh", {"dh"})' = OfCurve("dh", {"dh"})
      /\ OfCurve("sk_to_pk", {})' = OfCurve("sk_to_pk", {})
  BY DEF OfCurve
<1>3. Functions' = Functions
  BY <1>1, <1>2 DEF Functions
<1>4. /\ Gives' = Gives
      /\ Unscrubbed' = Unscrubbed /\ Reachable' = Reachable
  BY DEF Gives, Unscrubbed, Reachable, MakesMlKemKey
<1>5. ASSUME NEW f
      PROVE  Outline(f)' = Outline(f)
  <2> DEFINE Q(ann) == Outlines(ann, Functions[f], Takes[f], Gives[f])
  <2>1. \A s, o, p : Yields(s, o, p)' <=> Yields(s, o, p)
    BY <1>4 DEF Yields
  <2>2. \A ann, body, n : Follows(body, n, ann)' <=> Follows(body, n, ann)
    BY <2>1 DEF Follows
  <2>3. \A ann : Q(ann)' <=> Q(ann)
    BY <1>3, <1>4, <2>2 DEF Outlines
  <2>4. Outline(f) = (CHOOSE ann : Q(ann)) /\ Outline(f)' = CHOOSE ann : Q(ann)'
    BY DEF Outline
  <2> HIDE DEF Q
  <2>5. (CHOOSE ann : Q(ann)) = CHOOSE ann : Q(ann)'
    BY <2>3, Zenon
  <2> QED  BY <2>4, <2>5
<1>6. Called' <=> Called
  BY DEF Called
<1> QED  BY <1>3, <1>4, <1>5, <1>6

\* Every function has an outline.
LEMMA OutlineOfFrame ==
    ASSUME Called, NEW f \in Reachable
    PROVE  Outlines(Outline(f), Functions[f], Takes[f], Gives[f])
BY Contracts, OutlineIs

\* The frame that runs follows its outline.
LEMMA AtStep ==
    ASSUME IInv, NEW op, At(op)
    PROVE  /\ top.pc \in 1 .. Len(Fn.body) /\ Len(Fn.body) \in Nat
           /\ Step.op = op
           /\ top.own = Outline(top.f)[top.pc]
           /\ Follows(Fn.body, top.pc, Outline(top.f))
<1>1. Outlines(Outline(top.f), Functions[top.f], Takes[top.f], Gives[top.f])
  BY OutlineOfFrame DEF IInv, Typed, IsFrame
<1>2. Runs(top)
  BY DEF IInv, At
<1>3. Len(Fn.body) \in Nat /\ top.pc \in 1 .. Len(Fn.body)
  BY <1>1, <1>2 DEF Outlines, Runs, Fn, At
<1> QED  BY <1>1, <1>2, <1>3 DEF Outlines, Runs, Fn, At

\* A step within the frame that runs.
LEMMA Local ==
    ASSUME IInv, UNCHANGED <<call, stack, left, status>>, status = "running",
           NEW n \in Nat, NEW own, Goto(n, own),
           n \in 1 .. Len(Fn.body) + 1, own = Outline(top.f)[n],
           freed'.bare \subseteq Unscrubbed
    PROVE  IInv'
<1>1. /\ top'.f = top.f /\ top'.pc = n /\ top'.own = own
      /\ top' = [f |-> top'.f, pc |-> top'.pc, own |-> top'.own]
  BY DEF IInv, Typed, IsFrame, Goto
<1>2. Typed'
  BY <1>1, Unmoved DEF IInv, Typed, IsFrame
<1>3. Runs(top)'
  BY <1>1, Unmoved DEF Runs, Fn
<1>4. Bottom' = Bottom /\ \A i \in 1 .. Len(stack) : Above(i)' = Above(i)
  BY <1>1 DEF Bottom, Above
<1>5. \A i \in 1 .. Len(stack) : Waits(stack[i], Above(i))'
  BY <1>4, Unmoved DEF IInv, Waits, StepOf
<1> QED  BY <1>2, <1>3, <1>4, <1>5, Unmoved DEF IInv

\* Initially the call begins, and owns nothing.
LEMMA InitInv == Init => IInv
<1> SUFFICES ASSUME Init PROVE IInv
  OBVIOUS
<1>1. Called /\ call.api \in Reachable
  BY ScrubbingAssumption DEF Init, Called, EntryPoints, Names, Reachable, Makers,
     MakesMlKemKey
<1>2. Outlines(Outline(call.api), Functions[call.api], Takes[call.api], Gives[call.api])
  BY <1>1, OutlineOfFrame
<1>3. Takes[call.api] = Nothing
  BY ScrubbingAssumption DEF Init, EntryPoints, Takes, Names
<1>4. /\ top.f = call.api /\ top.pc = 1 /\ top.own = Nothing /\ IsFrame(top)
  BY <1>1 DEF Init, Frame, IsFrame
<1>5. stack \in Seq({}) /\ Len(stack) = 0
  BY DEF Init
<1>6. Typed
  BY <1>1, <1>4, <1>5 DEF Init, Typed
<1>7. Runs(top)
  BY <1>2, <1>3, <1>4 DEF Runs, Outlines
<1> QED  BY <1>4, <1>5, <1>6, <1>7 DEF Init, IInv, Bottom, Nothing, Own

\* A new buffer, bare.
LEMMA BareStep == ASSUME IInv, DoBare PROVE IInv'
<1>1. top.pc \in 1 .. Len(Fn.body) /\ Len(Fn.body) \in Nat /\ Step.op = "bare"
  BY AtStep DEF DoBare
<1>2. Outline(top.f)[top.pc + 1] = Join(top.own, Own({Step.b}, {}))
  BY <1>1, AtStep DEF DoBare, Follows, Yields, Step
<1> QED  BY <1>1, <1>2, Local DEF DoBare, At, IInv

\* A new buffer, wrapped.
LEMMA SafeStep == ASSUME IInv, DoSafe PROVE IInv'
<1>1. top.pc \in 1 .. Len(Fn.body) /\ Len(Fn.body) \in Nat /\ Step.op = "safe"
  BY AtStep DEF DoSafe
<1>2. Outline(top.f)[top.pc + 1] = Join(top.own, Own({}, {Step.b}))
  BY <1>1, AtStep DEF DoSafe, Follows, Yields, Step
<1> QED  BY <1>1, <1>2, Local DEF DoSafe, At, IInv

\* A buffer that goes into a wrapper.
LEMMA WrapStep == ASSUME IInv, DoWrap PROVE IInv'
<1>1. top.pc \in 1 .. Len(Fn.body) /\ Len(Fn.body) \in Nat /\ Step.op = "wrap"
  BY AtStep DEF DoWrap
<1>2. Outline(top.f)[top.pc + 1] =
        Join(Without(top.own, {Step.from}), Own({}, {Step.b}))
  BY <1>1, AtStep DEF DoWrap, Follows, Yields, Step
<1> QED  BY <1>1, <1>2, Local DEF DoWrap, At, IInv

\* A buffer that is scrubbed by hand.
LEMMA ScrubStep == ASSUME IInv, DoScrub PROVE IInv'
<1>1. top.pc \in 1 .. Len(Fn.body) /\ Len(Fn.body) \in Nat /\ Step.op = "scrub"
  BY AtStep DEF DoScrub
<1>2. Outline(top.f)[top.pc + 1] = Without(top.own, {Step.b})
  BY <1>1, AtStep DEF DoScrub, Follows, Yields, Step
<1>3. freed'.bare \subseteq Unscrubbed
  <2>1. Own({}, {Step.b}).bare \subseteq Unscrubbed /\ freed.bare \subseteq Unscrubbed
    BY DEF IInv, Own
  <2>2. freed' = Join(freed, Own({}, {Step.b}))
    BY DEF DoScrub
  <2> QED  BY <2>1, <2>2, FreedClean
<1>4. top.pc + 1 \in Nat /\ top.pc + 1 \in 1 .. Len(Fn.body) + 1
  BY <1>1
<1> QED  BY <1>2, <1>3, <1>4, Local DEF DoScrub, At

\* A check that is passed.
LEMMA PassStep == ASSUME IInv, Pass PROVE IInv'
<1>1. top.pc \in 1 .. Len(Fn.body) /\ Len(Fn.body) \in Nat /\ Step.op = "check"
  BY AtStep DEF Pass
<1>2. Outline(top.f)[top.pc + 1] = top.own
  BY <1>1, AtStep DEF Pass, Follows, Yields, Step
<1> QED  BY <1>1, <1>2, Local DEF Pass, At, IInv

\* An error is returned only by a frame that owns nothing bare.
LEMMA FailStep == ASSUME IInv, Fail PROVE IInv'
<1>1. top.own.bare = {}
  BY AtStep DEF Fail, Follows, Yields, Step
<1>2. /\ status = "running" /\ status' = "failing"
      /\ UNCHANGED <<call, top, stack, left, freed>>
  BY DEF Fail, At
<1>3. Typed'
  BY <1>2, Unmoved DEF IInv, Typed, IsFrame
<1>4. Bottom' = Bottom /\ \A i \in 1 .. Len(stack) : Above(i)' = Above(i)
  BY <1>2 DEF Bottom, Above
<1>5. \A i \in 1 .. Len(stack) : Waits(stack[i], Above(i))'
  BY <1>2, <1>4, Unmoved DEF IInv, Waits, StepOf
<1> QED  BY <1>1, <1>2, <1>3, <1>4, <1>5, Unmoved DEF IInv

\* What a step that gives up a candidate, or takes it, finds in the outline.
LEMMA AtRetry ==
    ASSUME IInv, At("retry")
    PROVE  /\ top.pc \in 1 .. Len(Fn.body) /\ Len(Fn.body) \in Nat
           /\ Step.to \in 1 .. Len(Fn.body) /\ top.pc + 2 \in 1 .. Len(Fn.body) + 1
           /\ top.own.bare = {}
           /\ Outline(top.f)[Step.to] = Without(top.own, {Step.b})
           /\ Outline(top.f)[top.pc + 1] = Without(top.own, {Step.b})
           /\ Outline(top.f)[top.pc + 2] = top.own
<1>1. /\ top.pc \in 1 .. Len(Fn.body) /\ Len(Fn.body) \in Nat
      /\ Step.op = "retry" /\ top.own = Outline(top.f)[top.pc]
      /\ Follows(Fn.body, top.pc, Outline(top.f))
  BY AtStep
<1>2. ~ Yields(Step, Outline(top.f)[top.pc], Outline(top.f)[top.pc + 1])
  BY <1>1 DEF Yields
<1>3. Step = Fn.body[top.pc]
  BY DEF Step
<1> QED  BY <1>1, <1>2, <1>3 DEF Follows

\* A candidate is refused and dropped in its wrapper.
LEMMA TryAgainStep == ASSUME IInv, TryAgain PROVE IInv'
<1>1. Only(top.own, {Step.b}).bare = {}
  BY AtRetry DEF TryAgain, Only, Own
<1>2. freed'.bare \subseteq Unscrubbed
  <2>1. /\ Only(top.own, {Step.b}).bare \subseteq Unscrubbed
        /\ freed.bare \subseteq Unscrubbed
    BY <1>1 DEF IInv
  <2>2. freed' = Join(freed, Only(top.own, {Step.b}))
    BY DEF TryAgain
  <2> QED  BY <2>1, <2>2, FreedClean
<1>3. PICK n \in {Step.to, top.pc + 1} : Goto(n, Without(top.own, {Step.b}))
  BY DEF TryAgain
<1>4. /\ n \in Nat /\ n \in 1 .. Len(Fn.body) + 1
      /\ Outline(top.f)[n] = Without(top.own, {Step.b})
  BY <1>3, AtRetry DEF TryAgain
<1> QED  BY <1>2, <1>3, <1>4, Local DEF TryAgain, At

\* A candidate is accepted and kept.
LEMMA AcceptStep == ASSUME IInv, Accept PROVE IInv'
<1>1. /\ top.pc + 2 \in Nat /\ top.pc + 2 \in 1 .. Len(Fn.body) + 1
      /\ Outline(top.f)[top.pc + 2] = top.own
  BY AtRetry DEF Accept
<1> QED  BY <1>1, Local DEF Accept, At, IInv

\* What is passed by value is what the callee takes.
LEMMA CallStep == ASSUME IInv, DoCall PROVE IInv'
<1>0. PICK frame : frame = [top EXCEPT !.pc = @ + 1, !.own = Without(@, Step.moved)]
  OBVIOUS
<1>1. /\ top.pc \in 1 .. Len(Fn.body) /\ Len(Fn.body) \in Nat /\ Step.op = "call"
      /\ top.own = Outline(top.f)[top.pc]
  BY AtStep DEF DoCall
<1>2. Step.f \in Reachable /\ Only(top.own, Step.moved) = Takes[Step.f]
  BY <1>1, AtStep DEF DoCall, Follows, Yields, Step
<1>3. /\ status = "running" /\ status' = "running" /\ UNCHANGED <<call, left, freed>>
      /\ stack' = Append(stack, frame)
      /\ top' = Frame(Step.f, Only(top.own, Step.moved))
  BY <1>0 DEF DoCall, At
<1>4. /\ frame.f = top.f /\ frame.pc = top.pc + 1
      /\ frame.own = Without(top.own, Step.moved)
      /\ IsFrame(frame)
  <2>1. IsFrame(top)
    BY DEF IInv, Typed
  <2>2. PICK g \in Reachable : g = top.f
    BY <2>1 DEF IsFrame
  <2>3. PICK n \in Nat : n = top.pc
    BY <2>1 DEF IsFrame
  <2>4. PICK own : own = top.own
    OBVIOUS
  <2>5. top = [f |-> g, pc |-> n, own |-> own]
    BY <2>1, <2>2, <2>3, <2>4 DEF IsFrame
  <2>6. frame = [f |-> g, pc |-> n + 1, own |-> Without(own, Step.moved)]
    BY <1>0, <2>5
  <2> QED  BY <2>2, <2>3, <2>4, <2>6 DEF IsFrame
<1>5. /\ top'.f = Step.f /\ top'.pc = 1 /\ top'.own = Takes[Step.f]
      /\ top' = [f |-> top'.f, pc |-> top'.pc, own |-> top'.own]
  BY <1>2, <1>3 DEF Frame
<1>6. PICK S : stack \in Seq(S)
  BY DEF IInv, Typed
<1>7. /\ stack \in Seq(S \cup {frame}) /\ stack' \in Seq(S \cup {frame})
      /\ Len(stack) \in Nat /\ Len(stack') = Len(stack) + 1
      /\ stack'[Len(stack) + 1] = frame
      /\ \A i \in 1 .. Len(stack) : stack'[i] = stack[i]
  BY <1>3, <1>6
<1>8. \A i \in 1 .. Len(stack') : i \in 1 .. Len(stack) \/ i = Len(stack) + 1
  BY <1>7
<1>9. Typed'
  <2>1. Called' /\ IsFrame(top)'
    BY <1>2, <1>3, <1>5, Unmoved DEF IInv, Typed, IsFrame
  <2>2. \A i \in 1 .. Len(stack') : IsFrame(stack'[i])
    BY <1>4, <1>7, <1>8 DEF IInv, Typed
  <2> QED  BY <1>3, <1>7, <2>1, <2>2, Unmoved DEF Typed, IsFrame
<1>10. Runs(top)'
  <2>1. Outlines(Outline(Step.f), Functions[Step.f], Takes[Step.f], Gives[Step.f])
    BY <1>2, OutlineOfFrame DEF IInv, Typed
  <2>2. 1 \in 1 .. Len(Functions[Step.f].body) + 1 /\ Outline(Step.f)[1] = Takes[Step.f]
    BY <2>1 DEF Outlines
  <2> QED  BY <1>3, <1>5, <2>2, Unmoved DEF Runs
<1>11. Bottom' = Bottom
  BY <1>3, <1>4, <1>6, <1>7 DEF Bottom
<1>12. \A i \in 1 .. Len(stack) : Above(i)' = Above(i)
  BY <1>4, <1>7 DEF Above
<1>13. \A i \in 1 .. Len(stack) : Waits(stack[i], Above(i))'
  BY <1>3, <1>7, <1>12, Unmoved DEF IInv, Waits, StepOf
<1>14. ASSUME NEW n \in 1 .. Len(stack'), n = Len(stack) + 1
       PROVE  Waits(stack[n], Above(n))'
  <2>1. stack'[n] = frame /\ n = Len(stack')
    BY <1>7, <1>14
  <2>2. Above(n)' = Step.f
    BY <1>5, <2>1 DEF Above
  <2>3. frame.pc - 1 = top.pc /\ Functions'[frame.f].body[top.pc] = Step
    BY <1>1, <1>3, <1>4, Unmoved DEF Step, Fn
  <2> QED  BY <1>1, <1>3, <1>4, <2>1, <2>2, <2>3, Unmoved DEF Waits, StepOf, Fn
<1>15. \A i \in 1 .. Len(stack') : Waits(stack[i], Above(i))'
  BY <1>8, <1>13, <1>14
<1> QED  BY <1>3, <1>9, <1>10, <1>11, <1>15, Unmoved DEF IInv

\* The frame that called goes on, owning own.
LEMMA Popped ==
    ASSUME IInv, stack # <<>>, UNCHANGED call, stack' = Front(stack),
           NEW own, top' = [Last(stack) EXCEPT !.own = own],
           status' \in {"running", "failing"}, status \in {"running", "failing"}
    PROVE  /\ Typed'
           /\ Bottom' = call.api
           /\ \A i \in 1 .. Len(stack') : Waits(stack[i], Above(i))'
<1>1. PICK S : stack \in Seq(S)
  BY DEF IInv, Typed
<1>2. PICK n \in Nat : n = Len(stack) /\ n >= 1
  BY <1>1
<1>3. Last(stack) = stack[n] /\ stack' = SubSeq(stack, 1, n - 1)
  BY <1>2 DEF Last, Front
<1>4. /\ stack' \in Seq(S) /\ Len(stack') = n - 1
      /\ \A i \in 1 .. n - 1 : stack'[i] = stack[i]
  BY <1>1, <1>2, <1>3
<1>5. IsFrame(stack[n])
  BY <1>2 DEF IInv, Typed
<1>6. /\ top'.f = stack[n].f /\ top'.pc = stack[n].pc /\ top'.own = own
      /\ top' = [f |-> top'.f, pc |-> top'.pc, own |-> top'.own]
  BY <1>3, <1>5 DEF IsFrame
<1>7. IsFrame(top)'
  BY <1>5, <1>6, Unmoved DEF IsFrame
<1>8. \A i \in 1 .. Len(stack') : IsFrame(stack'[i])
  BY <1>2, <1>4 DEF IInv, Typed
<1>9. Typed'
  BY <1>4, <1>7, <1>8, Unmoved DEF IInv, Typed, IsFrame
<1>10. Bottom' = call.api
  <2>1. CASE n = 1
    <3>1. stack' = <<>>
      BY <1>4, <2>1
    <3> QED  BY <1>2, <1>6, <2>1, <3>1 DEF IInv, Bottom
  <2>2. CASE n > 1
    <3>1. stack' # <<>> /\ stack'[1] = stack[1]
      BY <1>4, <2>2
    <3> QED  BY <3>1 DEF IInv, Bottom
  <2> QED  BY <1>2, <2>1, <2>2
<1>11. \A i \in 1 .. n - 1 : Above(i)' = Above(i)
  <2> SUFFICES ASSUME NEW i \in 1 .. n - 1
               PROVE  Above(i)' = Above(i)
    OBVIOUS
  <2>1. CASE i = n - 1
    BY <1>2, <1>4, <1>6, <2>1 DEF Above
  <2>2. CASE i # n - 1
    <3>1. i + 1 \in 1 .. n - 1
      BY <2>2
    <3> QED  BY <1>2, <1>4, <2>2, <3>1 DEF Above
  <2> QED  BY <2>1, <2>2
<1>12. \A i \in 1 .. n - 1 : Waits(stack[i], Above(i))
  BY <1>2 DEF IInv
<1>13. \A i \in 1 .. n - 1 : Waits(stack[i], Above(i))'
  <2> SUFFICES ASSUME NEW i \in 1 .. n - 1
               PROVE  Waits(stack[i], Above(i))'
    OBVIOUS
  <2>1. stack'[i] = stack[i] /\ Above(i)' = Above(i) /\ Waits(stack[i], Above(i))
    BY <1>4, <1>11, <1>12
  <2> QED  BY <2>1, Unmoved DEF Waits, StepOf
<1> QED  BY <1>4, <1>9, <1>10, <1>13

\* The call that the frame below waits for: what it owns meanwhile is not bare,
\* and with what the callee gives it is as the outline says.
LEMMA Awaited ==
    ASSUME IInv, stack # <<>>
    PROVE  LET frame == Last(stack)
               step  == StepOf(frame) IN
           /\ IsFrame(frame)
           /\ frame.pc \in 1 .. Len(Functions[frame.f].body) + 1
           /\ frame.own.bare = {}
           /\ Outline(frame.f)[frame.pc] = Join(frame.own, Received(Gives[top.f], step))
<1>1. PICK S : stack \in Seq(S)
  BY DEF IInv, Typed
<1>2. PICK n \in Nat : n = Len(stack) /\ n >= 1
  BY <1>1
<1>3. PICK frame : frame = Last(stack) /\ frame = stack[n]
  BY <1>2 DEF Last
<1>4. IsFrame(frame) /\ Waits(frame, top.f)
  BY <1>2, <1>3 DEF IInv, Typed, Above
<1>5. Outlines(Outline(frame.f), Functions[frame.f], Takes[frame.f], Gives[frame.f])
  BY <1>4, OutlineOfFrame DEF IInv, Typed, IsFrame
<1>6. PICK m \in 1 .. Len(Functions[frame.f].body) : m = frame.pc - 1
  BY <1>4 DEF Waits
<1>7. Follows(Functions[frame.f].body, m, Outline(frame.f))
  BY <1>5, <1>6 DEF Outlines
<1>8. /\ StepOf(frame) = Functions[frame.f].body[m]
      /\ StepOf(frame).op = "call" /\ StepOf(frame).f = top.f
      /\ frame.own = Without(Outline(frame.f)[m], StepOf(frame).moved)
  BY <1>4, <1>6 DEF Waits, StepOf
<1>9. Yields(StepOf(frame), Outline(frame.f)[m], Outline(frame.f)[m + 1])
  BY <1>7, <1>8 DEF Follows
<1>10. m + 1 = frame.pc /\ frame.pc \in 1 .. Len(Functions[frame.f].body) + 1
  BY <1>4, <1>5, <1>6 DEF IsFrame, Outlines
<1>11. /\ frame.own.bare = {}
       /\ Outline(frame.f)[frame.pc] =
            Join(frame.own, Received(Gives[top.f], StepOf(frame)))
  BY <1>8, <1>9, <1>10 DEF Yields
<1> QED  BY <1>3, <1>4, <1>10, <1>11

\* What is returned is what the contract gives, and the rest is not bare or is
\* what the call leaves unscrubbed.
LEMMA ReturnStep == ASSUME IInv, Return PROVE IInv'
<1>1. Outlines(Outline(top.f), Functions[top.f], Takes[top.f], Gives[top.f])
  BY OutlineOfFrame DEF IInv, Typed, IsFrame
<1>2. /\ status = "running" /\ Runs(top) /\ top.pc > Len(Fn.body) /\ UNCHANGED call
      /\ freed' = Join(freed, Without(top.own, Fn.returns))
  BY DEF IInv, Return
<1>3. top.own = Outline(top.f)[Len(Fn.body) + 1]
  BY <1>1, <1>2 DEF Runs, Outlines, Fn
<1>4. /\ Only(top.own, Fn.returns) = Gives[top.f]
      /\ Without(top.own, Fn.returns).bare \subseteq Unscrubbed
  BY <1>1, <1>3 DEF Outlines, Fn
<1>5. freed'.bare \subseteq Unscrubbed
  <2>1. freed.bare \subseteq Unscrubbed
    BY DEF IInv
  <2> QED  BY <1>2, <1>4, <2>1, FreedClean
<1>6. CASE stack = <<>>
  <2>1. /\ left' = Gives[top.f] /\ status' = "returned" /\ UNCHANGED <<top, stack>>
    BY <1>4, <1>6 DEF Return
  <2>2. top.f = call.api
    BY <1>2, <1>6 DEF IInv, Bottom
  <2>3. Typed'
    BY <1>2, <2>1, Unmoved DEF IInv, Typed, IsFrame
  <2>4. Len(stack') = 0
    BY <1>6, <2>1
  <2> QED  BY <1>2, <1>5, <2>1, <2>2, <2>3, <2>4, Unmoved DEF IInv
<1>7. CASE stack # <<>>
  <2>1. PICK own : own = Join(Last(stack).own,
                              Received(Only(top.own, Fn.returns), StepOf(Last(stack))))
    OBVIOUS
  <2>2. /\ top' = [Last(stack) EXCEPT !.own = own]
        /\ stack' = Front(stack) /\ UNCHANGED <<left, status>>
    BY <1>7, <2>1 DEF Return
  <2>3. /\ Typed' /\ Bottom' = call.api
        /\ \A i \in 1 .. Len(stack') : Waits(stack[i], Above(i))'
    BY <1>2, <1>7, <2>2, Popped
  <2>4. /\ IsFrame(Last(stack))
        /\ Last(stack).pc \in 1 .. Len(Functions[Last(stack).f].body) + 1
        /\ Outline(Last(stack).f)[Last(stack).pc] = own
    BY <1>4, <1>7, <2>1, Awaited
  <2>5. top'.f = Last(stack).f /\ top'.pc = Last(stack).pc /\ top'.own = own
    BY <2>2, <2>4 DEF IsFrame
  <2>6. Runs(top)'
    BY <1>2, <2>4, <2>5, Unmoved DEF Runs
  <2> QED  BY <1>2, <1>5, <2>2, <2>3, <2>6, Unmoved DEF IInv
<1> QED  BY <1>6, <1>7

\* An error goes up: what the frame owns is not bare, nor is what waits.
LEMMA UnwindStep == ASSUME IInv, Unwind PROVE IInv'
<1>1. /\ status = "failing" /\ UNCHANGED <<call, left>>
      /\ top.own.bare = {} /\ left = Nothing
      /\ freed' = Join(freed, top.own)
  BY DEF IInv, Unwind
<1>2. freed'.bare \subseteq Unscrubbed
  BY <1>1, FreedClean DEF IInv
<1>3. CASE stack = <<>>
  <2>1. status' = "failed" /\ UNCHANGED <<top, stack>>
    BY <1>3 DEF Unwind
  <2>2. Typed'
    BY <1>1, <2>1, Unmoved DEF IInv, Typed, IsFrame
  <2>3. Len(stack') = 0
    BY <1>3, <2>1
  <2> QED  BY <1>1, <1>2, <2>1, <2>2, <2>3, Unmoved DEF IInv
<1>4. CASE stack # <<>>
  <2>1. top' = Last(stack) /\ stack' = Front(stack) /\ status' = "failing"
    BY <1>1, <1>4 DEF Unwind
  <2>2. IsFrame(Last(stack)) /\ Last(stack).own.bare = {}
    BY <1>4, Awaited
  <2>3. top' = [Last(stack) EXCEPT !.own = Last(stack).own]
    BY <2>1, <2>2 DEF IsFrame
  <2>4. /\ Typed' /\ Bottom' = call.api
        /\ \A i \in 1 .. Len(stack') : Waits(stack[i], Above(i))'
    BY <1>1, <1>4, <2>1, <2>3, Popped
  <2> QED  BY <1>1, <1>2, <2>1, <2>2, <2>4, Unmoved DEF IInv
<1> QED  BY <1>3, <1>4

\* Nothing happens.
LEMMA StutterStep == ASSUME IInv, UNCHANGED vars PROVE IInv'
<1>1. UNCHANGED <<call, top, stack, left, freed, status>>
  BY DEF vars
<1>2. Typed'
  BY <1>1, Unmoved DEF IInv, Typed, IsFrame
<1>3. Bottom' = Bottom /\ (Runs(top) => Runs(top)')
  BY <1>1, Unmoved DEF Bottom, Runs
<1>4. \A i \in 1 .. Len(stack) : Above(i)' = Above(i)
  BY <1>1 DEF Above
<1>5. \A i \in 1 .. Len(stack) : Waits(stack[i], Above(i))'
  BY <1>1, <1>4, Unmoved DEF IInv, Waits, StepOf
<1> QED  BY <1>1, <1>2, <1>3, <1>5, Unmoved DEF IInv

\* The invariant: the frame that runs owns what the outline of its function says,
\* those that wait own what theirs say less what they passed on, and what was
\* freed was in a wrapper or is the ml_seed of a call that makes an ML-KEM key.
THEOREM Invariance == Spec => []IInv
<1>1. Init => IInv
  BY InitInv
<1>2. IInv /\ [Next]_vars => IInv'
  BY BareStep, SafeStep, WrapStep, ScrubStep, PassStep, FailStep, TryAgainStep,
     AcceptStep, CallStep, ReturnStep, UnwindStep, StutterStep DEF Next
<1> QED  BY <1>1, <1>2, PTL DEF Spec

\* README.md:159, lib.rs:189-190, with the exception of pq.rs:521: no path through
\* any call, whichever of its steps fails, frees a secret that is not in a wrapper,
\* but for the ml_seed of the calls that make an ML-KEM key.
THEOREM NothingElseLeft == Spec => []NothingElseIsLeftBehind
<1>1. IInv => NothingElseIsLeftBehind
  BY DEF IInv, NothingElseIsLeftBehind
<1> QED  BY <1>1, Invariance, PTL

\* context.rs:25-27, README.md:159: what a call leaves its caller is the secrets of
\* its result, in wrappers unless it exports one, and nothing when it fails.
THEOREM OnlyResult == Spec => []OnlyTheResultSurvives
<1>1. IInv => OnlyTheResultSurvives
  <2> SUFFICES ASSUME IInv, status \in {"returned", "failed"}
               PROVE  /\ left.bare \cup left.safe =
                           IF status = "returned" THEN Results[call.api] ELSE {}
                      /\ call.api # "export" => left.bare = {}
    BY DEF OnlyTheResultSurvives
  <2>1. CASE status = "failed"
    BY <2>1 DEF IInv, Nothing, Own
  <2>2. CASE status = "returned"
    <3>1. call.api \in EntryPoints /\ left = Gives[call.api]
      BY <2>2, ScrubbingAssumption DEF IInv, Typed, Called
    <3>2. /\ Gives[call.api].bare \cup Gives[call.api].safe = Results[call.api]
          /\ call.api # "export" => Gives[call.api].bare = {}
      BY <3>1 DEF EntryPoints, Gives, Results, Nothing, Own
    <3> QED  BY <2>2, <3>1, <3>2
  <2> QED  BY <2>1, <2>2
<1> QED  BY <1>1, Invariance, PTL
============================================================================
