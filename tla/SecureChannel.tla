--------------------------- MODULE SecureChannel ---------------------------
(***************************************************************************)
(* What HPKE contexts promise their users, with no keys, nonces or         *)
(* counters: a writer's messages form one stream of at most Limit          *)
(* messages, and a reader that has read anything reads the stream of one   *)
(* writer, from its start, in order, each message once, and as written.    *)
(***************************************************************************)
EXTENDS Naturals, Sequences

CONSTANTS Writers, Readers, Msg, Limit, Nobody

VARIABLES
    sent,           \* sent[w]: the stream of writer w
    rcvd,           \* rcvd[r]: what reader r has read
    src             \* src[r]: the writer r reads from, or Nobody

chanVars == <<sent, rcvd, src>>

Init ==
    /\ sent = [w \in Writers |-> <<>>]
    /\ rcvd = [r \in Readers |-> <<>>]
    /\ src  = [r \in Readers |-> Nobody]

Write(w, m) ==
    /\ Len(sent[w]) < Limit
    /\ sent' = [sent EXCEPT ![w] = Append(@, m)]
    /\ UNCHANGED <<rcvd, src>>

Read(r, w) ==
    /\ src[r] \in {Nobody, w}
    /\ Len(rcvd[r]) < Len(sent[w])
    /\ rcvd' = [rcvd EXCEPT ![r] = Append(@, sent[w][Len(@) + 1])]
    /\ src'  = [src EXCEPT ![r] = w]
    /\ UNCHANGED sent

Next ==
    \/ \E w \in Writers, m \in Msg : Write(w, m)
    \/ \E r \in Readers, w \in Writers : Read(r, w)

Spec == Init /\ [][Next]_chanVars
============================================================================
