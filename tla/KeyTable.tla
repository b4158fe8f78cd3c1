------------------------------ MODULE KeyTable ------------------------------
(***************************************************************************)
(* What derive_key_pair promises its callers, with no hashes, candidates   *)
(* or counters: there is one table of results, an entry is settled once,   *)
(* by whichever call needs it first, and every call is answered from it.   *)
(* No two entries hold the same key.                                       *)
(***************************************************************************)
CONSTANTS Callers, Inputs       \* Inputs: a KEM and key material

VARIABLES
    table,          \* table[x]: the result for x, once it is settled
    asked,          \* asked[p]: what p has called with
    got             \* got[p]: what p was returned

tableVars == <<table, asked, got>>

\* A table that holds no key twice; an error may be in it more than once.
Separate(t) == \A x, y \in DOMAIN t : t[x].ok /\ t[x] = t[y] => x = y

\* g is f with an entry for x.
Extends(g, f, x) ==
    /\ DOMAIN g = DOMAIN f \cup {x}
    /\ \A y \in DOMAIN f : g[y] = f[y]

Init ==
    /\ DOMAIN table \subseteq Inputs /\ Separate(table)
    /\ DOMAIN asked = {} /\ DOMAIN got = {}

Ask(p, x) ==
    /\ p \notin DOMAIN asked
    /\ Extends(asked', asked, p) /\ asked'[p] = x
    /\ UNCHANGED <<table, got>>

Settle(x) ==
    /\ x \notin DOMAIN table
    /\ Extends(table', table, x) /\ Separate(table')
    /\ UNCHANGED <<asked, got>>

Answer(p) ==
    /\ p \in DOMAIN asked /\ p \notin DOMAIN got
    /\ asked[p] \in DOMAIN table
    /\ Extends(got', got, p) /\ got'[p] = table[asked[p]]
    /\ UNCHANGED <<table, asked>>

Next ==
    \/ \E p \in Callers, x \in Inputs : Ask(p, x)
    \/ \E x \in Inputs : Settle(x)
    \/ \E p \in Callers : Answer(p)

Spec == Init /\ [][Next]_tableVars
=============================================================================
