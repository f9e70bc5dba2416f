--------------------------- MODULE BlockAllocator ---------------------------
(***************************************************************************)
(* What an allocator promises: blocks inside its memory that never share a *)
(* unit, none much larger than what was asked for, and a refusal only when *)
(* no stretch of free memory is long enough.                               *)
(***************************************************************************)
EXTENDS Integers

CONSTANTS
    Area,       \* the stretches <<first, past>> of usable units
    Ask,        \* the requests
    Units(_),   \* units that a request takes, 0 when it is for nothing
    Slack,      \* the largest remainder that is given along
    Nowhere     \* the answer to a request that cannot be met; no unit

VARIABLES
    held,       \* first unit |-> units of each block held
    answer      \* the request just answered and where its block is

Fits(a, n) ==
    /\ \E x \in Area : x[1] <= a /\ a + n <= x[2]
    /\ \A b \in DOMAIN held : a + n <= b \/ b + held[b] <= a

Init == held = << >> /\ answer = Nowhere

Malloc(r) ==
    \E x \in Area, n \in Units(r) .. Units(r) + Slack :
        \E a \in x[1] .. x[2] - n :
            /\ n > 0 /\ Fits(a, n)
            /\ held' = [b \in DOMAIN held \cup {a} |-> IF b = a THEN n ELSE held[b]]
            /\ answer' = <<r, a>>

Refuse(r) ==
    /\ Units(r) > 0 => \A x \in Area : \A a \in x[1] .. x[2] : ~Fits(a, Units(r))
    /\ answer' = <<r, Nowhere>>
    /\ held' = held

Free(a) ==
    /\ held' = [b \in DOMAIN held \ {a} |-> held[b]]
    /\ answer' = Nowhere

(* The caller goes on with its answer. *)
Take == answer' = Nowhere /\ held' = held

Next ==
    \/ \E r \in Ask : Malloc(r) \/ Refuse(r)
    \/ \E a \in DOMAIN held : Free(a)
    \/ Take

Spec == Init /\ [][Next]_<<held, answer>>
=============================================================================
