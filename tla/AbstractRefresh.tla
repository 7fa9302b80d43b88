--------------------------- MODULE AbstractRefresh ---------------------------
(***************************************************************************)
(* What a refresh promises: there is one active generation, whose index    *)
(* files stay on the disk for as long as it is active, and a refresh       *)
(* either commits the generation it staged, at once, or abandons it and    *)
(* leaves the active one as it was.                                        *)
(***************************************************************************)

CONSTANTS Generation, Seed, None

VARIABLES
    active,   \* the generation requests are answered from
    pending,  \* the generation a refresh has staged and not yet committed
    stored    \* the generations whose index files are all on the disk

vars == <<active, pending, stored>>

Init == active = Seed /\ pending = None /\ stored = {}

Stage(g) ==
    /\ pending = None
    /\ g \notin stored
    /\ pending' = g
    /\ stored' = stored \union {g}
    /\ UNCHANGED active

Commit ==
    /\ pending # None
    /\ active' = pending
    /\ pending' = None
    /\ UNCHANGED stored

Abandon ==
    /\ pending # None
    /\ pending' = None
    /\ stored' = stored \ {pending}
    /\ UNCHANGED active

\* Old generations are deleted, never the active one or the one about to be.
Delete ==
    /\ stored' \in SUBSET stored
    /\ {active, pending} \intersect stored \subseteq stored'
    /\ UNCHANGED <<active, pending>>

Next == (\E g \in Generation : Stage(g)) \/ Commit \/ Abandon \/ Delete

Spec == Init /\ [][Next]_vars
=============================================================================
