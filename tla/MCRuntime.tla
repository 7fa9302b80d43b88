------------------------------- MODULE MCRuntime -------------------------------
(* Instances of Runtime for TLC. *)
EXTENDS Runtime

CONSTANTS d, x

\* One setting; and that one back to its default with the other.  The second
\* changes the other alone when it finds the first at its default, and a
\* second time neither, like PUT /collections/active.
MCPayloads == {[tune |-> x, cache |-> Keep], [tune |-> d, cache |-> x]}

\* The generator, a write of the mapfile, supervisorctl and nginx may fail; a
\* stop that fails is left out, since the start after it then reports success
\* and changes nothing.
CommandsFail == {"generate", "write map", "start", "reload nginx", "reread", "update"}
=============================================================================
