-------------------------- MODULE ModelRegistryMC --------------------------
(* Three versions of a model for TLC. *)
EXTENDS ModelRegistry

Way(concurrent, wraps, faults) ==
    [concurrent |-> concurrent, wraps |-> wraps, faults |-> faults]

\* Hooks that return the model they are given, with every failure, and hooks that
\* return another one, with the failures before it and after the hooks
MCUses == {Way(k, FALSE, FaultKinds) : k \in BOOLEAN}
            \cup {Way(k, TRUE, {"firstHook", "load", "notReady"}) : k \in BOOLEAN}
=============================================================================
