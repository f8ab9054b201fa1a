---------------------------- MODULE Installation ----------------------------
(***************************************************************************)
(* What patching promises about the native TypeScript binary of a package: *)
(* the official binary is always either the one that runs or set aside     *)
(* where unpatch finds it, whatever happens in between.                    *)
(***************************************************************************)
CONSTANT Package

VARIABLES
  running,   \* which binary stands at the target path of a package
  saved      \* the packages whose official binary is set aside

vars == <<running, saved>>

Init ==
  /\ running = [k \in Package |-> "official"]
  /\ saved = {}

SetAside(k) ==
  /\ running[k] = "official" /\ k \notin saved
  /\ running' = [running EXCEPT ![k] = "none"]
  /\ saved' = saved \cup {k}

\* Anything may be put at the target path, or be taken away from it, as long
\* as the official binary is set aside.
Replace(k) ==
  /\ k \in saved
  /\ \E b \in {"effect", "none"} : running' = [running EXCEPT ![k] = b]
  /\ UNCHANGED saved

Restore(k) ==
  /\ running[k] = "none" /\ k \in saved
  /\ running' = [running EXCEPT ![k] = "official"]
  /\ saved' = saved \ {k}

Reinstall(k) ==
  /\ running' = [running EXCEPT ![k] = "official"]
  /\ saved' = saved \ {k}

Next == \E k \in Package : SetAside(k) \/ Replace(k) \/ Restore(k) \/ Reinstall(k)

Spec == Init /\ [][Next]_vars
=============================================================================
