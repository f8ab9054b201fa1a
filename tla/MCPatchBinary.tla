--------------------------- MODULE MCPatchBinary ----------------------------
(***************************************************************************)
(* PatchBinary with the two default packages, two TypeScript builds, and a *)
(* platform package whose "tsc" was built from the first.                  *)
(***************************************************************************)
EXTENDS PatchBinary

CONSTANTS ts, native, h1, h2

MCDefault  == <<ts, native>>
MCPackaged == [b \in {"tsc", "tsc-next"} |-> IF b = "tsc" THEN h1 ELSE NoHead]

\* Several packages' prepare scripts patch at once; unpatch is run by hand,
\* with no other command under way.
OnlyPatchesOverlap ==
  \A p, q \in Process : p # q /\ pc[p] \in UnpatchPoints => pc[q] = "idle"
=============================================================================
