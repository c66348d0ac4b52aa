---------------------------- MODULE MCDosMemory ----------------------------
(***************************************************************************)
(* A small machine: DOS's block in the lower half of the arena, a one-     *)
(* paragraph environment, and a request nobody can satisfy.                *)
(***************************************************************************)
EXTENDS DosMemory

MCRequests == {0, 2, 100}
MCSegments == ArenaMcb .. HeapEnd + 1
MCEnvSizes == {1}
=============================================================================
