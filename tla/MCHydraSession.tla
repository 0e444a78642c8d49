--------------------------- MODULE MCHydraSession ---------------------------
(***************************************************************************)
(* Constants for the model-checking runs of HydraSession.                  *)
(***************************************************************************)
EXTENDS HydraSession

CONSTANTS r1, r2, ab, cl, sd

=============================================================================
