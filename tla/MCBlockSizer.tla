---------------------------- MODULE MCBlockSizer ----------------------------
(***************************************************************************)
(* Constants for the model-checking run of BlockSizer.                     *)
(***************************************************************************)
EXTENDS BlockSizer

\* 2400 baud caps blocks at 1024, 300 baud at 256 with small initial ones.
Bauds == {0, 300, 2400}
Caps == {32, 64, 300, 2048}
Rests == {192}

=============================================================================
