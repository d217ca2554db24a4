--------------------------- MODULE MCFractalGen ---------------------------
(***************************************************************************)
(* Values for the constants of FractalGen in its model-checking runs.      *)
(***************************************************************************)
EXTENDS FractalGenLedger

StillManual == [frames |-> 0, manual |-> TRUE]
StillAuto   == [frames |-> 0, manual |-> FALSE]
Animated(n) == [frames |-> n, manual |-> TRUE]

MCManual     == {StillManual}
MCAnimations == {StillManual, StillAuto, Animated(3)}
MCMixed      == {StillManual, Animated(2)}
=============================================================================
