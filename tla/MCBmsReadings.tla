---------------------------- MODULE MCBmsReadings ----------------------------
(***************************************************************************)
(* Instances of BmsReadings: samples of both signs that need both halves   *)
(* of the counter and that rounding moves either way, a tie among them.    *)
(***************************************************************************)
EXTENDS BmsReadings

TheCharges == {-301, 202}
=============================================================================
