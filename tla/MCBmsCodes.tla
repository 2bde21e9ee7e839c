------------------------------ MODULE MCBmsCodes ------------------------------
(***************************************************************************)
(* An instance of BmsNumerical: numbers over the whole range of every      *)
(* field, past both ends and around the first steps.                       *)
(***************************************************************************)
EXTENDS BmsNumerical

TheNumbers == {-1, 0, 1, 7, 9760, 9761, 20000, 32512, 37500, 402, 403,
               1000000, 1500000, 3299999, 4985000, 4990000, 24900000,
               25000001}
=============================================================================
