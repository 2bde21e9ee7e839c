-------------------------------- MODULE Power --------------------------------
(***************************************************************************)
(* The battery switches of PWR_MNGMT_FCT.cpp.  Three pins: the discharge   *)
(* path to the load, the charge path, and the precharge path, which fills  *)
(* the capacitors of the load through a resistor before the discharge path *)
(* is closed on them.  Time is counted in units of 100 ms, baseTimeMs.     *)
(*                                                                         *)
(* The pack voltage is what the converter says when it is asked.  Nothing  *)
(* measures the load: precharge trusts the time it has waited.             *)
(***************************************************************************)
EXTENDS Integers

CONSTANTS
  PackSamples,   \* readings the converter of PACK_SNS may give
  Capacitors,    \* capacitors of the load, each filled in one unit of time
  PowerCalls     \* calls that may follow setup(); none as shipped

PowerFns == {"precharge", "setDSG", "setCHG"}
PowerCall(fn, arg) == [fn |-> fn, arg |-> arg]

VARIABLES
  pstep,      \* where precharge is
  left,       \* time its delay has left
  preDsg,     \* PRE_DSG_EN
  dsg,        \* DSG_EN
  chg,        \* CHG_EN
  sense,      \* the last reading of the pack voltage
  load        \* capacitors of the load that are full

vars == <<pstep, left, preDsg, dsg, chg, sense, load>>

PSteps == {"idle", "filling", "sensing", "settling", "warning"}

Init ==
  /\ pstep = "idle"
  /\ left = 0
  /\ preDsg = FALSE /\ dsg = FALSE /\ chg = FALSE
  /\ sense = 0
  /\ load = 0

(* prechargeDuration.                                                      *)
PrechargeTime(numCapacitors) == numCapacitors + 1

(* precharge: the resistor is switched in, and the wait begins.            *)
precharge(numCapacitors) ==
  /\ pstep = "idle"
  /\ preDsg' = TRUE
  /\ left' = PrechargeTime(numCapacitors)
  /\ pstep' = "filling"
  /\ UNCHANGED <<dsg, chg, sense, load>>

(* A unit of the delay passes, and another capacitor has been filled.      *)
Fill ==
  /\ pstep = "filling"
  /\ left > 0
  /\ left' = left - 1
  /\ load' = IF load < Capacitors THEN load + 1 ELSE load
  /\ UNCHANGED <<pstep, preDsg, dsg, chg, sense>>

(* readPackSense: 3.3 V over 1023 steps, behind a divider of 20.15 to      *)
(* 1.683; and the comparison with 10 V, both sides multiplied out.         *)
AboveThreshold(raw) == raw * 66495 >= 17217090

Sense(raw) ==
  /\ pstep = "filling"
  /\ left = 0
  /\ sense' = raw
  /\ pstep' = "sensing"
  /\ UNCHANGED <<left, preDsg, dsg, chg, load>>

(* mutant: the discharge path is closed whatever the pack voltage.         *)
EnableUnchecked ==
  /\ pstep = "sensing"
  /\ dsg' = TRUE
  /\ load' = Capacitors
  /\ pstep' = "settling"
  /\ UNCHANGED <<left, preDsg, chg, sense>>

(* The pack voltage will do: the discharge path is closed, which fills the *)
(* load at once if it was not.                                             *)
EnableDischarge ==
  /\ pstep = "sensing"
  /\ AboveThreshold(sense)
  /\ dsg' = TRUE
  /\ load' = Capacitors
  /\ pstep' = "settling"
  /\ UNCHANGED <<left, preDsg, chg, sense>>

(* mutant: a low pack is measured again until it will do.                  *)
WarnRetry ==
  /\ pstep = "sensing"
  /\ ~AboveThreshold(sense)
  /\ pstep' = "filling"
  /\ UNCHANGED <<left, preDsg, dsg, chg, sense, load>>

(* It will not: a warning, and the discharge path is left as it was.       *)
Warn ==
  /\ pstep = "sensing"
  /\ ~AboveThreshold(sense)
  /\ preDsg' = FALSE
  /\ pstep' = "warning"
  /\ UNCHANGED <<left, dsg, chg, sense, load>>

(* After another 100 ms, or the warning, precharge returns.                *)
EndPrecharge ==
  /\ pstep \in {"settling", "warning"}
  /\ preDsg' = FALSE
  /\ pstep' = "idle"
  /\ UNCHANGED <<left, dsg, chg, sense, load>>

setDSG(on) ==
  /\ pstep = "idle"
  /\ dsg' = on
  /\ load' = IF on THEN Capacitors ELSE load
  /\ UNCHANGED <<pstep, left, preDsg, chg, sense>>

setCHG(on) ==
  /\ pstep = "idle"
  /\ chg' = on
  /\ UNCHANGED <<pstep, left, preDsg, dsg, sense, load>>

(* With both paths open the load drains.                                   *)
Drain ==
  /\ ~dsg /\ ~preDsg
  /\ load > 0
  /\ load' = load - 1
  /\ UNCHANGED <<pstep, left, preDsg, dsg, chg, sense>>

(* The controller starts again: its pins are low before anything else.     *)
Restart ==
  /\ pstep' = "idle" /\ left' = 0
  /\ preDsg' = FALSE /\ dsg' = FALSE /\ chg' = FALSE
  /\ sense' = 0
  /\ UNCHANGED load

Call(k) ==
  \/ k.fn = "precharge" /\ precharge(k.arg)
  \/ k.fn = "setDSG" /\ setDSG(k.arg # 0)
  \/ k.fn = "setCHG" /\ setCHG(k.arg # 0)

Foreground ==
  \/ Fill
  \/ \E raw \in PackSamples : Sense(raw)
  \/ EnableDischarge
  \/ Warn
  \/ EndPrecharge

-----------------------------------------------------------------------------
TypeOK ==
  /\ pstep \in PSteps
  /\ left \in Nat
  /\ preDsg \in BOOLEAN /\ dsg \in BOOLEAN /\ chg \in BOOLEAN
  /\ sense \in 0 .. 1023
  /\ load \in 0 .. Capacitors
=============================================================================
