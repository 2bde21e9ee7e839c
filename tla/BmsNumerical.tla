---------------------------- MODULE BmsNumerical ----------------------------
(***************************************************************************)
(* sendBMSNumericalCommand called again and again, with every command and  *)
(* with any arguments: the keywords, a missing argument, and numbers.      *)
(***************************************************************************)
EXTENDS BmsCodes

CONSTANTS
  Numbers    \* the numbers given, as strtol or atof read them

ASSUME NumbersAssumption == Numbers \subseteq Int

VARIABLES command, low, high
vars == <<command, low, high>>

Number(n) == [kind |-> "number", num |-> n]
Keywords == {[kind |-> k, num |-> 0] : k \in {"null", "min", "max", "default"}}
Arguments == Keywords \cup {Number(n) : n \in Numbers}

Init == command = "CSA_GAIN_FACTOR" /\ low \in Keywords /\ high \in Keywords

(* Another command, or another argument for the same one.                  *)
Next ==
  \/ command' \in DOMAIN Numerical /\ UNCHANGED <<low, high>>
  \/ low' \in Arguments /\ UNCHANGED <<command, high>>
  \/ high' \in Arguments /\ UNCHANGED <<command, low>>

Spec == Init /\ [][Next]_vars

-----------------------------------------------------------------------------
Volts == {"cell", "block", "ntc"}
Distance(a, b) == IF a > b THEN a - b ELSE b - a

Nearest(f, arg) ==
  LET v == Parse(f, arg)
      code == Code(f.scale, v)
  IN  f.scale \in Volts =>
        \/ 2 * Distance(code * Lsb(f.scale), v) <= Lsb(f.scale)
        \/ code = Top(f.scale) /\ v > code * Lsb(f.scale)

(* A voltage, in either field, is coded to within half a step of what was  *)
(* asked, unless it is beyond what the highest code stands for.            *)
NearestCode ==
  /\ Nearest(Numerical[command].low, low)
  /\ Nearest(Numerical[command].high, high)

(* Both fields of a register can be read back from it: masking and packing *)
(* lose nothing, though 5 V comes to 256, which eight bits would hold as 0.*)
FieldsApart ==
  LET t == Numerical[command]
      w == NumericalPrepared(command, low, high)
  IN  /\ w.data \in Word
      /\ w.data % Pow2(t.shift) = Code(t.low.scale, Parse(t.low, low))
      /\ w.data \div Pow2(t.shift) = Code(t.high.scale, Parse(t.high, high))

NeverLower(f, before, after) ==
  Parse(f, after) >= Parse(f, before) =>
    Code(f.scale, Parse(f, after)) >= Code(f.scale, Parse(f, before))

(* Asking for a higher limit in the same register never lowers it: no code *)
(* wraps around.                                                           *)
HigherAskedHigherSet ==
  [][command' = command =>
       /\ NeverLower(Numerical[command].low, low, low')
       /\ NeverLower(Numerical[command].high, high, high')]_vars
=============================================================================
