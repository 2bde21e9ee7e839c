------------------------- MODULE BmsNumericalProofs -------------------------
(***************************************************************************)
(* Theorems about the numerical commands, for every command and any number *)
(* a call may give: no code leaves its field, none wraps around, and every *)
(* voltage is coded to the nearest step its field has.                     *)
(***************************************************************************)
EXTENDS BmsNumerical, TLAPS

-----------------------------------------------------------------------------
(* The fields: what their scales are, and what they are limited to.        *)

Scales == {"cell", "block", "ntc", "short", "count", "gain", "none", "amps"}

IsField(f) ==
  /\ f.scale \in Scales
  /\ f.lo \in Nat /\ f.hi \in Nat /\ f.dflt \in Nat
  /\ f.lo <= f.dflt /\ f.dflt <= f.hi

(* Two fields whose highest codes fit a register of sixteen bits.          *)
Fits(t) ==
  /\ IsField(t.low) /\ IsField(t.high)
  /\ t.shift \in {4, 8, 12, 16}
  /\ Top(t.low.scale) < Pow2(t.shift)
  /\ Pow2(t.shift) * Top(t.high.scale) + Pow2(t.shift) - 1 <= 65535

LEMMA FieldParts ==
  ASSUME NEW s \in Scales, NEW lo \in Nat, NEW d \in Nat, NEW hi \in Nat,
         lo <= d, d <= hi
  PROVE  IsField(Field(s, lo, hi, d)) /\ Field(s, lo, hi, d).scale = s
  BY SMT DEF IsField, Field

LEMMA Fields ==
  /\ IsField(Count) /\ Count.scale = "count"
  /\ IsField(NoField) /\ NoField.scale = "none"
  /\ IsField(Amps) /\ Amps.scale = "amps"
  /\ IsField(Short) /\ Short.scale = "short"
  /\ \A d \in Nat : d <= 5000000 =>
       IsField(Cell(d)) /\ Cell(d).scale = "cell"
  /\ \A d \in Nat : d <= 25000000 =>
       IsField(Block(d)) /\ Block(d).scale = "block"
  <1> USE FieldParts DEF Scales
  <1>1. IsField(Count) /\ Count.scale = "count"
    BY SMT DEF Count
  <1>2. IsField(NoField) /\ NoField.scale = "none"
    BY SMT DEF NoField
  <1>3. IsField(Amps) /\ Amps.scale = "amps"
    BY SMT DEF Amps, Imax
  <1>4. IsField(Short) /\ Short.scale = "short"
    BY SMT DEF Short
  <1>5. \A d \in Nat : d <= 5000000 =>
       IsField(Cell(d)) /\ Cell(d).scale = "cell"
    BY SMT DEF Cell
  <1>6. \A d \in Nat : d <= 25000000 =>
       IsField(Block(d)) /\ Block(d).scale = "block"
    BY SMT DEF Block
  <1> QED
    BY <1>1, <1>2, <1>3, <1>4, <1>5, <1>6, SMT

LEMMA LayoutParts ==
  ASSUME NEW r, NEW f, NEW g, NEW s
  PROVE  /\ Layout(r, f, g, s).low = f /\ Layout(r, f, g, s).high = g
         /\ Layout(r, f, g, s).shift = s
  BY SMT DEF Layout

(* The fields that share a register, and where they meet.                  *)
Paired(a, b, shift) ==
  \/ shift = 16 /\ a = "gain" /\ b = "none"
  \/ shift = 8 /\ a \in {"cell", "block", "amps"}
       /\ b \in {"count", "cell", "none", "amps"}
  \/ shift = 12 /\ a = "ntc" /\ b \in {"count", "none"}
  \/ shift = 4 /\ a = "short" /\ b = "short"

LEMMA Tops ==
  /\ Top("cell") = 255 /\ Top("block") = 255 /\ Top("amps") = 255
  /\ Top("ntc") = 4095 /\ Top("short") = 15 /\ Top("count") = 15
  /\ Top("gain") = 65535 /\ Top("none") = 0
  BY SMT DEF Top

LEMMA Powers ==
  Pow2(4) = 16 /\ Pow2(8) = 256 /\ Pow2(12) = 4096 /\ Pow2(16) = 65536
  BY SMT DEF Pow2

LEMMA PairsFit ==
  ASSUME NEW a, NEW b, NEW shift, Paired(a, b, shift)
  PROVE  /\ shift \in {4, 8, 12, 16}
         /\ Top(a) < Pow2(shift)
         /\ Pow2(shift) * Top(b) + Pow2(shift) - 1 <= 65535
  BY Tops, Powers, SMT DEF Paired

LEMMA LayoutFits ==
  ASSUME NEW r, NEW f, NEW g, NEW s, IsField(f), IsField(g),
         Paired(f.scale, g.scale, s)
  PROVE  Fits(Layout(r, f, g, s))
  BY LayoutParts, PairsFit, SMT DEF Fits

LEMMA TableFits == \A c \in DOMAIN Numerical : Fits(Numerical[c])
  <1> USE LayoutFits, Fields DEF Paired
  <1>1. Fits(Numerical.CSA_GAIN_FACTOR)
    <2>1. /\ IsField(Field("gain", 0, 65535, 32768))
          /\ Field("gain", 0, 65535, 32768).scale = "gain"
      BY FieldParts, SMT DEF Scales
    <2> QED
      BY <2>1, SMT DEF Numerical
  <1>2. /\ Fits(Numerical.VCELL_OV_TH) /\ Fits(Numerical.VCELL_UV_TH)
        /\ Fits(Numerical.VCELL_SEVERE_DELTA_THRS)
        /\ Fits(Numerical.VCELL_BAL_UV_DELTA_TH)
    BY SMT DEF Numerical
  <1>3. /\ Fits(Numerical.VB_OV_TH) /\ Fits(Numerical.VB_UV_TH)
        /\ Fits(Numerical.VB_SUM_MAX_DIFF_TH)
    BY SMT DEF Numerical
  <1>4. /\ Fits(Numerical.VNTC_OT_TH) /\ Fits(Numerical.VNTC_UT_TH)
        /\ Fits(Numerical.VNTC_SEVERE_OT_DELTA_TH)
    <2>1. /\ IsField(Field("ntc", 200000, 3300000, 2500000))
          /\ Field("ntc", 200000, 3300000, 2500000).scale = "ntc"
          /\ IsField(Field("ntc", 0, 3300000, 500000))
          /\ Field("ntc", 0, 3300000, 500000).scale = "ntc"
      BY FieldParts, SMT DEF Scales
    <2> QED
      BY <2>1, SMT DEF Numerical
  <1>5. /\ Fits(Numerical.OVC_THRESHOLDS)
        /\ Fits(Numerical.PERSISTENT_OVC_THRESHOLDS)
        /\ Fits(Numerical.SC_THRESHOLD)
    BY SMT DEF Numerical
  <1>6. DOMAIN Numerical =
          { "CSA_GAIN_FACTOR", "VCELL_OV_TH", "VCELL_UV_TH",
            "VCELL_SEVERE_DELTA_THRS", "VCELL_BAL_UV_DELTA_TH", "VB_OV_TH",
            "VB_UV_TH", "VB_SUM_MAX_DIFF_TH", "VNTC_OT_TH", "VNTC_UT_TH",
            "VNTC_SEVERE_OT_DELTA_TH", "OVC_THRESHOLDS",
            "PERSISTENT_OVC_THRESHOLDS", "SC_THRESHOLD" }
    BY SMT DEF Numerical
  <1> QED
    BY <1>1, <1>2, <1>3, <1>4, <1>5, <1>6, SMT

IsArg(x) ==
  x.kind \in {"null", "min", "max", "default", "number"} /\ x.num \in Int

LEMMA ArgumentParts == \A x \in Arguments : IsArg(x)
  BY NumbersAssumption, SMT DEF Arguments, Keywords, Number, IsArg

(* Whatever is given, what a field gets is within its limits.              *)
LEMMA ParseFits ==
  ASSUME NEW f, IsField(f), NEW x, IsArg(x)
  PROVE  Parse(f, x) \in Nat /\ f.lo <= Parse(f, x) /\ Parse(f, x) <= f.hi
  <1>1. CASE x.kind = "number"
    <2>1. Parse(f, x) = AtLeast(AtMost(x.num, f.hi), f.lo)
      BY <1>1, SMT DEF Parse
    <2> QED
      BY <2>1, SMT DEF IsField, IsArg, AtLeast, AtMost
  <1>2. CASE x.kind \in {"null", "min"}
    <2>1. Parse(f, x) = f.lo
      BY <1>2, SMT DEF Parse
    <2> QED
      BY <2>1, SMT DEF IsField
  <1>3. CASE x.kind = "max"
    <2>1. Parse(f, x) = f.hi
      BY <1>3, SMT DEF Parse
    <2> QED
      BY <2>1, SMT DEF IsField
  <1>4. CASE x.kind = "default"
    <2>1. Parse(f, x) = f.dflt
      BY <1>4, SMT DEF Parse
    <2> QED
      BY <2>1, SMT DEF IsField
  <1> QED
    BY <1>1, <1>2, <1>3, <1>4 DEF IsArg

-----------------------------------------------------------------------------
(* Codes.                                                                  *)

LEMMA Steps ==
  /\ Lsb("cell") = 19520 /\ Lsb("block") = 97600 /\ Lsb("ntc") = 806
  /\ Lsb("short") = 14040 /\ Lsb("count") = 1 /\ Lsb("gain") = 1
  /\ Lsb("none") = 1
  BY SMT DEF Lsb

LEMMA Quotients ==
  ASSUME NEW v \in Nat
  PROVE  /\ Quotient("cell", v) = (2 * v + 19520) \div 39040
         /\ Quotient("block", v) = (2 * v + 97600) \div 195200
         /\ Quotient("ntc", v) = (2 * v + 806) \div 1612
         /\ Quotient("amps", v) = (2 * (v * 255) + 37500) \div 75000
         /\ Quotient("short", v) = (2 * ShortVolts(v) + 14040) \div 28080
         /\ \A s \in {"count", "gain", "none"} :
              Quotient(s, v) = (2 * v + 1) \div 2
  <1>1. \A s \in {"cell", "block", "ntc", "count", "gain", "none"} :
          Quotient(s, v) = Rounded(v, Lsb(s))
    BY SMT DEF Quotient
  <1>2. Quotient("amps", v) = Rounded(v * 255, Imax)
    BY SMT DEF Quotient
  <1>3. Quotient("short", v) = Rounded(ShortVolts(v), Lsb("short"))
    BY SMT DEF Quotient
  <1> QED
    BY <1>1, <1>2, <1>3, Steps, SMT DEF Rounded, Imax

LEMMA ShortVoltsRises ==
  ASSUME NEW u \in Nat, NEW v \in Nat, u <= v
  PROVE  /\ ShortVolts(u) \in Nat /\ ShortVolts(v) \in Nat
         /\ ShortVolts(u) <= ShortVolts(v)
  BY SMT DEF ShortVolts, AtLeast, AtMost

(* More is never coded as less, before or after a code is limited.         *)
LEMMA QuotientRises ==
  ASSUME NEW s \in Scales, NEW u \in Nat, NEW v \in Nat, u <= v
  PROVE  /\ Quotient(s, u) \in Nat /\ Quotient(s, v) \in Nat
         /\ Quotient(s, u) <= Quotient(s, v)
  <1>1. CASE s \in {"cell", "block", "ntc"}
    BY <1>1, Quotients, SMT
  <1>2. CASE s = "amps"
    BY <1>2, Quotients, SMT
  <1>3. CASE s = "short"
    <2>1. PICK a, b \in Nat : a = ShortVolts(u) /\ b = ShortVolts(v) /\ a <= b
      BY ShortVoltsRises
    <2>2. /\ Quotient(s, u) = (2 * a + 14040) \div 28080
          /\ Quotient(s, v) = (2 * b + 14040) \div 28080
      BY <1>3, <2>1, Quotients
    <2> QED
      BY <2>1, <2>2, SMT
  <1>4. CASE s \in {"count", "gain", "none"}
    BY <1>4, Quotients, SMT
  <1> QED
    BY <1>1, <1>2, <1>3, <1>4 DEF Scales

LEMMA TopNat == ASSUME NEW s \in Scales PROVE Top(s) \in Nat
  BY Tops, SMT DEF Scales

LEMMA CodeRises ==
  ASSUME NEW s \in Scales, NEW u \in Nat, NEW v \in Nat, u <= v
  PROVE  /\ Code(s, u) \in Nat /\ Code(s, v) \in Nat
         /\ Code(s, u) <= Code(s, v) /\ Code(s, v) <= Top(s)
  BY QuotientRises, TopNat, SMT DEF Code, AtMost

LEMMA NeverLowerHolds ==
  ASSUME NEW f, IsField(f), NEW x, IsArg(x), NEW y, IsArg(y)
  PROVE  NeverLower(f, x, y)
  <1>1. f.scale \in Scales
    BY DEF IsField
  <1> QED
    BY <1>1, ParseFits, CodeRises, SMT DEF NeverLower

LEMMA NearestHolds ==
  ASSUME NEW f, IsField(f), NEW x, IsArg(x)
  PROVE  Nearest(f, x)
  <1> DEFINE v == Parse(f, x)
             c == Code(f.scale, v)
             q == Quotient(f.scale, v)
  <1>1. v \in Nat
    BY ParseFits
  <1> HIDE DEF v
  <1> SUFFICES ASSUME f.scale \in Volts
               PROVE  \/ 2 * Distance(c * Lsb(f.scale), v) <= Lsb(f.scale)
                      \/ c = Top(f.scale) /\ v > c * Lsb(f.scale)
    BY DEF Nearest, v
  <1>2. c = IF q > Top(f.scale) THEN Top(f.scale) ELSE q
    BY DEF Code, AtMost
  <1> HIDE DEF c, q
  <1>3. CASE f.scale = "cell"
    <2>1. q = (2 * v + 19520) \div 39040
      BY <1>1, <1>3, Quotients DEF q
    <2> QED
      BY <1>1, <1>2, <1>3, <2>1, Tops, Steps, SMT DEF Distance
  <1>4. CASE f.scale = "block"
    <2>1. q = (2 * v + 97600) \div 195200
      BY <1>1, <1>4, Quotients DEF q
    <2> QED
      BY <1>1, <1>2, <1>4, <2>1, Tops, Steps, SMT DEF Distance
  <1>5. CASE f.scale = "ntc"
    <2>1. q = (2 * v + 806) \div 1612
      BY <1>1, <1>5, Quotients DEF q
    <2> QED
      BY <1>1, <1>2, <1>5, <2>1, Tops, Steps, SMT DEF Distance
  <1> QED
    BY <1>3, <1>4, <1>5 DEF Volts

-----------------------------------------------------------------------------
(* Packing.                                                                *)

LEMMA InWord == ASSUME NEW m \in Nat, m <= 65535 PROVE m \in Word
  <1>1. UINT16_MAX \in Nat /\ m <= UINT16_MAX
    BY DEF UINT16_MAX
  <1> QED
    BY <1>1 DEF Word

LEMMA Packing ==
  ASSUME NEW k \in {4, 8, 12, 16}, NEW a \in Nat, NEW b \in Nat,
         a < Pow2(k), Pow2(k) * b + Pow2(k) - 1 <= 65535
  PROVE  LET w == U16((a % Pow2(k)) + Pow2(k) * b)
         IN  w \in Word /\ w % Pow2(k) = a /\ w \div Pow2(k) = b
  <1>1. CASE k = 4
    <2>1. a < 16 /\ 16 * b + 16 - 1 <= 65535 /\ Pow2(k) = 16
      BY <1>1, Powers
    <2>2. a % 16 = a /\ (a + 16 * b) % 16 = a /\ (a + 16 * b) \div 16 = b
      BY <2>1, SMT
    <2>3. (a + 16 * b) % 65536 = a + 16 * b /\ a + 16 * b <= 65535
      BY <2>1, SMT
    <2>4. PICK w : w = U16((a % 16) + 16 * b)
      OBVIOUS
    <2>5. w = a + 16 * b
      BY <2>2, <2>3, <2>4 DEF U16
    <2>6. w \in Word
      BY <2>3, <2>5, InWord
    <2>7. w % 16 = a /\ w \div 16 = b
      BY <2>2, <2>5
    <2> QED
      BY <2>1, <2>4, <2>6, <2>7
  <1>2. CASE k = 8
    <2>1. a < 256 /\ 256 * b + 256 - 1 <= 65535 /\ Pow2(k) = 256
      BY <1>2, Powers
    <2>2. a % 256 = a /\ (a + 256 * b) % 256 = a /\ (a + 256 * b) \div 256 = b
      BY <2>1, SMT
    <2>3. (a + 256 * b) % 65536 = a + 256 * b /\ a + 256 * b <= 65535
      BY <2>1, SMT
    <2>4. PICK w : w = U16((a % 256) + 256 * b)
      OBVIOUS
    <2>5. w = a + 256 * b
      BY <2>2, <2>3, <2>4 DEF U16
    <2>6. w \in Word
      BY <2>3, <2>5, InWord
    <2>7. w % 256 = a /\ w \div 256 = b
      BY <2>2, <2>5
    <2> QED
      BY <2>1, <2>4, <2>6, <2>7
  <1>3. CASE k = 12
    <2>1. a < 4096 /\ 4096 * b + 4096 - 1 <= 65535 /\ Pow2(k) = 4096
      BY <1>3, Powers
    <2>2. a % 4096 = a /\ (a + 4096 * b) % 4096 = a /\ (a + 4096 * b) \div 4096 = b
      BY <2>1, SMT
    <2>3. (a + 4096 * b) % 65536 = a + 4096 * b /\ a + 4096 * b <= 65535
      BY <2>1, SMT
    <2>4. PICK w : w = U16((a % 4096) + 4096 * b)
      OBVIOUS
    <2>5. w = a + 4096 * b
      BY <2>2, <2>3, <2>4 DEF U16
    <2>6. w \in Word
      BY <2>3, <2>5, InWord
    <2>7. w % 4096 = a /\ w \div 4096 = b
      BY <2>2, <2>5
    <2> QED
      BY <2>1, <2>4, <2>6, <2>7
  <1>4. CASE k = 16
    <2>1. a < 65536 /\ 65536 * b + 65536 - 1 <= 65535 /\ Pow2(k) = 65536
      BY <1>4, Powers
    <2>2. a % 65536 = a /\ (a + 65536 * b) % 65536 = a /\ (a + 65536 * b) \div 65536 = b
      BY <2>1, SMT
    <2>3. (a + 65536 * b) % 65536 = a + 65536 * b /\ a + 65536 * b <= 65535
      BY <2>1, SMT
    <2>4. PICK w : w = U16((a % 65536) + 65536 * b)
      OBVIOUS
    <2>5. w = a + 65536 * b
      BY <2>2, <2>3, <2>4 DEF U16
    <2>6. w \in Word
      BY <2>3, <2>5, InWord
    <2>7. w % 65536 = a /\ w \div 65536 = b
      BY <2>2, <2>5
    <2> QED
      BY <2>1, <2>4, <2>6, <2>7
  <1> QED
    BY <1>1, <1>2, <1>3, <1>4

Called == command \in DOMAIN Numerical /\ IsArg(low) /\ IsArg(high)

LEMMA CalledHolds == Spec => []Called
  <1>1. Init => Called
    BY ArgumentParts, SMT DEF Init, Called, Arguments, Numerical
  <1>2. Called /\ [Next]_vars => Called'
    BY ArgumentParts, SMT DEF Next, vars, Called
  <1> QED
    BY <1>1, <1>2, PTL DEF Spec

(* Both fields of a register can be read back from what is sent, whatever  *)
(* the command and its arguments: no code is too large for its bits.       *)
THEOREM FieldsReadBack == Spec => []FieldsApart
  <1>1. Called => FieldsApart
    <2> SUFFICES ASSUME Called PROVE FieldsApart
      OBVIOUS
    <2> DEFINE t == Numerical[command]
               a == Code(t.low.scale, Parse(t.low, low))
               b == Code(t.high.scale, Parse(t.high, high))
    <2>1. Fits(t)
      BY TableFits DEF Called
    <2>2. t.low.scale \in Scales /\ t.high.scale \in Scales
      BY <2>1 DEF Fits, IsField
    <2>3. Parse(t.low, low) \in Nat /\ Parse(t.high, high) \in Nat
      BY <2>1, ParseFits DEF Called, Fits
    <2>4. /\ a \in Nat /\ a <= Top(t.low.scale)
          /\ b \in Nat /\ b <= Top(t.high.scale)
      BY <2>2, <2>3, CodeRises
    <2>5. /\ t.shift \in {4, 8, 12, 16} /\ Pow2(t.shift) \in Nat
          /\ a < Pow2(t.shift)
          /\ Pow2(t.shift) * b + Pow2(t.shift) - 1 <= 65535
      <3>1. /\ t.shift \in {4, 8, 12, 16} /\ Top(t.low.scale) < Pow2(t.shift)
            /\ Pow2(t.shift) * Top(t.high.scale) + Pow2(t.shift) - 1 <= 65535
        BY <2>1 DEF Fits
      <3>2. /\ Top(t.low.scale) \in Nat /\ Top(t.high.scale) \in Nat
        BY <2>2, TopNat
      <3> HIDE DEF t, a, b
      <3>3. CASE t.shift = 4
        BY <2>4, <3>1, <3>2, <3>3, Powers, SMT
      <3>4. CASE t.shift = 8
        BY <2>4, <3>1, <3>2, <3>4, Powers, SMT
      <3>5. CASE t.shift = 12
        BY <2>4, <3>1, <3>2, <3>5, Powers, SMT
      <3>6. CASE t.shift = 16
        BY <2>4, <3>1, <3>2, <3>6, Powers, SMT
      <3> QED
        BY <3>1, <3>3, <3>4, <3>5, <3>6
    <2>6. NumericalPrepared(command, low, high).data =
            U16((a % Pow2(t.shift)) + Pow2(t.shift) * b)
      BY DEF NumericalPrepared, Send
    <2> HIDE DEF t, a, b
    <2>7. LET w == NumericalPrepared(command, low, high).data
          IN  /\ w \in Word /\ w % Pow2(t.shift) = a
              /\ w \div Pow2(t.shift) = b
      BY <2>4, <2>5, <2>6, Packing
    <2> QED
      BY <2>7 DEF FieldsApart, t, a, b
  <1> QED
    BY <1>1, CalledHolds, PTL

(* The nearest code is sent for a voltage, whatever number is asked for.   *)
THEOREM NearestCodeIsSent == Spec => []NearestCode
  <1>1. Called => NearestCode
    BY TableFits, NearestHolds DEF Called, Fits, NearestCode
  <1> QED
    BY <1>1, CalledHolds, PTL

(* More asked is never less set, whatever is asked for before and after.   *)
THEOREM LimitsAreMonotone == Spec => HigherAskedHigherSet
  <1> DEFINE Risen ==
        command' = command =>
          /\ NeverLower(Numerical[command].low, low, low')
          /\ NeverLower(Numerical[command].high, high, high')
  <1>1. Called /\ Called' /\ [Next]_vars => [Risen]_vars
    BY TableFits, NeverLowerHolds DEF Called, Fits
  <1> QED
    BY <1>1, CalledHolds, PTL DEF Spec, HigherAskedHigherSet
=============================================================================
