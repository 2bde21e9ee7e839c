------------------------------ MODULE BmsCodes ------------------------------
(***************************************************************************)
(* The register values of the L9961 battery monitor: what each of the six  *)
(* command functions of BMS_SetupCommands.cpp and BMS_NumericalCommands.cpp*)
(* makes of its arguments, as a register address and sixteen bits of data. *)
(*                                                                         *)
(* Physical quantities are integers: voltages in microvolts, currents in   *)
(* milliamperes.  The source computes in float and rounds by adding one    *)
(* half and truncating; the quotients here are exact and rounded the same  *)
(* way.                                                                    *)
(*                                                                         *)
(* A textual argument is its kind, with the number that strtol or atof     *)
(* makes of it; nothing here depends on how the number was spelled.        *)
(***************************************************************************)
EXTENDS Integers

UINT16_MAX == 65535
Word == 0 .. UINT16_MAX
U16Kept(n) == n                \* mutant: the argument is not narrowed
U16(n) == n % 65536
AtMost(v, top) == IF v > top THEN top ELSE v
AtLeast(v, low) == IF v < low THEN low ELSE v

(* What a command function sends: at most one register write.              *)
Send(r, v) == [reg |-> r, data |-> v]
Nothing == [reg |-> 0, data |-> 0]
Sends(w) == w # Nothing

-----------------------------------------------------------------------------
(* sendBMSConfigCommand                                                    *)

Config ==
  [ CFG2_ENABLES    |-> [reg |->  4, dflt |->  6655, max |-> 16383],
    TO_PRDV_BAL_MSK |-> [reg |-> 19, dflt |-> 32767, max |-> 32767],
    TO_FUSE_RST_MSK |-> [reg |-> 20, dflt |->   127, max |->   127],
    TO_FAULTN_MSK   |-> [reg |-> 21, dflt |->  4095, max |->  4095],
    CURR_MSK        |-> [reg |-> 22, dflt |->  4095, max |->  4095],
    DIAG_OV_OT_UT   |-> [reg |-> 42, dflt |->     0, max |-> 65535],
    DIAG_UV         |-> [reg |-> 43, dflt |->     0, max |-> 65535],
    DIAG_CURR       |-> [reg |-> 47, dflt |->     0, max |-> 65535] ]

(* mutant: a value over the maximum is sent as it is.                      *)
ConfigDataUncapped(e, value) ==
  IF value.kind = "default" THEN e.dflt ELSE U16(value.num)

(* The number is cast to uint16_t before it is compared with the maximum.  *)
ConfigData(e, value) ==
  IF value.kind = "default" THEN e.dflt ELSE AtMost(U16(value.num), e.max)

ConfigWrite(command, value) ==
  IF command \in DOMAIN Config /\ value.kind \in {"default", "binary"}
    THEN Send(Config[command].reg, ConfigData(Config[command], value))
    ELSE Nothing

-----------------------------------------------------------------------------
(* sendBMSIdentityCommand, RWBMSNVM, sendBMSRealTimeCommand                *)

Identity ==
  [ MANUFACTURE_NAME_MSB |-> 23, MANUFACTURE_NAME_LSB |-> 24,
    MANUFACTURING_DATE   |-> 25, FIRST_USAGE_DATE     |-> 26,
    SERIAL_NUMBER_MSB    |-> 27, SERIAL_NUMBER_LSB    |-> 28,
    DEVICE_NAME_MSB      |-> 29, DEVICE_NAME_LSB      |-> 30 ]

(* mutant: zero is looked for before the argument is narrowed.             *)
IdentityWriteEarly(command, value) ==
  IF value.num # 0 /\ command \in DOMAIN Identity
    THEN Send(Identity[command], U16(value.num))
    ELSE Nothing

IdentityWrite(command, value) ==
  IF U16(value.num) # 0 /\ command \in DOMAIN Identity
    THEN Send(Identity[command], U16(value.num))
    ELSE Nothing

Nvm == [ NVM_2_DL |-> Send(32, 43690), NVM_2_UL |-> Send(32, 21845) ]

RealTime ==
  [ BAL_ENABLE       |-> Send(1, 31),     BAL_DISABLE   |-> Send(1, 0),
    GO2SHIP          |-> Send(33, 8192),  GO2STBY       |-> Send(34, 8192),
    FUSE_TRIG_DISARM |-> Send(35, 4096),  FUSE_TRIG_ARM |-> Send(35, 8192),
    FUSE_TRIG_FIRE_INTERRUPT |-> Send(36, 4096),
    FUSE_TRIG_FIRE   |-> Send(36, 8192) ]

TableWrite(table, command) ==
  IF command \in DOMAIN table THEN table[command] ELSE Nothing

-----------------------------------------------------------------------------
(* sendBMSNumericalCommand: parsing, coding and packing of one or two      *)
(* fields per register.                                                    *)

Imax == 37500                      \* 0.3 V over senseResistor, 8 milliohms

Field(scale, lo, hi, dflt) ==
  [scale |-> scale, lo |-> lo, hi |-> hi, dflt |-> dflt]

Count == Field("count", 1, 15, 15)
NoField == Field("none", 0, 0, 0)

(* low occupies the bits below shift, high those from shift upwards.       *)
Layout(r, low, high, shift) ==
  [reg |-> r, low |-> low, high |-> high, shift |-> shift]

Cell(dflt)  == Field("cell",  0, 5000000, dflt)
Block(dflt) == Field("block", 0, 25000000, dflt)
Amps        == Field("amps",  0, Imax, Imax)
Short       == Field("short", 0, 1000000, 100000)

Numerical ==
  [ CSA_GAIN_FACTOR |->
      Layout(5, Field("gain", 0, 65535, 32768), NoField, 16),
    VCELL_OV_TH             |-> Layout(6, Cell(4300000), Count, 8),
    VCELL_UV_TH             |-> Layout(7, Cell(2200000), Count, 8),
    VCELL_SEVERE_DELTA_THRS |-> Layout(8, Cell(200000), Cell(200000), 8),
    VCELL_BAL_UV_DELTA_TH   |-> Layout(9, Cell(200000), Count, 8),
    VB_OV_TH                |-> Layout(10, Block(23000000), Count, 8),
    VB_UV_TH                |-> Layout(11, Block(10930000), Count, 8),
    VB_SUM_MAX_DIFF_TH      |-> Layout(12, Block(2000000), NoField, 8),
    VNTC_OT_TH |->
      Layout(13, Field("ntc", 200000, 3300000, 2500000), Count, 12),
    VNTC_UT_TH |->
      Layout(14, Field("ntc", 0, 3300000, 500000), Count, 12),
    VNTC_SEVERE_OT_DELTA_TH |->
      Layout(15, Field("ntc", 0, 3300000, 500000), NoField, 12),
    OVC_THRESHOLDS            |-> Layout(16, Amps, Amps, 8),
    PERSISTENT_OVC_THRESHOLDS |-> Layout(17, Amps, NoField, 8),
    SC_THRESHOLD              |-> Layout(18, Short, Short, 4) ]

(* parseIntArg and parseFloatArg, with the default that replaces their     *)
(* sentinel.                                                               *)
Parse(f, arg) ==
  CASE arg.kind \in {"null", "min"} -> f.lo
    [] arg.kind = "max"             -> f.hi
    [] arg.kind = "default"         -> f.dflt
    [] arg.kind = "number"          -> AtLeast(AtMost(arg.num, f.hi), f.lo)

RoundedDown(a, b) == a \div b             \* mutant: the half is not added
Rounded(a, b) == (2 * a + b) \div (2 * b)

(* The step of a scale, and the highest code its bits can hold.            *)
Lsb(scale) ==
  CASE scale = "cell" -> 19520 [] scale = "block" -> 97600
    [] scale = "ntc" -> 806 [] scale = "short" -> 14040
    [] scale \in {"count", "gain", "none"} -> 1

TopUncapped(scale) == 65535    \* mutant: nothing keeps codes in their bits

Top(scale) ==
  CASE scale \in {"cell", "block", "amps"} -> 255
    [] scale = "ntc" -> 4095
    [] scale \in {"short", "count"} -> 15
    [] scale = "gain" -> 65535
    [] scale = "none" -> 0

(* currentToCode: the voltage over the sense resistor, kept within the     *)
(* comparator's range and counted from its lowest threshold.               *)
ShortVolts(current) == AtLeast(AtMost(8 * current, 259740), 49140) - 49140

(* The code before it is limited to the bits it has.                       *)
Quotient(scale, v) ==
  CASE scale = "amps"  -> Rounded(v * 255, Imax)
    [] scale = "short" -> Rounded(ShortVolts(v), Lsb(scale))
    [] scale \notin {"amps", "short"} -> Rounded(v, Lsb(scale))

(* mutant: the code is cut to its bits instead of limited to them.         *)
CodeCut(scale, v) == Quotient(scale, v) % (Top(scale) + 1)

Code(scale, v) == AtMost(Quotient(scale, v), Top(scale))

(* 1 << bits, for the four shifts the layouts use.                         *)
Pow2(bits) ==
  CASE bits = 4 -> 16 [] bits = 8 -> 256 [] bits = 12 -> 4096
    [] bits = 16 -> 65536

(* The write the function prepares: each field masked to its width ...     *)
NumericalPrepared(command, low, high) ==
  LET t == Numerical[command]
      P == Pow2(t.shift)
  IN  Send(t.reg, U16((Code(t.low.scale, Parse(t.low, low)) % P) +
                        P * Code(t.high.scale, Parse(t.high, high))))

(* ... and the one it makes.  The statements that would send it stand in   *)
(* the last else, the one for unknown commands, after its return.          *)
NumericalWrite(command, low, high) == Nothing
=============================================================================
