------------------------- MODULE BmsCommandsProofs -------------------------
(***************************************************************************)
(* Theorems about BmsCommands, for any calls with any arguments, any power-*)
(* up and NVM contents, failures and restarts with or without the chip.    *)
(***************************************************************************)
EXTENDS BmsCommands, SequenceTheorems, TLAPS

-----------------------------------------------------------------------------
(* The tables, row by row.                                                 *)

ConfigNames == {"CFG2_ENABLES", "TO_PRDV_BAL_MSK", "TO_FUSE_RST_MSK",
                "TO_FAULTN_MSK", "CURR_MSK", "DIAG_OV_OT_UT", "DIAG_UV",
                "DIAG_CURR"}

Row(c, r, d, m) == Config[c].reg = r /\ Config[c].dflt = d /\ Config[c].max = m

LEMMA ConfigRows ==
  /\ Row("CFG2_ENABLES", 4, 6655, 16383)
  /\ Row("TO_PRDV_BAL_MSK", 19, 32767, 32767)
  /\ Row("TO_FUSE_RST_MSK", 20, 127, 127)
  /\ Row("TO_FAULTN_MSK", 21, 4095, 4095)
  /\ Row("CURR_MSK", 22, 4095, 4095)
  /\ Row("DIAG_OV_OT_UT", 42, 0, 65535)
  /\ Row("DIAG_UV", 43, 0, 65535)
  /\ Row("DIAG_CURR", 47, 0, 65535)
  BY DEF Row, Config

LEMMA ConfigDomain == DOMAIN Config = ConfigNames
  BY DEF Config, ConfigNames

LEMMA InWord == ASSUME NEW n \in Nat, n <= UINT16_MAX PROVE n \in Word
  BY DEF Word

LEMMA ConfigEntry ==
  ASSUME NEW c \in DOMAIN Config
  PROVE  /\ Config[c].reg \in {4, 19, 20, 21, 22, 42, 43, 47}
         /\ Config[c].max \in Word
         /\ Config[c].dflt \in Word
         /\ Config[c].dflt <= Config[c].max
  <1>1. Config[c].reg \in {4, 19, 20, 21, 22, 42, 43, 47}
    BY ConfigRows, ConfigDomain DEF Row, ConfigNames
  <1>2. /\ Config[c].max \in Nat /\ Config[c].max <= UINT16_MAX
        /\ Config[c].dflt \in Nat /\ Config[c].dflt <= Config[c].max
    BY ConfigRows, ConfigDomain DEF Row, ConfigNames, UINT16_MAX
  <1>3. UINT16_MAX \in Nat
    BY DEF UINT16_MAX
  <1> QED
    BY <1>1, <1>2, <1>3, InWord

LEMMA ConfigOneRegister ==
  ASSUME NEW c \in DOMAIN Config, NEW d \in DOMAIN Config,
         Config[c].reg = Config[d].reg
  PROVE  c = d
  BY ConfigRows, ConfigDomain DEF Row, ConfigNames

IdentityNames == {"MANUFACTURE_NAME_MSB", "MANUFACTURE_NAME_LSB",
    "MANUFACTURING_DATE", "FIRST_USAGE_DATE", "SERIAL_NUMBER_MSB",
    "SERIAL_NUMBER_LSB", "DEVICE_NAME_MSB", "DEVICE_NAME_LSB"}

LEMMA IdentityDomain == DOMAIN Identity = IdentityNames
  BY DEF Identity, IdentityNames

LEMMA IdentityEntry ==
  ASSUME NEW c \in DOMAIN Identity
  PROVE  Identity[c] \in 23 .. 30
  BY IdentityDomain DEF Identity, IdentityNames

LEMMA RealTimeDomain ==
  DOMAIN RealTime = {"BAL_ENABLE", "BAL_DISABLE", "GO2SHIP", "GO2STBY",
      "FUSE_TRIG_DISARM", "FUSE_TRIG_ARM", "FUSE_TRIG_FIRE_INTERRUPT",
      "FUSE_TRIG_FIRE"}
  BY DEF RealTime

At(t, c, r, v) == t[c].reg = r /\ t[c].data = v

LEMMA RealTimeRows ==
  /\ At(RealTime, "BAL_ENABLE", 1, 31)
  /\ At(RealTime, "BAL_DISABLE", 1, 0)
  /\ At(RealTime, "GO2SHIP", 33, 8192)
  /\ At(RealTime, "GO2STBY", 34, 8192)
  /\ At(RealTime, "FUSE_TRIG_DISARM", 35, 4096)
  /\ At(RealTime, "FUSE_TRIG_ARM", 35, 8192)
  /\ At(RealTime, "FUSE_TRIG_FIRE_INTERRUPT", 36, 4096)
  /\ At(RealTime, "FUSE_TRIG_FIRE", 36, 8192)
  BY DEF At, RealTime, Send

LEMMA RealTimeEntry ==
  ASSUME NEW c \in DOMAIN RealTime
  PROVE  /\ RealTime[c].reg \in {1, 33, 34, 35, 36}
         /\ RealTime[c].data \in Word
  <1>1. RealTime[c].reg \in {1, 33, 34, 35, 36}
    BY RealTimeRows, RealTimeDomain DEF At
  <1>2. RealTime[c].data \in Nat /\ RealTime[c].data <= UINT16_MAX
    BY RealTimeRows, RealTimeDomain DEF At, UINT16_MAX
  <1> QED
    BY <1>1, <1>2, InWord

LEMMA NvmEntry ==
  ASSUME NEW c \in DOMAIN Nvm
  PROVE  Nvm[c].reg = 32 /\ Nvm[c].data \in Word
  <1>1. /\ Nvm[c].reg = 32
        /\ Nvm[c].data \in Nat /\ Nvm[c].data <= UINT16_MAX
    BY DEF Nvm, Send, UINT16_MAX
  <1> QED
    BY <1>1, InWord

-----------------------------------------------------------------------------
(* The calls of setup().                                                   *)

NumericalNames ==
  { "CSA_GAIN_FACTOR", "VCELL_OV_TH", "VCELL_UV_TH",
    "VCELL_SEVERE_DELTA_THRS", "VCELL_BAL_UV_DELTA_TH", "VB_OV_TH",
    "VB_UV_TH", "VB_SUM_MAX_DIFF_TH", "VNTC_OT_TH", "VNTC_UT_TH",
    "VNTC_SEVERE_OT_DELTA_TH", "OVC_THRESHOLDS",
    "PERSISTENT_OVC_THRESHOLDS", "SC_THRESHOLD" }

LEMMA NumericalDomain == DOMAIN Numerical = NumericalNames
  BY DEF Numerical, NumericalNames

LEMMA KnownNames ==
  /\ ConfigNames \subseteq CommandNames
  /\ IdentityNames \subseteq CommandNames
  /\ NumericalNames \subseteq CommandNames
  /\ "CONVERSION_ON" \in CommandNames
  BY ConfigDomain, IdentityDomain, NumericalDomain, Zenon DEF CommandNames

Kinded(a) == a \in [kind : ArgKinds, num : Int]

LEMMA Args ==
  /\ Kinded(NoArg)
  /\ \A n \in Int : \A k \in ArgKinds : Kinded(Arg(k, n))
  BY DEF Kinded, NoArg, Arg, ArgKinds

LEMMA CallType ==
  ASSUME NEW fn \in CallFns, NEW c \in CommandNames,
         NEW a, NEW b, Kinded(a), Kinded(b)
  PROVE  Call(fn, c, a, b) \in BmsCalls
  BY DEF Kinded, Call, BmsCalls

LEMMA Kinds ==
  /\ "default" \in ArgKinds /\ "null" \in ArgKinds /\ "min" \in ArgKinds
  /\ "max" \in ArgKinds /\ "number" \in ArgKinds
  BY DEF ArgKinds

LEMMA Fns ==
  /\ "config" \in CallFns /\ "identity" \in CallFns
  /\ "numerical" \in CallFns /\ "conversion" \in CallFns
  BY DEF CallFns

LEMMA ConfigCall ==
  ASSUME NEW c \in ConfigNames PROVE SetConfig(c) \in BmsCalls
  <1>1. 0 \in Int
    OBVIOUS
  <1> QED
    BY <1>1, Args, Kinds, Fns, CallType, KnownNames, Zenon DEF SetConfig

LEMMA IdentityCall ==
  ASSUME NEW c \in IdentityNames, NEW n \in Int
  PROVE  SetIdentity(c, n) \in BmsCalls
  BY Args, Kinds, Fns, CallType, KnownNames, Zenon DEF SetIdentity

LEMMA NumberCall ==
  ASSUME NEW c \in NumericalNames, NEW k1 \in ArgKinds, NEW k2 \in ArgKinds
  PROVE  SetNumber(c, k1, k2) \in BmsCalls
  <1>1. 0 \in Int
    OBVIOUS
  <1> QED
    BY <1>1, Args, Kinds, Fns, CallType, KnownNames, Zenon DEF SetNumber

LEMMA ConversionCall == SetConversion("CONVERSION_ON") \in BmsCalls
  BY Args, Fns, CallType, KnownNames, Zenon DEF SetConversion

LEMMA Eight ==
  ASSUME NEW S, NEW a \in S, NEW b \in S, NEW c \in S, NEW d \in S,
         NEW e \in S, NEW f \in S, NEW g \in S, NEW h \in S
  PROVE  << a, b, c, d, e, f, g, h >> \in Seq(S)
  OBVIOUS

LEMMA Fourteen ==
  ASSUME NEW S, NEW a \in S, NEW b \in S, NEW c \in S, NEW d \in S,
         NEW e \in S, NEW f \in S, NEW g \in S, NEW h \in S, NEW i \in S,
         NEW j \in S, NEW k \in S, NEW l \in S, NEW m \in S, NEW n \in S
  PROVE  << a, b, c, d, e, f, g, h, i, j, k, l, m, n >> \in Seq(S)
  OBVIOUS

LEMMA SetUpConfigType == SetUpConfig \in Seq(BmsCalls)
  BY ConfigCall, Eight, Zenon DEF SetUpConfig, ConfigNames

LEMMA SetUpIdentityType == SetUpIdentity \in Seq(BmsCalls)
  <1>1. \A n \in Int :
          /\ SetIdentity("MANUFACTURE_NAME_MSB", n) \in BmsCalls
          /\ SetIdentity("MANUFACTURE_NAME_LSB", n) \in BmsCalls
          /\ SetIdentity("MANUFACTURING_DATE", n) \in BmsCalls
          /\ SetIdentity("FIRST_USAGE_DATE", n) \in BmsCalls
          /\ SetIdentity("SERIAL_NUMBER_MSB", n) \in BmsCalls
          /\ SetIdentity("SERIAL_NUMBER_LSB", n) \in BmsCalls
          /\ SetIdentity("DEVICE_NAME_MSB", n) \in BmsCalls
          /\ SetIdentity("DEVICE_NAME_LSB", n) \in BmsCalls
    BY IdentityCall, Zenon DEF IdentityNames
  <1>2. /\ 4660 \in Int /\ 22136 \in Int /\ 8229 \in Int /\ 43981 \in Int
        /\ 61185 \in Int /\ 4951 \in Int /\ 9320 \in Int
    OBVIOUS
  <1> QED
    BY <1>1, <1>2, Eight DEF SetUpIdentity

LEMMA SetUpNumericalType == SetUpNumerical \in Seq(BmsCalls)
  <1>1. /\ SetNumber("CSA_GAIN_FACTOR", "default", "null") \in BmsCalls
        /\ SetNumber("VCELL_OV_TH", "max", "max") \in BmsCalls
        /\ SetNumber("VCELL_UV_TH", "min", "max") \in BmsCalls
        /\ SetNumber("VCELL_SEVERE_DELTA_THRS", "max", "min") \in BmsCalls
        /\ SetNumber("VCELL_BAL_UV_DELTA_TH", "min", "max") \in BmsCalls
        /\ SetNumber("VB_OV_TH", "max", "max") \in BmsCalls
        /\ SetNumber("VB_UV_TH", "min", "max") \in BmsCalls
    BY NumberCall, Kinds, Zenon DEF NumericalNames
  <1>2. /\ SetNumber("VB_SUM_MAX_DIFF_TH", "max", "null") \in BmsCalls
        /\ SetNumber("VNTC_OT_TH", "max", "max") \in BmsCalls
        /\ SetNumber("VNTC_UT_TH", "min", "max") \in BmsCalls
        /\ SetNumber("VNTC_SEVERE_OT_DELTA_TH", "max", "null") \in BmsCalls
        /\ SetNumber("OVC_THRESHOLDS", "max", "max") \in BmsCalls
        /\ SetNumber("PERSISTENT_OVC_THRESHOLDS", "max", "null") \in BmsCalls
        /\ SetNumber("SC_THRESHOLD", "max", "max") \in BmsCalls
    BY NumberCall, Kinds, Zenon DEF NumericalNames
  <1> QED
    BY <1>1, <1>2, Fourteen, Zenon DEF SetUpNumerical

LEMMA BootType == Boot \in Seq(BmsCalls) /\ Len(Boot) \in Nat \ {0}
  <1>1. SetUpConfig \o SetUpIdentity \in Seq(BmsCalls)
    BY SetUpConfigType, SetUpIdentityType, ConcatProperties
  <1>2. SetUpBMS \in Seq(BmsCalls)
    BY <1>1, SetUpNumericalType, ConcatProperties DEF SetUpBMS
  <1>3. Boot \in Seq(BmsCalls) /\ Len(Boot) = Len(SetUpBMS) + 1
    BY <1>2, ConversionCall, AppendProperties DEF Boot
  <1>4. Len(SetUpBMS) \in Nat
    BY <1>2, LenProperties
  <1> QED
    BY <1>3, <1>4

(* Registers, apart from each other.                                       *)
LEMMA NumericalRegsRange == NumericalRegs \subseteq 5 .. 18
  <1> DEFINE On(c) == Numerical[c].reg \in 5 .. 18
  <1>1. /\ On("CSA_GAIN_FACTOR") /\ On("VCELL_OV_TH") /\ On("VCELL_UV_TH")
        /\ On("VCELL_SEVERE_DELTA_THRS") /\ On("VCELL_BAL_UV_DELTA_TH")
        /\ On("VB_OV_TH") /\ On("VB_UV_TH")
    BY DEF Numerical, Layout
  <1>2. /\ On("VB_SUM_MAX_DIFF_TH") /\ On("VNTC_OT_TH") /\ On("VNTC_UT_TH")
        /\ On("VNTC_SEVERE_OT_DELTA_TH") /\ On("OVC_THRESHOLDS")
        /\ On("PERSISTENT_OVC_THRESHOLDS") /\ On("SC_THRESHOLD")
    BY DEF Numerical, Layout
  <1>3. \A c \in DOMAIN Numerical : On(c)
    BY <1>1, <1>2, NumericalDomain, Zenon DEF NumericalNames
  <1> QED
    BY <1>3, Zenon DEF NumericalRegs

LEMMA IdentityRegsRange == IdentityRegs \subseteq 23 .. 30
  BY IdentityEntry DEF IdentityRegs

LEMMA NvmRegsRange == ConvReg \notin NvmRegs /\ 32 \notin NvmRegs
  <1>1. ConfigRegs \subseteq {4, 19, 20, 21, 22, 42, 43, 47}
    BY ConfigEntry DEF ConfigRegs
  <1> QED
    BY <1>1, NumericalRegsRange, IdentityRegsRange DEF NvmRegs, ConvReg

LEMMA NvmRegsKnown == NvmRegs \subseteq BmsRegs
  BY Zenon DEF NvmRegs, BmsRegs

-----------------------------------------------------------------------------
(* What a command function sends.                                          *)

Sound(w) ==
  /\ w = Send(w.reg, w.data)
  /\ w.reg \in BmsRegs /\ w.reg # ConvReg
  /\ w.data \in Word
  /\ \A k \in DOMAIN Config : Config[k].reg = w.reg => w.data <= Config[k].max
  /\ w.reg \in IdentityRegs => w.data # 0

LEMMA U16Word == ASSUME NEW n \in Int PROVE U16(n) \in Word
  <1>1. U16(n) \in Nat /\ U16(n) <= UINT16_MAX
    BY DEF U16, UINT16_MAX
  <1> QED
    BY <1>1, InWord

LEMMA WordNat == Word \subseteq Nat
  BY DEF Word

LEMMA SendParts ==
  ASSUME NEW r, NEW v PROVE Send(r, v).reg = r /\ Send(r, v).data = v
  BY DEF Send

LEMMA SendWhole ==
  ASSUME NEW r, NEW v, NEW w, w = Send(r, v) PROVE w = Send(w.reg, w.data)
  BY SendParts

LEMMA ConfigSound ==
  ASSUME NEW c \in DOMAIN Config, NEW v, v.num \in Int
  PROVE  Sound(Send(Config[c].reg, ConfigData(Config[c], v)))
  <1> DEFINE data == ConfigData(Config[c], v)
  <1>1. Config[c].max \in Nat /\ Config[c].dflt \in Nat /\ U16(v.num) \in Nat
    BY ConfigEntry, U16Word, WordNat
  <1>2. data \in Word /\ data <= Config[c].max
    <2>1. CASE v.kind = "default"
      BY <2>1, ConfigEntry DEF ConfigData
    <2>2. CASE v.kind # "default"
      <3>1. data = AtMost(U16(v.num), Config[c].max)
        BY <2>2 DEF ConfigData
      <3>2. data = U16(v.num) \/ data = Config[c].max
        BY <3>1 DEF AtMost
      <3>3. data <= Config[c].max
        BY <1>1, <3>1 DEF AtMost
      <3> QED
        BY <3>2, <3>3, U16Word, ConfigEntry
    <2> QED
      BY <2>1, <2>2
  <1> HIDE DEF data
  <1>3. Config[c].reg \in BmsRegs
    BY Zenon DEF BmsRegs, ConfigRegs
  <1>4. Config[c].reg # ConvReg /\ Config[c].reg \notin IdentityRegs
    BY ConfigEntry, IdentityRegsRange DEF ConvReg
  <1>5. \A k \in DOMAIN Config :
          Config[k].reg = Config[c].reg => data <= Config[k].max
    BY <1>2, ConfigOneRegister
  <1>6. PICK w : w = Send(Config[c].reg, data)
    OBVIOUS
  <1>7. w.reg = Config[c].reg /\ w.data = data
    BY <1>6, SendParts
  <1>8. Sound(w)
    BY <1>6, SendWhole, <1>2, <1>3, <1>4, <1>5, <1>7, Zenon DEF Sound
  <1> QED
    BY <1>6, <1>8, Zenon DEF data

LEMMA IdentitySound ==
  ASSUME NEW c \in DOMAIN Identity, NEW n \in Int, U16(n) # 0
  PROVE  Sound(Send(Identity[c], U16(n)))
  <1>1. Identity[c] \in BmsRegs
    BY Zenon DEF BmsRegs, IdentityRegs
  <1>2. Identity[c] # ConvReg
    BY IdentityEntry DEF ConvReg
  <1>3. \A k \in DOMAIN Config : Config[k].reg # Identity[c]
    BY IdentityEntry, ConfigEntry
  <1> QED
    BY <1>1, <1>2, <1>3, U16Word, SendParts, SendWhole, Zenon DEF Sound

LEMMA NvmSound == ASSUME NEW c \in DOMAIN Nvm PROVE Sound(Nvm[c])
  <1>1. 32 \in BmsRegs
    BY Zenon DEF BmsRegs
  <1>2. Nvm[c].reg # ConvReg /\ Nvm[c].reg \notin IdentityRegs
    BY NvmEntry, IdentityRegsRange DEF ConvReg
  <1>3. \A k \in DOMAIN Config : Config[k].reg # Nvm[c].reg
    BY NvmEntry, ConfigEntry
  <1>4. Nvm[c] = Send(Nvm[c].reg, Nvm[c].data)
    BY DEF Nvm, Send
  <1> QED
    BY <1>1, <1>2, <1>3, <1>4, NvmEntry, Zenon DEF Sound

LEMMA RealTimeSound ==
  ASSUME NEW c \in DOMAIN RealTime PROVE Sound(RealTime[c])
  <1>1. RealTime[c].reg \in BmsRegs
    BY Zenon DEF BmsRegs, RealTimeRegs
  <1>2. RealTime[c].reg # ConvReg /\ RealTime[c].reg \notin IdentityRegs
    BY RealTimeEntry, IdentityRegsRange DEF ConvReg
  <1>3. \A k \in DOMAIN Config : Config[k].reg # RealTime[c].reg
    BY RealTimeEntry, ConfigEntry
  <1>4. RealTime[c] = Send(RealTime[c].reg, RealTime[c].data)
    BY DEF RealTime, Send
  <1> QED
    BY <1>1, <1>2, <1>3, <1>4, RealTimeEntry, Zenon DEF Sound

LEMMA CallParts ==
  ASSUME NEW c \in BmsCalls
  PROVE  c.fn \in CallFns /\ c.arg1.num \in Int
  BY DEF BmsCalls

(* Whatever its arguments, a command that writes does so within its        *)
(* register's maximum, and never a zero identity.                          *)
LEMMA WriteSound ==
  ASSUME NEW c \in BmsCalls, c.fn # "conversion", Sends(WriteOf(c))
  PROVE  Sound(WriteOf(c))
  <1>1. CASE c.fn = "config"
    <2>1. WriteOf(c) = ConfigWrite(c.command, c.arg1)
      BY <1>1 DEF WriteOf
    <2>2. c.command \in DOMAIN Config
      BY <2>1, Zenon DEF ConfigWrite, Sends
    <2>3. WriteOf(c) = Send(Config[c.command].reg,
                            ConfigData(Config[c.command], c.arg1))
      BY <2>1, Zenon DEF ConfigWrite, Sends
    <2> QED
      BY <2>2, <2>3, CallParts, ConfigSound
  <1>2. CASE c.fn = "identity"
    <2>1. WriteOf(c) = IdentityWrite(c.command, c.arg1)
      BY <1>2 DEF WriteOf
    <2>2. c.command \in DOMAIN Identity /\ U16(c.arg1.num) # 0
      BY <2>1, Zenon DEF IdentityWrite, Sends
    <2>3. WriteOf(c) = Send(Identity[c.command], U16(c.arg1.num))
      BY <2>1, <2>2, Zenon DEF IdentityWrite
    <2> QED
      BY <2>2, <2>3, CallParts, IdentitySound
  <1>3. CASE c.fn = "nvm"
    <2>1. WriteOf(c) = TableWrite(Nvm, c.command)
      BY <1>3 DEF WriteOf
    <2>2. c.command \in DOMAIN Nvm /\ WriteOf(c) = Nvm[c.command]
      BY <2>1, Zenon DEF TableWrite, Sends
    <2> QED
      BY <2>2, NvmSound
  <1>4. CASE c.fn = "realtime"
    <2>1. WriteOf(c) = TableWrite(RealTime, c.command)
      BY <1>4 DEF WriteOf
    <2>2. c.command \in DOMAIN RealTime /\ WriteOf(c) = RealTime[c.command]
      BY <2>1, Zenon DEF TableWrite, Sends
    <2> QED
      BY <2>2, RealTimeSound
  <1>5. CASE c.fn = "numerical"
    BY <1>5 DEF WriteOf, NumericalWrite, Sends
  <1> QED
    BY <1>1, <1>2, <1>3, <1>4, <1>5, CallParts DEF CallFns

LEMMA ConversionWrite ==
  ASSUME NEW c, c.fn = "conversion", Sends(WriteOf(c))
  PROVE  /\ WriteOf(c).reg = ConvReg
         /\ WriteOf(c).data \in Word
         /\ c.command = "CONVERSION_ON" <=> WriteOf(c).data # 0
  <1>1. \/ c.command = "CONVERSION_ON"
           /\ WriteOf(c) = Send(ConvReg, ConversionOnValue)
        \/ c.command = "CONVERSION_OFF" /\ WriteOf(c) = Send(ConvReg, 0)
    BY DEF WriteOf, Sends
  <1>2. ConversionOnValue \in Nat /\ ConversionOnValue <= UINT16_MAX
        /\ 0 \in Nat /\ 0 <= UINT16_MAX
    BY DEF ConversionOnValue, UINT16_MAX
  <1>3. ConversionOnValue \in Word /\ 0 \in Word
    BY <1>2, InWord
  <1>4. ConversionOnValue # 0
    BY DEF ConversionOnValue
  <1>5. "CONVERSION_ON" # "CONVERSION_OFF"
    OBVIOUS
  <1>6. WriteOf(c).reg = ConvReg
    BY <1>1, SendParts
  <1>7. CASE c.command = "CONVERSION_ON"
    BY <1>1, <1>3, <1>4, <1>5, <1>6, <1>7, SendParts
  <1>8. CASE c.command = "CONVERSION_OFF"
    BY <1>1, <1>3, <1>5, <1>6, <1>8, SendParts
  <1> QED
    BY <1>1, <1>7, <1>8

-----------------------------------------------------------------------------
(* The state.  Pending commands have something to send; the record is      *)
(* looked at before every write; and where it can be trusted it is true.   *)

Data ==
  /\ pos \in 1 .. Len(Boot) + 1
  /\ phase \in {"idle", "off", "write"}
  /\ cmd \in BmsCalls
  /\ bmsConversionActive \in {0, 1}
  /\ chip \in [BmsRegs -> Word]
  /\ nvm \in [NvmRegs -> Word]
  /\ failed \in 0 .. MaxFailed
  /\ resets \in 0 .. MaxResets

Pending ==
  phase \in {"off", "write"} => cmd.fn # "conversion" /\ Sends(WriteOf(cmd))

Looked == phase = "write" => bmsConversionActive = 0

WarmType == warm \in BOOLEAN

LEMMA TypeHalves == TypeOK <=> Data /\ WarmType
  BY DEF TypeOK, Data, WarmType

LEMMA WarmStep ==
  ASSUME WarmType, [Next]_vars PROVE WarmType'
  BY DEF WarmType, Next, Foreground, Serve, Refuse, Begin, TurnOff,
         WriteRegister, setBMSConversionState, Called, Restart, vars

LEMMA ConvRegKnown == ConvReg \in BmsRegs
  BY Zenon DEF BmsRegs

(* A transaction changes one register, or none if it fails; the two that   *)
(* copy the NVM change more, from the NVM or in it.                        *)
Uploads(w) == Send(w.reg, w.data) = Nvm.NVM_2_UL
Downloads(w) == Send(w.reg, w.data) = Nvm.NVM_2_DL

Written(w, ok) ==
  /\ chip' \in [BmsRegs -> Word]
  /\ nvm' \in [NvmRegs -> Word]
  /\ failed' \in 0 .. MaxFailed
  /\ ok => failed' = failed /\ chip'[w.reg] = w.data
  /\ ~ok => failed' = failed + 1 /\ chip' = chip /\ nvm' = nvm
  /\ \A q \in BmsRegs : q # w.reg =>
       \/ chip'[q] = chip[q]
       \/ Uploads(w) /\ q \in NvmRegs /\ chip'[q] = nvm[q]
  /\ \A q \in NvmRegs :
       \/ nvm'[q] = nvm[q]
       \/ Downloads(w) /\ nvm'[q] = chip[q]

LEMMA CopyRegister ==
  ASSUME NEW w, Uploads(w) \/ Downloads(w) PROVE w.reg = 32
  <1>1. Nvm.NVM_2_UL = Send(32, 21845) /\ Nvm.NVM_2_DL = Send(32, 43690)
    BY DEF Nvm
  <1>2. Send(w.reg, w.data).reg = w.reg
    BY SendParts
  <1>3. Nvm.NVM_2_UL.reg = 32 /\ Nvm.NVM_2_DL.reg = 32
    BY <1>1, SendParts
  <1> QED
    BY <1>2, <1>3, Zenon DEF Uploads, Downloads

LEMMA LoadedIs ==
  ASSUME Data, NEW r \in BmsRegs, NEW v \in Word
  PROVE  /\ Loaded(r, v) \in [BmsRegs -> Word]
         /\ Loaded(r, v)[r] = v
         /\ \A q \in BmsRegs : q # r =>
              \/ Loaded(r, v)[q] = chip[q]
              \/ /\ Send(r, v) = Nvm.NVM_2_UL /\ q \in NvmRegs
                 /\ Loaded(r, v)[q] = nvm[q]
  <1> DEFINE at(q) == IF q = r THEN v
                      ELSE IF Send(r, v) = Nvm.NVM_2_UL /\ q \in NvmRegs
                        THEN nvm[q] ELSE chip[q]
  <1>1. Loaded(r, v) = [q \in BmsRegs |-> at(q)]
    BY Zenon DEF Loaded
  <1>2. \A q \in BmsRegs : at(q) \in Word
    BY Zenon DEF Data
  <1>3. \A q \in BmsRegs : Loaded(r, v)[q] = at(q)
    BY <1>1, Zenon
  <1>4. Loaded(r, v) \in [BmsRegs -> Word]
    BY <1>1, <1>2, Zenon
  <1> QED
    BY <1>3, <1>4, Zenon

LEMMA StoredIs ==
  ASSUME Data, NEW r, NEW v
  PROVE  /\ Stored(r, v) \in [NvmRegs -> Word]
         /\ \A q \in NvmRegs :
              \/ Stored(r, v)[q] = nvm[q]
              \/ Send(r, v) = Nvm.NVM_2_DL /\ Stored(r, v)[q] = chip[q]
  <1>1. CASE Send(r, v) = Nvm.NVM_2_DL
    <2>1. Stored(r, v) = [q \in NvmRegs |-> chip[q]]
      BY <1>1, Zenon DEF Stored
    <2> QED
      BY <1>1, <2>1, NvmRegsKnown, Zenon DEF Data
  <1>2. CASE Send(r, v) # Nvm.NVM_2_DL
    BY <1>2, Zenon DEF Stored, Data
  <1> QED
    BY <1>1, <1>2

LEMMA Transaction ==
  ASSUME Data, NEW w, w.reg \in BmsRegs, w.data \in Word,
         NEW ok \in Outcomes, writeBMSData(w.reg, w.data, ok)
  PROVE  Written(w, ok)
  <1>1. /\ chip' = IF ok THEN Loaded(w.reg, w.data) ELSE chip
        /\ nvm' = IF ok THEN Stored(w.reg, w.data) ELSE nvm
        /\ failed' = IF ok THEN failed ELSE failed + 1
    BY Zenon DEF writeBMSData
  <1>2. failed < MaxFailed \/ ok
    BY DEF Outcomes
  <1>3. failed' \in 0 .. MaxFailed
    BY <1>1, <1>2, MaxFailedAssumption DEF Data
  <1>4. CASE ok
    <2>1. /\ chip' = Loaded(w.reg, w.data) /\ nvm' = Stored(w.reg, w.data)
          /\ failed' = failed
      BY <1>1, <1>4, Zenon
    <2>2. /\ chip' \in [BmsRegs -> Word]
          /\ chip'[w.reg] = w.data
          /\ \A q \in BmsRegs : q # w.reg =>
               \/ chip'[q] = chip[q]
               \/ Uploads(w) /\ q \in NvmRegs /\ chip'[q] = nvm[q]
      BY <2>1, LoadedIs, Zenon DEF Uploads
    <2>3. /\ nvm' \in [NvmRegs -> Word]
          /\ \A q \in NvmRegs :
               \/ nvm'[q] = nvm[q]
               \/ Downloads(w) /\ nvm'[q] = chip[q]
      BY <2>1, StoredIs, Zenon DEF Downloads
    <2> QED
      BY <1>3, <1>4, <2>1, <2>2, <2>3, Zenon DEF Written
  <1>5. CASE ~ok
    BY <1>1, <1>3, <1>5, Zenon DEF Data, Written
  <1> QED
    BY <1>4, <1>5

LEMMA CalledType ==
  ASSUME Data, NEW c, Called(c)
  PROVE  /\ c \in BmsCalls /\ cmd' = c /\ phase = "idle"
         /\ pos' \in 1 .. Len(Boot) + 1
         /\ resets' = resets /\ warm' = warm
  <1>1. /\ IF Booted THEN c \in AppCalls ELSE c = Boot[pos]
        /\ pos' = IF Booted THEN pos ELSE pos + 1
        /\ cmd' = c /\ phase = "idle" /\ resets' = resets /\ warm' = warm
    BY Zenon DEF Called
  <1>2. CASE Booted
    BY <1>1, <1>2, AppCallsAssumption DEF Data
  <1>3. CASE ~Booted
    <2>1. pos \in 1 .. Len(Boot)
      BY <1>3, BootType DEF Booted, Data
    <2>2. Boot[pos] \in BmsCalls
      BY <2>1, BootType, ElementOfSeq
    <2> QED
      BY <1>1, <1>3, <2>1, <2>2, BootType
  <1> QED
    BY <1>2, <1>3

(* The last call of setup() turns conversions on.                          *)
LEMMA LastCall == Boot[Len(Boot)] = SetConversion("CONVERSION_ON")
  <1>1. SetUpConfig \o SetUpIdentity \in Seq(BmsCalls)
    BY SetUpConfigType, SetUpIdentityType, ConcatProperties
  <1>2. SetUpBMS \in Seq(BmsCalls)
    BY <1>1, SetUpNumericalType, ConcatProperties DEF SetUpBMS
  <1>3. /\ Len(Boot) = Len(SetUpBMS) + 1
        /\ Boot[Len(SetUpBMS) + 1] = SetConversion("CONVERSION_ON")
    BY <1>2, ConversionCall, AppendProperties DEF Boot
  <1> QED
    BY <1>3

LEMMA SwitchOn ==
  LET c == SetConversion("CONVERSION_ON")
  IN  c.fn = "conversion" /\ c.command = "CONVERSION_ON" /\ Sends(WriteOf(c))
  <1> DEFINE c == SetConversion("CONVERSION_ON")
  <1>1. c.fn = "conversion" /\ c.command = "CONVERSION_ON"
    BY DEF SetConversion, Call
  <1>2. WriteOf(c) = Send(ConvReg, ConversionOnValue)
    BY <1>1 DEF WriteOf
  <1>3. Send(ConvReg, ConversionOnValue) # Nothing
    BY DEF Send, Nothing, ConvReg
  <1> QED
    BY <1>1, <1>2, <1>3 DEF Sends

LEMMA RestartType ==
  ASSUME Data, Restart
  PROVE  Data'
  <1>1. /\ pos' = 1 /\ phase' = "idle" /\ cmd' = Boot[1]
        /\ bmsConversionActive' = 0 /\ failed' = 0
        /\ chip' = PowerOn \/ chip' = chip
        /\ nvm' = nvm
        /\ resets < MaxResets /\ resets' = resets + 1
    BY Zenon DEF Restart
  <1>2. Boot[1] \in BmsCalls /\ 1 \in 1 .. Len(Boot) + 1
    BY BootType, ElementOfSeq
  <1>3. chip' \in [BmsRegs -> Word]
    BY <1>1, PowerOnAssumption DEF Data
  <1>4. resets' \in 0 .. MaxResets /\ failed' \in 0 .. MaxFailed
    BY <1>1, MaxResetsAssumption, MaxFailedAssumption DEF Data
  <1> QED
    BY <1>1, <1>2, <1>3, <1>4 DEF Data

(* The effect of each action, with its write where it has one.             *)
LEMMA TurnOffEffect ==
  ASSUME Data, NEW ok \in Outcomes, TurnOff(ok)
  PROVE  /\ phase = "off" /\ phase' = "write" /\ bmsConversionActive' = 0
         /\ UNCHANGED <<pos, cmd, warm, resets>>
         /\ Written(Send(ConvReg, 0), ok)
  <1>1. 0 \in Word
    BY InWord DEF UINT16_MAX
  <1>2. /\ phase = "off" /\ phase' = "write" /\ bmsConversionActive' = 0
        /\ UNCHANGED <<pos, cmd, warm, resets>>
        /\ writeBMSData(ConvReg, 0, ok)
    BY Zenon DEF TurnOff
  <1>3. PICK w : w = Send(ConvReg, 0)
    OBVIOUS
  <1>4. w.reg = ConvReg /\ w.data = 0
    BY <1>3, SendParts
  <1>5. Written(w, ok)
    BY <1>1, <1>2, <1>4, ConvRegKnown, Transaction, Zenon DEF Written
  <1> QED
    BY <1>2, <1>3, <1>5, Zenon

LEMMA WriteEffect ==
  ASSUME Data, Pending, NEW ok \in Outcomes, WriteRegister(ok)
  PROVE  /\ phase = "write" /\ phase' = "idle"
         /\ UNCHANGED <<pos, cmd, bmsConversionActive, warm, resets>>
         /\ Sound(WriteOf(cmd)) /\ Written(WriteOf(cmd), ok)
  <1>1. /\ phase = "write" /\ phase' = "idle"
        /\ UNCHANGED <<pos, cmd, bmsConversionActive, warm, resets>>
        /\ writeBMSData(WriteOf(cmd).reg, WriteOf(cmd).data, ok)
    BY Zenon DEF WriteRegister
  <1>2. cmd.fn # "conversion" /\ Sends(WriteOf(cmd))
    BY <1>1 DEF Pending
  <1>3. Sound(WriteOf(cmd))
    BY <1>2, WriteSound DEF Data
  <1> QED
    BY <1>1, <1>3, Transaction, Zenon DEF Sound, Written

LEMMA ConversionEffect ==
  ASSUME Data, NEW c, NEW ok \in Outcomes, setBMSConversionState(c, ok)
  PROVE  /\ Called(c) /\ c.fn = "conversion" /\ Sends(WriteOf(c))
         /\ phase' = phase
         /\ bmsConversionActive' = IF c.command = "CONVERSION_ON" THEN 1 ELSE 0
         /\ WriteOf(c).reg = ConvReg
         /\ c.command = "CONVERSION_ON" <=> WriteOf(c).data # 0
         /\ Written(WriteOf(c), ok)
  <1>1. /\ Called(c) /\ c.fn = "conversion" /\ Sends(WriteOf(c))
        /\ phase' = phase
        /\ bmsConversionActive' = IF c.command = "CONVERSION_ON" THEN 1 ELSE 0
        /\ writeBMSData(ConvReg, WriteOf(c).data, ok)
    BY Zenon DEF setBMSConversionState
  <1>2. /\ WriteOf(c).reg = ConvReg /\ WriteOf(c).data \in Word
        /\ c.command = "CONVERSION_ON" <=> WriteOf(c).data # 0
    BY <1>1, ConversionWrite
  <1> QED
    BY <1>1, <1>2, ConvRegKnown, Transaction, Zenon DEF Written

-----------------------------------------------------------------------------
(* The steps.                                                              *)

LEMMA BeginEffect ==
  ASSUME Data, NEW c, Begin(c)
  PROVE  /\ Called(c) /\ c.fn # "conversion" /\ Sends(WriteOf(c))
         /\ phase' = IF bmsConversionActive = 1 THEN "off" ELSE "write"
         /\ UNCHANGED <<bmsConversionActive, chip, nvm, failed>>
  BY Zenon DEF Begin

LEMMA DataStep ==
  ASSUME Data, Pending, Looked, [Next]_vars
  PROVE  Data' /\ Pending' /\ Looked'
  <1>1. ASSUME NEW c, Refuse(c) PROVE Data' /\ Pending' /\ Looked'
    <2>1. Called(c) /\ UNCHANGED <<phase, bmsConversionActive, chip, nvm,
                                     failed>>
      BY <1>1, Zenon DEF Refuse
    <2>2. phase' = "idle"
      BY <2>1, CalledType
    <2> QED
      BY <2>1, <2>2, CalledType DEF Data, Pending, Looked
  <1>2. ASSUME NEW c, Begin(c) PROVE Data' /\ Pending' /\ Looked'
    <2>1. c \in BmsCalls /\ cmd' = c /\ pos' \in 1 .. Len(Boot) + 1
          /\ resets' = resets
      BY <1>2, BeginEffect, CalledType
    <2>2. Data'
      BY <1>2, <2>1, BeginEffect DEF Data
    <2>3. Pending'
      BY <1>2, <2>1, BeginEffect, Zenon DEF Pending
    <2>4. Looked'
      BY <1>2, BeginEffect DEF Looked, Data
    <2> QED
      BY <2>2, <2>3, <2>4
  <1>3. ASSUME NEW c, NEW ok \in Outcomes, setBMSConversionState(c, ok)
        PROVE  Data' /\ Pending' /\ Looked'
    <2>1. c \in BmsCalls /\ cmd' = c /\ phase = "idle"
          /\ pos' \in 1 .. Len(Boot) + 1 /\ resets' = resets
      BY <1>3, ConversionEffect, CalledType
    <2>2. /\ phase' = "idle" /\ bmsConversionActive' \in {0, 1}
          /\ chip' \in [BmsRegs -> Word] /\ failed' \in 0 .. MaxFailed
          /\ nvm' \in [NvmRegs -> Word]
      BY <1>3, <2>1, ConversionEffect DEF Written
    <2> QED
      BY <2>1, <2>2 DEF Data, Pending, Looked
  <1>4. ASSUME NEW ok \in Outcomes, TurnOff(ok)
        PROVE  Data' /\ Pending' /\ Looked'
    <2>1. /\ phase = "off" /\ phase' = "write" /\ bmsConversionActive' = 0
          /\ UNCHANGED <<pos, cmd, resets>>
          /\ chip' \in [BmsRegs -> Word] /\ failed' \in 0 .. MaxFailed
          /\ nvm' \in [NvmRegs -> Word]
      BY <1>4, TurnOffEffect, Zenon DEF Written
    <2>2. Data' /\ Looked'
      BY <2>1 DEF Data, Looked
    <2>3. Pending'
      BY <2>1 DEF Pending
    <2> QED
      BY <2>2, <2>3
  <1>5. ASSUME NEW ok \in Outcomes, WriteRegister(ok)
        PROVE  Data' /\ Pending' /\ Looked'
    <2>1. /\ phase' = "idle"
          /\ UNCHANGED <<pos, cmd, bmsConversionActive, resets>>
          /\ chip' \in [BmsRegs -> Word] /\ failed' \in 0 .. MaxFailed
          /\ nvm' \in [NvmRegs -> Word]
      BY <1>5, WriteEffect, Zenon DEF Written
    <2> QED
      BY <2>1 DEF Data, Pending, Looked
  <1>6. CASE Restart
    <2>1. phase' = "idle"
      BY <1>6, Zenon DEF Restart
    <2> QED
      BY <1>6, <2>1, RestartType DEF Pending, Looked
  <1>7. CASE UNCHANGED vars
    <2>1. UNCHANGED <<pos, phase, cmd, bmsConversionActive, chip, nvm,
                      failed, resets>>
      BY <1>7, Zenon DEF vars
    <2> QED
      BY <2>1 DEF Data, Pending, Looked
  <1> QED
    BY <1>1, <1>2, <1>3, <1>4, <1>5, <1>6, <1>7, Zenon
       DEF Next, Foreground, Serve

LEMMA DataInit == Init => Data /\ Pending /\ Looked
  <1> SUFFICES ASSUME Init PROVE Data /\ Pending /\ Looked
    OBVIOUS
  <1>1. /\ pos = 1 /\ phase = "idle" /\ cmd = Boot[1]
        /\ bmsConversionActive = 0 /\ chip = PowerOn /\ failed = 0
        /\ nvm = NvmContents /\ resets = 0
    BY Zenon DEF Init
  <1>2. Boot[1] \in BmsCalls /\ 1 \in 1 .. Len(Boot) + 1
    BY BootType, ElementOfSeq
  <1>3. PowerOn \in [BmsRegs -> Word] /\ NvmContents \in [NvmRegs -> Word]
    BY PowerOnAssumption, NvmContentsAssumption, Zenon
  <1> QED
    BY <1>1, <1>2, <1>3, MaxResetsAssumption, MaxFailedAssumption
       DEF Data, Pending, Looked

LEMMA DataHolds == Spec => [](Data /\ Pending /\ Looked)
  BY DataInit, DataStep, PTL DEF Spec

(* Whatever the calls and their arguments, failures and restarts: the      *)
(* record is 0 or 1 and every register of the chip holds sixteen bits.     *)
THEOREM TypeCorrect == Spec => []TypeOK
  <1>1. Init => WarmType
    BY DEF Init, WarmType
  <1>2. Spec => []WarmType
    BY <1>1, WarmStep, PTL DEF Spec
  <1> QED
    BY <1>2, DataHolds, TypeHalves, PTL

-----------------------------------------------------------------------------
(* No configuration register exceeds its maximum.                          *)

LEMMA MaximaWritten ==
  ASSUME WithinMax, NEW w, NEW ok, Written(w, ok), ok \in BOOLEAN,
         \A k \in DOMAIN Config :
           Config[k].reg = w.reg => w.data <= Config[k].max
  PROVE  WithinMax'
  <1>1. \A k \in DOMAIN Config :
          Config[k].reg \in BmsRegs /\ Config[k].reg \in NvmRegs
    BY Zenon DEF BmsRegs, NvmRegs, ConfigRegs
  <1>2. ASSUME NEW k \in DOMAIN Config
        PROVE  chip'[Config[k].reg] <= Config[k].max
    <2>1. /\ chip[Config[k].reg] <= Config[k].max
          /\ nvm[Config[k].reg] <= Config[k].max
      BY Zenon DEF WithinMax
    <2>2. CASE Config[k].reg # w.reg
      <3>1. \/ chip'[Config[k].reg] = chip[Config[k].reg]
            \/ chip'[Config[k].reg] = nvm[Config[k].reg]
        BY <1>1, <2>2, Zenon DEF Written
      <3> QED
        BY <2>1, <3>1
    <2>3. CASE Config[k].reg = w.reg
      <3>1. chip'[Config[k].reg] = w.data \/ chip' = chip
        BY <2>3, Zenon DEF Written
      <3>2. w.data <= Config[k].max
        BY <2>3
      <3> QED
        BY <2>1, <3>1, <3>2
    <2> QED
      BY <2>2, <2>3
  <1>3. ASSUME NEW k \in DOMAIN Config
        PROVE  nvm'[Config[k].reg] <= Config[k].max
    <2>1. \/ nvm'[Config[k].reg] = nvm[Config[k].reg]
          \/ nvm'[Config[k].reg] = chip[Config[k].reg]
      BY <1>1, Zenon DEF Written
    <2> QED
      BY <2>1, Zenon DEF WithinMax
  <1> QED
    BY <1>2, <1>3, Zenon DEF WithinMax

LEMMA ConversionUnlimited == \A k \in DOMAIN Config : Config[k].reg # ConvReg
  BY ConfigEntry DEF ConvReg

LEMMA OutcomesType == Outcomes \subseteq BOOLEAN
  BY Zenon DEF Outcomes

LEMMA MaximaStep ==
  ASSUME Data, Pending, WithinMax, [Next]_vars
  PROVE  WithinMax'
  <1>1. ASSUME chip' = chip, nvm' = nvm PROVE WithinMax'
    BY <1>1, Zenon DEF WithinMax
  <1>2. ASSUME NEW c, Refuse(c) \/ Begin(c) PROVE WithinMax'
    <2>1. chip' = chip /\ nvm' = nvm
      BY <1>2, Zenon DEF Refuse, Begin
    <2> QED
      BY <1>1, <2>1
  <1>3. ASSUME NEW c, NEW ok \in Outcomes, setBMSConversionState(c, ok)
        PROVE  WithinMax'
    <2>1. Written(WriteOf(c), ok) /\ WriteOf(c).reg = ConvReg
      BY <1>3, ConversionEffect
    <2>2. \A k \in DOMAIN Config : Config[k].reg # WriteOf(c).reg
      BY <2>1, ConversionUnlimited, Zenon
    <2> QED
      BY <2>1, <2>2, MaximaWritten, OutcomesType, Zenon
  <1>4. ASSUME NEW ok \in Outcomes, TurnOff(ok) PROVE WithinMax'
    <2>1. Written(Send(ConvReg, 0), ok)
      BY <1>4, TurnOffEffect
    <2>2. \A k \in DOMAIN Config : Config[k].reg # Send(ConvReg, 0).reg
      BY SendParts, ConversionUnlimited
    <2> QED
      BY <2>1, <2>2, MaximaWritten, OutcomesType, Zenon
  <1>5. ASSUME NEW ok \in Outcomes, WriteRegister(ok) PROVE WithinMax'
    <2>1. Sound(WriteOf(cmd)) /\ Written(WriteOf(cmd), ok)
      BY <1>5, WriteEffect
    <2> QED
      BY <2>1, MaximaWritten, OutcomesType, Zenon DEF Sound
  <1>6. CASE Restart
    <2>1. (chip' = PowerOn \/ chip' = chip) /\ nvm' = nvm
      BY <1>6, Zenon DEF Restart
    <2>2. ASSUME chip' = PowerOn PROVE WithinMax'
      BY <2>1, <2>2, PowerOnAssumption, Zenon DEF WithinMax
    <2> QED
      BY <1>1, <2>1, <2>2
  <1>7. CASE UNCHANGED vars
    BY <1>1, <1>7, Zenon DEF vars
  <1> QED
    BY <1>2, <1>3, <1>4, <1>5, <1>6, <1>7, Zenon DEF Next, Foreground, Serve

LEMMA MaximaInit == Init => WithinMax
  BY PowerOnAssumption, NvmContentsAssumption, Zenon DEF Init, WithinMax

(* No configuration register ever holds more than its maximum, nor does    *)
(* the NVM for it, whatever numbers the calls were given and however often *)
(* one is copied to the other.                                             *)
THEOREM MaximaKept == Spec => []WithinMax
  BY MaximaInit, MaximaStep, DataHolds, PTL DEF Spec

-----------------------------------------------------------------------------
(* Identities.                                                             *)

LEMMA IdentityWritten ==
  ASSUME NEW w, NEW ok \in BOOLEAN, Written(w, ok),
         w.reg \in IdentityRegs => w.data # 0, NEW r \in IdentityRegs
  PROVE  chip'[r] = 0 => chip[r] = 0 \/ (Uploads(w) /\ nvm[r] = 0)
  <1>1. r \in BmsRegs
    BY Zenon DEF BmsRegs
  <1>2. CASE r # w.reg
    BY <1>1, <1>2, Zenon DEF Written
  <1>3. CASE r = w.reg /\ ok
    <2>1. chip'[r] = w.data /\ w.data # 0
      BY <1>3, Zenon DEF Written
    <2> QED
      BY <2>1
  <1>4. CASE ~ok
    BY <1>4, Zenon DEF Written
  <1> QED
    BY <1>2, <1>3, <1>4

LEMMA ConversionNoIdentity == ConvReg \notin IdentityRegs
  BY IdentityRegsRange DEF ConvReg

Zeroing ==
  \A r \in IdentityRegs :
    chip[r] # 0 /\ chip'[r] = 0 =>
      \/ resets' # resets
      \/ phase = "write" /\ WriteOf(cmd) = Nvm.NVM_2_UL /\ nvm[r] = 0

LEMMA ConversionCopiesNothing ==
  ASSUME NEW w, w.reg = ConvReg PROVE ~Uploads(w) /\ ~Downloads(w)
  BY CopyRegister DEF ConvReg

LEMMA IdentityStep ==
  ASSUME Data, Pending, [Next]_vars
  PROVE  Zeroing
  <1>1. ASSUME chip' = chip PROVE Zeroing
    BY <1>1, Zenon DEF Zeroing
  <1>2. ASSUME NEW c, Refuse(c) \/ Begin(c) PROVE Zeroing
    <2>1. chip' = chip
      BY <1>2, Zenon DEF Refuse, Begin
    <2> QED
      BY <1>1, <2>1
  <1>3. ASSUME NEW c, NEW ok \in Outcomes, setBMSConversionState(c, ok)
        PROVE  Zeroing
    <2>1. Written(WriteOf(c), ok) /\ WriteOf(c).reg = ConvReg
      BY <1>3, ConversionEffect
    <2>2. WriteOf(c).reg \notin IdentityRegs /\ ~Uploads(WriteOf(c))
      BY <2>1, ConversionNoIdentity, ConversionCopiesNothing
    <2> QED
      BY <2>1, <2>2, IdentityWritten, OutcomesType, Zenon DEF Zeroing
  <1>4. ASSUME NEW ok \in Outcomes, TurnOff(ok) PROVE Zeroing
    <2>1. Written(Send(ConvReg, 0), ok)
      BY <1>4, TurnOffEffect
    <2>2. Send(ConvReg, 0).reg \notin IdentityRegs
          /\ ~Uploads(Send(ConvReg, 0))
      BY SendParts, ConversionNoIdentity, ConversionCopiesNothing
    <2> QED
      BY <2>1, <2>2, IdentityWritten, OutcomesType, Zenon DEF Zeroing
  <1>5. ASSUME NEW ok \in Outcomes, WriteRegister(ok) PROVE Zeroing
    <2>1. /\ Sound(WriteOf(cmd)) /\ Written(WriteOf(cmd), ok)
          /\ phase = "write"
      BY <1>5, WriteEffect
    <2>2. Uploads(WriteOf(cmd)) => WriteOf(cmd) = Nvm.NVM_2_UL
      BY <2>1, Zenon DEF Sound, Uploads
    <2> QED
      BY <2>1, <2>2, IdentityWritten, OutcomesType, Zenon DEF Zeroing, Sound
  <1>6. CASE Restart
    <2>1. resets' = resets + 1
      BY <1>6, Zenon DEF Restart
    <2>2. resets' # resets
      BY <2>1 DEF Data
    <2> QED
      BY <2>2, Zenon DEF Zeroing
  <1>7. CASE UNCHANGED vars
    BY <1>1, <1>7, Zenon DEF vars
  <1> QED
    BY <1>2, <1>3, <1>4, <1>5, <1>6, <1>7, Zenon DEF Next, Foreground, Serve

(* No command ever zeroes an identity but the upload of an NVM that holds  *)
(* zero for it, whatever the caller's number before it is narrowed.        *)
THEOREM IdentityKept == Spec => IdentityNeverZeroed
  <1>1. Data /\ Pending /\ [Next]_vars => [Zeroing]_vars
    BY IdentityStep
  <1>2. Spec => [][Zeroing]_vars
    BY <1>1, DataHolds, PTL DEF Spec
  <1> QED
    BY <1>2, PTL DEF IdentityNeverZeroed, Zeroing

-----------------------------------------------------------------------------
(* The record of the conversion state.                                     *)

Agree == bmsConversionActive = 1 <=> chip[ConvReg] # 0

LEMMA FlagAgrees == FlagFollowsChip <=> (Trusted => Agree)
  BY Zenon DEF FlagFollowsChip, Converting, Agree

(* setup() is through only once it has turned conversions on.              *)
LEMMA BootsOn ==
  ASSUME Data, NEW c, Called(c), ~Booted, Booted'
  PROVE  /\ c.fn = "conversion" /\ Sends(WriteOf(c))
         /\ c.command = "CONVERSION_ON"
  <1>1. c = Boot[pos] /\ pos' = pos + 1
    BY Zenon DEF Called
  <1>2. pos = Len(Boot)
    BY <1>1, BootType DEF Booted, Data
  <1>3. c = SetConversion("CONVERSION_ON")
    BY <1>1, <1>2, LastCall
  <1> QED
    BY <1>3, SwitchOn

(* A failed write is counted, and ends the trust.                          *)
LEMMA FailureEndsTrust ==
  ASSUME Data, NEW w, Written(w, FALSE) PROVE ~Trusted'
  <1>1. failed' = failed + 1 /\ failed \in Nat
    BY DEF Written, Data
  <1> QED
    BY <1>1 DEF Trusted

LEMMA FlagStep ==
  ASSUME Data, Pending, Looked, Trusted => Agree, [Next]_vars, Trusted'
  PROVE  Agree'
  <1>1. ASSUME UNCHANGED <<bmsConversionActive, chip>>, Trusted PROVE Agree'
    BY <1>1, Zenon DEF Agree
  <1>2. ASSUME NEW c, Refuse(c) \/ Begin(c) PROVE Agree'
    <2>1. /\ Called(c) /\ ~(c.fn = "conversion" /\ Sends(WriteOf(c)))
          /\ UNCHANGED <<bmsConversionActive, chip, failed, warm>>
      BY <1>2, Zenon DEF Refuse, Begin, Called
    <2>2. Booted' => Booted
      BY <2>1, BootsOn
    <2>3. Trusted
      BY <2>1, <2>2, Zenon DEF Trusted
    <2> QED
      BY <1>1, <2>1, <2>3
  <1>3. ASSUME NEW c, NEW ok \in Outcomes, setBMSConversionState(c, ok)
        PROVE  Agree'
    <2>1. /\ bmsConversionActive' =
               IF c.command = "CONVERSION_ON" THEN 1 ELSE 0
          /\ WriteOf(c).reg = ConvReg
          /\ c.command = "CONVERSION_ON" <=> WriteOf(c).data # 0
          /\ Written(WriteOf(c), ok)
      BY <1>3, ConversionEffect
    <2>2. ok
      BY <2>1, FailureEndsTrust, OutcomesType, Zenon
    <2>3. chip'[ConvReg] = WriteOf(c).data
      BY <2>1, <2>2, Zenon DEF Written
    <2> QED
      BY <2>1, <2>3 DEF Agree
  <1>4. ASSUME NEW ok \in Outcomes, TurnOff(ok) PROVE Agree'
    <2>1. bmsConversionActive' = 0 /\ Written(Send(ConvReg, 0), ok)
      BY <1>4, TurnOffEffect
    <2>2. ok
      BY <2>1, FailureEndsTrust, OutcomesType, Zenon
    <2>3. chip'[ConvReg] = 0
      BY <2>1, <2>2, SendParts DEF Written
    <2> QED
      BY <2>1, <2>3 DEF Agree
  <1>5. ASSUME NEW ok \in Outcomes, WriteRegister(ok) PROVE Agree'
    <2>1. /\ Sound(WriteOf(cmd)) /\ Written(WriteOf(cmd), ok)
          /\ UNCHANGED <<pos, bmsConversionActive, warm>>
      BY <1>5, WriteEffect
    <2>2. ok
      BY <2>1, FailureEndsTrust, OutcomesType, Zenon
    <2>3. failed' = failed /\ chip'[ConvReg] = chip[ConvReg]
      BY <2>1, <2>2, ConvRegKnown, NvmRegsRange, Zenon DEF Written, Sound
    <2>4. Trusted
      BY <2>1, <2>3, Zenon DEF Trusted, Booted
    <2> QED
      BY <2>1, <2>3, <2>4, Zenon DEF Agree
  <1>6. CASE Restart
    <2>1. /\ pos' = 1 /\ bmsConversionActive' = 0
          /\ chip' = PowerOn \/ warm' = TRUE
      BY <1>6, Zenon DEF Restart
    <2>2. ~Booted'
      BY <2>1, BootType DEF Booted
    <2>3. chip' = PowerOn
      BY <2>1, <2>2, Zenon DEF Trusted
    <2>4. chip'[ConvReg] = 0
      BY <2>3, PowerOnAssumption, Zenon
    <2> QED
      BY <2>1, <2>4 DEF Agree
  <1>7. CASE UNCHANGED vars
    BY <1>1, <1>7, Zenon DEF vars, Trusted, Booted
  <1> QED
    BY <1>2, <1>3, <1>4, <1>5, <1>6, <1>7, Zenon DEF Next, Foreground, Serve

LEMMA FlagInit == Init => FlagFollowsChip
  <1> SUFFICES ASSUME Init PROVE Agree
    BY FlagAgrees
  <1>1. bmsConversionActive = 0 /\ chip = PowerOn
    BY Zenon DEF Init
  <1>2. chip[ConvReg] = 0
    BY <1>1, PowerOnAssumption, Zenon
  <1> QED
    BY <1>1, <1>2 DEF Agree

LEMMA FlagNext ==
  ASSUME Data, Pending, Looked, FlagFollowsChip, [Next]_vars
  PROVE  FlagFollowsChip'
  <1>1. Trusted' => Agree'
    BY FlagStep, FlagAgrees
  <1> QED
    BY <1>1, Zenon DEF FlagFollowsChip, Converting, Agree

LEMMA FlagHolds == Spec => [](Data /\ Pending /\ Looked /\ FlagFollowsChip)
  BY FlagInit, FlagNext, DataHolds, PTL DEF Spec

(* While nothing has failed and a chip found powered has been through      *)
(* setup(), bmsConversionActive says whether it converts.                  *)
THEOREM RecordIsTrue == Spec => []FlagFollowsChip
  BY FlagHolds, PTL

(* Under the same condition no register is written while the chip converts.*)
THEOREM WrittenWhileStopped == Spec => []WritesWhileStopped
  <1>1. Looked /\ FlagFollowsChip => WritesWhileStopped
    BY DEF Looked, FlagFollowsChip, WritesWhileStopped
  <1> QED
    BY <1>1, FlagHolds, PTL

-----------------------------------------------------------------------------
(* The end of setup().  Where nothing else calls it, as in the program as  *)
(* shipped, the monitor is left converting and no command is half done.    *)

Started == Booted => phase = "idle" /\ bmsConversionActive = 1

LEMMA StartedInit == Init => Started
  <1>1. Init => pos = 1
    BY Zenon DEF Init
  <1> QED
    BY <1>1, BootType DEF Started, Booted

LEMMA StartedStep ==
  ASSUME AppCalls = {}, Data, Started, [Next]_vars
  PROVE  Started'
  <1>1. ASSUME NEW c, Called(c) PROVE ~Booted
    BY <1>1, Zenon DEF Called
  <1>2. ASSUME NEW c, Refuse(c) \/ Begin(c) PROVE Started'
    <2>1. Called(c) /\ ~(c.fn = "conversion" /\ Sends(WriteOf(c)))
      BY <1>2, Zenon DEF Refuse, Begin
    <2>2. ~Booted'
      BY <1>1, <2>1, BootsOn
    <2> QED
      BY <2>2 DEF Started
  <1>3. ASSUME NEW c, NEW ok \in Outcomes, setBMSConversionState(c, ok)
        PROVE  Started'
    <2>1. /\ Called(c) /\ phase' = phase
          /\ bmsConversionActive' =
               IF c.command = "CONVERSION_ON" THEN 1 ELSE 0
      BY <1>3, ConversionEffect
    <2>2. phase' = "idle"
      BY <2>1, CalledType
    <2>3. Booted' => bmsConversionActive' = 1
      BY <1>1, <2>1, BootsOn
    <2> QED
      BY <2>2, <2>3 DEF Started
  <1>4. ASSUME NEW ok \in Outcomes, TurnOff(ok) \/ WriteRegister(ok)
        PROVE  Started'
    <2>1. pos' = pos /\ phase # "idle"
      BY <1>4, Zenon DEF TurnOff, WriteRegister
    <2> QED
      BY <2>1, Zenon DEF Started, Booted
  <1>5. CASE Restart
    <2>1. pos' = 1
      BY <1>5, Zenon DEF Restart
    <2> QED
      BY <2>1, BootType DEF Started, Booted
  <1>6. CASE UNCHANGED vars
    BY <1>6, Zenon DEF vars, Started, Booted
  <1> QED
    BY <1>2, <1>3, <1>4, <1>5, <1>6, Zenon DEF Next, Foreground, Serve

(* Whatever a restart found in the chip, setup() leaves it converting      *)
(* unless the failure of a write has been reported: every command that     *)
(* stops conversions comes before the call that starts them.               *)
Converts == Booted => phase = "idle" /\ (Converting \/ failed > 0)

LEMMA StartedConverts ==
  ASSUME Data, FlagFollowsChip, Started PROVE Converts
  <1>1. failed \in Nat
    BY DEF Data
  <1>2. CASE failed = 0
    BY <1>2, Zenon DEF FlagFollowsChip, Trusted, Started, Converts
  <1>3. CASE failed # 0
    BY <1>1, <1>3 DEF Started, Converts
  <1> QED
    BY <1>2, <1>3

THEOREM SetupEndsConverting ==
  ASSUME AppCalls = {}
  PROVE  Spec => []Converts
  <1>1. Data /\ Started /\ [Next]_vars => Started'
    BY StartedStep
  <1> QED
    BY <1>1, StartedInit, StartedConverts, FlagHolds, PTL DEF Spec

-----------------------------------------------------------------------------
(* What the calls of setup() write.  The first eight set a configuration   *)
(* register each, the next eight an identity; the fourteen numerical ones  *)
(* are refused.                                                            *)

LEMMA BootLengths ==
  /\ Len(SetUpConfig) = 8 /\ Len(SetUpIdentity) = 8
  /\ Len(SetUpNumerical) = 14
  BY DEF SetUpConfig, SetUpIdentity, SetUpNumerical

(* u is s and after it t, and they are m and n long.                       *)
Follows(u, s, t, m, n) ==
  /\ Len(u) = m + n
  /\ \A i \in 1 .. m : u[i] = s[i]
  /\ \A i \in 1 .. n : u[i + m] = t[i]

LEMMA Joined ==
  ASSUME NEW S, NEW s \in Seq(S), NEW t \in Seq(S), NEW u, u = s \o t,
         NEW m \in Nat, NEW n \in Nat, Len(s) = m, Len(t) = n
  PROVE  u \in Seq(S) /\ Follows(u, s, t, m, n)
  <1>1. /\ u \in Seq(S) /\ Len(u) = m + n
        /\ \A i \in 1 .. m + n : u[i] = IF i <= m THEN s[i] ELSE t[i - m]
    BY ConcatProperties, Zenon
  <1>2. ASSUME NEW i \in 1 .. m PROVE u[i] = s[i]
    <2>1. i \in 1 .. m + n /\ i <= m
      OBVIOUS
    <2> QED
      BY <1>1, <2>1, Zenon
  <1>3. ASSUME NEW i \in 1 .. n PROVE u[i + m] = t[i]
    <2>1. PICK k : k = i + m
      OBVIOUS
    <2>2. k \in 1 .. m + n /\ ~(k <= m) /\ k - m = i
      BY <2>1
    <2>3. u[k] = t[k - m]
      BY <1>1, <2>2, Zenon
    <2> QED
      BY <2>1, <2>2, <2>3
  <1> QED
    BY <1>1, <1>2, <1>3, Zenon DEF Follows

LEMMA BootCalls ==
  /\ Len(Boot) = 31
  /\ \A i \in 1 .. 8 : Boot[i] = SetUpConfig[i]
  /\ \A i \in 1 .. 8 : Boot[i + 8] = SetUpIdentity[i]
  /\ \A i \in 1 .. 14 : Boot[i + 16] = SetUpNumerical[i]
  <1>1. PICK front : front = SetUpConfig \o SetUpIdentity
    OBVIOUS
  <1>2. 8 \in Nat /\ 14 \in Nat /\ 16 \in Nat /\ 8 + 8 = 16 /\ 16 + 14 = 30
    OBVIOUS
  <1>3. front \in Seq(BmsCalls)
        /\ Follows(front, SetUpConfig, SetUpIdentity, 8, 8)
    BY <1>1, <1>2, SetUpConfigType, SetUpIdentityType, BootLengths, Joined,
       Zenon
  <1>4. PICK all : all = SetUpBMS
    OBVIOUS
  <1>5. all = front \o SetUpNumerical
    BY <1>1, <1>4, Zenon DEF SetUpBMS
  <1>6. Len(front) = 16
    BY <1>3 DEF Follows
  <1>7. all \in Seq(BmsCalls) /\ Follows(all, front, SetUpNumerical, 16, 14)
    BY <1>2, <1>3, <1>5, <1>6, SetUpNumericalType, BootLengths, Joined, Zenon
  <1>8. Len(all) = 30
    BY <1>7 DEF Follows
  <1>9. Boot = Append(all, SetConversion("CONVERSION_ON"))
    BY <1>4 DEF Boot
  <1>10. Len(Boot) = 30 + 1 /\ \A i \in 1 .. 30 : Boot[i] = all[i]
    <2>1. PICK last : last = SetConversion("CONVERSION_ON")
      OBVIOUS
    <2>2. /\ Len(Append(all, last)) = Len(all) + 1
          /\ \A i \in 1 .. Len(all) : Append(all, last)[i] = all[i]
      BY <1>7, <2>1, ConversionCall, AppendProperties, Zenon
    <2> QED
      BY <1>8, <1>9, <2>1, <2>2, Zenon
  <1> QED
    <2>1. /\ \A i \in 1 .. 8 : i \in 1 .. 16 /\ i + 8 \in 1 .. 16
          /\ \A i \in 1 .. 16 : i \in 1 .. 30
          /\ \A i \in 1 .. 14 : i + 16 \in 1 .. 30
      OBVIOUS
    <2>2. Len(Boot) = 31
      BY <1>10
    <2> QED
      BY <1>3, <1>7, <1>10, <2>1, <2>2, Zenon DEF Follows

LEMMA ConfigCallParts ==
  ASSUME NEW c
  PROVE  /\ SetConfig(c).fn = "config" /\ SetConfig(c).command = c
         /\ SetConfig(c).arg1 = Arg("default", 0)
  BY DEF SetConfig, Call

LEMMA IdentityCallParts ==
  ASSUME NEW c, NEW n
  PROVE  /\ SetIdentity(c, n).fn = "identity" /\ SetIdentity(c, n).command = c
         /\ SetIdentity(c, n).arg1.num = n
  BY DEF SetIdentity, Call, Arg

LEMMA ConfigCallWrite ==
  ASSUME NEW c \in DOMAIN Config
  PROVE  WriteOf(SetConfig(c)) = Send(Config[c].reg, Config[c].dflt)
  <1>1. WriteOf(SetConfig(c)) = ConfigWrite(c, Arg("default", 0))
    BY ConfigCallParts DEF WriteOf
  <1>2. Arg("default", 0).kind = "default"
    BY DEF Arg
  <1>3. ConfigData(Config[c], Arg("default", 0)) = Config[c].dflt
    BY <1>2, Zenon DEF ConfigData
  <1> QED
    BY <1>1, <1>2, <1>3, Zenon DEF ConfigWrite

LEMMA IdentityCallWrite ==
  ASSUME NEW c \in DOMAIN Identity, NEW n \in Nat, 0 < n, n <= UINT16_MAX
  PROVE  WriteOf(SetIdentity(c, n)) = Send(Identity[c], n)
  <1>1. WriteOf(SetIdentity(c, n)) = IdentityWrite(c, SetIdentity(c, n).arg1)
    BY IdentityCallParts DEF WriteOf
  <1>2. U16(SetIdentity(c, n).arg1.num) = n /\ n # 0
    BY IdentityCallParts DEF U16, UINT16_MAX
  <1> QED
    BY <1>1, <1>2, Zenon DEF IdentityWrite

(* The i-th call of setup() leaves v in register r.                        *)
Sets(i, r, v) ==
  /\ Boot[i].fn # "conversion"
  /\ WriteOf(Boot[i]).reg = r /\ WriteOf(Boot[i]).data = v

LEMMA ConfigSets ==
  ASSUME NEW i \in 1 .. 8, NEW c \in DOMAIN Config, NEW r, NEW v, NEW m,
         SetUpConfig[i] = SetConfig(c), Row(c, r, v, m)
  PROVE  Sets(i, r, v)
  <1>1. Boot[i] = SetConfig(c)
    BY BootCalls
  <1>2. WriteOf(Boot[i]) = Send(r, v) /\ Boot[i].fn = "config"
    BY <1>1, ConfigCallWrite, ConfigCallParts, Zenon DEF Row
  <1> QED
    BY <1>2, SendParts DEF Sets

LEMMA ConfigurationSets ==
  /\ Sets(1, 4, 6655) /\ Sets(2, 19, 32767) /\ Sets(3, 20, 127)
  /\ Sets(4, 21, 4095) /\ Sets(5, 22, 4095) /\ Sets(6, 42, 0)
  /\ Sets(7, 43, 0) /\ Sets(8, 47, 0)
  <1>1. /\ SetUpConfig[1] = SetConfig("CFG2_ENABLES")
        /\ SetUpConfig[2] = SetConfig("TO_PRDV_BAL_MSK")
        /\ SetUpConfig[3] = SetConfig("TO_FUSE_RST_MSK")
        /\ SetUpConfig[4] = SetConfig("TO_FAULTN_MSK")
        /\ SetUpConfig[5] = SetConfig("CURR_MSK")
        /\ SetUpConfig[6] = SetConfig("DIAG_OV_OT_UT")
        /\ SetUpConfig[7] = SetConfig("DIAG_UV")
        /\ SetUpConfig[8] = SetConfig("DIAG_CURR")
    BY DEF SetUpConfig
  <1>2. /\ 1 \in 1 .. 8 /\ 2 \in 1 .. 8 /\ 3 \in 1 .. 8 /\ 4 \in 1 .. 8
        /\ 5 \in 1 .. 8 /\ 6 \in 1 .. 8 /\ 7 \in 1 .. 8 /\ 8 \in 1 .. 8
    OBVIOUS
  <1>3. /\ "CFG2_ENABLES" \in DOMAIN Config
        /\ "TO_PRDV_BAL_MSK" \in DOMAIN Config
        /\ "TO_FUSE_RST_MSK" \in DOMAIN Config
        /\ "TO_FAULTN_MSK" \in DOMAIN Config /\ "CURR_MSK" \in DOMAIN Config
        /\ "DIAG_OV_OT_UT" \in DOMAIN Config /\ "DIAG_UV" \in DOMAIN Config
        /\ "DIAG_CURR" \in DOMAIN Config
    BY ConfigDomain DEF ConfigNames
  <1> QED
    BY <1>1, <1>2, <1>3, ConfigRows, ConfigSets

LEMMA IdentitySets ==
  ASSUME NEW i \in 1 .. 8, NEW c \in DOMAIN Identity, NEW n \in Nat,
         0 < n, n <= UINT16_MAX, SetUpIdentity[i] = SetIdentity(c, n)
  PROVE  Sets(i + 8, Identity[c], n)
  <1>1. Boot[i + 8] = SetIdentity(c, n)
    BY BootCalls
  <1>2. /\ WriteOf(Boot[i + 8]) = Send(Identity[c], n)
        /\ Boot[i + 8].fn = "identity"
    BY <1>1, IdentityCallWrite, IdentityCallParts
  <1> QED
    BY <1>2, SendParts DEF Sets

LEMMA IdentitiesSet ==
  /\ Sets(9, 23, 4660) /\ Sets(10, 24, 22136) /\ Sets(11, 25, 8229)
  /\ Sets(12, 26, 8229) /\ Sets(13, 27, 43981) /\ Sets(14, 28, 61185)
  /\ Sets(15, 29, 4951) /\ Sets(16, 30, 9320)
  <1>1. /\ SetUpIdentity[1] = SetIdentity("MANUFACTURE_NAME_MSB", 4660)
        /\ SetUpIdentity[2] = SetIdentity("MANUFACTURE_NAME_LSB", 22136)
        /\ SetUpIdentity[3] = SetIdentity("MANUFACTURING_DATE", 8229)
        /\ SetUpIdentity[4] = SetIdentity("FIRST_USAGE_DATE", 8229)
        /\ SetUpIdentity[5] = SetIdentity("SERIAL_NUMBER_MSB", 43981)
        /\ SetUpIdentity[6] = SetIdentity("SERIAL_NUMBER_LSB", 61185)
        /\ SetUpIdentity[7] = SetIdentity("DEVICE_NAME_MSB", 4951)
        /\ SetUpIdentity[8] = SetIdentity("DEVICE_NAME_LSB", 9320)
    BY DEF SetUpIdentity
  <1>2. /\ Identity["MANUFACTURE_NAME_MSB"] = 23
        /\ Identity["MANUFACTURE_NAME_LSB"] = 24
        /\ Identity["MANUFACTURING_DATE"] = 25
        /\ Identity["FIRST_USAGE_DATE"] = 26
        /\ Identity["SERIAL_NUMBER_MSB"] = 27
        /\ Identity["SERIAL_NUMBER_LSB"] = 28
        /\ Identity["DEVICE_NAME_MSB"] = 29
        /\ Identity["DEVICE_NAME_LSB"] = 30
    BY DEF Identity
  <1>3. IdentityNames \subseteq DOMAIN Identity
    BY IdentityDomain
  <1>4. /\ Sets(1 + 8, 23, 4660) /\ Sets(2 + 8, 24, 22136)
        /\ Sets(3 + 8, 25, 8229) /\ Sets(4 + 8, 26, 8229)
    BY <1>1, <1>2, <1>3, IdentitySets, SMT DEF IdentityNames, UINT16_MAX
  <1>5. /\ Sets(5 + 8, 27, 43981) /\ Sets(6 + 8, 28, 61185)
        /\ Sets(7 + 8, 29, 4951) /\ Sets(8 + 8, 30, 9320)
    BY <1>1, <1>2, <1>3, IdentitySets, SMT DEF IdentityNames, UINT16_MAX
  <1> QED
    BY <1>4, <1>5

Reg(i) == WriteOf(Boot[i]).reg
Value(i) == WriteOf(Boot[i]).data

LEMMA SettingRegs ==
  /\ Reg(1) = 4 /\ Reg(2) = 19 /\ Reg(3) = 20 /\ Reg(4) = 21
  /\ Reg(5) = 22 /\ Reg(6) = 42 /\ Reg(7) = 43 /\ Reg(8) = 47
  /\ \A i \in 9 .. 16 : Reg(i) = i + 14
  BY ConfigurationSets, IdentitiesSet DEF Sets, Reg

(* The sixteen of them set a register each, and none that a later one sets.*)
LEMMA SettingsApart ==
  ASSUME NEW i \in 1 .. 16
  PROVE  /\ Boot[i].fn # "conversion" /\ Sends(WriteOf(Boot[i]))
         /\ Reg(i) # ConvReg
         /\ \A j \in 1 .. 16 : Reg(j) = Reg(i) => i = j
  <1>1. Boot[i].fn # "conversion"
    BY ConfigurationSets, IdentitiesSet DEF Sets
  <1>2. Reg(i) # 0 /\ Reg(i) # ConvReg
    BY SettingRegs DEF ConvReg
  <1>3. Sends(WriteOf(Boot[i]))
    BY <1>2 DEF Reg, Sends, Nothing
  <1>4. \A j \in 1 .. 16 : Reg(j) = Reg(i) => i = j
    BY SettingRegs
  <1> QED
    BY <1>1, <1>2, <1>3, <1>4

LEMMA SettingKnown ==
  ASSUME NEW i \in 1 .. 16
  PROVE  Boot[i] \in BmsCalls /\ Sound(WriteOf(Boot[i])) /\ Reg(i) \in BmsRegs
  <1>1. i \in 1 .. Len(Boot)
    BY BootCalls
  <1>2. Boot[i] \in BmsCalls
    BY <1>1, BootType, ElementOfSeq
  <1> QED
    BY <1>2, SettingsApart, WriteSound DEF Sound, Reg

LEMMA SettingCopiesNothing ==
  ASSUME NEW i \in 1 .. 16
  PROVE  ~Uploads(WriteOf(Boot[i])) /\ ~Downloads(WriteOf(Boot[i]))
  <1>1. Reg(i) # 32
    BY SettingRegs
  <1> QED
    BY <1>1, CopyRegister DEF Reg

LEMMA LaterRefused ==
  ASSUME NEW i \in 17 .. 30 PROVE ~Sends(WriteOf(Boot[i]))
  <1>1. Boot[(i - 16) + 16] = SetUpNumerical[i - 16] /\ i - 16 \in 1 .. 14
    BY BootCalls
  <1>2. \A k \in 1 .. 14 : SetUpNumerical[k].fn = "numerical"
    BY DEF SetUpNumerical, SetNumber, Call
  <1>3. Boot[i].fn = "numerical"
    BY <1>1, <1>2
  <1> QED
    BY <1>3 DEF WriteOf, NumericalWrite, Sends

-----------------------------------------------------------------------------
(* What setup() has set stays set until it is through: while nothing has   *)
(* failed, every register that a finished call set still holds its value,  *)
(* and a call that is not finished is the one that Boot gave last.         *)

Set(i) == chip[Reg(i)] = Value(i)

SettingsKept ==
  failed = 0 /\ ~Booted =>
    /\ \A i \in 1 .. 16 :
         i < pos /\ (phase = "idle" \/ i # pos - 1) => Set(i)
    /\ phase # "idle" => 1 < pos /\ cmd = Boot[pos - 1]

LEMMA SetUnchanged ==
  ASSUME NEW i \in 1 .. 16, Set(i), NEW w, NEW ok \in BOOLEAN, Written(w, ok),
         w.reg # Reg(i), ~Uploads(w)
  PROVE  Set(i)'
  <1>1. Reg(i) \in BmsRegs
    BY SettingKnown
  <1>2. chip'[Reg(i)] = chip[Reg(i)]
    BY <1>1, Zenon DEF Written
  <1> QED
    BY <1>2, Zenon DEF Set, Reg, Value

(* A failed write is counted, and counts until the restart.                *)
LEMMA NoneFailed ==
  ASSUME Data, NEW w, NEW ok \in BOOLEAN, Written(w, ok), failed' = 0
  PROVE  ok /\ failed = 0
  <1>1. failed \in Nat
    BY DEF Data
  <1> QED
    BY <1>1 DEF Written

LEMMA CalledNext ==
  ASSUME Data, NEW c, Called(c), ~Booted'
  PROVE  /\ ~Booted /\ c = Boot[pos] /\ pos' = pos + 1
         /\ pos \in 1 .. 30 /\ cmd' = c /\ phase = "idle"
  <1>1. /\ IF Booted THEN c \in AppCalls ELSE c = Boot[pos]
        /\ pos' = IF Booted THEN pos ELSE pos + 1
        /\ cmd' = c /\ phase = "idle"
    BY Zenon DEF Called
  <1>2. pos \in 1 .. 32
    BY BootCalls DEF Data
  <1>3. ~Booted
    BY <1>1, BootCalls DEF Booted
  <1> QED
    BY <1>1, <1>2, <1>3, BootCalls DEF Booted

LEMMA SettingsStep ==
  ASSUME Data, Pending, SettingsKept, [Next]_vars,
         failed' = 0, ~Booted'
  PROVE  /\ \A i \in 1 .. 16 :
              i < pos' /\ (phase' = "idle" \/ i # pos' - 1) => Set(i)'
         /\ phase' # "idle" => 1 < pos' /\ cmd' = Boot[pos' - 1]
  <1> DEFINE Goal == /\ \A i \in 1 .. 16 :
                          i < pos' /\ (phase' = "idle" \/ i # pos' - 1)
                            => Set(i)'
                     /\ phase' # "idle" => 1 < pos' /\ cmd' = Boot[pos' - 1]
  <1> SUFFICES Goal
    OBVIOUS
  <1>0. pos \in Nat
    BY DEF Data
  <1>k. ASSUME NEW i \in 1 .. 16, Set(i), chip' = chip PROVE Set(i)'
    BY <1>k, Zenon DEF Set, Reg, Value
  <1>1. ASSUME NEW c, Refuse(c) PROVE Goal
    <2>1. /\ Called(c) /\ ~Sends(WriteOf(c))
          /\ UNCHANGED <<phase, chip, failed>>
      BY <1>1, Zenon DEF Refuse
    <2>2. /\ ~Booted /\ c = Boot[pos] /\ pos' = pos + 1 /\ phase = "idle"
          /\ pos \in 1 .. 30
      BY <2>1, CalledNext
    <2>3. pos \notin 1 .. 16
      BY <2>1, <2>2, SettingsApart
    <2>4. ASSUME NEW i \in 1 .. 16 PROVE Set(i)'
      <3>1. i < pos
        BY <2>2, <2>3
      <3>2. Set(i)
        BY <2>1, <2>2, <3>1, Zenon DEF SettingsKept
      <3> QED
        BY <1>k, <2>1, <3>2
    <2> QED
      BY <2>1, <2>2, <2>4
  <1>2. ASSUME NEW c, Begin(c) PROVE Goal
    <2>1. /\ Called(c) /\ UNCHANGED <<chip, failed>>
          /\ phase' \in {"off", "write"}
      BY <1>2, Zenon DEF Begin
    <2>2. /\ ~Booted /\ c = Boot[pos] /\ pos' = pos + 1 /\ phase = "idle"
          /\ cmd' = c /\ pos \in 1 .. 30
      BY <2>1, CalledNext
    <2>3. ASSUME NEW i \in 1 .. 16, i < pos', i # pos' - 1 PROVE Set(i)'
      <3>1. i < pos
        BY <1>0, <2>2, <2>3
      <3>2. Set(i)
        BY <2>1, <2>2, <3>1, Zenon DEF SettingsKept
      <3> QED
        BY <1>k, <2>1, <3>2
    <2>4. phase' # "idle"
      BY <2>1
    <2>5. 1 < pos' /\ pos' - 1 = pos
      BY <2>2
    <2> QED
      BY <2>2, <2>3, <2>4, <2>5
  <1>3. ASSUME NEW c, NEW ok \in Outcomes, setBMSConversionState(c, ok)
        PROVE  Goal
    <2>1. /\ Called(c) /\ c.fn = "conversion" /\ phase' = phase
          /\ WriteOf(c).reg = ConvReg /\ Written(WriteOf(c), ok)
      BY <1>3, ConversionEffect
    <2>2. /\ ~Booted /\ c = Boot[pos] /\ pos' = pos + 1 /\ phase = "idle"
          /\ pos \in 1 .. 30
      BY <2>1, CalledNext
    <2>3. pos \notin 1 .. 16
      BY <2>1, <2>2, SettingsApart
    <2>4. ok \in BOOLEAN /\ failed = 0
      BY <2>1, NoneFailed, OutcomesType
    <2>5. ASSUME NEW i \in 1 .. 16 PROVE Set(i)'
      <3>1. i < pos
        BY <2>2, <2>3
      <3>2. Set(i)
        BY <2>2, <2>4, <3>1, Zenon DEF SettingsKept
      <3>3. WriteOf(c).reg # Reg(i) /\ ~Uploads(WriteOf(c))
        BY <2>1, SettingsApart, ConversionCopiesNothing
      <3> QED
        BY <2>1, <2>4, <3>2, <3>3, SetUnchanged
    <2> QED
      BY <2>1, <2>2, <2>5
  <1>4. ASSUME NEW ok \in Outcomes, TurnOff(ok) PROVE Goal
    <2>1. /\ phase = "off" /\ phase' = "write" /\ UNCHANGED <<pos, cmd>>
          /\ Written(Send(ConvReg, 0), ok)
      BY <1>4, TurnOffEffect
    <2>2. ok \in BOOLEAN /\ failed = 0 /\ ~Booted
      BY <2>1, NoneFailed, OutcomesType, Zenon DEF Booted
    <2>3. ASSUME NEW i \in 1 .. 16, i < pos', i # pos' - 1 PROVE Set(i)'
      <3>1. Set(i)
        BY <2>1, <2>2, <2>3, Zenon DEF SettingsKept
      <3>2. Send(ConvReg, 0).reg # Reg(i) /\ ~Uploads(Send(ConvReg, 0))
        BY SettingsApart, SendParts, ConversionCopiesNothing
      <3> QED
        BY <2>1, <2>2, <3>1, <3>2, SetUnchanged
    <2>4. 1 < pos /\ cmd = Boot[pos - 1]
      BY <2>1, <2>2 DEF SettingsKept
    <2> QED
      BY <2>1, <2>3, <2>4
  <1>5. ASSUME NEW ok \in Outcomes, WriteRegister(ok) PROVE Goal
    <2>1. /\ phase = "write" /\ phase' = "idle" /\ UNCHANGED <<pos, cmd>>
          /\ Written(WriteOf(cmd), ok)
      BY <1>5, WriteEffect
    <2>2. ok /\ ok \in BOOLEAN /\ failed = 0 /\ ~Booted
      BY <2>1, NoneFailed, OutcomesType, Zenon DEF Booted
    <2>3. 1 < pos /\ cmd = Boot[pos - 1] /\ pos <= 31
      BY <1>0, <2>1, <2>2, BootCalls DEF SettingsKept, Booted
    <2>4. Sends(WriteOf(Boot[pos - 1])) /\ Boot[pos - 1].fn # "conversion"
      BY <2>1, <2>3 DEF Pending
    <2>5. pos - 1 \in 1 .. 16
      BY <1>0, <2>3, <2>4, LaterRefused
    <2>6. ASSUME NEW i \in 1 .. 16, i < pos' PROVE Set(i)'
      <3>1. CASE i = pos - 1
        <4>1. chip'[WriteOf(cmd).reg] = WriteOf(cmd).data
          BY <2>1, <2>2, Zenon DEF Written
        <4> QED
          BY <2>3, <3>1, <4>1 DEF Set, Reg, Value
      <3>2. CASE i # pos - 1
        <4>1. Set(i)
          BY <2>1, <2>2, <2>6, <3>2, Zenon DEF SettingsKept
        <4>2. WriteOf(cmd).reg # Reg(i) /\ ~Uploads(WriteOf(cmd))
          BY <2>3, <2>5, <3>2, SettingsApart, SettingCopiesNothing DEF Reg
        <4> QED
          BY <2>1, <2>2, <4>1, <4>2, SetUnchanged
      <3> QED
        BY <3>1, <3>2
    <2> QED
      BY <2>1, <2>6
  <1>6. CASE Restart
    <2>1. pos' = 1 /\ phase' = "idle"
      BY <1>6, Zenon DEF Restart
    <2> QED
      BY <2>1
  <1>7. CASE UNCHANGED vars
    <2>1. UNCHANGED <<pos, phase, cmd, chip, failed>>
      BY <1>7, Zenon DEF vars
    <2>2. failed = 0 /\ ~Booted
      BY <2>1, Zenon DEF Booted
    <2>3. ASSUME NEW i \in 1 .. 16, i < pos', phase' = "idle" \/ i # pos' - 1
          PROVE  Set(i)'
      BY <1>k, <2>1, <2>2, <2>3, Zenon DEF SettingsKept
    <2> QED
      BY <2>1, <2>2, <2>3, Zenon DEF SettingsKept
  <1> HIDE DEF Goal
  <1> QED
    BY <1>1, <1>2, <1>3, <1>4, <1>5, <1>6, <1>7, Zenon
       DEF Next, Foreground, Serve

LEMMA SettingsInit == Init => SettingsKept
  <1> SUFFICES ASSUME Init PROVE SettingsKept
    OBVIOUS
  <1>1. pos = 1 /\ phase = "idle"
    BY Zenon DEF Init
  <1> QED
    BY <1>1 DEF SettingsKept

LEMMA SettingsNext ==
  ASSUME Data, Pending, SettingsKept, [Next]_vars PROVE SettingsKept'
  <1> SUFFICES ASSUME failed' = 0, ~Booted'
               PROVE  /\ \A i \in 1 .. 16 :
                           i < pos' /\ (phase' = "idle" \/ i # pos' - 1)
                             => Set(i)'
                      /\ phase' # "idle" => 1 < pos' /\ cmd' = Boot[pos' - 1]
    BY Zenon DEF SettingsKept
  <1> QED
    BY SettingsStep

LEMMA SettingsHold == Spec => [](Data /\ Pending /\ SettingsKept)
  BY SettingsInit, SettingsNext, DataHolds, PTL DEF Spec

(* What SetUpBMS asks of an identity is what its one call for it says.     *)
LEMMA AskedIs ==
  /\ Asked("MANUFACTURE_NAME_MSB") = 4660
  /\ Asked("MANUFACTURE_NAME_LSB") = 22136
  /\ Asked("MANUFACTURING_DATE") = 8229
  /\ Asked("FIRST_USAGE_DATE") = 8229
  /\ Asked("SERIAL_NUMBER_MSB") = 43981
  /\ Asked("SERIAL_NUMBER_LSB") = 61185
  /\ Asked("DEVICE_NAME_MSB") = 4951
  /\ Asked("DEVICE_NAME_LSB") = 9320
  <1> DEFINE Says(i, c, n) == /\ SetUpIdentity[i].command = c
                              /\ SetUpIdentity[i].arg1.num = n
  <1>1. /\ Says(1, "MANUFACTURE_NAME_MSB", 4660)
        /\ Says(2, "MANUFACTURE_NAME_LSB", 22136)
        /\ Says(3, "MANUFACTURING_DATE", 8229)
        /\ Says(4, "FIRST_USAGE_DATE", 8229)
        /\ Says(5, "SERIAL_NUMBER_MSB", 43981)
        /\ Says(6, "SERIAL_NUMBER_LSB", 61185)
        /\ Says(7, "DEVICE_NAME_MSB", 4951)
        /\ Says(8, "DEVICE_NAME_LSB", 9320)
    BY IdentityCallParts DEF SetUpIdentity
  <1>2. \A i \in 1 .. 8 : i \in {1, 2, 3, 4, 5, 6, 7, 8}
    OBVIOUS
  <1>3. \A i, j \in 1 .. 8 :
          SetUpIdentity[i].command = SetUpIdentity[j].command => i = j
    BY <1>1, <1>2
  <1>4. ASSUME NEW k \in 1 .. 8, NEW c, NEW n, Says(k, c, n)
        PROVE  Asked(c) = n
    <2> DEFINE Index == CHOOSE i \in 1 .. 8 : SetUpIdentity[i].command = c
    <2>1. Index \in 1 .. 8 /\ SetUpIdentity[Index].command = c
      BY <1>4, Zenon
    <2>2. Index = k
      BY <1>3, <1>4, <2>1, Zenon
    <2>3. Asked(c) = SetUpIdentity[Index].arg1.num
      BY BootLengths, Zenon DEF Asked
    <2> QED
      BY <1>4, <2>2, <2>3, Zenon
  <1>5. /\ 1 \in 1 .. 8 /\ 2 \in 1 .. 8 /\ 3 \in 1 .. 8 /\ 4 \in 1 .. 8
        /\ 5 \in 1 .. 8 /\ 6 \in 1 .. 8 /\ 7 \in 1 .. 8 /\ 8 \in 1 .. 8
    OBVIOUS
  <1> HIDE DEF Says
  <1>6. /\ Asked("MANUFACTURE_NAME_MSB") = 4660
        /\ Asked("MANUFACTURE_NAME_LSB") = 22136
        /\ Asked("MANUFACTURING_DATE") = 8229
        /\ Asked("FIRST_USAGE_DATE") = 8229
    BY <1>1, <1>4, <1>5, SMT
  <1>7. /\ Asked("SERIAL_NUMBER_MSB") = 43981
        /\ Asked("SERIAL_NUMBER_LSB") = 61185
        /\ Asked("DEVICE_NAME_MSB") = 4951
        /\ Asked("DEVICE_NAME_LSB") = 9320
    BY <1>1, <1>4, <1>5, SMT
  <1> QED
    BY <1>6, <1>7

LEMMA Reads ==
  ASSUME NEW i \in 1 .. 16, NEW r, NEW v, Sets(i, r, v), Set(i)
  PROVE  chip[r] = v
  BY Zenon DEF Sets, Set, Reg, Value

LEMMA SettingsReconfigure ==
  ASSUME Data, SettingsKept PROVE SetupReconfigures
  <1> SUFFICES ASSUME phase = "idle", pos = Len(Boot), failed = 0
               PROVE  SetupReconfigures
    BY Zenon DEF SetupReconfigures
  <1>1. ~Booted /\ pos = 31
    BY BootCalls DEF Booted
  <1>2. \A i \in 1 .. 16 : Set(i)
    BY <1>1 DEF SettingsKept
  <1>3. /\ chip[4] = 6655 /\ chip[19] = 32767 /\ chip[20] = 127
        /\ chip[21] = 4095 /\ chip[22] = 4095 /\ chip[42] = 0
        /\ chip[43] = 0 /\ chip[47] = 0
    BY <1>2, ConfigurationSets, Reads
  <1>4. /\ chip[23] = 4660 /\ chip[24] = 22136 /\ chip[25] = 8229
        /\ chip[26] = 8229 /\ chip[27] = 43981 /\ chip[28] = 61185
        /\ chip[29] = 4951 /\ chip[30] = 9320
    BY <1>2, IdentitiesSet, Reads
  <1>5. \A c \in DOMAIN Config : chip[Config[c].reg] = Config[c].dflt
    BY <1>3, ConfigRows, ConfigDomain DEF Row, ConfigNames
  <1>6. /\ readManufacturerName =
             << Asked("MANUFACTURE_NAME_MSB"), Asked("MANUFACTURE_NAME_LSB") >>
        /\ readSerialNumber =
             << Asked("SERIAL_NUMBER_MSB"), Asked("SERIAL_NUMBER_LSB") >>
        /\ readDeviceName =
             << Asked("DEVICE_NAME_MSB"), Asked("DEVICE_NAME_LSB") >>
    BY <1>4, AskedIs DEF readManufacturerName, readSerialNumber, readDeviceName
  <1>7. /\ readManufacturerDate = Asked("MANUFACTURING_DATE")
        /\ readFirstUsageDate = Asked("FIRST_USAGE_DATE")
    BY <1>4, AskedIs DEF readManufacturerDate, readFirstUsageDate
  <1> QED
    BY <1>5, <1>6, <1>7, Zenon DEF SetupReconfigures

(* When setup() comes to turning conversions on and nothing has failed,    *)
(* every configuration register holds its default and every identity reads *)
(* back as asked, whatever the chip held before.                           *)
THEOREM SetupSetsAll == Spec => []SetupReconfigures
  BY SettingsReconfigure, SettingsHold, PTL
-----------------------------------------------------------------------------
(* What the NVM holds.  Once setup() is through and nothing has failed, an *)
(* identity that the NVM holds is set in the chip too, so that committing  *)
(* the registers cannot lose it; before that, setup() commits nothing.     *)

LEMMA IdentityValues ==
  ASSUME NEW r \in IdentityRegs
  PROVE  \E i \in 1 .. 16 : Reg(i) = r /\ Value(i) # 0
  <1>1. r \in {23, 24, 25, 26, 27, 28, 29, 30}
    BY IdentityRegsRange
  <1>2. \A i \in 9 .. 16 : i \in {9, 10, 11, 12, 13, 14, 15, 16}
    OBVIOUS
  <1>3. \A i \in 9 .. 16 : Value(i) # 0
    BY <1>2, IdentitiesSet DEF Sets, Value
  <1>4. r - 14 \in 9 .. 16 /\ Reg(r - 14) = r
    BY <1>1, SettingRegs
  <1> QED
    BY <1>3, <1>4

LEMMA OneWay ==
  ASSUME NEW w, Uploads(w) PROVE ~Downloads(w)
  <1>1. Nvm.NVM_2_UL.data = 21845 /\ Nvm.NVM_2_DL.data = 43690
    BY DEF Nvm, Send
  <1>2. Nvm.NVM_2_UL # Nvm.NVM_2_DL
    BY <1>1
  <1> QED
    BY <1>2, Zenon DEF Uploads, Downloads

Mirrored == \A r \in IdentityRegs : nvm[r] # 0 => chip[r] # 0

StoredIsSet == failed = 0 /\ Booted => Mirrored

LEMMA MirroredWritten ==
  ASSUME NEW w, Written(w, TRUE), w.reg \in IdentityRegs => w.data # 0,
         Mirrored
  PROVE  Mirrored'
  <1> SUFFICES ASSUME NEW r \in IdentityRegs, nvm'[r] # 0
               PROVE  chip'[r] # 0
    BY Zenon DEF Mirrored
  <1>1. r \in BmsRegs /\ r \in NvmRegs
    BY Zenon DEF BmsRegs, NvmRegs
  <1>2. CASE r = w.reg
    <2>1. chip'[r] = w.data /\ w.data # 0
      BY <1>2, Zenon DEF Written
    <2> QED
      BY <2>1
  <1>3. CASE r # w.reg
    <2>1. \/ chip'[r] = chip[r]
          \/ Uploads(w) /\ chip'[r] = nvm[r]
      BY <1>1, <1>3, Zenon DEF Written
    <2>2. \/ nvm'[r] = nvm[r]
          \/ Downloads(w) /\ nvm'[r] = chip[r]
      BY <1>1, Zenon DEF Written
    <2>3. nvm[r] # 0 => chip[r] # 0
      BY Zenon DEF Mirrored
    <2> QED
      BY <2>1, <2>2, <2>3, OneWay
  <1> QED
    BY <1>2, <1>3

LEMMA AllSet ==
  ASSUME Data, SettingsKept, failed = 0, phase = "idle", pos = 31
  PROVE  Mirrored
  <1> SUFFICES ASSUME NEW r \in IdentityRegs PROVE chip[r] # 0
    BY Zenon DEF Mirrored
  <1>1. PICK i \in 1 .. 16 : Reg(i) = r /\ Value(i) # 0
    BY IdentityValues
  <1>2. ~Booted
    BY BootCalls DEF Booted
  <1>3. Set(i)
    BY <1>2 DEF SettingsKept
  <1> QED
    BY <1>1, <1>3 DEF Set

LEMMA StoredStep ==
  ASSUME Data, Pending, SettingsKept, StoredIsSet, [Next]_vars,
         failed' = 0, Booted'
  PROVE  Mirrored'
  <1>1. ASSUME failed' = failed, Booted, UNCHANGED <<chip, nvm>>
        PROVE  Mirrored'
    BY <1>1, Zenon DEF StoredIsSet, Mirrored
  <1>2. ASSUME NEW c, Refuse(c) \/ Begin(c) PROVE Mirrored'
    <2>1. /\ Called(c) /\ ~(c.fn = "conversion" /\ Sends(WriteOf(c)))
          /\ UNCHANGED <<chip, nvm, failed>>
      BY <1>2, Zenon DEF Refuse, Begin
    <2>2. Booted
      BY <2>1, BootsOn
    <2> QED
      BY <1>1, <2>1, <2>2
  <1>3. ASSUME NEW c, NEW ok \in Outcomes, setBMSConversionState(c, ok)
        PROVE  Mirrored'
    <2>1. Called(c) /\ WriteOf(c).reg = ConvReg /\ Written(WriteOf(c), ok)
      BY <1>3, ConversionEffect
    <2>2. ok = TRUE /\ failed = 0
      BY <2>1, NoneFailed, OutcomesType
    <2>3. Mirrored
      <3>1. CASE Booted
        BY <2>2, <3>1 DEF StoredIsSet
      <3>2. CASE ~Booted
        <4>1. /\ pos' = pos + 1 /\ phase = "idle"
          BY <2>1, <3>2, Zenon DEF Called
        <4>2. pos = 31
          BY <3>2, <4>1, BootCalls DEF Booted, Data
        <4> QED
          BY <2>2, <4>1, <4>2, AllSet
      <3> QED
        BY <3>1, <3>2
    <2>4. WriteOf(c).reg \notin IdentityRegs
      BY <2>1, ConversionNoIdentity
    <2> QED
      BY <2>1, <2>2, <2>3, <2>4, MirroredWritten
  <1>4. ASSUME NEW ok \in Outcomes, TurnOff(ok) PROVE Mirrored'
    <2>1. pos' = pos /\ Written(Send(ConvReg, 0), ok)
      BY <1>4, TurnOffEffect
    <2>2. ok = TRUE /\ failed = 0
      BY <2>1, NoneFailed, OutcomesType
    <2>3. Mirrored
      BY <2>1, <2>2, Zenon DEF StoredIsSet, Booted
    <2>4. Send(ConvReg, 0).reg \notin IdentityRegs
      BY SendParts, ConversionNoIdentity
    <2> QED
      BY <2>1, <2>2, <2>3, <2>4, MirroredWritten
  <1>5. ASSUME NEW ok \in Outcomes, WriteRegister(ok) PROVE Mirrored'
    <2>1. /\ pos' = pos /\ Written(WriteOf(cmd), ok)
          /\ Sound(WriteOf(cmd))
      BY <1>5, WriteEffect
    <2>2. ok = TRUE /\ failed = 0
      BY <2>1, NoneFailed, OutcomesType
    <2>3. Mirrored
      BY <2>1, <2>2, Zenon DEF StoredIsSet, Booted
    <2>4. WriteOf(cmd).reg \in IdentityRegs => WriteOf(cmd).data # 0
      BY <2>1, Zenon DEF Sound
    <2> QED
      BY <2>1, <2>2, <2>3, <2>4, MirroredWritten
  <1>6. CASE Restart
    <2>1. pos' = 1
      BY <1>6, Zenon DEF Restart
    <2> QED
      BY <2>1, BootCalls DEF Booted
  <1>7. CASE UNCHANGED vars
    BY <1>1, <1>7, Zenon DEF vars, Booted
  <1> QED
    BY <1>2, <1>3, <1>4, <1>5, <1>6, <1>7, Zenon DEF Next, Foreground, Serve

LEMMA StoredInit == Init => StoredIsSet
  <1> SUFFICES ASSUME Init PROVE ~Booted
    BY Zenon DEF StoredIsSet
  <1>1. pos = 1
    BY Zenon DEF Init
  <1> QED
    BY <1>1, BootCalls DEF Booted

LEMMA StoredNext ==
  ASSUME Data, Pending, SettingsKept, StoredIsSet, [Next]_vars
  PROVE  StoredIsSet'
  <1> SUFFICES ASSUME failed' = 0, Booted' PROVE Mirrored'
    BY Zenon DEF StoredIsSet
  <1> QED
    BY StoredStep

Losing ==
  \A r \in IdentityRegs : nvm[r] # 0 /\ nvm'[r] = 0 => failed > 0

LEMMA NoneLost ==
  ASSUME Data, Pending, SettingsKept, StoredIsSet, [Next]_vars
  PROVE  Losing
  <1>1. ASSUME nvm' = nvm PROVE Losing
    BY <1>1, Zenon DEF Losing
  <1>2. ASSUME NEW w, NEW ok \in BOOLEAN, Written(w, ok), ~Downloads(w)
        PROVE  Losing
    <2>1. \A r \in IdentityRegs : nvm'[r] = nvm[r]
      BY <1>2, Zenon DEF Written, NvmRegs
    <2> QED
      BY <2>1, Zenon DEF Losing
  <1>3. ASSUME NEW ok \in Outcomes, WriteRegister(ok) PROVE Losing
    <2>1. /\ phase = "write" /\ Sound(WriteOf(cmd))
          /\ Written(WriteOf(cmd), ok)
      BY <1>3, WriteEffect
    <2>2. failed \in Nat
      BY DEF Data
    <2>3. CASE failed # 0
      BY <2>2, <2>3 DEF Losing
    <2>4. CASE failed = 0 /\ Booted
      <3>1. ASSUME NEW r \in IdentityRegs, nvm[r] # 0 PROVE nvm'[r] # 0
        <4>1. chip[r] # 0
          BY <2>4, <3>1, Zenon DEF StoredIsSet, Mirrored
        <4>2. nvm'[r] = nvm[r] \/ nvm'[r] = chip[r]
          BY <2>1, Zenon DEF Written, NvmRegs
        <4> QED
          BY <3>1, <4>1, <4>2
      <3> QED
        BY <3>1, Zenon DEF Losing
    <2>5. CASE failed = 0 /\ ~Booted
      <3>1. 1 < pos /\ cmd = Boot[pos - 1] /\ pos \in 1 .. 31
        BY <2>1, <2>5, BootCalls DEF SettingsKept, Booted, Data
      <3>2. Sends(WriteOf(Boot[pos - 1]))
        BY <2>1, <3>1 DEF Pending
      <3>3. pos - 1 \in 1 .. 16
        BY <3>1, <3>2, LaterRefused
      <3>4. ~Downloads(WriteOf(cmd))
        BY <3>1, <3>3, SettingCopiesNothing
      <3> QED
        BY <1>2, <2>1, <3>4, OutcomesType
    <2> QED
      BY <2>3, <2>4, <2>5
  <1>4. ASSUME NEW c, NEW ok \in Outcomes, setBMSConversionState(c, ok)
        PROVE  Losing
    <2>1. Written(WriteOf(c), ok) /\ WriteOf(c).reg = ConvReg
      BY <1>4, ConversionEffect
    <2> QED
      BY <1>2, <2>1, ConversionCopiesNothing, OutcomesType
  <1>5. ASSUME NEW ok \in Outcomes, TurnOff(ok) PROVE Losing
    <2>1. Written(Send(ConvReg, 0), ok)
      BY <1>5, TurnOffEffect
    <2>2. ~Downloads(Send(ConvReg, 0))
      BY SendParts, ConversionCopiesNothing
    <2> QED
      BY <1>2, <2>1, <2>2, OutcomesType
  <1>6. ASSUME NEW c, Refuse(c) \/ Begin(c) PROVE Losing
    <2>1. nvm' = nvm
      BY <1>6, Zenon DEF Refuse, Begin
    <2> QED
      BY <1>1, <2>1
  <1>7. CASE Restart \/ UNCHANGED vars
    <2>1. nvm' = nvm
      BY <1>7, Zenon DEF Restart, vars
    <2> QED
      BY <1>1, <2>1
  <1> QED
    BY <1>3, <1>4, <1>5, <1>6, <1>7, Zenon DEF Next, Foreground, Serve

(* Whatever is called, in whatever order and around whatever restarts, the *)
(* NVM loses an identity only after a write was reported as failed.        *)
THEOREM StoredIdentitiesKept == Spec => StoredIdentityKept
  <1> DEFINE All == Data /\ Pending /\ SettingsKept /\ StoredIsSet
  <1>1. Init => StoredIsSet
    BY StoredInit
  <1>2. Data /\ Pending /\ SettingsKept /\ StoredIsSet /\ [Next]_vars
          => StoredIsSet'
    BY StoredNext
  <1>3. Spec => []All
    BY <1>1, <1>2, SettingsHold, PTL DEF Spec
  <1>4. All /\ [Next]_vars => [Losing]_vars
    BY NoneLost
  <1> HIDE DEF All
  <1>5. Spec => [][Losing]_vars
    BY <1>3, <1>4, PTL DEF Spec
  <1> QED
    BY <1>5, PTL DEF StoredIdentityKept, Losing
=============================================================================
