---------------------------- MODULE BmsCommands ----------------------------
(***************************************************************************)
(* The battery-monitor side of the firmware: setup() runs SetUpBMS and     *)
(* turns conversions on, and code after it may call any of the command     *)
(* functions.  Before it writes a register, a command function turns       *)
(* conversions off, if it believes them on: bmsConversionActive is all it  *)
(* knows.  One step is one I2C transaction; a failed one is reported on    *)
(* the console and otherwise ignored.                                      *)
(*                                                                         *)
(* The L9961 is a chip on the battery side.  It keeps its registers when   *)
(* the controller restarts, unless it loses power as well.  Its NVM keeps  *)
(* its contents through everything; two commands copy the configuration    *)
(* and the identities from the registers to it and back.                   *)
(***************************************************************************)
EXTENDS BmsCodes, Sequences

CONSTANTS
  AppCalls,      \* command calls that may follow setup(); none as shipped
  PowerOn,       \* register contents of an L9961 after power-up
  NvmContents,   \* what its NVM holds when the program first runs
  MaxFailed,     \* bound on failing transactions, from start to restart
  WarmRestarts,  \* whether the controller may restart with the chip powered
  MaxResets      \* bound on the restarts of the controller

ASSUME MaxFailedAssumption == MaxFailed \in Nat
ASSUME WarmRestartsAssumption == WarmRestarts \in BOOLEAN
ASSUME MaxResetsAssumption == MaxResets \in Nat

VARIABLES
  pos,                  \* how far setup() has got in Boot
  phase,                \* where the command being served is
  cmd,                  \* the command being served, or the last one
  bmsConversionActive,  \* the program's record: 1 on, 0 off
  chip,                 \* the registers of the L9961
  nvm,                  \* its non-volatile memory
  failed,               \* failed writes reported since the start
  warm,                 \* whether the chip was found powered at the start
  resets                \* restarts so far

vars == <<pos, phase, cmd, bmsConversionActive, chip, nvm, failed, warm,
          resets>>

-----------------------------------------------------------------------------
(* Calls of command functions.                                             *)

ConvReg == 2
ConversionOnValue == 4095     \* 31 cycles, filters 3, 7 and 3, packed

ConfigRegs    == {Config[c].reg : c \in DOMAIN Config}
IdentityRegs  == {Identity[c] : c \in DOMAIN Identity}
NumericalRegs == {Numerical[c].reg : c \in DOMAIN Numerical}
RealTimeRegs  == {RealTime[c].reg : c \in DOMAIN RealTime}
BmsRegs == {ConvReg, 32} \cup ConfigRegs \cup IdentityRegs
             \cup NumericalRegs \cup RealTimeRegs

(* The registers the NVM has a copy of: configuration and identities.      *)
NvmRegs == ConfigRegs \cup IdentityRegs \cup NumericalRegs

(* The names of commands; any other is told to be unknown.                 *)
CommandNames ==
  DOMAIN Config \cup DOMAIN Identity \cup DOMAIN Nvm \cup DOMAIN RealTime
    \cup DOMAIN Numerical \cup {"CONVERSION_ON", "CONVERSION_OFF", "other"}

CallFns == {"config", "identity", "nvm", "realtime", "numerical",
            "conversion"}
ArgKinds == {"default", "binary", "number", "max", "min", "null", "other"}
Arg(kind, num) == [kind |-> kind, num |-> num]
NoArg == Arg("null", 0)
Call(fn, command, arg1, arg2) ==
  [fn |-> fn, command |-> command, arg1 |-> arg1, arg2 |-> arg2]
BmsCalls == [fn : CallFns, command : CommandNames,
             arg1 : [kind : ArgKinds, num : Int],
             arg2 : [kind : ArgKinds, num : Int]]

SetConfig(command)   == Call("config", command, Arg("default", 0), NoArg)
SetIdentity(command, n) == Call("identity", command, Arg("number", n), NoArg)
SetNumber(command, k1, k2) ==
  Call("numerical", command, Arg(k1, 0), Arg(k2, 0))
SetConversion(state) == Call("conversion", state, NoArg, NoArg)

(* mutant: one configuration command has been commented out.               *)
SetUpConfigShort ==
  << SetConfig("CFG2_ENABLES"), SetConfig("TO_PRDV_BAL_MSK"),
     SetConfig("TO_FUSE_RST_MSK"), SetConfig("TO_FAULTN_MSK"),
     SetConfig("DIAG_OV_OT_UT"), SetConfig("DIAG_UV"),
     SetConfig("DIAG_CURR") >>

SetUpConfig ==
  << SetConfig("CFG2_ENABLES"), SetConfig("TO_PRDV_BAL_MSK"),
     SetConfig("TO_FUSE_RST_MSK"), SetConfig("TO_FAULTN_MSK"),
     SetConfig("CURR_MSK"), SetConfig("DIAG_OV_OT_UT"),
     SetConfig("DIAG_UV"), SetConfig("DIAG_CURR") >>

SetUpIdentity ==
  << SetIdentity("MANUFACTURE_NAME_MSB", 4660),
     SetIdentity("MANUFACTURE_NAME_LSB", 22136),
     SetIdentity("MANUFACTURING_DATE", 8229),
     SetIdentity("FIRST_USAGE_DATE", 8229),
     SetIdentity("SERIAL_NUMBER_MSB", 43981),
     SetIdentity("SERIAL_NUMBER_LSB", 61185),
     SetIdentity("DEVICE_NAME_MSB", 4951),
     SetIdentity("DEVICE_NAME_LSB", 9320) >>

SetUpNumerical ==
  << SetNumber("CSA_GAIN_FACTOR", "default", "null"),
     SetNumber("VCELL_OV_TH", "max", "max"),
     SetNumber("VCELL_UV_TH", "min", "max"),
     SetNumber("VCELL_SEVERE_DELTA_THRS", "max", "min"),
     SetNumber("VCELL_BAL_UV_DELTA_TH", "min", "max"),
     SetNumber("VB_OV_TH", "max", "max"),
     SetNumber("VB_UV_TH", "min", "max"),
     SetNumber("VB_SUM_MAX_DIFF_TH", "max", "null"),
     SetNumber("VNTC_OT_TH", "max", "max"),
     SetNumber("VNTC_UT_TH", "min", "max"),
     SetNumber("VNTC_SEVERE_OT_DELTA_TH", "max", "null"),
     SetNumber("OVC_THRESHOLDS", "max", "max"),
     SetNumber("PERSISTENT_OVC_THRESHOLDS", "max", "null"),
     SetNumber("SC_THRESHOLD", "max", "max") >>

(* mutant: identities are left to the NVM.                                 *)
SetUpBMSNoIdentity == SetUpConfig \o SetUpNumerical

SetUpBMS == SetUpConfig \o SetUpIdentity \o SetUpNumerical

BootWithoutOn == SetUpBMS                 \* mutant: conversions stay off

(* The battery part of setup().                                            *)
Boot == Append(SetUpBMS, SetConversion("CONVERSION_ON"))

(* The register write a call comes to, Nothing when it refuses.            *)
WriteOf(c) ==
  CASE c.fn = "config"    -> ConfigWrite(c.command, c.arg1)
    [] c.fn = "identity"  -> IdentityWrite(c.command, c.arg1)
    [] c.fn = "nvm"       -> TableWrite(Nvm, c.command)
    [] c.fn = "realtime"  -> TableWrite(RealTime, c.command)
    [] c.fn = "numerical" -> NumericalWrite(c.command, c.arg1, c.arg2)
    [] c.fn = "conversion" ->
         IF c.command = "CONVERSION_ON" THEN Send(ConvReg, ConversionOnValue)
         ELSE IF c.command = "CONVERSION_OFF" THEN Send(ConvReg, 0)
         ELSE Nothing

Outcomes == IF failed < MaxFailed THEN {TRUE, FALSE} ELSE {TRUE}

(* Writing NVM_2_UL makes the chip load its NVM into its registers ...     *)
Loaded(r, data) ==
  [q \in BmsRegs |->
     IF q = r THEN data
     ELSE IF Send(r, data) = Nvm.NVM_2_UL /\ q \in NvmRegs THEN nvm[q]
     ELSE chip[q]]

(* ... and writing NVM_2_DL makes it commit its registers to the NVM.      *)
Stored(r, data) ==
  IF Send(r, data) = Nvm.NVM_2_DL THEN [q \in NvmRegs |-> chip[q]] ELSE nvm

(* writeBMSData: both bytes reach the register, or the transaction fails   *)
(* and "Failed to write data to BMS" is printed.                           *)
writeBMSData(r, data, ok) ==
  /\ chip' = IF ok THEN Loaded(r, data) ELSE chip
  /\ nvm' = IF ok THEN Stored(r, data) ELSE nvm
  /\ failed' = IF ok THEN failed ELSE failed + 1

-----------------------------------------------------------------------------
Booted == pos > Len(Boot)
Converting == chip[ConvReg] # 0

(* The identities as BMS_ReadCommands.cpp reads them back; thirty-two bits *)
(* are given by their halves, a register each.                             *)
readManufacturerName == << chip[23], chip[24] >>
readManufacturerDate == chip[25]
readFirstUsageDate   == chip[26]
readSerialNumber     == << chip[27], chip[28] >>
readDeviceName       == << chip[29], chip[30] >>

Init ==
  /\ pos = 1
  /\ phase = "idle"
  /\ cmd = Boot[1]
  /\ bmsConversionActive = 0
  /\ chip = PowerOn
  /\ nvm = NvmContents
  /\ failed = 0
  /\ warm = FALSE
  /\ resets = 0

(* The call that comes next: of setup(), while it lasts, or of later code. *)
Called(c) ==
  /\ phase = "idle"
  /\ IF Booted THEN c \in AppCalls ELSE c = Boot[pos]
  /\ cmd' = c
  /\ pos' = IF Booted THEN pos ELSE pos + 1
  /\ UNCHANGED <<warm, resets>>

(* Unknown commands, unusable values and zero identities return early; so  *)
(* does every numerical command.                                           *)
Refuse(c) ==
  /\ Called(c)
  /\ ~Sends(WriteOf(c))
  /\ UNCHANGED <<phase, bmsConversionActive, chip, nvm, failed>>

(* mutant: a command that writes its register never asks for the record.   *)
BeginUnchecked(c) ==
  /\ Called(c)
  /\ c.fn # "conversion"
  /\ Sends(WriteOf(c))
  /\ phase' = "write"
  /\ UNCHANGED <<bmsConversionActive, chip, nvm, failed>>

(* A command that will write its register looks at the record first.       *)
Begin(c) ==
  /\ Called(c)
  /\ c.fn # "conversion"
  /\ Sends(WriteOf(c))
  /\ phase' = IF bmsConversionActive = 1 THEN "off" ELSE "write"
  /\ UNCHANGED <<bmsConversionActive, chip, nvm, failed>>

(* mutant: conversions are stopped without noting it.                      *)
TurnOffUnrecorded(ok) ==
  /\ phase = "off"
  /\ writeBMSData(ConvReg, 0, ok)
  /\ phase' = "write"
  /\ UNCHANGED <<pos, cmd, bmsConversionActive, warm, resets>>

(* setBMSConversionState("CONVERSION_OFF") on behalf of a command.         *)
TurnOff(ok) ==
  /\ phase = "off"
  /\ writeBMSData(ConvReg, 0, ok)
  /\ bmsConversionActive' = 0
  /\ phase' = "write"
  /\ UNCHANGED <<pos, cmd, warm, resets>>

WriteRegister(ok) ==
  /\ phase = "write"
  /\ writeBMSData(WriteOf(cmd).reg, WriteOf(cmd).data, ok)
  /\ phase' = "idle"
  /\ UNCHANGED <<pos, cmd, bmsConversionActive, warm, resets>>

(* mutant: the record is only ever set.                                    *)
setBMSConversionStateSticky(c, ok) ==
  /\ Called(c)
  /\ c.fn = "conversion"
  /\ Sends(WriteOf(c))
  /\ writeBMSData(ConvReg, WriteOf(c).data, ok)
  /\ bmsConversionActive' = 1
  /\ UNCHANGED phase

(* setBMSConversionState, called as a command of its own.                  *)
setBMSConversionState(c, ok) ==
  /\ Called(c)
  /\ c.fn = "conversion"
  /\ Sends(WriteOf(c))
  /\ writeBMSData(ConvReg, WriteOf(c).data, ok)
  /\ bmsConversionActive' = IF c.command = "CONVERSION_ON" THEN 1 ELSE 0
  /\ UNCHANGED phase

(* The controller starts again; the chip keeps its registers or was        *)
(* switched off too, and its NVM keeps its contents either way.            *)
Restart ==
  /\ resets < MaxResets
  /\ resets' = resets + 1
  /\ pos' = 1
  /\ phase' = "idle"
  /\ cmd' = Boot[1]
  /\ bmsConversionActive' = 0
  /\ failed' = 0
  /\ \/ chip' = PowerOn /\ warm' = FALSE
     \/ WarmRestarts /\ UNCHANGED chip /\ warm' = TRUE
  /\ UNCHANGED nvm

Serve(c) ==
  \/ Refuse(c)
  \/ Begin(c)
  \/ \E ok \in Outcomes : setBMSConversionState(c, ok)

(* setup() and a command once begun go on by themselves.                   *)
Foreground ==
  \/ ~Booted /\ Serve(Boot[pos])
  \/ \E ok \in Outcomes : TurnOff(ok)
  \/ \E ok \in Outcomes : WriteRegister(ok)

Next ==
  \/ Foreground
  \/ Booted /\ \E c \in AppCalls : Serve(c)
  \/ Restart

Spec == Init /\ [][Next]_vars /\ WF_vars(Foreground)

-----------------------------------------------------------------------------
(* Constants' types: calls may come with any arguments; the chip powers up *)
(* stopped, and registers and NVM are first within the limits of the       *)
(* configuration registers.                                                *)
ASSUME AppCallsAssumption == AppCalls \subseteq BmsCalls
ASSUME PowerOnAssumption ==
  /\ PowerOn \in [BmsRegs -> Word]
  /\ PowerOn[ConvReg] = 0
  /\ \A c \in DOMAIN Config : PowerOn[Config[c].reg] <= Config[c].max
ASSUME NvmContentsAssumption ==
  /\ NvmContents \in [NvmRegs -> Word]
  /\ \A c \in DOMAIN Config : NvmContents[Config[c].reg] <= Config[c].max

-----------------------------------------------------------------------------
(* Properties.                                                             *)

(* Every value fits its type: the record is 0 or 1, and every register     *)
(* holds sixteen bits whatever arguments the calls had.                    *)
TypeOK ==
  /\ pos \in 1 .. Len(Boot) + 1
  /\ phase \in {"idle", "off", "write"}
  /\ cmd \in BmsCalls
  /\ bmsConversionActive \in {0, 1}
  /\ chip \in [BmsRegs -> Word]
  /\ nvm \in [NvmRegs -> Word]
  /\ failed \in 0 .. MaxFailed
  /\ warm \in BOOLEAN
  /\ resets \in 0 .. MaxResets

(* The record can be trusted: no write was reported as failed since the    *)
(* start, and a chip that was found powered has been through setup().      *)
Trusted == failed = 0 /\ (warm => Booted)

(* bmsConversionActive says whether the chip is converting ("1 = ON, 0 =   *)
(* OFF"): the command functions have nothing else to go by.                *)
FlagFollowsChip == Trusted => (bmsConversionActive = 1 <=> Converting)

(* No register write is made while the chip converts; that is what the     *)
(* command functions turn conversions off for.                             *)
WritesWhileStopped == Trusted /\ phase = "write" => ~Converting

(* The same of setup() after any restart: "this stops registers changing   *)
(* while been written".                                                    *)
SetupWritesWhileStopped == failed = 0 /\ phase = "write" => ~Converting

(* No configuration register, nor its copy in the NVM, ever holds more     *)
(* than the maximum the table of sendBMSConfigCommand gives it.            *)
WithinMax ==
  \A c \in DOMAIN Config :
    /\ chip[Config[c].reg] <= Config[c].max
    /\ nvm[Config[c].reg] <= Config[c].max

(* An identity once set is not zeroed by any command but the upload of an  *)
(* NVM that holds zero for it, and otherwise only by the loss of power:    *)
(* zero is kept free to tell a chip that was never programmed.             *)
IdentityNeverZeroed ==
  [][\A r \in IdentityRegs :
       chip[r] # 0 /\ chip'[r] = 0 =>
         \/ resets' # resets
         \/ phase = "write" /\ WriteOf(cmd) = Nvm.NVM_2_UL /\ nvm[r] = 0]_vars

(* An identity once in the NVM is never lost from it, unless a write was   *)
(* reported as failed since the start: a chip that has lost power holds    *)
(* zeros, and SetUpBMS has put identities in their place before any later  *)
(* call can commit them ("this could be used to check NVM is been used").  *)
StoredIdentityKept ==
  [][\A r \in IdentityRegs :
       nvm[r] # 0 /\ nvm'[r] = 0 => failed > 0]_vars

(* What SetUpBMS asks an identity to be.                                   *)
Asked(command) ==
  SetUpIdentity[CHOOSE i \in 1 .. Len(SetUpIdentity) :
                  SetUpIdentity[i].command = command].arg1.num

(* When setup() comes to turning conversions on, every configuration       *)
(* register holds its default, and every identity is read back as SetUpBMS *)
(* asked for it, halves in order, whatever earlier calls and restarts left *)
(* in the chip: SetUpBMS forgets none, and no failure goes unreported.     *)
SetupReconfigures ==
  phase = "idle" /\ pos = Len(Boot) /\ failed = 0 =>
    /\ \A c \in DOMAIN Config : chip[Config[c].reg] = Config[c].dflt
    /\ readManufacturerName =
         << Asked("MANUFACTURE_NAME_MSB"), Asked("MANUFACTURE_NAME_LSB") >>
    /\ readManufacturerDate = Asked("MANUFACTURING_DATE")
    /\ readFirstUsageDate = Asked("FIRST_USAGE_DATE")
    /\ readSerialNumber =
         << Asked("SERIAL_NUMBER_MSB"), Asked("SERIAL_NUMBER_LSB") >>
    /\ readDeviceName = << Asked("DEVICE_NAME_MSB"), Asked("DEVICE_NAME_LSB") >>

(* Every start of the controller ends with the chip converting, or with a  *)
(* failure reported.                                                       *)
ConversionStarts == ~Booted ~> Booted /\ (Converting \/ failed > 0)

(* The limits SetUpBMS asks for have been applied when it ends ("Applies   *)
(* all configuration and numerical commands").                             *)
NumericalApplied ==
  phase = "idle" /\ pos = Len(Boot) =>
    \A i \in 1 .. Len(SetUpBMS) :
      LET c == SetUpBMS[i]
      IN  c.fn = "numerical" =>
            chip[Numerical[c.command].reg] =
              NumericalPrepared(c.command, c.arg1, c.arg2).data
=============================================================================
