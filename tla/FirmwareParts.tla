---------------------------- MODULE FirmwareParts ----------------------------
(***************************************************************************)
(* The parts inside the program.  Every behaviour of Firmware is, for each *)
(* of its parts, a behaviour of that part alone, so what is proved of a    *)
(* part by itself holds of it in the program; and from the promises of the *)
(* parts follows that the load gets its power after everything else, and   *)
(* that the motors do what is typed.                                       *)
(*                                                                         *)
(* The theorems about a part come with its module of proofs, instantiated  *)
(* below with the program's variables and constants.  Such an instance has *)
(* operators of its own: the lemmas named Same... say that each is the one *)
(* that Firmware uses.                                                     *)
(***************************************************************************)
EXTENDS FirmwareProofs

(* The lines that can reach the motors: those typed, if none is longer     *)
(* than the buffer; what is left of a longer one may be any.               *)
Whole == \A l \in TypedLines : Input!LineLength(l) <= 31

Delivered ==
  IF Whole
    THEN {Input!LineOf(l) : l \in {t \in TypedLines : Input!MakesCall(t)}}
    ELSE Input!Line

TheMotors == INSTANCE MotorBusNominal WITH Lines <- Delivered
TheEncoders == INSTANCE SpiEncodersProofs WITH restarts <- resets
TheBattery == INSTANCE BmsCommandsProofs
             WITH phase <- bmsPhase, PowerOn <- BmsPowerOn, AppCalls <- {}

-----------------------------------------------------------------------------
(* The motors.                                                             *)

LEMMA SameMotorSets ==
  /\ TheMotors!Channels = Motors!Channels
  /\ TheMotors!Regs = Motors!Regs
  /\ TheMotors!Byte = Motors!Byte
  /\ TheMotors!Line = Input!Line
  /\ TheMotors!MuxAddr = Motors!MuxAddr
  /\ TheMotors!DefaultAddr = Motors!DefaultAddr
  BY DEF TheMotors!Channels, Motors!Channels, TheMotors!Regs, Motors!Regs,
         TheMotors!PSC0, TheMotors!PWM0, TheMotors!PSC1, TheMotors!PWM1,
         TheMotors!LS1, TheMotors!LS2, Motors!PSC0, Motors!PWM0,
         Motors!PSC1, Motors!PWM1, Motors!LS1, Motors!LS2,
         TheMotors!Byte, Motors!Byte, TheMotors!Line, Input!Line,
         TheMotors!Verbs, Input!Verbs, TheMotors!MuxAddr, Motors!MuxAddr,
         TheMotors!DefaultAddr, Motors!DefaultAddr

(* The call of a line that makes one is a line of the console.             *)
LEMMA LineServed ==
  ASSUME NEW ws \in Seq(Input!Words), Input!MakesCall(ws)
  PROVE  Input!LineOf(ws) \in Input!Line
  <1>1. /\ Len(ws) \in Nat /\ ws # << >>
        /\ ws[1].text \in Input!Verbs
    BY DEF Input!MakesCall, Input!IsCommand, Input!Verbs
  <1>2. ASSUME NEW i \in Int, 1 <= i
        PROVE  (IF Len(ws) > i THEN ws[i + 1].val ELSE 0) \in Int
    <2>1. CASE Len(ws) > i
      <3>1. ws[i + 1] \in Input!Words
        BY <1>1, <1>2, <2>1
      <3> QED
        BY <2>1, <3>1 DEF Input!Words
    <2>2. CASE ~(Len(ws) > i)
      BY <2>2
    <2> QED
      BY <2>1, <2>2
  <1> DEFINE num(i) == IF Len(ws) > i THEN ws[i + 1].val ELSE 0
  <1>3. num(1) \in Int /\ num(2) \in Int /\ num(3) \in Int /\ num(4) \in Int
    BY <1>2
  <1>4. Input!LineOf(ws) =
          [verb |-> ws[1].text, channel |-> num(1), addr |-> num(2),
           a |-> num(3), b |-> num(4)]
    BY Zenon DEF Input!LineOf
  <1> HIDE DEF num
  <1> QED
    BY <1>1, <1>3, <1>4 DEF Input!Line

(* A line in the buffer that makes a call is one of those delivered.       *)
LEMMA WholeFits ==
  ASSUME Input!TypeOK, Whole
  PROVE  Fits
  <1>1. CASE typed = << >>
    <2>1. typed \in Seq(Input!Words) /\ Len(typed) = 0
      BY <1>1
    <2>2. Input!LineLength(typed) = 0
      BY <2>1, NoWords DEF Input!LineLength
    <2> QED
      BY <2>2 DEF Fits
  <1>2. CASE typed # << >>
    BY <1>2 DEF Input!TypeOK, Whole, Fits
  <1> QED
    BY <1>1, <1>2

LEMMA BufferDelivered ==
  ASSUME Input!TypeOK, LineInv, Input!EndLine, Input!MakesCall(buffer)
  PROVE  Input!LineOf(buffer) \in Delivered
  <1>1. CASE ~Whole
    <2>1. buffer \in Seq(Input!Words)
      BY DEF Input!TypeOK
    <2> QED
      BY <1>1, <2>1, LineServed DEF Delivered
  <1>2. CASE Whole
    <2>1. buffer = typed
      BY <1>2, WholeFits, LineEnds
    <2>2. typed \in TypedLines
      BY <2>1 DEF Input!TypeOK, Input!MakesCall, Input!IsCommand
    <2> QED
      BY <1>2, <2>1, <2>2 DEF Delivered
  <1> QED
    BY <1>1, <1>2

LEMMA DeliveredLines == Delivered \subseteq Input!Line
  <1>1. ASSUME NEW l \in TypedLines, Input!MakesCall(l)
        PROVE  Input!LineOf(l) \in Input!Line
    <2>1. l \in Seq(Input!Words)
      BY TypedLinesAssumption, Zenon
    <2> QED
      BY <1>1, <2>1, LineServed
  <1> QED
    BY <1>1, Zenon DEF Delivered

LEMMA MotorConstants ==
  /\ Drivers \subseteq TheMotors!Channels
  /\ Delivered \subseteq TheMotors!Line
  /\ PowerOn \in [TheMotors!Regs -> TheMotors!Byte]
  /\ Lossy \in BOOLEAN
  /\ MaxResets \in Nat
  BY SameMotorSets, DeliveredLines, DriversAssumption, PowerOnAssumption,
     LossyAssumption, MaxResetsAssumption, Zenon

LEMMA SameWrites ==
  ASSUME NEW k PROVE TheMotors!Writes(k) = Motors!Writes(k)
  BY Zenon
     DEF TheMotors!Writes, TheMotors!variableMotionControl,
         TheMotors!motorDriverStop, TheMotors!defaultMotionControl,
         TheMotors!setMotionControl, TheMotors!motorDriverRegControl,
         TheMotors!motorDriverInit, TheMotors!SpeedBits,
         TheMotors!DirectionCode, TheMotors!Wr, TheMotors!StopCode,
         TheMotors!PSC0, TheMotors!PWM0, TheMotors!PSC1, TheMotors!PWM1,
         TheMotors!LS1, TheMotors!LS2,
         Motors!Writes, Motors!variableMotionControl,
         Motors!motorDriverStop, Motors!defaultMotionControl,
         Motors!setMotionControl, Motors!motorDriverRegControl,
         Motors!motorDriverInit, Motors!SpeedBits, Motors!DirectionCode,
         Motors!Wr, Motors!StopCode, Motors!PSC0, Motors!PWM0,
         Motors!PSC1, Motors!PWM1, Motors!LS1, Motors!LS2

LEMMA SameCallOf ==
  ASSUME NEW l PROVE TheMotors!CallOf(l) = Motors!CallOf(l)
  BY Zenon
     DEF TheMotors!CallOf, TheMotors!Call, TheMotors!U8, TheMotors!Flag,
         TheMotors!DefaultAddr, Motors!CallOf, Motors!Call, Motors!U8,
         Motors!Flag, Motors!DefaultAddr

LEMMA SameInitCall ==
  ASSUME NEW c PROVE TheMotors!InitCall(c) = Motors!InitCall(c)
  BY Zenon
     DEF TheMotors!InitCall, TheMotors!Call, TheMotors!U8,
         TheMotors!DefaultAddr, Motors!InitCall, Motors!Call, Motors!U8,
         Motors!DefaultAddr

LEMMA SameReads ==
  ASSUME NEW k PROVE TheMotors!Reads(k) <=> Motors!Reads(k)
  BY DEF TheMotors!Reads, Motors!Reads

(* The transactions of the bus.                                            *)
LEMMA SameBytes ==
  /\ \A b : TheMotors!Bits(b) = Motors!Bits(b)
  /\ \A c : TheMotors!ControlByte(c) = Motors!ControlByte(c)
  /\ \A a : TheMotors!OnWire(a) = Motors!OnWire(a)
  BY SameMotorSets, Zenon
     DEF TheMotors!Bits, Motors!Bits, TheMotors!ControlByte,
         Motors!ControlByte, TheMotors!OnWire, Motors!OnWire

LEMMA SameTransfers ==
  ASSUME NEW ok
  PROVE  /\ \A b : Motors!I2C_WR1(b, ok) => TheMotors!I2C_WR1(b, ok)
         /\ \A a, w : Motors!I2C_WR2(a, w, ok) => TheMotors!I2C_WR2(a, w, ok)
         /\ \A a : TheMotors!Answers(a, ok) <=> Motors!Answers(a, ok)
  BY SameMotorSets, SameBytes, Zenon
     DEF Motors!I2C_WR1, TheMotors!I2C_WR1, Motors!I2C_WR2,
         TheMotors!I2C_WR2, Motors!Answers, TheMotors!Answers

LEMMA SameMotorForeground == Motors!Foreground => TheMotors!Foreground
  <1>1. ASSUME NEW ok, Motors!I2C_DisableAllChannels(ok)
        PROVE  TheMotors!I2C_DisableAllChannels(ok)
    BY <1>1, SameTransfers, Zenon
       DEF Motors!I2C_DisableAllChannels, TheMotors!I2C_DisableAllChannels
  <1>2. Motors!SelectInvalid => TheMotors!SelectInvalid
    BY Zenon DEF Motors!SelectInvalid, TheMotors!SelectInvalid
  <1>3. Motors!SelectCached => TheMotors!SelectCached
    BY Zenon DEF Motors!SelectCached, TheMotors!SelectCached
  <1>4. ASSUME NEW ok, Motors!SelectNew(ok)
        PROVE  TheMotors!SelectNew(ok)
    BY <1>4, SameTransfers, SameBytes, Zenon
       DEF Motors!SelectNew, TheMotors!SelectNew
  <1>5. ASSUME NEW ok, Motors!WriteReg(ok)
        PROVE  TheMotors!WriteReg(ok)
    BY <1>5, SameTransfers, SameWrites, Zenon
       DEF Motors!WriteReg, TheMotors!WriteReg
  <1>6. ASSUME NEW ok, Motors!ReadReg(ok)
        PROVE  TheMotors!ReadReg(ok)
    BY <1>6, SameTransfers, SameReads, Zenon
       DEF Motors!ReadReg, TheMotors!ReadReg
  <1>7. Motors!NextInit => TheMotors!NextInit
    BY SameWrites, SameInitCall, Zenon
       DEF Motors!NextInit, TheMotors!NextInit
  <1>8. Motors!Return => TheMotors!Return
    BY SameWrites, SameReads, Zenon DEF Motors!Return, TheMotors!Return
  <1> QED
    BY <1>1, <1>2, <1>3, <1>4, <1>5, <1>6, <1>7, <1>8, Zenon
       DEF Motors!Foreground, TheMotors!Foreground, Motors!Outcomes,
           TheMotors!Outcomes

LEMMA SameDispatch ==
  ASSUME NEW l, Motors!Dispatch(l) PROVE TheMotors!Dispatch(l)
  BY SameCallOf, Zenon DEF Motors!Dispatch, TheMotors!Dispatch

LEMMA SameSpin == Motors!Spin => TheMotors!Spin
  BY Zenon DEF Motors!Spin, TheMotors!Spin, Motors!vars, TheMotors!vars

LEMMA SameMotorRestart == Motors!Restart => TheMotors!Restart
  BY SameInitCall, Zenon DEF Motors!Restart, TheMotors!Restart

LEMMA SameMotorInit == Motors!Init => TheMotors!Init
  BY SameInitCall, Zenon DEF Motors!Init, TheMotors!Init

-----------------------------------------------------------------------------
(* The encoders.                                                           *)

LEMMA SameEncoderSets ==
  /\ TheEncoders!Channels = Encoders!Channels
  /\ TheEncoders!EncFns = Encoders!EncFns
  /\ TheEncoders!FullTurns = Encoders!FullTurns
  /\ TheEncoders!Angles = Encoders!Angles
  /\ TheEncoders!UINT16_MAX = Encoders!UINT16_MAX
  BY DEF TheEncoders!Channels, Encoders!Channels, TheEncoders!EncFns,
         Encoders!EncFns, TheEncoders!FullTurns, Encoders!FullTurns,
         TheEncoders!UINT16_MAX, Encoders!UINT16_MAX, TheEncoders!Angles,
         Encoders!Angles

LEMMA EncoderConstants ==
  /\ FullTurn \in TheEncoders!FullTurns
  /\ Fitted \subseteq TheEncoders!Channels
  /\ NoAnswer \in TheEncoders!SpiWords
  /\ \A k \in EncCalls :
       /\ k \in [fn : TheEncoders!EncFns, channel : 0 .. 255]
       /\ k.channel > 15 => k.fn = "readTurns"
  /\ MaxResets \in Nat
  BY SameEncoderSets, FullTurnAssumption, FittedAssumption,
     NoAnswerAssumption, EncCallsAssumption, MaxResetsAssumption, Zenon
     DEF TheEncoders!SpiWords, Encoders!SpiWords

LEMMA SameEncCall ==
  ASSUME NEW f, NEW c
  PROVE  TheEncoders!EncCall(f, c) = Encoders!EncCall(f, c)
  BY DEF TheEncoders!EncCall, Encoders!EncCall

LEMMA SameBegin ==
  ASSUME NEW k, Encoders!Begin(k) PROVE TheEncoders!Begin(k)
  BY SameEncCall, Zenon
     DEF Encoders!Begin, TheEncoders!Begin, Encoders!shafts,
         TheEncoders!shafts

LEMMA SameSelect ==
  /\ Encoders!SPI_CS_MUX => TheEncoders!SPI_CS_MUX
  /\ Encoders!Strobe => TheEncoders!Strobe
  /\ Encoders!Enable => TheEncoders!Enable
  /\ Encoders!DEACTIVATE_MUX => TheEncoders!DEACTIVATE_MUX
  BY Zenon
     DEF Encoders!SPI_CS_MUX, TheEncoders!SPI_CS_MUX, Encoders!Strobe,
         TheEncoders!Strobe, Encoders!Enable, TheEncoders!Enable,
         Encoders!DEACTIVATE_MUX, TheEncoders!DEACTIVATE_MUX,
         Encoders!shafts, TheEncoders!shafts

LEMMA SameReset ==
  /\ Encoders!WaitForReboot => TheEncoders!WaitForReboot
  /\ Encoders!Finish => TheEncoders!Finish
  BY Zenon
     DEF Encoders!WaitForReboot, TheEncoders!WaitForReboot,
         Encoders!Finish, TheEncoders!Finish,
         Encoders!shafts, TheEncoders!shafts

LEMMA SameExchange ==
  ASSUME NEW check, NEW low, Encoders!Exchange(check, low)
  PROVE  TheEncoders!Exchange(check, low)
  BY DEF Encoders!Exchange, TheEncoders!Exchange, Encoders!Answer,
         TheEncoders!Answer, Encoders!SelectedAnswers,
         TheEncoders!SelectedAnswers, Encoders!ReadWord,
         TheEncoders!ReadWord, Encoders!ZeroRead, TheEncoders!ZeroRead

LEMMA SameRotate ==
  ASSUME NEW c, Encoders!Rotate(c) PROVE TheEncoders!Rotate(c)
  BY Zenon
     DEF Encoders!Rotate, TheEncoders!Rotate, Encoders!Around,
         TheEncoders!Around

LEMMA SameEncoderRestart == Encoders!Restart => TheEncoders!Restart
  BY SameEncoderSets, SameEncCall, Zenon
     DEF Encoders!Restart, TheEncoders!Restart

LEMMA SameEncoderInit == Encoders!Init => TheEncoders!Init
  BY SameEncoderSets, SameEncCall, Zenon DEF Encoders!Init, TheEncoders!Init

LEMMA SameEncoderForeground == Encoders!Foreground => TheEncoders!Foreground
  BY SameBegin, SameSelect, SameReset, SameExchange, SameEncCall, Zenon
     DEF Encoders!Foreground, TheEncoders!Foreground

LEMMA EncoderNext ==
  ASSUME [Encoders!Next]_(Encoders!vars)
  PROVE  [TheEncoders!Next]_(TheEncoders!vars)
  <1>1. Encoders!vars' = Encoders!vars => TheEncoders!vars' = TheEncoders!vars
    BY Zenon
       DEF Encoders!vars, TheEncoders!vars, Encoders!shafts,
           TheEncoders!shafts
  <1>2. Encoders!Next => TheEncoders!Next
    BY SameEncoderForeground, SameBegin, SameRotate, SameEncoderRestart, Zenon
       DEF Encoders!Next, TheEncoders!Next
  <1> QED
    BY <1>1, <1>2

-----------------------------------------------------------------------------
(* The battery monitor.                                                    *)

LEMMA SameTables ==
  /\ TheBattery!Config = Battery!Config
  /\ TheBattery!Identity = Battery!Identity
  /\ TheBattery!Nvm = Battery!Nvm
  /\ TheBattery!RealTime = Battery!RealTime
  BY DEF TheBattery!Config, Battery!Config, TheBattery!Identity,
         Battery!Identity, TheBattery!Nvm, Battery!Nvm, TheBattery!RealTime,
         Battery!RealTime, TheBattery!Send, Battery!Send

LEMMA SameNumerical == TheBattery!Numerical = Battery!Numerical
  BY DEF TheBattery!Numerical, Battery!Numerical, TheBattery!Layout,
         Battery!Layout, TheBattery!Field, Battery!Field, TheBattery!NoField,
         Battery!NoField, TheBattery!Count, Battery!Count, TheBattery!Cell,
         Battery!Cell, TheBattery!Block, Battery!Block, TheBattery!Amps,
         Battery!Amps, TheBattery!Short, Battery!Short, TheBattery!Imax,
         Battery!Imax

LEMMA SameCodes ==
  /\ TheBattery!Nothing = Battery!Nothing
  /\ TheBattery!ConvReg = Battery!ConvReg
  /\ TheBattery!ConversionOnValue = Battery!ConversionOnValue
  /\ TheBattery!UINT16_MAX = Battery!UINT16_MAX
  /\ \A r, v : TheBattery!Send(r, v) = Battery!Send(r, v)
  /\ \A v : TheBattery!U16(v) = Battery!U16(v)
  BY DEF TheBattery!Nothing, Battery!Nothing, TheBattery!ConvReg,
         Battery!ConvReg, TheBattery!ConversionOnValue,
         Battery!ConversionOnValue, TheBattery!UINT16_MAX,
         Battery!UINT16_MAX, TheBattery!U16, Battery!U16, TheBattery!Send,
         Battery!Send

LEMMA SameRegs ==
  /\ TheBattery!BmsRegs = Battery!BmsRegs
  /\ TheBattery!NvmRegs = Battery!NvmRegs
  /\ TheBattery!Word = Battery!Word
  <1>1. TheBattery!ConfigRegs = Battery!ConfigRegs
    BY SameTables, Zenon DEF TheBattery!ConfigRegs, Battery!ConfigRegs
  <1>2. TheBattery!IdentityRegs = Battery!IdentityRegs
    BY SameTables, Zenon DEF TheBattery!IdentityRegs, Battery!IdentityRegs
  <1>3. TheBattery!NumericalRegs = Battery!NumericalRegs
    BY SameNumerical, Zenon
       DEF TheBattery!NumericalRegs, Battery!NumericalRegs
  <1>4. TheBattery!RealTimeRegs = Battery!RealTimeRegs
    BY SameTables, Zenon DEF TheBattery!RealTimeRegs, Battery!RealTimeRegs
  <1> QED
    BY <1>1, <1>2, <1>3, <1>4, SameCodes, Zenon
       DEF TheBattery!BmsRegs, Battery!BmsRegs, TheBattery!NvmRegs,
           Battery!NvmRegs, TheBattery!Word, Battery!Word

LEMMA SameWriteOf ==
  ASSUME NEW c PROVE TheBattery!WriteOf(c) = Battery!WriteOf(c)
  <1>1. \A e, v : TheBattery!ConfigData(e, v) = Battery!ConfigData(e, v)
    BY SameCodes, Zenon
       DEF TheBattery!ConfigData, Battery!ConfigData, TheBattery!AtMost,
           Battery!AtMost
  <1>2. TheBattery!ConfigWrite(c.command, c.arg1) =
          Battery!ConfigWrite(c.command, c.arg1)
    BY <1>1, SameTables, SameCodes, Zenon
       DEF TheBattery!ConfigWrite, Battery!ConfigWrite
  <1>3. TheBattery!IdentityWrite(c.command, c.arg1) =
          Battery!IdentityWrite(c.command, c.arg1)
    BY SameTables, SameCodes, Zenon
       DEF TheBattery!IdentityWrite, Battery!IdentityWrite
  <1>4. /\ TheBattery!TableWrite(TheBattery!Nvm, c.command) =
             Battery!TableWrite(Battery!Nvm, c.command)
        /\ TheBattery!TableWrite(TheBattery!RealTime, c.command) =
             Battery!TableWrite(Battery!RealTime, c.command)
    BY SameTables, SameCodes, Zenon
       DEF TheBattery!TableWrite, Battery!TableWrite
  <1>5. TheBattery!NumericalWrite(c.command, c.arg1, c.arg2) =
          Battery!NumericalWrite(c.command, c.arg1, c.arg2)
    BY SameCodes, Zenon DEF TheBattery!NumericalWrite, Battery!NumericalWrite
  <1> QED
    BY <1>2, <1>3, <1>4, <1>5, SameCodes
       DEF TheBattery!WriteOf, Battery!WriteOf

LEMMA SameCalls ==
  /\ \A c : TheBattery!SetConfig(c) = Battery!SetConfig(c)
  /\ \A c, v : TheBattery!SetIdentity(c, v) = Battery!SetIdentity(c, v)
  /\ \A c, k1, k2 : TheBattery!SetNumber(c, k1, k2) =
                       Battery!SetNumber(c, k1, k2)
  /\ \A c : TheBattery!SetConversion(c) = Battery!SetConversion(c)
  BY Zenon
     DEF TheBattery!SetConfig, Battery!SetConfig, TheBattery!SetIdentity,
         Battery!SetIdentity, TheBattery!SetNumber, Battery!SetNumber,
         TheBattery!SetConversion, Battery!SetConversion, TheBattery!Call,
         Battery!Call, TheBattery!Arg, Battery!Arg, TheBattery!NoArg,
         Battery!NoArg

LEMMA SameBoot == TheBattery!Boot = Battery!Boot
  <1>1. TheBattery!SetUpConfig = Battery!SetUpConfig
    BY SameCalls, SMT DEF TheBattery!SetUpConfig, Battery!SetUpConfig
  <1>2. TheBattery!SetUpIdentity = Battery!SetUpIdentity
    BY SameCalls, SMT DEF TheBattery!SetUpIdentity, Battery!SetUpIdentity
  <1>3. TheBattery!SetUpNumerical = Battery!SetUpNumerical
    BY SameCalls, SMT DEF TheBattery!SetUpNumerical, Battery!SetUpNumerical
  <1> QED
    BY <1>1, <1>2, <1>3, SameCalls, Zenon
       DEF TheBattery!Boot, Battery!Boot, TheBattery!SetUpBMS,
           Battery!SetUpBMS

LEMMA SameBooted == TheBattery!Booted <=> Battery!Booted
  BY SameBoot, Zenon DEF TheBattery!Booted, Battery!Booted

LEMMA SameCalled ==
  ASSUME NEW c, Battery!Called(c) PROVE TheBattery!Called(c)
  BY SameBoot, SameBooted, Zenon DEF TheBattery!Called, Battery!Called

LEMMA SameSends == ASSUME NEW w PROVE TheBattery!Sends(w) <=> Battery!Sends(w)
  BY SameCodes, Zenon DEF TheBattery!Sends, Battery!Sends

LEMMA SameWriteData ==
  ASSUME NEW r, NEW v, NEW ok, Battery!writeBMSData(r, v, ok)
  PROVE  TheBattery!writeBMSData(r, v, ok)
  <1>1. TheBattery!Loaded(r, v) = Battery!Loaded(r, v)
    BY SameTables, SameCodes, SameRegs, SMT
       DEF TheBattery!Loaded, Battery!Loaded
  <1>2. TheBattery!Stored(r, v) = Battery!Stored(r, v)
    BY SameTables, SameCodes, SameRegs, SMT
       DEF TheBattery!Stored, Battery!Stored
  <1> QED
    BY <1>1, <1>2, Zenon DEF TheBattery!writeBMSData, Battery!writeBMSData

LEMMA SameServe ==
  ASSUME NEW c, Battery!Serve(c) PROVE TheBattery!Serve(c)
  <1>1. CASE Battery!Refuse(c)
    BY <1>1, SameCalled, SameSends, SameWriteOf, Zenon
       DEF TheBattery!Serve, Battery!Refuse, TheBattery!Refuse
  <1>2. CASE Battery!Begin(c)
    BY <1>2, SameCalled, SameSends, SameWriteOf, Zenon
       DEF TheBattery!Serve, Battery!Begin, TheBattery!Begin
  <1>3. CASE \E ok \in Battery!Outcomes : Battery!setBMSConversionState(c, ok)
    BY <1>3, SameCalled, SameSends, SameWriteOf, SameCodes, SameWriteData,
       Zenon
       DEF TheBattery!Serve, Battery!setBMSConversionState,
           TheBattery!setBMSConversionState, Battery!Outcomes,
           TheBattery!Outcomes
  <1> QED
    BY <1>1, <1>2, <1>3, Zenon DEF Battery!Serve

LEMMA SameBatteryForeground == Battery!Foreground => TheBattery!Foreground
  <1>1. ASSUME NEW ok, Battery!TurnOff(ok) PROVE TheBattery!TurnOff(ok)
    BY <1>1, SameCodes, SameWriteData, Zenon
       DEF TheBattery!TurnOff, Battery!TurnOff
  <1>2. ASSUME NEW ok, Battery!WriteRegister(ok)
        PROVE  TheBattery!WriteRegister(ok)
    BY <1>2, SameWriteOf, SameWriteData, Zenon
       DEF TheBattery!WriteRegister, Battery!WriteRegister
  <1> QED
    BY <1>1, <1>2, SameServe, SameBoot, SameBooted, Zenon
       DEF TheBattery!Foreground, Battery!Foreground, TheBattery!Outcomes,
           Battery!Outcomes

LEMMA SameBatteryRestart == Battery!Restart => TheBattery!Restart
  BY SameBoot, Zenon DEF Battery!Restart, TheBattery!Restart

LEMMA SameBatteryInit == Battery!Init => TheBattery!Init
  BY SameBoot, Zenon DEF Battery!Init, TheBattery!Init

LEMMA BatteryConstants ==
  /\ {} \subseteq TheBattery!BmsCalls
  /\ BmsPowerOn \in [TheBattery!BmsRegs -> TheBattery!Word]
  /\ BmsPowerOn[TheBattery!ConvReg] = 0
  /\ \A c \in DOMAIN TheBattery!Config :
       BmsPowerOn[TheBattery!Config[c].reg] <= TheBattery!Config[c].max
  /\ NvmContents \in [TheBattery!NvmRegs -> TheBattery!Word]
  /\ \A c \in DOMAIN TheBattery!Config :
       NvmContents[TheBattery!Config[c].reg] <= TheBattery!Config[c].max
  /\ MaxFailed \in Nat
  /\ WarmRestarts \in BOOLEAN
  /\ MaxResets \in Nat
  BY BmsPowerOnAssumption, NvmContentsAssumption, SameRegs, SameTables,
     SameCodes, MaxFailedAssumption, WarmRestartsAssumption,
     MaxResetsAssumption, Zenon

-----------------------------------------------------------------------------
(* A step of the program is a step of each part, or leaves it alone.       *)

(* A step of one part is no restart of another.                            *)
LEMMA KeepsResets ==
  /\ Motors!Foreground \/ Motors!Spin => resets' = resets
  /\ \A l : Motors!Dispatch(l) => resets' = resets
  /\ Encoders!Foreground => resets' = resets
  /\ \A k : Encoders!Begin(k) => resets' = resets
  /\ \A c : Encoders!Rotate(c) => resets' = resets
  /\ Battery!Foreground => resets' = resets
  <1>1. Motors!Foreground \/ Motors!Spin => resets' = resets
    BY Zenon
       DEF Motors!Foreground, Motors!I2C_DisableAllChannels,
           Motors!SelectInvalid, Motors!SelectCached, Motors!SelectNew,
           Motors!WriteReg, Motors!ReadReg, Motors!NextInit, Motors!Return,
           Motors!Spin, Motors!vars
  <1>2. \A l : Motors!Dispatch(l) => resets' = resets
    BY Zenon DEF Motors!Dispatch
  <1>3. /\ Encoders!Foreground => resets' = resets
        /\ \A k : Encoders!Begin(k) => resets' = resets
        /\ \A c : Encoders!Rotate(c) => resets' = resets
    BY Zenon
       DEF Encoders!Foreground, Encoders!Begin, Encoders!SPI_CS_MUX,
           Encoders!Strobe, Encoders!Enable, Encoders!Exchange,
           Encoders!DEACTIVATE_MUX, Encoders!WaitForReboot,
           Encoders!Finish, Encoders!Rotate, Encoders!shafts
  <1>4. Battery!Foreground => resets' = resets
    BY Zenon
       DEF Battery!Foreground, Battery!Serve, Battery!Refuse,
           Battery!Begin, Battery!setBMSConversionState, Battery!TurnOff,
           Battery!WriteRegister, Battery!Called
  <1> QED
    BY <1>1, <1>2, <1>3, <1>4

(* A step of the motors, with the lines that reach them.                   *)
MotorStep ==
  \/ Motors!Foreground \/ Motors!Spin \/ Motors!Restart
  \/ \E l \in Delivered : Motors!Dispatch(l)
  \/ UNCHANGED <<motorVars, resets>>

LEMMA MotorSteps ==
  ASSUME Input!TypeOK, LineInv, [Next]_vars
  PROVE  MotorStep
  <1>1. CASE MotorSetup
    BY <1>1, Zenon DEF MotorSetup, MotorStep
  <1>2. CASE ServeMotors
    BY <1>2, Zenon DEF ServeMotors, MotorStep
  <1>3. CASE ServeLine /\ Input!MakesCall(buffer)
    <2>1. Input!EndLine /\ Motors!Dispatch(Input!LineOf(buffer))
      BY <1>3, Zenon DEF ServeLine
    <2>2. Input!LineOf(buffer) \in Delivered
      BY <1>3, <2>1, BufferDelivered
    <2> QED
      BY <2>1, <2>2, Zenon DEF MotorStep
  <1>4. CASE Restart
    BY <1>4, Zenon DEF Restart, MotorStep
  <1>5. CASE UNCHANGED <<motorVars, resets>>
    BY <1>5, Zenon DEF MotorStep
  <1>6. HostOpens \/ ReadInput \/ CallPower \/ ServePower \/ OperatorTypes
            \/ LoadDrains \/ PrechargeSetup
         => UNCHANGED <<motorVars, resets>>
    BY Zenon DEF HostOpens, ReadInput, CallPower, ServePower, OperatorTypes,
           LoadDrains, PrechargeSetup
  <1>7. EncoderSetup \/ BatterySetup \/ CallEncoders \/ ServeEncoders
            \/ ShaftTurns
         => UNCHANGED <<motorVars, resets>>
    BY KeepsResets, Zenon
       DEF EncoderSetup, BatterySetup, CallEncoders, ServeEncoders,
           ShaftTurns
  <1>8. ServeLine /\ ~Input!MakesCall(buffer)
         => UNCHANGED <<motorVars, resets>>
    BY Zenon DEF ServeLine
  <1>9. UNCHANGED vars => UNCHANGED <<motorVars, resets>>
    BY Zenon DEF vars
  <1> QED
    BY <1>1, <1>2, <1>3, <1>4, <1>5, <1>6, <1>7, <1>8, <1>9, Zenon
       DEF Next, Setup

LEMMA MotorRuns ==
  ASSUME MotorStep
  PROVE  [Motors!Next]_(Motors!vars)
  BY DeliveredLines, Zenon DEF MotorStep, Motors!Next, Motors!vars, motorVars

LEMMA MotorNext ==
  ASSUME MotorStep
  PROVE  [TheMotors!Next]_(TheMotors!vars)
  <1>1. UNCHANGED <<motorVars, resets>> => UNCHANGED TheMotors!vars
    BY Zenon DEF motorVars, TheMotors!vars
  <1> QED
    BY <1>1, SameMotorForeground, SameSpin, SameDispatch, SameMotorRestart,
       Zenon
       DEF MotorStep, TheMotors!Next

LEMMA EncoderSteps ==
  ASSUME boot = 16 \/ stage # "loop", [Next]_vars
  PROVE  [Encoders!Next]_(Encoders!vars)
  <1>1. CASE EncoderSetup \/ ServeEncoders
    BY <1>1, Zenon DEF EncoderSetup, ServeEncoders, Encoders!Next
  <1>2. CASE CallEncoders
    BY <1>2, Zenon DEF CallEncoders, AtPrompt, Encoders!Next
  <1>3. CASE ShaftTurns
    BY <1>3, Zenon DEF ShaftTurns, Encoders!Next
  <1>4. CASE Restart
    BY <1>4, Zenon DEF Restart, Encoders!Next
  <1>5. CASE UNCHANGED <<encoderVars, resets>>
    BY <1>5, Zenon DEF encoderVars, Encoders!vars, Encoders!shafts
  <1>6. HostOpens \/ ReadInput \/ CallPower \/ ServePower \/ OperatorTypes
            \/ LoadDrains \/ PrechargeSetup
         => UNCHANGED <<encoderVars, resets>>
    BY Zenon DEF HostOpens, ReadInput, CallPower, ServePower, OperatorTypes,
           LoadDrains, PrechargeSetup
  <1>7. MotorSetup \/ BatterySetup \/ ServeMotors \/ ServeLine
         => UNCHANGED <<encoderVars, resets>>
    BY KeepsResets, Zenon
       DEF MotorSetup, BatterySetup, ServeMotors, ServeLine
  <1>8. UNCHANGED vars => UNCHANGED <<encoderVars, resets>>
    BY Zenon DEF vars
  <1> QED
    BY <1>1, <1>2, <1>3, <1>4, <1>5, <1>6, <1>7, <1>8, Zenon
       DEF Next, Setup

LEMMA BatterySteps ==
  ASSUME [Next]_vars
  PROVE  [Battery!Next]_(Battery!vars)
  <1>1. CASE BatterySetup
    BY <1>1, Zenon DEF BatterySetup, Battery!Next
  <1>2. CASE Restart
    BY <1>2, Zenon DEF Restart, Battery!Next
  <1>3. CASE UNCHANGED <<batteryVars, resets>>
    BY <1>3, Zenon DEF batteryVars, Battery!vars
  <1>4. HostOpens \/ ReadInput \/ CallPower \/ ServePower \/ OperatorTypes
            \/ LoadDrains \/ PrechargeSetup
         => UNCHANGED <<batteryVars, resets>>
    BY Zenon DEF HostOpens, ReadInput, CallPower, ServePower, OperatorTypes,
           LoadDrains, PrechargeSetup
  <1>5. MotorSetup \/ EncoderSetup \/ ServeMotors \/ ServeLine
            \/ CallEncoders \/ ServeEncoders \/ ShaftTurns
         => UNCHANGED <<batteryVars, resets>>
    BY KeepsResets, Zenon
       DEF MotorSetup, EncoderSetup, ServeMotors, ServeLine, CallEncoders,
           ServeEncoders, ShaftTurns
  <1>6. UNCHANGED vars => UNCHANGED <<batteryVars, resets>>
    BY Zenon DEF vars
  <1> QED
    BY <1>1, <1>2, <1>3, <1>4, <1>5, <1>6, Zenon DEF Next, Setup

-----------------------------------------------------------------------------
(* What the operator has to keep to, and the bus, for the motors to do     *)
(* what is typed: lines that fit inputBuffer and name a channel of the     *)
(* multiplexer and the address of the drivers, and nothing lost.           *)
Obedient ==
  /\ ~Lossy /\ Whole
  /\ \A l \in TypedLines :
       Input!MakesCall(l) =>
         LET k == Motors!CallOf(Input!LineOf(l))
         IN  /\ Motors!OnWire(k.addr) = Motors!DefaultAddr
             /\ k.asked \in Motors!Channels

(* The invariants of the parts.  That a completed setup() has put the board *)
(* into a known state needs that nothing is lost on the bus.               *)
MotorInv ==
  /\ TheMotors!TypeOK /\ TheMotors!NeverBothDirections
  /\ ~Lossy => TheMotors!SetupInv
  /\ Obedient => TheMotors!NominalInv /\ TheMotors!JobEffect

BatteryInv ==
  /\ TheBattery!Data /\ TheBattery!Pending /\ TheBattery!Looked
  /\ TheBattery!FlagFollowsChip /\ TheBattery!Started
  /\ TheBattery!WithinMax /\ TheBattery!SettingsKept

LEMMA BatteryNext ==
  ASSUME [Battery!Next]_(Battery!vars)
  PROVE  [TheBattery!Next]_(TheBattery!vars)
  <1>1. UNCHANGED Battery!vars => UNCHANGED TheBattery!vars
    BY Zenon DEF Battery!vars, TheBattery!vars
  <1>2. Battery!Next => TheBattery!Next
    BY SameBatteryForeground, SameBatteryRestart, Zenon
       DEF Battery!Next, TheBattery!Next
  <1> QED
    BY <1>1, <1>2

LEMMA ObedientIsNominal == Obedient => TheMotors!Nominal
  <1> SUFFICES ASSUME Obedient, NEW l \in Delivered
               PROVE  LET k == TheMotors!CallOf(l)
                      IN  /\ TheMotors!OnWire(k.addr) = TheMotors!DefaultAddr
                          /\ k.asked \in TheMotors!Channels
    BY DEF TheMotors!Nominal, Obedient
  <1>1. PICK t \in TypedLines : Input!MakesCall(t) /\ l = Input!LineOf(t)
    BY DEF Obedient, Delivered
  <1> QED
    BY <1>1, SameCallOf, SameMotorSets, SameBytes, Zenon DEF Obedient

LEMMA MotorInvInit == Motors!Init => MotorInv
  <1>1. TheMotors!Init => TheMotors!TypeOK
    BY TheMotors!TypeInit, MotorConstants, Zenon
  <1>2. TheMotors!Init => TheMotors!NeverBothDirections
    BY TheMotors!NeverBothInit, MotorConstants, Zenon
  <1>3. TheMotors!Init => TheMotors!SetupInv
    BY TheMotors!SetupInit, MotorConstants, Zenon
  <1>4. TheMotors!Init => TheMotors!NominalInv /\ TheMotors!JobEffect
    BY TheMotors!NominalInit, TheMotors!JobEffectInit, MotorConstants, Zenon
  <1> QED
    BY <1>1, <1>2, <1>3, <1>4, SameMotorInit, Zenon DEF MotorInv

LEMMA MotorInvStep ==
  ASSUME MotorInv, MotorStep
  PROVE  MotorInv'
  <1>1. [TheMotors!Next]_(TheMotors!vars)
    BY MotorNext
  <1>2. TheMotors!TypeOK'
    BY <1>1, TheMotors!TypeStep, MotorConstants, Zenon DEF MotorInv
  <1>3. TheMotors!NeverBothDirections'
    BY <1>1, TheMotors!NeverBothStep, MotorConstants, Zenon DEF MotorInv
  <1>4. ~Lossy => TheMotors!SetupInv'
    BY <1>1, TheMotors!SetupStep, MotorConstants, Zenon DEF MotorInv
  <1>5. Obedient => TheMotors!NominalInv'
    BY <1>1, ObedientIsNominal, TheMotors!NominalStep, MotorConstants, Zenon
       DEF MotorInv
  <1>6. Obedient => TheMotors!JobEffect'
    BY <1>1, ObedientIsNominal, TheMotors!JobEffectStep, MotorConstants,
       Zenon
       DEF MotorInv
  <1> QED
    BY <1>2, <1>3, <1>4, <1>5, <1>6 DEF MotorInv

LEMMA BatteryInvInit == Battery!Init => BatteryInv
  <1>1. TheBattery!Init =>
          TheBattery!Data /\ TheBattery!Pending /\ TheBattery!Looked
    BY TheBattery!DataInit, BatteryConstants, Zenon
  <1>2. TheBattery!Init => TheBattery!FlagFollowsChip
    BY TheBattery!FlagInit, BatteryConstants, Zenon
  <1>3. TheBattery!Init => TheBattery!Started
    BY TheBattery!StartedInit, BatteryConstants, Zenon
  <1>4. TheBattery!Init => TheBattery!WithinMax
    BY TheBattery!MaximaInit, BatteryConstants, Zenon
  <1>5. TheBattery!Init => TheBattery!SettingsKept
    BY TheBattery!SettingsInit, BatteryConstants, Zenon
  <1> QED
    BY <1>1, <1>2, <1>3, <1>4, <1>5, SameBatteryInit, Zenon DEF BatteryInv

LEMMA BatteryInvStep ==
  ASSUME BatteryInv, [Battery!Next]_(Battery!vars)
  PROVE  BatteryInv'
  <1>1. [TheBattery!Next]_(TheBattery!vars)
    BY BatteryNext
  <1>2. TheBattery!Data' /\ TheBattery!Pending' /\ TheBattery!Looked'
    BY <1>1, TheBattery!DataStep, BatteryConstants, Zenon DEF BatteryInv
  <1>3. TheBattery!FlagFollowsChip'
    BY <1>1, TheBattery!FlagNext, BatteryConstants, Zenon DEF BatteryInv
  <1>4. TheBattery!Started'
    BY <1>1, TheBattery!StartedStep, BatteryConstants, Zenon DEF BatteryInv
  <1>5. TheBattery!WithinMax'
    BY <1>1, TheBattery!MaximaStep, BatteryConstants, Zenon DEF BatteryInv
  <1>6. TheBattery!SettingsKept'
    BY <1>1, TheBattery!SettingsNext, BatteryConstants, Zenon DEF BatteryInv
  <1> QED
    BY <1>2, <1>3, <1>4, <1>5, <1>6 DEF BatteryInv

(* What is proved of the encoders by themselves.                           *)
LEMMA EncodersServed == TheEncoders!Spec => []TheEncoders!SelectedIsServed
  BY TheEncoders!ServedIsSelected, EncoderConstants, PTL

LEMMA EncodersAccount == TheEncoders!Spec => []TheEncoders!OffsetsAccount
  BY TheEncoders!OffsetsAccountForTravel, EncoderConstants, PTL

LEMMA EncodersTravel == TheEncoders!Spec => []TheEncoders!PositionIsTravel
  BY TheEncoders!PositionsAreTravel, EncoderConstants, PTL

-----------------------------------------------------------------------------
(* How far setup() is, what is typed, and the invariants of two parts; the *)
(* third, the encoders, is reasoned about by its theorems.                 *)
ProgramInv ==
  /\ stage \in Stages /\ Input!TypeOK /\ LineInv /\ StageInv
  /\ MotorInv /\ BatteryInv

LEMMA ProgramInit == Init => ProgramInv
  <1>1. Init => stage \in Stages /\ Motors!Init /\ Battery!Init
    BY Zenon DEF Init, Stages
  <1> QED
    BY <1>1, InputTypeInit, LineInit, StageInit, MotorInvInit, BatteryInvInit,
       Zenon
       DEF ProgramInv

LEMMA ProgramStep ==
  ASSUME ProgramInv, [Next]_vars
  PROVE  ProgramInv'
  <1>1. /\ stage \in Stages /\ Input!TypeOK /\ LineInv /\ StageInv
        /\ MotorInv /\ BatteryInv
    BY DEF ProgramInv
  <1>2. stage' \in Stages
    BY <1>1, StageStep
  <1>3. Input!TypeOK' /\ LineInv'
    BY <1>1, InputSteps, InputTypeStep, LineStep
  <1>4. StageInv'
    BY <1>1, StageInvStep
  <1>5. MotorInv'
    BY <1>1, MotorSteps, MotorInvStep
  <1>6. BatteryInv'
    BY <1>1, BatterySteps, BatteryInvStep
  <1> QED
    BY <1>2, <1>3, <1>4, <1>5, <1>6 DEF ProgramInv

LEMMA ProgramHolds == Spec => []ProgramInv
  BY ProgramInit, ProgramStep, PTL DEF Spec

(* A behaviour of the program is one of each of its parts: whatever another *)
(* part does, loop() and a restart included, is a step that part can take  *)
(* by itself, or leaves it alone.                                          *)
THEOREM RunsItsParts ==
  Spec => /\ Motors!Init /\ [][Motors!Next]_(Motors!vars)
          /\ Encoders!Spec
          /\ Battery!Init /\ [][Battery!Next]_(Battery!vars)
  <1>1. Init => Motors!Init /\ Encoders!Init /\ Battery!Init
    BY Zenon DEF Init
  <1>2. ProgramInv /\ [Next]_vars => [Motors!Next]_(Motors!vars)
    BY MotorSteps, MotorRuns DEF ProgramInv
  <1>3. ProgramInv /\ [Next]_vars => [Encoders!Next]_(Encoders!vars)
    BY EncoderSteps DEF ProgramInv, StageInv
  <1>4. ProgramInv /\ [Next]_vars => [Battery!Next]_(Battery!vars)
    BY BatterySteps
  <1> QED
    BY <1>1, <1>2, <1>3, <1>4, ProgramHolds, PTL DEF Spec, Encoders!Spec

-----------------------------------------------------------------------------
(* What the instances promise is what the parts promise.                   *)

LEMMA EncodersRun == Encoders!Spec => TheEncoders!Spec
  BY SameEncoderInit, EncoderNext, PTL DEF Encoders!Spec, TheEncoders!Spec

LEMMA SameEncoderPromises ==
  /\ TheEncoders!SelectedIsServed => Encoders!SelectedIsServed
  /\ TheEncoders!OffsetsAccount => Encoders!OffsetsAccount
  /\ TheEncoders!PositionIsTravel => Encoders!PositionIsTravel
  BY SameEncoderSets, Zenon
     DEF Encoders!SelectedIsServed, TheEncoders!SelectedIsServed,
         Encoders!OffsetsAccount, TheEncoders!OffsetsAccount,
         Encoders!PositionIsTravel, TheEncoders!PositionIsTravel,
         Encoders!Around, TheEncoders!Around, Encoders!Relative,
         TheEncoders!Relative

LEMMA SameMotorPromises ==
  /\ TheMotors!NeverBothDirections => Motors!NeverBothDirections
  /\ TheMotors!SetupInv => Motors!SetupRestoresBoard
  <1>1. TheMotors!SetupInv => TheMotors!SetupRestoresBoard
    BY TheMotors!SetupEnds, MotorConstants, Zenon
  <1>2. TheMotors!SetupRestoresBoard => Motors!SetupRestoresBoard
    BY Zenon
       DEF TheMotors!SetupRestoresBoard, Motors!SetupRestoresBoard,
           TheMotors!LS1, Motors!LS1, TheMotors!StopCode, Motors!StopCode
  <1>3. TheMotors!NeverBothDirections => Motors!NeverBothDirections
    BY Zenon
       DEF TheMotors!NeverBothDirections, Motors!NeverBothDirections,
           TheMotors!BothOn, Motors!BothOn, TheMotors!LS1, Motors!LS1
  <1> QED
    BY <1>1, <1>2, <1>3

LEMMA SameBatteryPromises ==
  /\ BatteryInv => Battery!FlagFollowsChip
  /\ BatteryInv => Battery!WritesWhileStopped
  /\ BatteryInv => Battery!WithinMax
  /\ BatteryInv => (Battery!Booted => Battery!Converting \/ failed > 0)
  <1>1. /\ TheBattery!Converting <=> Battery!Converting
        /\ TheBattery!Trusted <=> Battery!Trusted
    BY SameCodes, SameBooted, Zenon
       DEF TheBattery!Converting, Battery!Converting, TheBattery!Trusted,
           Battery!Trusted
  <1>2. TheBattery!FlagFollowsChip => Battery!FlagFollowsChip
    BY <1>1, Zenon DEF TheBattery!FlagFollowsChip, Battery!FlagFollowsChip
  <1>3. TheBattery!Looked /\ TheBattery!FlagFollowsChip
          => Battery!WritesWhileStopped
    BY <1>1 DEF TheBattery!FlagFollowsChip, Battery!WritesWhileStopped,
            TheBattery!Looked
  <1>4. TheBattery!WithinMax => Battery!WithinMax
    BY SameTables, Zenon DEF TheBattery!WithinMax, Battery!WithinMax
  <1>5. BatteryInv => TheBattery!Converts
    BY TheBattery!StartedConverts, BatteryConstants, Zenon DEF BatteryInv
  <1>6. TheBattery!Converts
          => (Battery!Booted => Battery!Converting \/ failed > 0)
    BY <1>1, SameBooted, Zenon DEF TheBattery!Converts
  <1> QED
    BY <1>2, <1>3, <1>4, <1>5, <1>6 DEF BatteryInv

LEMMA SameSetup == BatteryInv => Battery!SetupReconfigures
  <1>1. BatteryInv => TheBattery!SetupReconfigures
    BY TheBattery!SettingsReconfigure, BatteryConstants, Zenon
       DEF BatteryInv
  <1>2. \A c : TheBattery!Asked(c) = Battery!Asked(c)
    <2>1. TheBattery!SetUpIdentity = Battery!SetUpIdentity
      BY SameCalls, SMT DEF TheBattery!SetUpIdentity, Battery!SetUpIdentity
    <2> QED
      BY <2>1, Zenon DEF TheBattery!Asked, Battery!Asked
  <1>3. TheBattery!SetupReconfigures => Battery!SetupReconfigures
    BY <1>2, SameTables, SameBoot, Zenon
       DEF TheBattery!SetupReconfigures, Battery!SetupReconfigures,
           TheBattery!readManufacturerName, Battery!readManufacturerName,
           TheBattery!readManufacturerDate, Battery!readManufacturerDate,
           TheBattery!readFirstUsageDate, Battery!readFirstUsageDate,
           TheBattery!readSerialNumber, Battery!readSerialNumber,
           TheBattery!readDeviceName, Battery!readDeviceName
  <1> QED
    BY <1>1, <1>3

-----------------------------------------------------------------------------
(* What each part promises by itself.                                      *)
PartsHold ==
  /\ Motors!NeverBothDirections
  /\ ~Lossy => Motors!SetupRestoresBoard
  /\ Encoders!SelectedIsServed
  /\ Encoders!PositionIsTravel
  /\ Encoders!OffsetsAccount
  /\ Battery!FlagFollowsChip
  /\ Battery!WritesWhileStopped
  /\ Battery!WithinMax
  /\ Battery!SetupReconfigures

(* In the program the parts do what they do by themselves: no bridge is    *)
(* shorted, setup() stops every driver, positions are those of the channel *)
(* asked for and account for the travel, and the battery monitor is        *)
(* written while it is stopped, within its maxima and completely.          *)
THEOREM PartsKeepTheirPromises == Spec => []PartsHold
  <1>1. Spec => TheEncoders!Spec
    BY RunsItsParts, EncodersRun, PTL
  <1>2. ProgramInv /\ TheEncoders!SelectedIsServed
          /\ TheEncoders!PositionIsTravel /\ TheEncoders!OffsetsAccount
        => PartsHold
    BY SameEncoderPromises, SameMotorPromises, SameBatteryPromises, SameSetup
       DEF PartsHold, ProgramInv, MotorInv
  <1> QED
    BY <1>1, <1>2, ProgramHolds, EncodersServed, EncodersAccount,
       EncodersTravel, PTL

(* With nothing lost on the motor bus, setup() closes the discharge path   *)
(* only when every bridge is off, every encoder zeroed, and the battery    *)
(* monitor set up and converting, or a failure has been reported; restarts *)
(* in the middle of it included.                                           *)
THEOREM PowersLast ==
  ASSUME ~Lossy
  PROVE  Spec => []PoweredLast
  <1>1. ProgramInv /\ PartsHold => PoweredLast
    <2> SUFFICES ASSUME ProgramInv, PartsHold, stage # "loop", dsg
                 PROVE  /\ \A d \in Drivers :
                             regs[d][Motors!LS1] = Motors!StopCode
                        /\ Encoders!Booted /\ Encoders!OffsetsAccount
                        /\ Battery!Booted
                        /\ Battery!Converting \/ failed > 0
      BY Zenon DEF PoweredLast
    <2>1. /\ job.fn = "motorDriverInit" /\ phase = "idle"
          /\ Encoders!Booted /\ Battery!Booted
      BY DEF ProgramInv, StageInv
    <2>2. \A d \in Drivers : regs[d][Motors!LS1] = Motors!StopCode
      BY <2>1, Zenon DEF PartsHold, Motors!SetupRestoresBoard
    <2>3. Battery!Converting \/ failed > 0
      BY <2>1, SameBatteryPromises DEF ProgramInv
    <2> QED
      BY <2>1, <2>2, <2>3 DEF PartsHold
  <1> QED
    BY <1>1, ProgramHolds, PartsKeepTheirPromises, PTL

-----------------------------------------------------------------------------
(* What the operator gets of what is typed.                                *)

LEMMA SameNominalPromises ==
  /\ TheMotors!MuxFollowsShadow => Motors!MuxFollowsShadow
  /\ TheMotors!JobEffect => Motors!JobEffect
  BY SameWrites, Zenon
     DEF TheMotors!MuxFollowsShadow, Motors!MuxFollowsShadow,
         TheMotors!JobEffect, Motors!JobEffect

LEMMA LoopIsNoRestart ==
  ASSUME [Next]_vars, stage' = "loop"
  PROVE  resets' = resets
  <1>1. CASE Restart
    BY <1>1 DEF Restart
  <1>2. CASE HostOpens \/ ReadInput \/ CallPower \/ ServePower
               \/ OperatorTypes \/ LoadDrains \/ PrechargeSetup
    BY <1>2, Zenon
       DEF HostOpens, ReadInput, CallPower, ServePower, OperatorTypes,
           LoadDrains, PrechargeSetup
  <1>3. CASE MotorSetup \/ EncoderSetup \/ BatterySetup \/ CallEncoders
               \/ ServeEncoders \/ ShaftTurns \/ ServeMotors
    BY <1>3, KeepsResets, Zenon
       DEF MotorSetup, EncoderSetup, BatterySetup, CallEncoders,
           ServeEncoders, ShaftTurns, ServeMotors
  <1>4. CASE ServeLine
    BY <1>4, KeepsResets, Zenon DEF ServeLine
  <1>5. CASE UNCHANGED vars
    BY <1>5, Zenon DEF vars
  <1> QED
    BY <1>1, <1>2, <1>3, <1>4, <1>5, Zenon DEF Next, Setup

(* In loop() a register of a driver changes only by a write of the line    *)
(* typed last, and on the channel that line names.                         *)
Driven ==
  stage = "loop" /\ stage' = "loop" =>
    LET k == Motors!CallOf(Input!LineOf(typed))
    IN  \A d \in Drivers :
          regs'[d] # regs[d] =>
            /\ Input!MakesCall(typed) /\ d = k.asked
            /\ \E i \in 1 .. Len(Motors!Writes(k)) :
                 regs'[d] = [regs[d] EXCEPT ![Motors!Writes(k)[i].reg] =
                                              Motors!Writes(k)[i].val]

DrivesAsTyped == [][Driven]_vars

LEMMA DrivenStep ==
  ASSUME Obedient, ProgramInv, ServedAsTyped, [Next]_vars
  PROVE  Driven
  <1> DEFINE W == Motors!Writes(job)
  <1> SUFFICES ASSUME stage = "loop", stage' = "loop",
                      NEW d \in Drivers, regs'[d] # regs[d]
               PROVE  LET k == Motors!CallOf(Input!LineOf(typed))
                      IN  /\ Input!MakesCall(typed) /\ d = k.asked
                          /\ \E i \in 1 .. Len(Motors!Writes(k)) :
                               regs'[d] =
                                 [regs[d] EXCEPT ![Motors!Writes(k)[i].reg] =
                                                   Motors!Writes(k)[i].val]
    BY Zenon DEF Driven
  <1>1. /\ TheMotors!Nominal /\ TheMotors!TypeOK /\ TheMotors!NominalInv
        /\ [TheMotors!Next]_(TheMotors!vars) /\ resets' = resets
    BY ObedientIsNominal, MotorSteps, MotorNext, LoopIsNoRestart
       DEF ProgramInv, MotorInv
  <1>2. /\ phase # "idle" /\ d = job.asked /\ n + 1 \in 1 .. Len(W)
        /\ regs'[d] = [regs[d] EXCEPT ![W[n + 1].reg] = W[n + 1].val]
    BY <1>1, TheMotors!AskedWrites, MotorConstants, SameWrites, Zenon
  <1>3. Input!LineLength(typed) <= 31
    BY WholeFits DEF Obedient, ProgramInv, Fits
  <1>4. /\ Input!MakesCall(typed)
        /\ job = Motors!CallOf(Input!LineOf(typed))
    BY <1>2, <1>3 DEF ServedAsTyped
  <1> QED
    BY <1>2, <1>4, Zenon

(* With an operator who keeps to what the board can serve, and nothing     *)
(* lost: the recorded channel is the connected one, what a call has        *)
(* written is in its driver, and in loop() the drivers change only as the  *)
(* line typed last says.                                                   *)
THEOREM ObeysTheLine ==
  ASSUME Obedient
  PROVE  Spec => /\ [](Motors!MuxFollowsShadow /\ Motors!JobEffect)
                 /\ DrivesAsTyped
  <1>1. ProgramInv => Motors!MuxFollowsShadow /\ Motors!JobEffect
    BY SameNominalPromises, Zenon
       DEF ProgramInv, MotorInv, TheMotors!NominalInv
  <1>2. ProgramInv /\ ServedAsTyped /\ [Next]_vars => [Driven]_vars
    BY DrivenStep
  <1> QED
    BY <1>1, <1>2, ProgramHolds, CallsAreTyped, PTL
       DEF Spec, DrivesAsTyped

-----------------------------------------------------------------------------
(* The refinement: the motor side of the program implements Actuators.     *)

LEMMA SameAbstractWrites ==
  ASSUME NEW k PROVE TheMotors!Abs!Writes(k) = Motors!Abs!Writes(k)
  BY Zenon
     DEF TheMotors!Abs!Writes, TheMotors!Abs!variableMotionControl,
         TheMotors!Abs!motorDriverStop, TheMotors!Abs!defaultMotionControl,
         TheMotors!Abs!setMotionControl,
         TheMotors!Abs!motorDriverRegControl,
         TheMotors!Abs!motorDriverInit, TheMotors!Abs!SpeedBits,
         TheMotors!Abs!DirectionCode, TheMotors!Abs!Wr,
         TheMotors!Abs!StopCode, TheMotors!Abs!PSC0, TheMotors!Abs!PWM0,
         TheMotors!Abs!PSC1, TheMotors!Abs!PWM1, TheMotors!Abs!LS1,
         TheMotors!Abs!LS2,
         Motors!Abs!Writes, Motors!Abs!variableMotionControl,
         Motors!Abs!motorDriverStop, Motors!Abs!defaultMotionControl,
         Motors!Abs!setMotionControl, Motors!Abs!motorDriverRegControl,
         Motors!Abs!motorDriverInit, Motors!Abs!SpeedBits,
         Motors!Abs!DirectionCode, Motors!Abs!Wr, Motors!Abs!StopCode,
         Motors!Abs!PSC0, Motors!Abs!PWM0, Motors!Abs!PSC1,
         Motors!Abs!PWM1, Motors!Abs!LS1, Motors!Abs!LS2

LEMMA SameAbstractCalls ==
  /\ \A c : TheMotors!Abs!InitCall(c) = Motors!Abs!InitCall(c)
  /\ \A l : TheMotors!Abs!CallOf(l) = Motors!Abs!CallOf(l)
  BY Zenon
     DEF TheMotors!Abs!InitCall, Motors!Abs!InitCall, TheMotors!Abs!CallOf,
         Motors!Abs!CallOf, TheMotors!Abs!Call, Motors!Abs!Call,
         TheMotors!Abs!U8, Motors!Abs!U8, TheMotors!Abs!Flag,
         Motors!Abs!Flag, TheMotors!Abs!DefaultAddr, Motors!Abs!DefaultAddr

LEMMA SameActuators ==
  /\ TheMotors!Abs!Init => Motors!Abs!Init
  /\ [TheMotors!Abs!Next]_(TheMotors!Abs!vars)
       => [Motors!Abs!Next]_(Motors!Abs!vars)
  <1>1. TheMotors!Abs!Init => Motors!Abs!Init
    BY SameAbstractCalls, Zenon DEF TheMotors!Abs!Init, Motors!Abs!Init
  <1>2. TheMotors!Abs!Apply => Motors!Abs!Apply
    BY SameAbstractWrites, Zenon DEF TheMotors!Abs!Apply, Motors!Abs!Apply
  <1>3. TheMotors!Abs!Finish => Motors!Abs!Finish
    BY SameAbstractWrites, SameAbstractCalls, Zenon
       DEF TheMotors!Abs!Finish, Motors!Abs!Finish
  <1>4. TheMotors!Abs!Restart => Motors!Abs!Restart
    BY SameAbstractCalls, Zenon
       DEF TheMotors!Abs!Restart, Motors!Abs!Restart
  <1>5. ASSUME NEW l, TheMotors!Abs!Accept(l) PROVE Motors!Abs!Accept(l)
    BY <1>5, SameAbstractCalls, Zenon
       DEF TheMotors!Abs!Accept, Motors!Abs!Accept
  <1>6. TheMotors!Abs!vars' = TheMotors!Abs!vars
          => Motors!Abs!vars' = Motors!Abs!vars
    BY Zenon DEF TheMotors!Abs!vars, Motors!Abs!vars
  <1> QED
    BY <1>1, <1>2, <1>3, <1>4, <1>5, <1>6, DeliveredLines, Zenon
       DEF TheMotors!Abs!Next, Motors!Abs!Next

(* With the same operator and bus, what the program does to the drivers is *)
(* what Actuators allows: selecting channels, the console, the boot order  *)
(* and the other parts are invisible.                                      *)
THEOREM ProgramImplementsActuators ==
  ASSUME Obedient
  PROVE  Spec => Motors!ImplementsActuators
  <1>1. Init => Motors!Abs!Init
    <2>1. Init => TheMotors!Init
      BY SameMotorInit, Zenon DEF Init
    <2>2. TheMotors!Init => TheMotors!Abs!Init
      BY TheMotors!SimulationInit, MotorConstants, Zenon
    <2> QED
      BY <2>1, <2>2, SameActuators, Zenon
  <1>2. ProgramInv /\ [Next]_vars => [Motors!Abs!Next]_(Motors!Abs!vars)
    <2> SUFFICES ASSUME ProgramInv, [Next]_vars
                 PROVE  [Motors!Abs!Next]_(Motors!Abs!vars)
      OBVIOUS
    <2>1. /\ TheMotors!Nominal /\ TheMotors!TypeOK /\ TheMotors!NominalInv
          /\ [TheMotors!Next]_(TheMotors!vars)
      BY ObedientIsNominal, MotorSteps, MotorNext DEF ProgramInv, MotorInv
    <2>2. [TheMotors!Abs!Next]_(TheMotors!Abs!vars)
      BY <2>1, TheMotors!Simulation, MotorConstants, Zenon
    <2> QED
      BY <2>2, SameActuators
  <1> QED
    BY <1>1, <1>2, ProgramHolds, PTL
       DEF Spec, Motors!ImplementsActuators, Motors!Abs!Spec
=============================================================================
