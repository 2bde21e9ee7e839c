------------------------------- MODULE Firmware -------------------------------
(***************************************************************************)
(* The whole program: setup() brings up the motor side, the encoders, the  *)
(* battery monitor and the discharge path, one after the other, and loop() *)
(* serves the console.  The parts are the modules of their own; there is   *)
(* one foreground, so a step of the program is a step of one part.  The    *)
(* host, the shafts and the load act at any time, and a restart of the     *)
(* controller is one of all its parts.                                     *)
(***************************************************************************)
EXTENDS Integers, Sequences

CONSTANTS
  Drivers, PowerOn, Lossy,                     \* MotorBus
  TypedLines,                                  \* Console
  FullTurn, Fitted, NoAnswer, EncCalls,        \* SpiEncoders
  BmsPowerOn, NvmContents, MaxFailed, WarmRestarts,     \* BmsCommands
  PackSamples, Capacitors, PowerCalls,         \* Power
  MaxResets

VARIABLES
  stage,       \* how far setup() is
  phase, job, n, currentChannel, mux, regs,                      \* MotorBus
  typed, sent, buffer, inputPos, told,                           \* Console
  boot, step, call, again, csPins, latch, inhibit, position, offsets, shaft,
  rebooting, travel, seen,                                    \* SpiEncoders
  pos, bmsPhase, cmd, bmsConversionActive, chip, nvm, failed,
  warm,                                                       \* BmsCommands
  pstep, left, preDsg, dsg, chg, sense, load,                 \* Power
  resets

Input == INSTANCE Console
Motors == INSTANCE MotorBus WITH Lines <- Input!Line
Encoders == INSTANCE SpiEncoders WITH restarts <- resets
Battery == INSTANCE BmsCommands
             WITH phase <- bmsPhase, PowerOn <- BmsPowerOn, AppCalls <- {}
Switches == INSTANCE Power

motorVars   == <<phase, job, n, currentChannel, mux, regs>>
inputVars   == <<typed, sent, buffer, inputPos, told>>
encoderVars == <<boot, step, call, again, csPins, latch, inhibit, position,
                 offsets, shaft, rebooting, travel, seen>>
batteryVars == <<pos, bmsPhase, cmd, bmsConversionActive, chip, nvm, failed,
                 warm>>
switchVars  == <<pstep, left, preDsg, dsg, chg, sense, load>>
vars == <<stage, motorVars, inputVars, encoderVars, batteryVars, switchVars,
          resets>>

Stages == {"host", "motors", "encoders", "battery", "precharge", "loop"}

(* A line has a word, and its first one fits cmd, which sscanf fills       *)
(* without a bound.                                                        *)
ASSUME TypedLinesAssumption ==
  \A l \in TypedLines :
    /\ l \in Seq(Input!Words) /\ l # << >>
    /\ l[1].len <= 15
    /\ \A i \in 1 .. Len(l) : l[i].len > 0
ASSUME PackSamplesAssumption ==
  PackSamples \subseteq 0 .. 1023 /\ PackSamples # {}
ASSUME CapacitorsAssumption == Capacitors \in Nat
ASSUME PowerCallsAssumption ==
  \A k \in PowerCalls :
    /\ k \in [fn : Switches!PowerFns, arg : Nat]
    /\ k.fn = "precharge" => k.arg >= Capacitors

(* What the parts assume of their constants.                               *)
ASSUME MaxResetsAssumption == MaxResets \in Nat
ASSUME DriversAssumption == Drivers \subseteq Motors!Channels
ASSUME PowerOnAssumption == PowerOn \in [Motors!Regs -> Motors!Byte]
ASSUME LossyAssumption == Lossy \in BOOLEAN
ASSUME FullTurnAssumption == FullTurn \in Encoders!FullTurns
ASSUME FittedAssumption == Fitted \subseteq Encoders!Channels
ASSUME NoAnswerAssumption == NoAnswer \in Encoders!SpiWords
ASSUME EncCallsAssumption ==
  \A k \in EncCalls :
    /\ k \in [fn : Encoders!EncFns, channel : 0 .. 255]
    /\ k.channel > 15 => k.fn = "readTurns"
ASSUME MaxFailedAssumption == MaxFailed \in Nat
ASSUME WarmRestartsAssumption == WarmRestarts \in BOOLEAN
ASSUME BmsPowerOnAssumption ==
  /\ BmsPowerOn \in [Battery!BmsRegs -> Battery!Word]
  /\ BmsPowerOn[Battery!ConvReg] = 0
  /\ \A c \in DOMAIN Battery!Config :
       BmsPowerOn[Battery!Config[c].reg] <= Battery!Config[c].max
ASSUME NvmContentsAssumption ==
  /\ NvmContents \in [Battery!NvmRegs -> Battery!Word]
  /\ \A c \in DOMAIN Battery!Config :
       NvmContents[Battery!Config[c].reg] <= Battery!Config[c].max

Init ==
  /\ stage = "host"
  /\ Motors!Init
  /\ Input!Init
  /\ Encoders!Init
  /\ Battery!Init
  /\ Switches!Init

-----------------------------------------------------------------------------
(* setup().  Its pins are as after a restart until the host has opened the *)
(* serial port, however long that takes.                                   *)

HostOpens ==
  /\ stage = "host"
  /\ stage' = "motors"
  /\ UNCHANGED <<motorVars, inputVars, encoderVars, batteryVars, switchVars,
                 resets>>

(* mutant: the battery monitor is left for later.                          *)
FollowingEager(s) ==
  CASE s = "motors"    -> "encoders"
    [] s = "encoders"  -> "precharge"
    [] s = "battery"   -> "loop"
    [] s = "precharge" -> "battery"

(* The order of setup().                                                   *)
Following(s) ==
  CASE s = "motors"    -> "encoders"
    [] s = "encoders"  -> "battery"
    [] s = "battery"   -> "precharge"
    [] s = "precharge" -> "loop"

(* A part of setup() ends with the step that brings it there.              *)
SetupStep(s, ended) ==
  /\ stage = s
  /\ stage' = IF ended THEN Following(s) ELSE s

MotorSetup ==
  /\ Motors!Foreground
  /\ SetupStep("motors", phase' = "idle")
  /\ UNCHANGED <<inputVars, encoderVars, batteryVars, switchVars>>

EncoderSetup ==
  /\ Encoders!Foreground
  /\ SetupStep("encoders", boot' = 16 /\ step' = "idle")
  /\ UNCHANGED <<motorVars, inputVars, batteryVars, switchVars>>

BatterySetup ==
  /\ Battery!Foreground
  /\ SetupStep("battery", pos' > Len(Battery!Boot) /\ bmsPhase' = "idle")
  /\ UNCHANGED <<motorVars, inputVars, encoderVars, switchVars>>

(* precharge(1), for one capacitor.                                        *)
PrechargeSetup ==
  /\ Switches!precharge(1) \/ Switches!Foreground
  /\ SetupStep("precharge", pstep' = "idle")
  /\ UNCHANGED <<motorVars, inputVars, encoderVars, batteryVars, resets>>

-----------------------------------------------------------------------------
(* loop().  What arrives while a call is served waits in the serial port.  *)

AtPrompt ==
  /\ stage = "loop"
  /\ phase = "idle" /\ step = "idle" /\ bmsPhase = "idle" /\ pstep = "idle"

ReadInput ==
  /\ AtPrompt
  /\ Input!Receive \/ Input!EndEmptyLine
  /\ UNCHANGED <<stage, motorVars, encoderVars, batteryVars, switchVars,
                 resets>>

(* A complete line: the call it makes begins, if it makes one.             *)
ServeLine ==
  /\ AtPrompt
  /\ Input!EndLine
  /\ IF Input!MakesCall(buffer)
       THEN Motors!Dispatch(Input!LineOf(buffer))
       ELSE UNCHANGED <<motorVars, resets>>
  /\ UNCHANGED <<stage, encoderVars, batteryVars, switchVars>>

ServeMotors ==
  /\ stage = "loop"
  /\ Motors!Foreground \/ Motors!Spin
  /\ UNCHANGED <<stage, inputVars, encoderVars, batteryVars, switchVars>>

(* Calls of the other parts, where the loop has its test code.             *)
CallEncoders ==
  /\ AtPrompt
  /\ \E k \in EncCalls : Encoders!Begin(k)
  /\ UNCHANGED <<stage, motorVars, inputVars, batteryVars, switchVars>>

ServeEncoders ==
  /\ stage = "loop"
  /\ Encoders!Foreground
  /\ UNCHANGED <<stage, motorVars, inputVars, batteryVars, switchVars>>

CallPower ==
  /\ AtPrompt
  /\ \E k \in PowerCalls : Switches!Call(k)
  /\ UNCHANGED <<stage, motorVars, inputVars, encoderVars, batteryVars,
                 resets>>

ServePower ==
  /\ stage = "loop"
  /\ Switches!Foreground
  /\ UNCHANGED <<stage, motorVars, inputVars, encoderVars, batteryVars,
                 resets>>

-----------------------------------------------------------------------------
(* The outside world.                                                      *)

(* What is typed earlier is read now.                                      *)
OperatorTypes ==
  /\ AtPrompt
  /\ \E l \in TypedLines : Input!Type(l)
  /\ UNCHANGED <<stage, motorVars, encoderVars, batteryVars, switchVars,
                 resets>>

ShaftTurns ==
  /\ \E c \in Fitted : Encoders!Rotate(c)
  /\ UNCHANGED <<stage, motorVars, inputVars, batteryVars, switchVars>>

LoadDrains ==
  /\ Switches!Drain
  /\ UNCHANGED <<stage, motorVars, inputVars, encoderVars, batteryVars,
                 resets>>

Restart ==
  /\ stage' = "host"
  /\ Motors!Restart
  /\ Encoders!Restart
  /\ Battery!Restart
  /\ Switches!Restart
  /\ Input!Restart

-----------------------------------------------------------------------------
Setup == MotorSetup \/ EncoderSetup \/ BatterySetup \/ PrechargeSetup

Next ==
  \/ HostOpens
  \/ Setup
  \/ ReadInput
  \/ ServeLine
  \/ ServeMotors
  \/ CallEncoders
  \/ ServeEncoders
  \/ CallPower
  \/ ServePower
  \/ OperatorTypes
  \/ ShaftTurns
  \/ LoadDrains
  \/ Restart

(* setup() runs by itself once the host is there.                          *)
Spec == Init /\ [][Next]_vars /\ WF_vars(Setup)

-----------------------------------------------------------------------------
(* Properties.                                                             *)

(* Every value fits its type.  The parts checked by themselves have their  *)
(* own invariants; of the console, inputPos stays inside inputBuffer,      *)
(* whatever is typed, and of the switches, the load holds what fits it.    *)
TypeOK ==
  /\ stage \in Stages
  /\ Input!TypeOK
  /\ Switches!TypeOK

(* A call is served only if its line asks for one, and it is the call that *)
(* was typed, if the line fits the buffer: nothing of an earlier line, of  *)
(* a line ended by two characters or of one typed before a restart gets    *)
(* into it.                                                                *)
ServedAsTyped ==
  stage = "loop" /\ phase # "idle" /\ Input!LineLength(typed) <= 31 =>
    Input!MakesCall(typed) /\ job = Motors!CallOf(Input!LineOf(typed))

(* The load gets the power of the pack last: while setup() has the         *)
(* discharge path closed, every fitted driver has its bridge off, every    *)
(* encoder has been given its zero, and the battery monitor converts or a  *)
(* failed transaction has been reported.                                   *)
PoweredLast ==
  stage # "loop" /\ dsg =>
    /\ \A d \in Drivers : regs[d][Motors!LS1] = Motors!StopCode
    /\ Encoders!Booted /\ Encoders!OffsetsAccount
    /\ Battery!Booted /\ (Battery!Converting \/ failed > 0)

(* precharge never closes the discharge path on an empty load or from an   *)
(* empty pack, and never ends with the resistor still switched in.         *)
SoftStart ==
  [][/\ ~dsg /\ dsg' => load = Capacitors /\ Switches!AboveThreshold(sense)
     /\ pstep # "idle" /\ pstep' = "idle" => ~preDsg']_vars

(* A line that is no command is answered "Unknown command.", and only such *)
(* a line, as the console's last branch has it.                            *)
UnknownIsTold == Input!UnknownIsTold

(* Once the host has opened the port, setup() comes to its end.            *)
SetupCompletes == stage = "motors" ~> stage \in {"host", "loop"}
=============================================================================
