--------------------------- MODULE FirmwareProofs ---------------------------
(***************************************************************************)
(* What holds of the whole program for any lines, chips, shafts, packs and *)
(* restarts: the console stays inside its buffer, the call being served is *)
(* the one that was typed, and the load is never switched on hard.         *)
(***************************************************************************)
EXTENDS Firmware, TLAPS, SequenceTheorems, WellFoundedInduction

-----------------------------------------------------------------------------
(* The switches.                                                           *)

(* The program as shipped: setup() waits for one capacitor, which is all   *)
(* the load has, and only precharge closes the discharge path.             *)
Shipped ==
  /\ Capacitors <= 1
  /\ \A k \in PowerCalls : k.fn = "setDSG" => k.arg = 0

(* While the resistor is switched in, the delay that is left is enough for *)
(* the capacitors that are not full yet.                                   *)
Filling ==
  /\ pstep = "filling" => preDsg /\ load + left >= Capacitors
  /\ pstep = "sensing" => preDsg /\ load = Capacitors

SwitchInv == Switches!TypeOK /\ (Shipped => Filling)

(* The steps of the program as steps of the switches.                      *)
SwitchStep ==
  \/ \E m \in Nat : Switches!precharge(m) /\ (Shipped => m >= Capacitors)
  \/ Switches!Foreground
  \/ \E on \in BOOLEAN : Switches!setDSG(on) /\ (Shipped => on = FALSE)
  \/ \E on \in BOOLEAN : Switches!setCHG(on)
  \/ Switches!Drain
  \/ Switches!Restart
  \/ UNCHANGED switchVars

LEMMA SwitchSteps ==
  ASSUME [Next]_vars
  PROVE  SwitchStep
  <1>1. CASE HostOpens \/ ReadInput \/ ServeLine \/ ServeMotors \/ CallEncoders
               \/ ServeEncoders \/ OperatorTypes \/ ShaftTurns
    BY <1>1
       DEF HostOpens, ReadInput, ServeLine, ServeMotors, CallEncoders,
           ServeEncoders, OperatorTypes, ShaftTurns, SwitchStep
  <1>2. CASE MotorSetup \/ EncoderSetup \/ BatterySetup
    BY <1>2 DEF MotorSetup, EncoderSetup, BatterySetup, SwitchStep
  <1>3. CASE PrechargeSetup
    <2>1. 1 \in Nat /\ (Shipped => 1 >= Capacitors)
      BY CapacitorsAssumption DEF Shipped
    <2> QED
      BY <1>3, <2>1 DEF PrechargeSetup, SwitchStep
  <1>4. CASE CallPower
    <2>1. PICK k \in PowerCalls : Switches!Call(k)
      BY <1>4 DEF CallPower
    <2>2. /\ k.arg \in Nat
          /\ k.fn = "precharge" => k.arg >= Capacitors
          /\ Shipped /\ k.fn = "setDSG" => k.arg = 0
      BY PowerCallsAssumption DEF Shipped
    <2>3. CASE k.fn = "precharge" /\ Switches!precharge(k.arg)
      BY <2>2, <2>3 DEF SwitchStep
    <2>4. CASE k.fn = "setDSG" /\ Switches!setDSG(k.arg # 0)
      <3>1. PICK on : on = (k.arg # 0)
        OBVIOUS
      <3>2. on \in BOOLEAN /\ (Shipped => on = FALSE)
        BY <2>2, <2>4, <3>1
      <3>3. Switches!setDSG(on)
        BY <2>4, <3>1
      <3> QED
        BY <3>2, <3>3 DEF SwitchStep
    <2>5. CASE k.fn = "setCHG" /\ Switches!setCHG(k.arg # 0)
      <3>1. (k.arg # 0) \in BOOLEAN
        OBVIOUS
      <3> QED
        BY <2>5, <3>1 DEF SwitchStep
    <2> QED
      BY <2>1, <2>3, <2>4, <2>5 DEF Switches!Call
  <1>5. CASE ServePower
    BY <1>5 DEF ServePower, SwitchStep
  <1>6. CASE LoadDrains
    BY <1>6 DEF LoadDrains, SwitchStep
  <1>7. CASE Restart
    BY <1>7 DEF Restart, SwitchStep
  <1>8. CASE UNCHANGED vars
    BY <1>8 DEF vars, SwitchStep
  <1> QED
    BY <1>1, <1>2, <1>3, <1>4, <1>5, <1>6, <1>7, <1>8 DEF Next, Setup

LEMMA NoSense == 0 \in 0 .. 1023
  OBVIOUS

LEMMA SwitchInvInit == Init => SwitchInv
  <1> SUFFICES ASSUME Init PROVE SwitchInv
    OBVIOUS
  <1>1. Switches!Init
    BY DEF Init
  <1>2. Switches!TypeOK
    <2>1. /\ pstep = "idle" /\ left = 0 /\ sense = 0 /\ load = 0
          /\ preDsg = FALSE /\ dsg = FALSE /\ chg = FALSE
      BY <1>1 DEF Switches!Init
    <2>2. left \in Nat /\ sense \in 0 .. 1023 /\ load \in 0 .. Capacitors
      BY <2>1, NoSense, CapacitorsAssumption
    <2> QED
      BY <2>1, <2>2 DEF Switches!TypeOK, Switches!PSteps
  <1>3. Filling
    BY <1>1 DEF Switches!Init, Filling
  <1> QED
    BY <1>2, <1>3 DEF SwitchInv

LEMMA SwitchInvStep ==
  ASSUME SwitchInv, SwitchStep
  PROVE  SwitchInv'
  <1> USE CapacitorsAssumption
      DEF SwitchInv, Filling, Switches!TypeOK, Switches!PSteps
  <1>1. ASSUME NEW m \in Nat, Switches!precharge(m),
               Shipped => m >= Capacitors
        PROVE  SwitchInv'
    BY <1>1 DEF Switches!precharge, Switches!PrechargeTime
  <1>2. CASE Switches!Fill
    BY <1>2 DEF Switches!Fill
  <1>3. ASSUME NEW raw \in PackSamples, Switches!Sense(raw)
        PROVE  SwitchInv'
    <2>1. raw \in 0 .. 1023
      BY PackSamplesAssumption
    <2> QED
      BY <1>3, <2>1 DEF Switches!Sense
  <1>4. CASE Switches!EnableDischarge
    BY <1>4 DEF Switches!EnableDischarge
  <1>5. CASE Switches!Warn
    BY <1>5 DEF Switches!Warn
  <1>6. CASE Switches!EndPrecharge
    BY <1>6 DEF Switches!EndPrecharge
  <1>7. ASSUME NEW on \in BOOLEAN, Switches!setDSG(on)
        PROVE  SwitchInv'
    BY <1>7 DEF Switches!setDSG
  <1>8. ASSUME NEW on \in BOOLEAN, Switches!setCHG(on)
        PROVE  SwitchInv'
    BY <1>8 DEF Switches!setCHG
  <1>9. CASE Switches!Drain
    BY <1>9 DEF Switches!Drain
  <1>10. CASE Switches!Restart
    BY <1>10, NoSense DEF Switches!Restart
  <1>11. CASE UNCHANGED switchVars
    BY <1>11 DEF switchVars
  <1> QED
    BY <1>1, <1>2, <1>3, <1>4, <1>5, <1>6, <1>7, <1>8, <1>9, <1>10, <1>11
       DEF SwitchStep, Switches!Foreground

(* What SoftStart says of one step.                                        *)
Soft ==
  /\ ~dsg /\ dsg' => load = Capacitors /\ Switches!AboveThreshold(sense)
  /\ pstep # "idle" /\ pstep' = "idle" => ~preDsg'

LEMMA SoftStep ==
  ASSUME Shipped, SwitchInv, SwitchStep
  PROVE  Soft
  <1> USE DEF Soft
  <1>1. ASSUME NEW m \in Nat, Switches!precharge(m)
        PROVE  Soft
    BY <1>1 DEF Switches!precharge
  <1>2. CASE Switches!Fill \/ \E raw \in PackSamples : Switches!Sense(raw)
    BY <1>2 DEF Switches!Fill, Switches!Sense
  <1>3. CASE Switches!EnableDischarge
    BY <1>3 DEF Switches!EnableDischarge, SwitchInv, Filling
  <1>4. CASE Switches!Warn \/ Switches!EndPrecharge
    BY <1>4 DEF Switches!Warn, Switches!EndPrecharge
  <1>5. ASSUME NEW on \in BOOLEAN, Switches!setDSG(on), on = FALSE
        PROVE  Soft
    BY <1>5 DEF Switches!setDSG
  <1>6. ASSUME NEW on \in BOOLEAN, Switches!setCHG(on)
        PROVE  Soft
    BY <1>6 DEF Switches!setCHG
  <1>7. CASE Switches!Drain \/ Switches!Restart
    BY <1>7 DEF Switches!Drain, Switches!Restart
  <1>8. CASE UNCHANGED switchVars
    BY <1>8 DEF switchVars
  <1> QED
    BY <1>1, <1>2, <1>3, <1>4, <1>5, <1>6, <1>7, <1>8
       DEF SwitchStep, Switches!Foreground

(* The discharge path is closed only by a precharge that has filled the    *)
(* load and has just seen a pack above the threshold, whatever happens     *)
(* before, between and after, restarts in the middle of it included.       *)
THEOREM StartsSoftly ==
  ASSUME Shipped
  PROVE  Spec => SoftStart
  <1>1. Init => SwitchInv
    BY SwitchInvInit
  <1>2. SwitchInv /\ [Next]_vars => SwitchInv'
    BY SwitchSteps, SwitchInvStep
  <1>3. SwitchInv /\ [Next]_vars => [Soft]_vars
    BY SwitchSteps, SoftStep
  <1> QED
    BY <1>1, <1>2, <1>3, PTL DEF Spec, SoftStart, Soft

-----------------------------------------------------------------------------
(* The console.                                                            *)

LEMMA PowersOfTen ==
  ASSUME NEW k \in 0 .. 9
  PROVE  Input!Power10(k) \in Nat /\ Input!Power10(k) > 0
  BY DEF Input!Power10

LEMMA ShortenedIsNumber ==
  ASSUME NEW num \in Int, NEW k \in 0 .. 9
  PROVE  Input!Shortened(num, k) \in Int
  <1>1. PICK p : p = Input!Power10(k)
    OBVIOUS
  <1>2. p \in Nat /\ p > 0
    BY <1>1, PowersOfTen
  <1>3. num \div p \in Int /\ -((-num) \div p) \in Int
    BY <1>2
  <1>4. Input!Shortened(num, k) =
          IF num < 0 THEN -((-num) \div p) ELSE num \div p
    BY <1>1 DEF Input!Shortened
  <1> QED
    BY <1>3, <1>4

(* What is kept of a word is a word, and at most one.                      *)
LEMMA PrefixIsWord ==
  ASSUME NEW w \in Input!Words, NEW keep \in Nat, keep < w.len
  PROVE  Input!Prefix(w, keep) \in Input!Words
  <1>1. w.len \in Nat /\ w.val \in Int
    BY DEF Input!Words
  <1>2. PICK v : v = (IF w.len - keep > 9 THEN 0
                      ELSE Input!Shortened(w.val, w.len - keep))
    OBVIOUS
  <1>3. v \in Int
    <2>1. CASE w.len - keep > 9
      BY <1>2, <2>1
    <2>2. CASE ~(w.len - keep > 9)
      <3>1. w.len - keep \in 0 .. 9
        BY <1>1, <2>2
      <3>2. Input!Shortened(w.val, w.len - keep) \in Int
        BY <1>1, <3>1, ShortenedIsNumber
      <3> QED
        BY <1>2, <2>2, <3>2
    <2> QED
      BY <2>1, <2>2
  <1>4. PICK x : x = (IF w.text = Input!Number /\ (w.val < 0 => keep > 1)
                        THEN Input!Number ELSE "other")
    OBVIOUS
  <1>5. x \in Input!WordText
    BY <1>4 DEF Input!WordText
  <1>6. Input!Prefix(w, keep) = [text |-> x, val |-> v, len |-> keep]
    BY <1>2, <1>4 DEF Input!Prefix
  <1> QED
    BY <1>3, <1>5, <1>6 DEF Input!Words

LEMMA KeptWords ==
  ASSUME NEW w \in Input!Words, NEW room \in Int
  PROVE  Input!Kept(w, room) \in Seq(Input!Words)
  <1>1. w.len \in Nat
    BY DEF Input!Words
  <1>2. CASE room >= w.len
    BY <1>2 DEF Input!Kept
  <1>3. CASE room < w.len /\ room > 0
    BY <1>1, <1>3, PrefixIsWord DEF Input!Kept
  <1>4. CASE room < w.len /\ ~(room > 0)
    BY <1>1, <1>4 DEF Input!Kept
  <1> QED
    BY <1>1, <1>2, <1>3, <1>4

LEMMA TypedWords ==
  ASSUME Input!TypeOK
  PROVE  typed \in Seq(Input!Words)
  <1>1. typed \in {<< >>} \cup TypedLines
    BY DEF Input!TypeOK
  <1>2. \A l \in TypedLines : l \in Seq(Input!Words)
    BY TypedLinesAssumption, Zenon
  <1>3. << >> \in Seq(Input!Words)
    OBVIOUS
  <1> QED
    BY <1>1, <1>2, <1>3

LEMMA ReceiveStep ==
  ASSUME Input!TypeOK, Input!Receive
  PROVE  Input!TypeOK'
  <1>1. /\ typed \in Seq(Input!Words) /\ Len(typed) \in Nat
        /\ sent \in 0 .. Len(typed) /\ sent < Len(typed)
        /\ buffer \in Seq(Input!Words) /\ inputPos \in 0 .. 31
    BY TypedWords DEF Input!TypeOK, Input!Receive
  <1>2. PICK w : w = typed[sent + 1]
    OBVIOUS
  <1>3. w \in Input!Words
    BY <1>1, <1>2
  <1>4. w.len \in Nat
    BY <1>3 DEF Input!Words
  <1>5. PICK room : room = Input!Room - inputPos - Input!Blank(inputPos)
    OBVIOUS
  <1>6. room \in Int
    BY <1>1, <1>5 DEF Input!Room, Input!Blank
  <1>7. buffer' = buffer \o Input!Kept(w, room)
    BY <1>2, <1>5 DEF Input!Receive
  <1>8. buffer' \in Seq(Input!Words)
    BY <1>1, <1>3, <1>6, <1>7, KeptWords
  <1>9. PICK end : end = inputPos + Input!Blank(inputPos) + w.len
    OBVIOUS
  <1>10. end \in Nat /\ inputPos' = IF end > 31 THEN 31 ELSE end
    BY <1>1, <1>2, <1>4, <1>9 DEF Input!Receive, Input!Room, Input!Blank
  <1>11. inputPos' \in 0 .. 31
    BY <1>10
  <1>12. sent' \in 0 .. Len(typed)
    BY <1>1 DEF Input!Receive
  <1> QED
    BY <1>8, <1>11, <1>12 DEF Input!TypeOK, Input!Receive

InputStep ==
  \/ Input!Receive
  \/ \E l \in TypedLines : Input!Type(l)
  \/ Input!EndLine
  \/ Input!EndEmptyLine
  \/ Input!Restart
  \/ UNCHANGED inputVars

LEMMA InputSteps ==
  ASSUME [Next]_vars
  PROVE  InputStep
  <1>1. CASE HostOpens \/ ServeMotors \/ CallEncoders \/ ServeEncoders
               \/ CallPower \/ ServePower \/ ShaftTurns \/ LoadDrains
    BY <1>1
       DEF HostOpens, ServeMotors, CallEncoders, ServeEncoders, CallPower,
           ServePower, ShaftTurns, LoadDrains, InputStep
  <1>2. CASE Setup
    BY <1>2
       DEF Setup, MotorSetup, EncoderSetup, BatterySetup, PrechargeSetup,
           InputStep
  <1>3. CASE ReadInput
    BY <1>3 DEF ReadInput, InputStep
  <1>4. CASE ServeLine
    BY <1>4 DEF ServeLine, InputStep
  <1>5. CASE OperatorTypes
    BY <1>5 DEF OperatorTypes, InputStep
  <1>6. CASE Restart
    BY <1>6 DEF Restart, InputStep
  <1>7. CASE UNCHANGED vars
    BY <1>7 DEF vars, InputStep
  <1> QED
    BY <1>1, <1>2, <1>3, <1>4, <1>5, <1>6, <1>7 DEF Next

LEMMA InputTypeStep ==
  ASSUME Input!TypeOK, InputStep
  PROVE  Input!TypeOK'
  <1>1. << >> \in Seq(Input!Words) /\ Len(<< >>) = 0
    OBVIOUS
  <1>2. ASSUME NEW l \in TypedLines, Input!Type(l)
        PROVE  Input!TypeOK'
    <2>1. l \in Seq(Input!Words)
      BY TypedLinesAssumption, Zenon
    <2>2. Len(l) \in Nat
      BY <2>1
    <2> QED
      BY <1>2, <2>2 DEF Input!Type, Input!TypeOK
  <1>3. CASE Input!EndLine
    <2>1. told' \in BOOLEAN
      BY <1>3 DEF Input!EndLine
    <2> QED
      BY <1>1, <1>3, <2>1 DEF Input!EndLine, Input!TypeOK
  <1>4. CASE Input!EndEmptyLine
    BY <1>4 DEF Input!EndEmptyLine, Input!TypeOK
  <1>5. CASE Input!Restart
    <2>1. /\ typed' = << >> /\ sent' = 0 /\ buffer' = << >>
          /\ inputPos' = 0 /\ told' = FALSE
      BY <1>5 DEF Input!Restart
    <2>2. sent' \in 0 .. Len(typed') /\ inputPos' \in 0 .. 31
      BY <1>1, <2>1
    <2>3. told' \in BOOLEAN
      BY <2>1
    <2> QED
      BY <1>1, <2>1, <2>2, <2>3 DEF Input!TypeOK
  <1>6. CASE UNCHANGED inputVars
    BY <1>6 DEF inputVars, Input!TypeOK
  <1> QED
    BY <1>2, <1>3, <1>4, <1>5, <1>6, ReceiveStep DEF InputStep

LEMMA InputTypeInit == Init => Input!TypeOK
  <1> SUFFICES ASSUME Init PROVE Input!TypeOK
    OBVIOUS
  <1>1. /\ typed = << >> /\ sent = 0 /\ buffer = << >>
        /\ inputPos = 0 /\ told = FALSE
    BY DEF Init, Input!Init
  <1>2. Len(<< >>) = 0 /\ << >> \in Seq(Input!Words)
    OBVIOUS
  <1>3. sent \in 0 .. Len(typed) /\ inputPos \in 0 .. 31
    BY <1>1, <1>2
  <1>4. told \in BOOLEAN
    BY <1>1
  <1> QED
    BY <1>1, <1>2, <1>3, <1>4 DEF Input!TypeOK

-----------------------------------------------------------------------------
LEMMA StageStep ==
  ASSUME stage \in Stages, [Next]_vars
  PROVE  stage' \in Stages
  <1>1. CASE HostOpens \/ Restart
    BY <1>1 DEF HostOpens, Restart, Stages
  <1>2. CASE Setup
    <2>1. PICK s \in {"motors", "encoders", "battery", "precharge"} :
            stage' = Following(s) \/ stage' = s
      BY <1>2
         DEF Setup, MotorSetup, EncoderSetup, BatterySetup, PrechargeSetup,
             SetupStep
    <2> QED
      BY <2>1 DEF Following, Stages
  <1>3. CASE UNCHANGED stage
    BY <1>3
  <1>4. CASE ReadInput \/ ServeLine \/ ServeMotors \/ CallEncoders
               \/ ServeEncoders \/ CallPower \/ ServePower \/ OperatorTypes
               \/ ShaftTurns \/ LoadDrains
    BY <1>4
       DEF ReadInput, ServeLine, ServeMotors, CallEncoders, ServeEncoders,
           CallPower, ServePower, OperatorTypes, ShaftTurns, LoadDrains
  <1>5. CASE UNCHANGED vars
    BY <1>5 DEF vars
  <1> QED
    BY <1>1, <1>2, <1>3, <1>4, <1>5 DEF Next

(* Whatever is typed, inputPos stays inside inputBuffer and what is in the *)
(* buffer are words; the stages of setup() come as listed, and the load    *)
(* holds what fits it.                                                     *)
THEOREM TypeCorrect == Spec => []TypeOK
  <1> DEFINE Inv == stage \in Stages /\ Input!TypeOK /\ SwitchInv
  <1>1. Init => Inv
    BY InputTypeInit, SwitchInvInit DEF Init, Stages
  <1>2. Inv /\ [Next]_vars => Inv'
    BY StageStep, InputSteps, InputTypeStep, SwitchSteps, SwitchInvStep
  <1>3. Inv => TypeOK
    BY DEF TypeOK, SwitchInv
  <1> QED
    BY <1>1, <1>2, <1>3, PTL DEF Spec

-----------------------------------------------------------------------------
(* How far the parts are at each stage: setup() leaves a part when it is   *)
(* through with it, and comes to the load last.                            *)
StageInv ==
  /\ stage # "loop" => job.fn = "motorDriverInit"
  /\ stage \in {"encoders", "battery", "precharge"} => phase = "idle"
  /\ stage = "loop" => boot = 16
  /\ stage \in {"battery", "precharge"} => Encoders!Booted
  /\ stage = "precharge" => Battery!Booted
  /\ stage \notin {"precharge", "loop"} => dsg = FALSE /\ pstep = "idle"

LEMMA InitFn == ASSUME NEW c PROVE Motors!InitCall(c).fn = "motorDriverInit"
  BY DEF Motors!InitCall, Motors!Call

LEMMA StageInit == Init => StageInv
  <1> SUFFICES ASSUME Init PROVE StageInv
    OBVIOUS
  <1>1. stage = "host" /\ dsg = FALSE /\ pstep = "idle"
    BY Zenon DEF Init, Switches!Init
  <1>2. job.fn = "motorDriverInit"
    BY InitFn, Zenon DEF Init, Motors!Init
  <1> QED
    BY <1>1, <1>2 DEF StageInv

(* setup() of the motors keeps to the call it makes.                       *)
LEMMA MotorSetupFn ==
  ASSUME Motors!Foreground, job.fn = "motorDriverInit"
  PROVE  job'.fn = "motorDriverInit"
  BY InitFn, Zenon
     DEF Motors!Foreground, Motors!I2C_DisableAllChannels,
         Motors!SelectInvalid, Motors!SelectCached, Motors!SelectNew,
         Motors!WriteReg, Motors!ReadReg, Motors!NextInit, Motors!Return

LEMMA StageInvStep ==
  ASSUME StageInv, stage \in Stages, [Next]_vars
  PROVE  StageInv'
  <1>1. CASE HostOpens
    <2>1. stage = "host" /\ stage' = "motors" /\ job' = job
          /\ dsg' = dsg /\ pstep' = pstep
      BY <1>1, Zenon DEF HostOpens, motorVars, switchVars
    <2> QED
      BY <2>1 DEF StageInv
  <1>2. CASE MotorSetup
    <2>1. /\ stage = "motors" /\ dsg' = dsg /\ pstep' = pstep
          /\ stage' = IF phase' = "idle" THEN Following("motors")
                      ELSE "motors"
          /\ Motors!Foreground
      BY <1>2, Zenon DEF MotorSetup, SetupStep, switchVars
    <2>2. job'.fn = "motorDriverInit"
      BY <2>1, MotorSetupFn DEF StageInv
    <2>3. Following("motors") = "encoders"
      BY DEF Following
    <2> QED
      BY <2>1, <2>2, <2>3 DEF StageInv
  <1>3. CASE EncoderSetup
    <2>1. /\ stage = "encoders" /\ dsg' = dsg /\ pstep' = pstep
          /\ job' = job /\ phase' = phase
          /\ stage' = IF Encoders!Booted' THEN Following("encoders")
                      ELSE "encoders"
      BY <1>3, Zenon
         DEF EncoderSetup, SetupStep, switchVars, motorVars,
             Encoders!Booted
    <2>2. Following("encoders") = "battery"
      BY DEF Following
    <2> QED
      BY <2>1, <2>2 DEF StageInv
  <1>4. CASE BatterySetup
    <2>1. /\ stage = "battery" /\ dsg' = dsg /\ pstep' = pstep
          /\ job' = job /\ phase' = phase /\ boot' = boot /\ step' = step
          /\ \/ stage' = "battery"
             \/ stage' = Following("battery") /\ Battery!Booted'
      BY <1>4, Zenon
         DEF BatterySetup, SetupStep, switchVars, motorVars, encoderVars,
             Battery!Booted
    <2>2. Following("battery") = "precharge"
      BY DEF Following
    <2>3. Encoders!Booted'
      BY <2>1, Zenon DEF StageInv, Encoders!Booted
    <2> QED
      BY <2>1, <2>2, <2>3 DEF StageInv
  <1>5. CASE PrechargeSetup
    <2>1. /\ stage = "precharge"
          /\ stage' \in {"precharge", Following("precharge")}
          /\ job' = job /\ phase' = phase /\ boot' = boot /\ step' = step
          /\ pos' = pos
      BY <1>5, Zenon
         DEF PrechargeSetup, SetupStep, motorVars, encoderVars, batteryVars
    <2>2. Following("precharge") = "loop"
      BY DEF Following
    <2>3. Encoders!Booted' /\ Battery!Booted' /\ boot' = 16
      BY <2>1, Zenon DEF StageInv, Encoders!Booted, Battery!Booted
    <2> QED
      BY <2>1, <2>2, <2>3 DEF StageInv
  <1>6. CASE stage = "loop" /\ stage' = "loop" /\ boot' = boot
    BY <1>6 DEF StageInv
  <1>7. CASE ReadInput \/ ServeLine \/ ServeMotors \/ CallPower
               \/ ServePower \/ OperatorTypes
    <2>1. stage = "loop" /\ stage' = stage /\ boot' = boot
      BY <1>7, Zenon
         DEF ReadInput, ServeLine, ServeMotors, CallPower, ServePower,
             OperatorTypes, AtPrompt, encoderVars
    <2> QED
      BY <1>6, <2>1
  <1>8. CASE CallEncoders \/ ServeEncoders
    <2>1. stage = "loop" /\ stage' = stage /\ boot = 16
      BY <1>8, Zenon DEF CallEncoders, ServeEncoders, AtPrompt, StageInv
    <2>2. boot' = boot
      <3>1. ~(boot < 16)
        BY <2>1
      <3> QED
        BY <1>8, <3>1, Zenon
           DEF CallEncoders, ServeEncoders, Encoders!Foreground,
               Encoders!Begin, Encoders!SPI_CS_MUX, Encoders!Strobe,
               Encoders!Enable, Encoders!Exchange,
               Encoders!DEACTIVATE_MUX, Encoders!WaitForReboot,
               Encoders!Finish
    <2> QED
      BY <1>6, <2>1, <2>2
  <1>9. CASE ShaftTurns \/ LoadDrains \/ UNCHANGED vars
    <2>1. UNCHANGED <<stage, job, phase, boot, step, pos, dsg, pstep>>
      BY <1>9, Zenon
         DEF ShaftTurns, LoadDrains, vars, motorVars, encoderVars,
             batteryVars, switchVars, Encoders!Rotate, Switches!Drain
    <2> QED
      BY <2>1, Zenon DEF StageInv, Encoders!Booted, Battery!Booted
  <1>10. CASE Restart
    <2>1. stage' = "host" /\ dsg' = FALSE /\ pstep' = "idle"
          /\ job' = Motors!InitCall(0)
      BY <1>10, Zenon DEF Restart, Switches!Restart, Motors!Restart
    <2> QED
      BY <2>1, InitFn DEF StageInv
  <1> QED
    BY <1>1, <1>2, <1>3, <1>4, <1>5, <1>7, <1>8, <1>9, <1>10, Zenon
       DEF Next, Setup

-----------------------------------------------------------------------------
(* Induction over numbers, from their being well-founded: the least number *)
(* outside a set that holds 0 and is closed under successor would have a   *)
(* predecessor in it.                                                      *)
Below == {p \in Nat \X Nat : p[1] < p[2]}

LEMMA BelowWF == IsWellFoundedOn(Below, Nat)
  BY NatLessThanWellFounded, Zenon DEF OpToRel, Below

LEMMA Least ==
  ASSUME NEW S \in SUBSET Nat, NEW m \in S
  PROVE  \E x \in S : \A y \in S : x <= y
  <1>1. PICK x \in S : \A y \in S : ~(<< y, x >> \in Below)
    BY BelowWF, WFMin
  <1>2. \A y \in S : << y, x >> \in Below <=> y < x
    BY DEF Below
  <1>3. \A y \in S : ~(y < x)
    BY <1>1, <1>2
  <1> QED
    BY <1>3

LEMMA Induction ==
  ASSUME NEW S, 0 \in S, \A i \in Nat : i \in S => i + 1 \in S
  PROVE  \A i \in Nat : i \in S
  <1> SUFFICES ASSUME NEW i \in Nat, i \notin S PROVE FALSE
    OBVIOUS
  <1> DEFINE B == {k \in Nat : k \notin S}
  <1>1. i \in B /\ B \in SUBSET Nat
    OBVIOUS
  <1>2. PICK x \in B : \A y \in B : x <= y
    BY <1>1, Least
  <1>3. x \in Nat /\ x # 0 /\ x \notin S
    OBVIOUS
  <1>4. x - 1 \in Nat /\ (x - 1) + 1 = x
    BY <1>3
  <1>5. x - 1 \notin S
    BY <1>3, <1>4
  <1>6. x - 1 \in B
    BY <1>4, <1>5
  <1> QED
    BY <1>2, <1>3, <1>6

(* A word more, after so many characters.                                  *)
After(m, w) == m + Input!Blank(m) + w.len

(* The lengths of the first words, up to the k-th.                         *)
Summed(ws, k, f) ==
  /\ f \in [0 .. k -> Nat]
  /\ f[0] = 0
  /\ \A i \in 1 .. k : f[i] = After(f[i - 1], ws[i])

LEMMA AfterType ==
  ASSUME NEW m \in Nat, NEW w \in Input!Words
  PROVE  After(m, w) \in Nat /\ After(m, w) >= m + w.len
  BY DEF After, Input!Blank, Input!Words

(* The recursive function that Lengths chooses exists.                     *)
LEMMA SumExists ==
  ASSUME NEW ws \in Seq(Input!Words)
  PROVE  \A k \in Nat : k <= Len(ws) => \E f : Summed(ws, k, f)
  <1> DEFINE S == {k \in Nat : k <= Len(ws) => \E f : Summed(ws, k, f)}
  <1>1. 0 \in S
    <2> DEFINE f == [i \in 0 .. 0 |-> 0]
    <2>1. Summed(ws, 0, f)
      BY DEF Summed
    <2> QED
      BY <2>1
  <1>2. ASSUME NEW k \in Nat, k \in S PROVE k + 1 \in S
    <2> SUFFICES ASSUME k + 1 <= Len(ws)
                 PROVE  \E g : Summed(ws, k + 1, g)
      OBVIOUS
    <2>1. PICK f : Summed(ws, k, f)
      BY <1>2
    <2>2. f[k] \in Nat /\ ws[k + 1] \in Input!Words
      BY <2>1 DEF Summed
    <2> DEFINE last == After(f[k], ws[k + 1])
    <2>3. last \in Nat
      BY <2>2, AfterType
    <2> HIDE DEF last
    <2> DEFINE g == [i \in 0 .. k + 1 |-> IF i = k + 1 THEN last ELSE f[i]]
    <2>4. g \in [0 .. k + 1 -> Nat] /\ g[0] = 0
      BY <2>1, <2>3 DEF Summed
    <2>5. ASSUME NEW i \in 1 .. k + 1 PROVE g[i] = After(g[i - 1], ws[i])
      <3>1. CASE i = k + 1
        <4>1. g[i] = last /\ g[i - 1] = f[k]
          BY <3>1
        <4> QED
          BY <3>1, <4>1 DEF last
      <3>2. CASE i # k + 1
        <4>1. i \in 1 .. k /\ g[i] = f[i] /\ g[i - 1] = f[i - 1]
          BY <3>2
        <4> QED
          BY <2>1, <4>1 DEF Summed
      <3> QED
        BY <3>1, <3>2
    <2> HIDE DEF g
    <2> QED
      BY <2>4, <2>5 DEF Summed
  <1> HIDE DEF S
  <1>3. \A k \in Nat : k \in S
    BY <1>1, <1>2, Induction
  <1> QED
    BY <1>3 DEF S

LEMMA LengthsSum ==
  ASSUME NEW ws \in Seq(Input!Words)
  PROVE  Summed(ws, Len(ws), Input!Lengths(ws))
  <1> DEFINE F(g) == [i \in 0 .. Len(ws) |->
                        IF i = 0 THEN 0
                        ELSE g[i - 1] + Input!Blank(g[i - 1]) + ws[i].len]
  <1>1. Input!Lengths(ws) = CHOOSE g : g = F(g)
    BY Zenon DEF Input!Lengths
  <1>2. PICK f : Summed(ws, Len(ws), f)
    BY SumExists
  <1>3. f = F(f)
    <2>1. ASSUME NEW i \in 0 .. Len(ws) PROVE f[i] = F(f)[i]
      BY <1>2, <2>1 DEF Summed, After
    <2> QED
      BY <1>2, <2>1 DEF Summed
  <1>4. \E g : g = F(g)
    BY <1>3
  <1>5. PICK h : h = Input!Lengths(ws)
    OBVIOUS
  <1>6. h = F(h)
    <2> HIDE DEF F
    <2> QED
      BY <1>1, <1>4, <1>5, Zenon
  <1>7. /\ h = [i \in 0 .. Len(ws) |-> h[i]]
        /\ h[0] = 0
        /\ \A i \in 1 .. Len(ws) : h[i] = After(h[i - 1], ws[i])
    <2> DEFINE e(i) == IF i = 0 THEN 0
                       ELSE h[i - 1] + Input!Blank(h[i - 1]) + ws[i].len
    <2>1. h = [i \in 0 .. Len(ws) |-> e(i)]
      BY <1>6, Zenon
    <2>2. ASSUME NEW i \in 0 .. Len(ws)
          PROVE  h[i] = e(i)
      BY <2>1, Zenon
    <2>3. h = [i \in 0 .. Len(ws) |-> h[i]]
      <3> HIDE DEF e
      <3> QED
        BY <2>1
    <2> QED
      BY <2>2, <2>3 DEF After
  <1> DEFINE S == {k \in Nat : k <= Len(ws) => h[k] \in Nat}
  <1>8. \A k \in Nat : k \in S
    <2>1. 0 \in S
      BY <1>7
    <2>2. ASSUME NEW k \in Nat, k \in S PROVE k + 1 \in S
      <3> SUFFICES ASSUME k + 1 <= Len(ws) PROVE h[k + 1] \in Nat
        OBVIOUS
      <3>1. h[k] \in Nat /\ ws[k + 1] \in Input!Words
        BY <2>2
      <3>2. k + 1 \in 1 .. Len(ws) /\ (k + 1) - 1 = k
        OBVIOUS
      <3>3. h[k + 1] = After(h[k], ws[k + 1])
        BY <1>7, <3>2
      <3> QED
        BY <3>1, <3>3, AfterType
    <2> HIDE DEF S
    <2> QED
      BY <2>1, <2>2, Induction
  <1>9. \A i \in 0 .. Len(ws) : h[i] \in Nat
    BY <1>8
  <1> QED
    BY <1>5, <1>7, <1>9 DEF Summed

(* More words, more characters.                                            *)
LEMMA LengthsGrow ==
  ASSUME NEW ws \in Seq(Input!Words), NEW k \in 0 .. Len(ws)
  PROVE  /\ Input!Lengths(ws)[k] \in Nat
         /\ Input!Lengths(ws)[k] <= Input!LineLength(ws)
  <1> DEFINE h == Input!Lengths(ws)
  <1>1. Summed(ws, Len(ws), h)
    BY LengthsSum
  <1> HIDE DEF h
  <1> DEFINE S == {j \in Nat : k + j <= Len(ws) => h[k] <= h[k + j]}
  <1>2. 0 \in S
    BY <1>1 DEF Summed
  <1>3. ASSUME NEW j \in Nat, j \in S PROVE j + 1 \in S
    <2> SUFFICES ASSUME k + j + 1 <= Len(ws) PROVE h[k] <= h[k + j + 1]
      OBVIOUS
    <2>1. h[k + j] \in Nat /\ h[k] \in Nat /\ h[k] <= h[k + j]
      BY <1>1, <1>3 DEF Summed
    <2>2. k + j + 1 \in 1 .. Len(ws) /\ (k + j + 1) - 1 = k + j
      OBVIOUS
    <2>3. h[k + j + 1] = After(h[k + j], ws[k + j + 1])
      BY <1>1, <2>2 DEF Summed
    <2>4. ws[k + j + 1] \in Input!Words
      BY <2>2
    <2>5. ws[k + j + 1].len \in Nat
      BY <2>4 DEF Input!Words
    <2>6. After(h[k + j], ws[k + j + 1]) \in Nat
          /\ After(h[k + j], ws[k + j + 1]) >= h[k + j] + ws[k + j + 1].len
      BY <2>1, <2>4, AfterType
    <2>7. h[k + j + 1] >= h[k + j] /\ h[k + j + 1] \in Nat
      BY <2>1, <2>3, <2>5, <2>6
    <2> QED
      BY <2>1, <2>7
  <1>4. \A j \in Nat : j \in S
    <2> HIDE DEF S
    <2> QED
      BY <1>2, <1>3, Induction
  <1>5. PICK j \in Nat : k + j = Len(ws)
    <2>1. Len(ws) - k \in Nat /\ k + (Len(ws) - k) = Len(ws)
      OBVIOUS
    <2> QED
      BY <2>1
  <1>6. h[k] <= h[k + j]
    <2>1. j \in S /\ k + j <= Len(ws)
      <3> HIDE DEF S
      <3> QED
        BY <1>4, <1>5
    <2> QED
      BY <2>1
  <1>7. h[k] <= h[Len(ws)] /\ h[k] \in Nat
    BY <1>1, <1>5, <1>6 DEF Summed
  <1> QED
    BY <1>7 DEF h, Input!LineLength

-----------------------------------------------------------------------------
(* A line arrives as it was typed, if it fits, and is served whole.        *)
Fits == Input!LineLength(typed) <= 31

Arriving ==
  /\ buffer = SubSeq(typed, 1, sent)
  /\ inputPos = Input!Lengths(typed)[sent]

Served ==
  buffer = << >> /\ inputPos = 0 /\ sent = Len(typed)

(* The buffer is a beginning of the line or, when the line has ended, empty.*)
LineInv ==
  /\ inputPos = 0 => buffer = << >>
  /\ Fits => Arriving \/ Served

LEMMA NoWords ==
  ASSUME NEW ws \in Seq(Input!Words)
  PROVE  SubSeq(ws, 1, 0) = << >> /\ Input!Lengths(ws)[0] = 0
  <1>1. Input!Lengths(ws)[0] = 0
    BY LengthsSum DEF Summed
  <1> QED
    BY <1>1, SubSeqEmpty

LEMMA LineBegins ==
  ASSUME typed' \in Seq(Input!Words), sent' = 0, buffer' = << >>,
         inputPos' = 0
  PROVE  LineInv'
  <1>1. SubSeq(typed', 1, 0) = << >> /\ Input!Lengths(typed')[0] = 0
    BY NoWords
  <1>2. Arriving'
    BY <1>1 DEF Arriving
  <1> QED
    BY <1>2 DEF LineInv

LEMMA LineReceive ==
  ASSUME Input!TypeOK, LineInv, Input!Receive
  PROVE  LineInv'
  <1>1. /\ typed \in Seq(Input!Words) /\ Len(typed) \in Nat
        /\ sent \in 0 .. Len(typed) /\ sent < Len(typed)
        /\ inputPos \in 0 .. 31
    BY TypedWords DEF Input!TypeOK, Input!Receive
  <1>2. /\ typed' = typed /\ sent' = sent + 1
        /\ sent + 1 \in 1 .. Len(typed)
    BY <1>1 DEF Input!Receive
  <1>3. PICK w : w = typed[sent + 1]
    OBVIOUS
  <1>4. w \in Input!Words /\ w.len \in Nat /\ w.len > 0
    <2>1. w \in Input!Words
      BY <1>1, <1>2, <1>3
    <2>2. typed \in TypedLines
      BY <1>1 DEF Input!TypeOK
    <2>3. typed[sent + 1].len > 0
      BY <1>2, <2>2, TypedLinesAssumption, Zenon
    <2>4. w.len \in Nat
      BY <2>1 DEF Input!Words
    <2> QED
      BY <1>3, <2>1, <2>3, <2>4
  <1>5. PICK end : end = After(inputPos, w)
    OBVIOUS
  <1>6. end \in Nat /\ end > 0
    <2>1. inputPos \in Nat
      BY <1>1
    <2>2. end \in Nat /\ end >= inputPos + w.len
      BY <1>4, <1>5, <2>1, AfterType
    <2> QED
      BY <1>4, <2>1, <2>2
  <1>7. /\ inputPos' = IF end > 31 THEN 31 ELSE end
        /\ buffer' = buffer \o Input!Kept(w, 31 - inputPos
                                               - Input!Blank(inputPos))
    BY <1>3, <1>5, Zenon DEF Input!Receive, Input!Room, After
  <1>8. inputPos' # 0
    BY <1>6, <1>7
  <1>9. ASSUME Fits PROVE Arriving'
    <2>1. Arriving
      BY <1>1, <1>9 DEF LineInv, Served
    <2>2. Input!Lengths(typed)[sent + 1] = end
      <3>1. Input!Lengths(typed)[sent + 1] =
              After(Input!Lengths(typed)[(sent + 1) - 1], typed[sent + 1])
        BY <1>1, <1>2, LengthsSum DEF Summed
      <3>2. (sent + 1) - 1 = sent
        BY <1>1
      <3> QED
        BY <1>3, <1>5, <2>1, <3>1, <3>2 DEF Arriving
    <2>3. end <= 31
      <3>1. sent + 1 \in 0 .. Len(typed)
        BY <1>1
      <3>2. /\ end <= Input!LineLength(typed)
            /\ Input!LineLength(typed) \in Nat
        <4>1. Len(typed) \in 0 .. Len(typed)
          BY <1>1
        <4> QED
          BY <1>1, <2>2, <3>1, <4>1, LengthsGrow DEF Input!LineLength
      <3> QED
        BY <1>6, <1>9, <3>2 DEF Fits
    <2>4. Input!Kept(w, 31 - inputPos - Input!Blank(inputPos)) = << w >>
      <3>1. 31 - inputPos - Input!Blank(inputPos) >= w.len
        BY <1>1, <1>4, <1>5, <2>3 DEF After, Input!Blank
      <3> QED
        BY <3>1, Zenon DEF Input!Kept
    <2>5. SubSeq(typed, 1, sent + 1) = SubSeq(typed, 1, sent) \o << w >>
      <3>1. /\ 1 \in 1 .. Len(typed) /\ sent + 1 \in 1 .. Len(typed)
            /\ (sent + 1) - 1 = sent
        BY <1>1
      <3> QED
        BY <1>1, <1>3, <3>1, SubSeqRecursiveSecond
    <2>6. inputPos' = end
      BY <1>6, <1>7, <2>3
    <2>7. buffer' = SubSeq(typed, 1, sent) \o << w >>
      BY <1>7, <2>1, <2>4, Zenon DEF Arriving
    <2> QED
      BY <1>2, <2>2, <2>5, <2>6, <2>7, Zenon DEF Arriving
  <1>10. Fits' = Fits
    BY <1>2 DEF Fits
  <1> QED
    BY <1>8, <1>9, <1>10 DEF LineInv

LEMMA LineStep ==
  ASSUME Input!TypeOK, LineInv, InputStep
  PROVE  LineInv'
  <1>1. ASSUME NEW l \in TypedLines, Input!Type(l) PROVE LineInv'
    <2>1. /\ typed' = l /\ sent' = 0 /\ buffer' = buffer
          /\ inputPos = 0 /\ inputPos' = 0
      BY <1>1 DEF Input!Type
    <2>2. l \in Seq(Input!Words)
      BY TypedLinesAssumption, Zenon
    <2> QED
      BY <2>1, <2>2, LineBegins DEF LineInv
  <1>2. CASE Input!EndLine
    <2>1. /\ buffer' = << >> /\ inputPos' = 0 /\ sent' = Len(typed)
          /\ typed' = typed
      BY <1>2 DEF Input!EndLine
    <2> QED
      BY <2>1 DEF LineInv, Served
  <1>3. CASE UNCHANGED <<typed, sent, buffer, inputPos>>
    BY <1>3 DEF LineInv, Fits, Arriving, Served
  <1>4. CASE Input!Restart
    <2>1. typed' = << >> /\ << >> \in Seq(Input!Words)
      BY <1>4 DEF Input!Restart
    <2> QED
      BY <1>4, <2>1, LineBegins DEF Input!Restart
  <1> QED
    BY <1>1, <1>2, <1>3, <1>4, LineReceive
       DEF InputStep, Input!EndEmptyLine, inputVars

LEMMA LineInit == Init => LineInv
  <1> SUFFICES ASSUME Init PROVE LineInv
    OBVIOUS
  <1>1. typed = << >> /\ sent = 0 /\ buffer = << >> /\ inputPos = 0
    BY Zenon DEF Init, Input!Init
  <1>2. Len(<< >>) = 0
    OBVIOUS
  <1> QED
    BY <1>1, <1>2 DEF LineInv, Served

(* The line in the buffer when it ends is the one typed.                   *)
LEMMA LineEnds ==
  ASSUME Input!TypeOK, LineInv, Fits, Input!EndLine
  PROVE  buffer = typed
  <1>1. sent = Len(typed) /\ inputPos > 0
    BY DEF Input!EndLine
  <1>2. Arriving
    BY <1>1 DEF LineInv, Served
  <1> QED
    BY <1>1, <1>2, TypedWords, SubSeqFull DEF Arriving

-----------------------------------------------------------------------------
(* The call of a line is none of setup().                                  *)
LEMMA LineFn ==
  ASSUME NEW ws, Input!MakesCall(ws)
  PROVE  Motors!CallOf(Input!LineOf(ws)).fn # "motorDriverInit"
  <1> DEFINE ln == Input!LineOf(ws)
  <1>1. ln.verb \in {"move", "defaultmove", "setspeeds", "stop", "a", "b",
                     "c", "d"}
    <2>1. ln.verb = ws[1].text
      BY DEF Input!LineOf
    <2> QED
      BY <2>1 DEF Input!MakesCall, Input!IsCommand
  <1> HIDE DEF ln
  <1>2. Motors!CallOf(ln).fn # "motorDriverInit"
    BY <1>1 DEF Motors!CallOf, Motors!Call
  <1> QED
    BY <1>2 DEF ln

LEMMA ServedStep ==
  ASSUME Input!TypeOK, LineInv, StageInv, ServedAsTyped, [Next]_vars
  PROVE  ServedAsTyped'
  <1>1. CASE UNCHANGED <<stage, typed, phase, job>>
    BY <1>1, Zenon DEF ServedAsTyped
  <1>2. CASE stage' # "loop" \/ phase' = "idle"
    BY <1>2, Zenon DEF ServedAsTyped
  <1>3. CASE ServeLine
    <2>1. /\ phase = "idle" /\ typed' = typed /\ Input!EndLine
          /\ IF Input!MakesCall(buffer)
               THEN Motors!Dispatch(Input!LineOf(buffer))
               ELSE phase' = phase
      BY <1>3, Zenon DEF ServeLine, AtPrompt, Input!EndLine, motorVars
    <2>2. CASE ~Input!MakesCall(buffer)
      BY <1>2, <2>1, <2>2
    <2>3. CASE Input!MakesCall(buffer)
      <3>1. job' = Motors!CallOf(Input!LineOf(buffer))
        BY <2>1, <2>3, Zenon DEF Motors!Dispatch
      <3>2. Fits => buffer = typed
        BY <2>1, LineEnds
      <3> QED
        BY <2>1, <2>3, <3>1, <3>2 DEF ServedAsTyped, Fits
    <2> QED
      BY <2>2, <2>3
  <1>4. CASE ServeMotors
    <2>1. /\ stage = "loop" /\ stage' = stage /\ typed' = typed
          /\ Motors!Foreground \/ Motors!Spin
      BY <1>4, Zenon DEF ServeMotors, inputVars
    <2>2. \/ phase # "idle" /\ job' = job
          \/ phase # "idle" /\ job.fn = "motorDriverInit"
      BY <2>1, Zenon
         DEF Motors!Foreground, Motors!I2C_DisableAllChannels,
             Motors!SelectInvalid, Motors!SelectCached, Motors!SelectNew,
             Motors!WriteReg, Motors!ReadReg, Motors!NextInit,
             Motors!Return, Motors!Spin, Motors!vars
    <2>3. CASE Fits
      <3>1. /\ Input!MakesCall(typed)
            /\ job = Motors!CallOf(Input!LineOf(typed))
        BY <2>1, <2>2, <2>3 DEF ServedAsTyped, Fits
      <3>2. job' = job
        BY <2>2, <3>1, LineFn
      <3> QED
        BY <2>1, <3>1, <3>2 DEF ServedAsTyped
    <2>4. CASE ~Fits
      BY <2>1, <2>4 DEF ServedAsTyped, Fits
    <2> QED
      BY <2>3, <2>4
  <1>5. CASE HostOpens
    BY <1>2, <1>5 DEF HostOpens
  <1>6. CASE MotorSetup \/ EncoderSetup \/ BatterySetup
    <2>1. stage' # "loop"
      BY <1>6
         DEF MotorSetup, EncoderSetup, BatterySetup, SetupStep, Following
    <2> QED
      BY <1>2, <2>1
  <1>7. CASE PrechargeSetup
    <2>1. stage = "precharge" /\ phase' = phase
      BY <1>7, Zenon DEF PrechargeSetup, SetupStep, motorVars
    <2>2. phase' = "idle"
      BY <2>1 DEF StageInv
    <2> QED
      BY <1>2, <2>2
  <1>8. CASE ReadInput \/ OperatorTypes
    <2>1. phase' = "idle"
      BY <1>8, Zenon DEF ReadInput, OperatorTypes, AtPrompt, motorVars
    <2> QED
      BY <1>2, <2>1
  <1>9. CASE CallEncoders \/ ServeEncoders \/ CallPower \/ ServePower
               \/ ShaftTurns \/ LoadDrains \/ UNCHANGED vars
    <2>1. UNCHANGED <<stage, typed, phase, job>>
      <3>1. CASE CallEncoders \/ ServeEncoders \/ CallPower \/ ServePower
        BY <3>1, Zenon
           DEF CallEncoders, ServeEncoders, CallPower, ServePower,
               inputVars, motorVars
      <3>2. CASE ShaftTurns
        BY <3>2, Zenon DEF ShaftTurns, inputVars, motorVars
      <3>3. CASE LoadDrains
        BY <3>3, Zenon
           DEF LoadDrains, Switches!Drain, inputVars, motorVars
      <3>4. CASE UNCHANGED vars
        BY <3>4, Zenon DEF vars, inputVars, motorVars
      <3> QED
        BY <1>9, <3>1, <3>2, <3>3, <3>4
    <2> QED
      BY <1>1, <2>1
  <1>10. CASE Restart
    BY <1>2, <1>10 DEF Restart
  <1> QED
    BY <1>3, <1>4, <1>5, <1>6, <1>7, <1>8, <1>9, <1>10, Zenon
       DEF Next, Setup

(* In loop() the call being served is the one of the line that was typed,  *)
(* if the line fits inputBuffer and makes one: no words of another line,   *)
(* of one interrupted by a restart or of one still coming in.              *)
THEOREM CallsAreTyped == Spec => []ServedAsTyped
  <1> DEFINE Inv == stage \in Stages /\ Input!TypeOK /\ LineInv
                      /\ StageInv /\ ServedAsTyped
  <1>1. Init => Inv
    BY InputTypeInit, LineInit, StageInit
       DEF Init, Stages, ServedAsTyped
  <1>2. Inv /\ [Next]_vars => Inv'
    BY StageStep, InputSteps, InputTypeStep, LineStep, StageInvStep,
       ServedStep
  <1> QED
    BY <1>1, <1>2, PTL DEF Spec
=============================================================================
