--------------------------- MODULE MotorBusNominal ---------------------------
(***************************************************************************)
(* Theorems about MotorBus when no transaction is lost and the board can   *)
(* serve the lines (Nominal): the program implements Actuators.            *)
(***************************************************************************)
EXTENDS MotorBusProofs

-----------------------------------------------------------------------------
(* The inductive invariant: between the selection and the last write of a  *)
(* call, the channel asked for is the one recorded, and the one recorded   *)
(* is the one connected.                                                   *)

ServableJob ==
  /\ OnWire(job.addr) = DefaultAddr
  /\ job.asked \in Channels
  /\ job.channel = job.asked

PhaseInv ==
  /\ phase = "disable" => currentChannel = -1
  /\ phase \in {"disable", "select"} => n = 0
  /\ phase = "access" => currentChannel = job.channel

NominalInv == MuxFollowsShadow /\ ServableJob /\ PhaseInv

(* Narrowing changes no channel that the multiplexer has.                  *)
LEMMA NarrowChannel == ASSUME NEW c \in Channels PROVE U8(c) = c
  BY DEF Channels, U8

(* What setup() and, under Nominal, the console ask for can be served.     *)
LEMMA InitServable ==
  ASSUME NEW c \in Channels
  PROVE  /\ OnWire(InitCall(c).addr) = DefaultAddr
         /\ InitCall(c).asked = c
         /\ InitCall(c).channel = c
  BY NarrowChannel DEF InitCall, Call, OnWire, U8, DefaultAddr

LEMMA LineServable ==
  ASSUME Nominal, NEW l \in Lines
  PROVE  /\ OnWire(CallOf(l).addr) = DefaultAddr
         /\ CallOf(l).asked \in Channels
         /\ CallOf(l).channel = CallOf(l).asked
  <1>1. l \in Line
    BY LinesAssumption
  <1>2. CallOf(l).channel = U8(CallOf(l).asked)
    <2>1. l.verb \in Verbs
      BY <1>1 DEF Line
    <2> QED
      BY <2>1 DEF CallOf, Call, Verbs
  <1> QED
    BY <1>2, NarrowChannel DEF Nominal

LEMMA NextInitChannel ==
  ASSUME TypeOK, NominalInv, NextInit
  PROVE  job.asked + 1 \in Channels
  BY ChannelRange, CallChannel DEF TypeOK, NominalInv, ServableJob, NextInit

LEMMA ZeroChannel == 0 \in Channels
  BY DEF Channels

LEMMA NominalStep ==
  ASSUME Nominal, TypeOK, NominalInv, [Next]_vars
  PROVE  NominalInv'
  <1> USE DEF NominalInv, ServableJob
  <1>1. ASSUME NEW ok \in Outcomes, I2C_DisableAllChannels(ok)
        PROVE  NominalInv'
    <2>1. ok = TRUE
      BY DEF Nominal, Outcomes
    <2>2. mux' = {} /\ currentChannel' = -1
      BY <1>1, <2>1, NoBit DEF I2C_DisableAllChannels, I2C_WR1
    <2> QED
      BY <1>1, <2>2
         DEF MuxFollowsShadow, PhaseInv, I2C_DisableAllChannels
  <1>2. CASE SelectInvalid
    BY <1>2, ChannelRange, CallChannel DEF TypeOK, SelectInvalid
  <1>3. CASE SelectCached
    BY <1>3 DEF MuxFollowsShadow, PhaseInv, SelectCached
  <1>4. ASSUME NEW ok \in Outcomes, SelectNew(ok) PROVE NominalInv'
    <2>1. ok = TRUE
      BY DEF Nominal, Outcomes
    <2>2. mux' = {job.channel} /\ currentChannel' = job.channel
      BY <1>4, <2>1, OneBit DEF SelectNew, I2C_WR1
    <2>3. job.channel # -1
      BY CallChannel DEF TypeOK
    <2> QED
      BY <1>4, <2>2, <2>3 DEF MuxFollowsShadow, PhaseInv, SelectNew
  <1>5. ASSUME NEW ok \in Outcomes, WriteReg(ok) PROVE NominalInv'
    <2>1. mux' = mux
      BY <1>5 DEF WriteReg, I2C_WR2, MuxAddr, DefaultAddr
    <2> QED
      BY <1>5, <2>1 DEF MuxFollowsShadow, PhaseInv, WriteReg
  <1>6. ASSUME NEW ok \in Outcomes, ReadReg(ok) PROVE NominalInv'
    BY <1>6 DEF MuxFollowsShadow, PhaseInv, ReadReg
  <1>7. CASE NextInit
    <2>1. job.asked + 1 \in Channels
      BY <1>7, NextInitChannel
    <2>2. ServableJob'
      BY <1>7, <2>1, InitServable DEF NextInit
    <2> QED
      BY <1>7, <2>2 DEF MuxFollowsShadow, PhaseInv, NextInit
  <1>8. CASE Return
    BY <1>8 DEF MuxFollowsShadow, PhaseInv, Return
  <1>9. ASSUME NEW l \in Lines, Dispatch(l) PROVE NominalInv'
    BY <1>9, LineServable DEF MuxFollowsShadow, PhaseInv, Dispatch
  <1>10. CASE Restart
    BY <1>10, ZeroChannel, InitServable DEF MuxFollowsShadow, PhaseInv, Restart
  <1>11. CASE UNCHANGED vars
    BY <1>11 DEF MuxFollowsShadow, PhaseInv, vars
  <1> QED
    BY <1>1, <1>2, <1>3, <1>4, <1>5, <1>6, <1>7, <1>8, <1>9, <1>10, <1>11
       DEF Next, Foreground, Spin

LEMMA NominalInit == Init => NominalInv
  BY ZeroChannel, InitServable
     DEF Init, NominalInv, ServableJob, MuxFollowsShadow, PhaseInv

(* Under Nominal the invariant holds throughout.                           *)
LEMMA NominalInvariant ==
  ASSUME Nominal
  PROVE  Spec => [](TypeOK /\ NominalInv)
  <1>1. TypeOK /\ NominalInv /\ [Next]_vars => NominalInv'
    BY NominalStep
  <1> QED
    BY <1>1, NominalInit, TypeCorrect, PTL DEF Spec

(* The record of the active channel is always what the multiplexer         *)
(* connects, through every line and every restart.                         *)
THEOREM ShadowIsTruth ==
  ASSUME Nominal
  PROVE  Spec => []MuxFollowsShadow
  <1>1. NominalInv => MuxFollowsShadow
    BY DEF NominalInv
  <1> QED
    BY <1>1, NominalInvariant, PTL

-----------------------------------------------------------------------------
(* Where a register write goes.                                            *)

(* It changes the driver asked for, by that write, and no other.           *)
LEMMA WriteLands ==
  ASSUME Nominal, TypeOK, NominalInv, NEW ok \in Outcomes, WriteReg(ok)
  PROVE  regs' = [d \in Drivers |->
                    IF d = job.asked
                      THEN [regs[d] EXCEPT ![Writes(job)[n + 1].reg] =
                                             Writes(job)[n + 1].val]
                      ELSE regs[d]]
  <1>1. ok = TRUE
    BY DEF Nominal, Outcomes
  <1>2. mux = {job.asked}
    <2>1. job.channel # -1
      BY CallChannel DEF TypeOK
    <2> QED
      BY <2>1 DEF NominalInv, MuxFollowsShadow, ServableJob, PhaseInv, WriteReg
  <1> QED
    BY <1>1, <1>2 DEF NominalInv, ServableJob, WriteReg, I2C_WR2

(* A register changes by the next write of the call, on the driver it      *)
(* names, or with the power.                                               *)
LEMMA AskedWrites ==
  ASSUME Nominal, TypeOK, NominalInv, [Next]_vars,
         phase' # "disable" \/ resets' = resets
  PROVE  \A d \in Drivers :
           regs'[d] # regs[d] =>
             /\ phase # "idle" /\ d = job.asked
             /\ n + 1 \in 1 .. Len(Writes(job))
             /\ regs'[d] = [regs[d] EXCEPT ![Writes(job)[n + 1].reg] =
                                             Writes(job)[n + 1].val]
  <1>1. ASSUME NEW ok \in Outcomes, WriteReg(ok)
        PROVE  \A d \in Drivers :
                 regs'[d] # regs[d] =>
                   /\ phase # "idle" /\ d = job.asked
                   /\ n + 1 \in 1 .. Len(Writes(job))
                   /\ regs'[d] = [regs[d] EXCEPT ![Writes(job)[n + 1].reg] =
                                                   Writes(job)[n + 1].val]
    <2>1. phase = "access" /\ n \in Nat /\ n < Len(Writes(job))
      BY <1>1 DEF WriteReg, TypeOK
    <2>2. Len(Writes(job)) \in Nat
      BY WritesType DEF TypeOK
    <2>3. n + 1 \in 1 .. Len(Writes(job))
      BY <2>1, <2>2
    <2> QED
      BY <1>1, <2>1, <2>3, WriteLands
  <1>2. CASE Restart
    BY <1>2, MaxResetsAssumption DEF Restart, TypeOK
  <1>3. CASE UNCHANGED regs
    BY <1>3
  <1> QED
    BY <1>1, <1>2, <1>3
       DEF Next, Foreground, I2C_DisableAllChannels, SelectInvalid,
           SelectCached, SelectNew, ReadReg, NextInit, Return, Dispatch,
           Spin, vars

(* The driver of the channel the operator typed is the only one a call     *)
(* changes.                                                                *)
THEOREM OnlyTheAskedDriver ==
  ASSUME Nominal
  PROVE  Spec => ServedChannelOnly
  <1>1. ASSUME TypeOK, NominalInv, [Next]_vars
        PROVE  [phase' # "disable" =>
                  \A d \in Drivers : regs'[d] # regs[d] => d = job.asked]_vars
    BY <1>1, AskedWrites
  <1> QED
    BY <1>1, NominalInvariant, PTL DEF Spec, ServedChannelOnly

-----------------------------------------------------------------------------
(* What a call has written is there.                                       *)

LEMMA JobEffectStep ==
  ASSUME Nominal, TypeOK, NominalInv, JobEffect, [Next]_vars
  PROVE  JobEffect'
  <1>1. ASSUME NEW ok \in Outcomes, WriteReg(ok) PROVE JobEffect'
    <2> DEFINE W == Writes(job)
    <2> DEFINE ch == job.channel
    <2>1. /\ job' = job /\ n' = n + 1 /\ n \in Nat
          /\ n < Len(W) /\ Len(W) \in Nat
      BY <1>1, WritesType DEF WriteReg, TypeOK
    <2>2. SUFFICES ASSUME ch \in Drivers, NEW i \in 1 .. n + 1,
                          \A j \in i + 1 .. n + 1 : W[j].reg # W[i].reg
                   PROVE  regs'[ch][W[i].reg] = W[i].val
      BY <2>1 DEF JobEffect
    <2>3. regs'[ch] = [regs[ch] EXCEPT ![W[n + 1].reg] = W[n + 1].val]
      BY <1>1, <2>2, WriteLands DEF NominalInv, ServableJob
    <2>4. W[i] \in RegWrite /\ regs[ch] \in [Regs -> Byte]
      <3>1. i \in 1 .. Len(W)
        BY <2>1, <2>2
      <3> QED
        BY <2>2, <3>1, WritesType DEF TypeOK
    <2>5. CASE i = n + 1
      BY <2>3, <2>4, <2>5 DEF RegWrite
    <2>6. CASE i # n + 1
      <3>1. i \in 1 .. n /\ n + 1 \in i + 1 .. n + 1
        BY <2>1, <2>2, <2>6
      <3>2. W[n + 1].reg # W[i].reg
        BY <2>2, <3>1
      <3>3. \A j \in i + 1 .. n : W[j].reg # W[i].reg
        BY <2>1, <2>2
      <3>4. regs[ch][W[i].reg] = W[i].val
        BY <2>2, <3>1, <3>3 DEF JobEffect
      <3> QED
        BY <2>3, <2>4, <3>2, <3>4 DEF RegWrite
    <2> QED
      BY <2>5, <2>6
  <1>2. CASE n' = 0
    BY <1>2 DEF JobEffect
  <1>3. CASE UNCHANGED <<job, n, regs>>
    BY <1>3 DEF JobEffect
  <1> QED
    BY <1>1, <1>2, <1>3
       DEF Next, Foreground, I2C_DisableAllChannels, SelectInvalid,
           SelectCached, SelectNew, ReadReg, NextInit, Return, Dispatch,
           Restart, Spin, vars

LEMMA JobEffectInit == Init => JobEffect
  BY DEF Init, JobEffect

(* When a line the board can serve has been served, its registers hold     *)
(* what it wrote: the message echoed after the call tells the truth.       *)
THEOREM EchoIsTrue ==
  ASSUME Nominal
  PROVE  Spec => []JobEffect
  <1>1. TypeOK /\ NominalInv /\ JobEffect /\ [Next]_vars => JobEffect'
    BY JobEffectStep
  <1> QED
    BY <1>1, JobEffectInit, NominalInvariant, PTL DEF Spec

-----------------------------------------------------------------------------
(* The refinement: the bus program implements the promise of Actuators.    *)

(* The instance has a copy of the driver calls: they are the same.         *)
LEMMA SameWrites == ASSUME NEW k PROVE Abs!Writes(k) = Writes(k)
  BY Zenon
     DEF Writes, variableMotionControl, motorDriverStop, defaultMotionControl,
         setMotionControl, motorDriverRegControl, motorDriverInit, SpeedBits,
         DirectionCode, Wr, StopCode, PSC0, PWM0, PSC1, PWM1, LS1, LS2,
         Abs!Writes, Abs!variableMotionControl, Abs!motorDriverStop,
         Abs!defaultMotionControl, Abs!setMotionControl,
         Abs!motorDriverRegControl, Abs!motorDriverInit, Abs!SpeedBits,
         Abs!DirectionCode, Abs!Wr, Abs!StopCode, Abs!PSC0, Abs!PWM0,
         Abs!PSC1, Abs!PWM1, Abs!LS1, Abs!LS2

LEMMA SameCallOf == ASSUME NEW l PROVE Abs!CallOf(l) = CallOf(l)
  BY Zenon DEF CallOf, Call, U8, Flag, DefaultAddr, Abs!CallOf, Abs!Call,
               Abs!U8, Abs!Flag, Abs!DefaultAddr

LEMMA SameInitCall == ASSUME NEW c PROVE Abs!InitCall(c) = InitCall(c)
  BY Zenon DEF InitCall, Call, U8, DefaultAddr, Abs!InitCall, Abs!Call,
               Abs!U8, Abs!DefaultAddr

LEMMA SimulationInit == Init => Abs!Init
  BY SameInitCall DEF Init, Abs!Init

LEMMA Simulation ==
  ASSUME Nominal, TypeOK, NominalInv, [Next]_vars
  PROVE  [Abs!Next]_(Abs!vars)
  <1>1. ASSUME NEW ok \in Outcomes, WriteReg(ok) PROVE Abs!Apply
    <2>1. /\ phase = "access" /\ phase' = "access"
          /\ n < Len(Writes(job)) /\ n' = n + 1 /\ job' = job
      BY <1>1 DEF WriteReg
    <2> QED
      BY <1>1, <2>1, WriteLands, SameWrites DEF Abs!Apply
  <1>2. ASSUME NEW ok \in Outcomes, ReadReg(ok) PROVE [Abs!Finish]_(Abs!vars)
    <2>1. Writes(job) = << >> /\ job.fn # "motorDriverInit"
      BY <1>2 DEF ReadReg, Reads, Writes
    <2>2. n = 0 /\ Len(Writes(job)) = 0
      BY <2>1 DEF TypeOK
    <2>3. /\ phase = "access" /\ phase' \in {"idle", "spin"}
          /\ UNCHANGED <<job, n, regs>>
      BY <1>2 DEF ReadReg
    <2>4. CASE phase' = "idle"
      BY <2>1, <2>2, <2>3, <2>4, SameWrites DEF Abs!Finish
    <2>5. CASE phase' = "spin"
      BY <2>3, <2>5 DEF Abs!vars
    <2> QED
      BY <2>3, <2>4, <2>5
  <1>3. ASSUME NextInit PROVE Abs!Finish
    <2>1. /\ phase = "access" /\ phase' = "select" /\ n = Len(Writes(job))
          /\ job.fn = "motorDriverInit" /\ job.asked < 7
          /\ job' = InitCall(job.asked + 1) /\ n' = 0 /\ UNCHANGED regs
      BY <1>3 DEF NextInit
    <2> QED
      BY <2>1, SameWrites, SameInitCall DEF Abs!Finish
  <1>4. ASSUME Return PROVE Abs!Finish
    <2>1. /\ phase = "access" /\ phase' = "idle" /\ n = Len(Writes(job))
          /\ job.fn = "motorDriverInit" => job.asked = 7
          /\ UNCHANGED <<job, n, regs>>
      BY <1>4 DEF Return
    <2> QED
      BY <2>1, SameWrites DEF Abs!Finish
  <1>5. ASSUME NEW l \in Lines, Dispatch(l) PROVE Abs!Accept(l)
    BY <1>5, SameCallOf DEF Dispatch, Abs!Accept
  <1>6. ASSUME Restart PROVE Abs!Restart
    <2>1. /\ phase' = "disable" /\ job' = InitCall(0) /\ n' = 0
          /\ UNCHANGED regs \/ regs' = [d \in Drivers |-> PowerOn]
      BY <1>6 DEF Restart
    <2> QED
      BY <2>1, SameInitCall DEF Abs!Restart
  <1>7. CASE /\ UNCHANGED <<job, n, regs>>
             /\ phase' = "idle" <=> phase = "idle"
    BY <1>7 DEF Abs!vars
  <1> QED
    BY <1>1, <1>2, <1>3, <1>4, <1>5, <1>6, <1>7
       DEF Next, Foreground, I2C_DisableAllChannels, SelectInvalid,
           SelectCached, SelectNew, Spin, vars, Abs!Next

(* With lines the board can serve and no lost transaction, the multiplexer *)
(* and the cached channel are invisible: each call writes its registers,   *)
(* in order, on the driver it names.                                       *)
THEOREM BusImplementsActuators ==
  ASSUME Nominal
  PROVE  Spec => ImplementsActuators
  <1>1. TypeOK /\ NominalInv /\ [Next]_vars => [Abs!Next]_(Abs!vars)
    BY Simulation
  <1> QED
    BY <1>1, SimulationInit, NominalInvariant, PTL
       DEF Spec, ImplementsActuators, Abs!Spec
=============================================================================
