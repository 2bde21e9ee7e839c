--------------------------- MODULE MotorBusProofs ---------------------------
(***************************************************************************)
(* Theorems about MotorBus, for every set of drivers, every set of console *)
(* lines, every power-up state and any number of restarts.                 *)
(***************************************************************************)
EXTENDS MotorBus, TLAPS

-----------------------------------------------------------------------------
(* Facts about the driver calls.                                           *)

(* Narrowing to uint8_t yields a byte.                                     *)
LEMMA U8Type == ASSUME NEW i \in Int PROVE U8(i) \in Byte
  BY DEF U8, Byte

(* Every call built from integers is a call of the right type.             *)
LEMMA CallType ==
  ASSUME NEW fn \in Functions, NEW asked \in Int, NEW addr \in Int,
         NEW p \in Int, NEW q \in Int
  PROVE  Call(fn, asked, addr, p, q) \in Calls
  BY U8Type DEF Call, Calls

(* The dispatch of loop() makes a well-typed call of every console line.   *)
LEMMA CallOfType == ASSUME NEW l \in Line PROVE CallOf(l) \in Calls
  <1>1. /\ l.verb \in Verbs /\ l.channel \in Int /\ l.addr \in Int
        /\ l.a \in Int /\ l.b \in Int /\ Flag(l.b) \in Int
    BY DEF Line, Flag
  <1>2. DefaultAddr \in Int
    BY DEF DefaultAddr
  <1>3. CASE l.verb = "move"
    BY <1>1, <1>3, CallType DEF CallOf, Functions
  <1>z. 0 \in Int /\ 1 \in Int /\ 7 \in Int
    OBVIOUS
  <1>4. CASE l.verb = "stop"
    <2>1. CallOf(l) = Call("motorDriverStop", l.channel, l.addr, 0, 0)
      BY <1>4 DEF CallOf
    <2> QED
      BY <1>1, <1>z, <2>1, CallType DEF Functions
  <1>5. CASE l.verb = "defaultmove"
    BY <1>1, <1>5, CallType DEF CallOf, Functions
  <1>6. CASE l.verb = "setspeeds"
    BY <1>1, <1>6, CallType DEF CallOf, Functions
  <1>7. CASE l.verb = "a"
    <2>1. CallOf(l) = Call("motorDriverRegControl", 7, DefaultAddr, 0, 0)
      BY <1>7 DEF CallOf
    <2> QED
      BY <1>2, <1>z, <2>1, CallType DEF Functions
  <1>8. CASE l.verb = "b"
    <2>1. CallOf(l) = Call("motorDriverRegControl", 7, DefaultAddr, 0, 1)
      BY <1>8 DEF CallOf
    <2> QED
      BY <1>2, <1>z, <2>1, CallType DEF Functions
  <1>9. CASE l.verb = "c"
    <2>1. CallOf(l) = Call("readCurrentEstimate", 7, DefaultAddr, 0, 0)
      BY <1>9 DEF CallOf
    <2> QED
      BY <1>2, <1>z, <2>1, CallType DEF Functions
  <1>10. CASE l.verb = "d"
    <2>1. CallOf(l) = Call("readLimitTriggers", 7, DefaultAddr, 0, 0)
      BY <1>10 DEF CallOf
    <2> QED
      BY <1>2, <1>z, <2>1, CallType DEF Functions
  <1> QED
    BY <1>1, <1>3, <1>4, <1>5, <1>6, <1>7, <1>8, <1>9, <1>10 DEF Verbs

(* So does setup(), and its calls keep the number they are given.          *)
LEMMA InitCallType ==
  ASSUME NEW c \in 0 .. 7
  PROVE  /\ InitCall(c) \in Calls
         /\ InitCall(c).fn = "motorDriverInit"
         /\ InitCall(c).asked = c
         /\ InitCall(c).channel = c
         /\ InitCall(c).addr = DefaultAddr
  <1>1. InitCall(c) \in Calls
    BY CallType DEF InitCall, DefaultAddr, Functions
  <1>2. U8(c) = c /\ U8(DefaultAddr) = DefaultAddr
    BY DEF U8, DefaultAddr
  <1> QED
    BY <1>1, <1>2 DEF InitCall, Call

(* A call's writes are bytes for the six registers the program uses.       *)
LEMMA WritesType == ASSUME NEW k \in Calls PROVE Writes(k) \in Seq(RegWrite)
  <1>1. k.fn \in Functions /\ k.p \in Byte /\ k.q \in Byte
    BY DEF Calls
  <1>2. 255 - k.p \in Byte /\ 255 - k.q \in Byte
    BY <1>1 DEF Byte
  <1>3. SpeedBits(k.p) + DirectionCode(k.q) \in Byte
    BY <1>1 DEF SpeedBits, DirectionCode, Byte
  <1>4. CASE k.fn = "variableMotionControl"
    BY <1>2, <1>4 DEF Writes, variableMotionControl, Wr, RegWrite, Regs, Byte
  <1>5. CASE k.fn = "motorDriverStop"
    BY <1>5 DEF Writes, motorDriverStop, Wr, RegWrite, Regs, Byte, StopCode
  <1>6. CASE k.fn = "defaultMotionControl"
    BY <1>3, <1>6 DEF Writes, defaultMotionControl, Wr, RegWrite, Regs
  <1>7. CASE k.fn = "setMotionControl"
    BY <1>2, <1>7 DEF Writes, setMotionControl, Wr, RegWrite, Regs
  <1>8. CASE k.fn = "motorDriverRegControl"
    <2>1. \A v \in {0, 5, 21} : Wr(LS2, v) \in RegWrite
      BY DEF Wr, RegWrite, Regs, Byte
    <2>2. Writes(k) = motorDriverRegControl(k.q)
      BY <1>8 DEF Writes
    <2> QED
      BY <2>1, <2>2 DEF motorDriverRegControl
  <1>9. CASE k.fn = "motorDriverInit"
    BY <1>9 DEF Writes, motorDriverInit, Wr, RegWrite, Regs, Byte, StopCode,
                PSC0, PWM0, PSC1, LS1
  <1>10. CASE k.fn \in {"readCurrentEstimate", "readLimitTriggers"}
    BY <1>10 DEF Writes
  <1> QED
    BY <1>1, <1>4, <1>5, <1>6, <1>7, <1>8, <1>9, <1>10 DEF Functions

(* A control byte names channels of the multiplexer only.                  *)
LEMMA BitsType == ASSUME NEW b PROVE Bits(b) \subseteq Channels
  BY DEF Bits

(* What the provers need to know of bytes and channels.                    *)
LEMMA ByteRange ==
  ASSUME NEW b \in Byte
  PROVE  b \in Int /\ 0 <= b /\ b <= 255
  BY DEF Byte

LEMMA ChannelRange ==
  ASSUME NEW c \in Int
  PROVE  c \in Channels <=> 0 <= c /\ c <= 7
  BY DEF Channels

(* A call's channel is one of the multiplexer's when it passes the test.   *)
LEMMA CallChannel ==
  ASSUME NEW k \in Calls
  PROVE  /\ k.channel \in Int /\ k.asked \in Int /\ k.channel >= 0
         /\ k.channel <= 7 => k.channel \in Channels
  BY ByteRange, ChannelRange DEF Calls

(* The next write of an unfinished call exists and is well-typed.          *)
LEMMA NextWriteType ==
  ASSUME NEW k \in Calls, NEW i \in 0 .. Len(Writes(k)), i < Len(Writes(k))
  PROVE  /\ Writes(k)[i + 1] \in RegWrite
         /\ i + 1 \in 0 .. Len(Writes(k))
  BY WritesType

-----------------------------------------------------------------------------
(* Type correctness.                                                       *)

(* The type invariant is inductive as it stands.                           *)
LEMMA TypeStep == TypeOK /\ [Next]_vars => TypeOK'
  <1> SUFFICES ASSUME TypeOK, [Next]_vars PROVE TypeOK'
    OBVIOUS
  <1>t. /\ InitCall(0) \in Calls
        /\ \A k \in Calls : Len(Writes(k)) \in Nat
    BY InitCallType, WritesType
  <1>1. ASSUME NEW ok \in Outcomes, I2C_DisableAllChannels(ok) PROVE TypeOK'
    BY <1>1, BitsType DEF TypeOK, I2C_DisableAllChannels, I2C_WR1, Phases
  <1>2. CASE SelectInvalid
    BY <1>2 DEF TypeOK, SelectInvalid, Phases
  <1>3. CASE SelectCached
    BY <1>3 DEF TypeOK, SelectCached, Phases
  <1>4. ASSUME NEW ok \in Outcomes, SelectNew(ok) PROVE TypeOK'
    <2>1. job.channel \in Channels
      BY <1>4, CallChannel DEF TypeOK, SelectNew
    <2> QED
      BY <1>4, <2>1, BitsType DEF TypeOK, SelectNew, I2C_WR1, Phases
  <1>5. ASSUME NEW ok \in Outcomes, WriteReg(ok) PROVE TypeOK'
    <2>1. Writes(job)[n + 1] \in RegWrite /\ n + 1 \in 0 .. Len(Writes(job))
      BY <1>5, NextWriteType DEF TypeOK, WriteReg
    <2>2. regs' \in [Drivers -> [Regs -> Byte]]
      BY <1>5, <2>1 DEF TypeOK, WriteReg, I2C_WR2, RegWrite
    <2>3. mux' \subseteq Channels
      BY <1>5, BitsType DEF TypeOK, WriteReg, I2C_WR2
    <2> QED
      BY <1>5, <2>1, <2>2, <2>3 DEF TypeOK, WriteReg
  <1>6. ASSUME NEW ok \in Outcomes, ReadReg(ok) PROVE TypeOK'
    BY <1>6 DEF TypeOK, ReadReg, Phases
  <1>7. CASE NextInit
    <2>1. job.asked + 1 \in Int /\ 0 \in Int /\ DefaultAddr \in Int
      BY CallChannel DEF TypeOK, DefaultAddr
    <2>2. job' \in Calls
      BY <1>7, <2>1, CallType DEF NextInit, InitCall, Functions
    <2> QED
      BY <1>7, <1>t, <2>2 DEF TypeOK, NextInit, Phases
  <1>8. CASE Return
    BY <1>8 DEF TypeOK, Return, Phases
  <1>9. CASE Spin
    BY <1>9 DEF TypeOK, Spin, vars
  <1>10. ASSUME NEW l \in Lines, Dispatch(l) PROVE TypeOK'
    <2>1. CallOf(l) \in Calls
      BY LinesAssumption, CallOfType
    <2> QED
      BY <1>10, <1>t, <2>1 DEF TypeOK, Dispatch, Phases
  <1>11. CASE Restart
    BY <1>11, <1>t, PowerOnAssumption, MaxResetsAssumption
       DEF TypeOK, Restart, Phases
  <1>12. CASE UNCHANGED vars
    BY <1>12 DEF TypeOK, vars
  <1> QED
    BY <1>1, <1>2, <1>3, <1>4, <1>5, <1>6, <1>7, <1>8, <1>9, <1>10, <1>11,
       <1>12 DEF Next, Foreground

LEMMA TypeInit == Init => TypeOK
  <1>1. InitCall(0) \in Calls /\ Len(Writes(InitCall(0))) \in Nat
    BY InitCallType, WritesType
  <1> QED
    BY <1>1, PowerOnAssumption, MaxResetsAssumption DEF Init, TypeOK, Phases

(* Whatever is typed, lost or restarted, every argument stays a byte, the  *)
(* channel record stays -1 or a channel, and registers hold bytes.         *)
THEOREM TypeCorrect == Spec => []TypeOK
  BY TypeInit, TypeStep, PTL DEF Spec

-----------------------------------------------------------------------------
(* Facts about the multiplexer.                                            *)

(* A control byte with one bit set names the channel it was made for, and  *)
(* a zero byte none.                                                       *)
LEMMA OneBit == ASSUME NEW c \in Channels PROVE Bits(ControlByte(c)) = {c}
  <1>1. Channels = {0, 1, 2, 3, 4, 5, 6, 7}
    BY DEF Channels
  <1>2. /\ ControlByte(0) = 1 /\ ControlByte(1) = 2
        /\ ControlByte(2) = 4 /\ ControlByte(3) = 8
        /\ ControlByte(4) = 16 /\ ControlByte(5) = 32
        /\ ControlByte(6) = 64 /\ ControlByte(7) = 128
    BY DEF ControlByte
  <1>3. ASSUME NEW b \in Channels
        PROVE  (ControlByte(c) \div ControlByte(b)) % 2 = 1 <=> b = c
    BY <1>1, <1>2
  <1> QED
    BY <1>3 DEF Bits

LEMMA NoBit == Bits(0) = {}
  <1>1. Channels = {0, 1, 2, 3, 4, 5, 6, 7}
    BY DEF Channels
  <1>2. ASSUME NEW c \in Channels PROVE (0 \div ControlByte(c)) % 2 = 0
    BY <1>1 DEF ControlByte
  <1> QED
    BY <1>2 DEF Bits

-----------------------------------------------------------------------------
(* One driver on the bus at a time, as long as nobody types the address of *)
(* the multiplexer itself.                                                 *)

NoMuxLine == \A l \in Lines : OnWire(CallOf(l).addr) # MuxAddr

(* AtMostOneChannel alone is not inductive: a call addressed to the        *)
(* multiplexer would break it with its next register write.                *)
OneChannelInv == AtMostOneChannel /\ OnWire(job.addr) # MuxAddr

(* The calls of setup() address the drivers.                               *)
LEMMA InitCallAddr ==
  ASSUME NEW c PROVE InitCall(c).addr = DefaultAddr /\ OnWire(DefaultAddr) = 96
  BY DEF InitCall, Call, U8, DefaultAddr, OnWire

LEMMA OneChannelStep ==
  ASSUME NoMuxLine, TypeOK, OneChannelInv, [Next]_vars
  PROVE  OneChannelInv'
  <1>a. \A c : OnWire(InitCall(c).addr) # MuxAddr
    BY InitCallAddr DEF MuxAddr
  <1>1. ASSUME NEW ok \in Outcomes, I2C_DisableAllChannels(ok)
        PROVE  OneChannelInv'
    BY <1>1, NoBit
       DEF OneChannelInv, AtMostOneChannel, I2C_DisableAllChannels, I2C_WR1
  <1>2. ASSUME NEW ok \in Outcomes, SelectNew(ok) PROVE OneChannelInv'
    <2>1. job.channel \in Channels
      BY <1>2, CallChannel DEF TypeOK, SelectNew
    <2>2. mux' = {job.channel} \/ mux' = mux
      BY <1>2, <2>1, OneBit DEF SelectNew, I2C_WR1
    <2> QED
      BY <1>2, <2>2 DEF OneChannelInv, AtMostOneChannel, SelectNew
  <1>3. ASSUME NEW ok \in Outcomes, WriteReg(ok) PROVE OneChannelInv'
    BY <1>3 DEF OneChannelInv, AtMostOneChannel, WriteReg, I2C_WR2
  <1>4. CASE NextInit
    BY <1>4, <1>a DEF OneChannelInv, AtMostOneChannel, NextInit
  <1>5. ASSUME NEW l \in Lines, Dispatch(l) PROVE OneChannelInv'
    BY <1>5 DEF NoMuxLine, OneChannelInv, AtMostOneChannel, Dispatch
  <1>6. CASE Restart
    BY <1>6, <1>a DEF OneChannelInv, AtMostOneChannel, Restart
  <1>7. CASE UNCHANGED <<job, mux>>
    BY <1>7 DEF OneChannelInv, AtMostOneChannel
  <1> QED
    BY <1>1, <1>2, <1>3, <1>4, <1>5, <1>6, <1>7
       DEF Next, Foreground, SelectInvalid, SelectCached, ReadReg, Return,
           Spin, vars

(* However many selections are lost, and whatever channels are typed, the  *)
(* multiplexer never joins two drivers: the bound of one is only lost to a *)
(* line that gives the multiplexer's address as the chip's.                *)
THEOREM OneChannelAtATime ==
  ASSUME NoMuxLine
  PROVE  Spec => []AtMostOneChannel
  <1>1. Init => OneChannelInv
    BY InitCallAddr DEF Init, OneChannelInv, AtMostOneChannel, MuxAddr
  <1>2. TypeOK /\ OneChannelInv /\ [Next]_vars => OneChannelInv'
    BY OneChannelStep
  <1>3. OneChannelInv => AtMostOneChannel
    BY DEF OneChannelInv
  <1> QED
    BY <1>1, <1>2, <1>3, TypeCorrect, PTL DEF Spec

-----------------------------------------------------------------------------
(* The two halves of a bridge are never switched on together.              *)

(* No call writes LS1 with both direction inputs on.                       *)
LEMMA NoCallTurnsBothOn ==
  ASSUME NEW k \in Calls, NEW i \in 1 .. Len(Writes(k)),
         Writes(k)[i].reg = LS1
  PROVE  ~BothOn(Writes(k)[i].val)
  <1>1. k.fn \in Functions
    BY DEF Calls
  <1>2. CASE k.fn = "variableMotionControl"
    BY <1>2 DEF Writes, variableMotionControl, Wr, BothOn, PWM1, LS1
  <1>3. CASE k.fn = "motorDriverStop"
    BY <1>3 DEF Writes, motorDriverStop, Wr, BothOn, StopCode
  <1>4. CASE k.fn = "defaultMotionControl"
    <2>1. /\ SpeedBits(k.p) \in {0, 64, 128, 192}
          /\ DirectionCode(k.q) \in {4, 17}
      BY DEF SpeedBits, DirectionCode
    <2>2. \A s \in {0, 64, 128, 192}, d \in {4, 17} : ~BothOn(s + d)
      BY DEF BothOn
    <2>3. Writes(k)[i].val = SpeedBits(k.p) + DirectionCode(k.q)
      BY <1>4 DEF Writes, defaultMotionControl, Wr
    <2> QED
      BY <2>1, <2>2, <2>3
  <1>5. CASE k.fn = "setMotionControl"
    BY <1>5 DEF Writes, setMotionControl, Wr, PWM0, PWM1, LS1
  <1>6. CASE k.fn = "motorDriverRegControl"
    BY <1>6 DEF Writes, motorDriverRegControl, Wr, LS1, LS2
  <1>7. CASE k.fn = "motorDriverInit"
    BY <1>7 DEF Writes, motorDriverInit, Wr, BothOn, StopCode, PSC0, PWM0,
                PSC1, LS1
  <1>8. CASE k.fn \in {"readCurrentEstimate", "readLimitTriggers"}
    BY <1>8 DEF Writes
  <1> QED
    BY <1>1, <1>2, <1>3, <1>4, <1>5, <1>6, <1>7, <1>8 DEF Functions

LEMMA NeverBothStep ==
  ASSUME TypeOK, NeverBothDirections, [Next]_vars
  PROVE  NeverBothDirections'
  <1>1. ASSUME NEW ok \in Outcomes, WriteReg(ok) PROVE NeverBothDirections'
    <2> DEFINE w == Writes(job)[n + 1]
    <2>1. w \in RegWrite /\ n + 1 \in 1 .. Len(Writes(job))
      BY <1>1, NextWriteType, WritesType DEF TypeOK, WriteReg
    <2>2. w.reg = LS1 => ~BothOn(w.val)
      BY <2>1, NoCallTurnsBothOn DEF TypeOK
    <2>3. SUFFICES ASSUME NEW d \in Drivers
                   PROVE  \/ regs'[d][LS1] = PowerOn[LS1]
                          \/ ~BothOn(regs'[d][LS1])
      BY DEF NeverBothDirections
    <2>4. \/ regs'[d] = regs[d]
          \/ regs'[d] = [regs[d] EXCEPT ![w.reg] = w.val]
      BY <1>1 DEF WriteReg, I2C_WR2
    <2>5. regs'[d][LS1] = regs[d][LS1] \/ (w.reg = LS1 /\ regs'[d][LS1] = w.val)
      <3>1. regs[d] \in [Regs -> Byte] /\ LS1 \in Regs
        BY DEF TypeOK, Regs
      <3> QED
        BY <2>4, <3>1
    <2> QED
      BY <2>2, <2>5 DEF NeverBothDirections
  <1>2. CASE Restart
    BY <1>2 DEF Restart, NeverBothDirections
  <1>3. CASE UNCHANGED regs
    BY <1>3 DEF NeverBothDirections
  <1> QED
    BY <1>1, <1>2, <1>3
       DEF Next, Foreground, I2C_DisableAllChannels, SelectInvalid,
           SelectCached, SelectNew, ReadReg, NextInit, Return, Dispatch,
           Spin, vars

LEMMA NeverBothInit == Init => NeverBothDirections
  BY DEF Init, NeverBothDirections

(* No sequence of lines, lost writes and restarts leaves a driver with     *)
(* both direction inputs on: every intermediate register content is safe.  *)
THEOREM BridgeNeverShorted == Spec => []NeverBothDirections
  <1>1. TypeOK /\ NeverBothDirections /\ [Next]_vars => NeverBothDirections'
    BY NeverBothStep
  <1> QED
    BY <1>1, NeverBothInit, TypeCorrect, PTL DEF Spec

-----------------------------------------------------------------------------
(* setup().  Lines that name the multiplexer as the chip, or channels that *)
(* do not exist, can leave the multiplexer connecting any set of channels, *)
(* and a restart can come at any point; the next completed setup() still   *)
(* leaves every driver stopped.                                            *)

(* The inductive invariant: while setup() works its way up the channels,   *)
(* the record of the multiplexer is right and the drivers passed already   *)
(* are stopped.                                                            *)

InitJob ==
  /\ job.addr = DefaultAddr
  /\ job.asked \in Channels
  /\ job.channel = job.asked

InitPhase ==
  /\ phase \in {"disable", "select"} => n = 0
  /\ phase = "disable" => job.asked = 0
  /\ phase \in {"access", "idle"} => currentChannel = job.asked
  /\ phase # "spin"
  /\ phase = "idle" => job.asked = 7 /\ n = 4

PassedStopped ==
  \A d \in Drivers :
    d < job.asked \/ (d = job.asked /\ n = 4) => regs[d][LS1] = StopCode

SetupInv ==
  job.fn = "motorDriverInit" =>
    MuxFollowsShadow /\ InitJob /\ InitPhase /\ PassedStopped

-----------------------------------------------------------------------------
(* The console never calls motorDriverInit.                                *)
LEMMA LineNotInit ==
  ASSUME NEW l \in Lines
  PROVE  CallOf(l).fn # "motorDriverInit"
  <1>1. l.verb \in Verbs
    BY LinesAssumption DEF Line
  <1> QED
    BY <1>1 DEF CallOf, Call, Verbs

LEMMA InitWrites ==
  ASSUME job.fn = "motorDriverInit"
  PROVE  /\ Len(Writes(job)) = 4
         /\ Writes(job)[4].reg = LS1 /\ Writes(job)[4].val = StopCode
  BY DEF Writes, motorDriverInit, Wr

(* setup()'s first call satisfies what the invariant asks of calls.        *)
LEMMA SetupBegins ==
  ASSUME NEW c \in Channels
  PROVE  /\ InitCall(c).fn = "motorDriverInit"
         /\ InitCall(c).addr = DefaultAddr
         /\ InitCall(c).asked = c /\ InitCall(c).channel = c
  <1>1. U8(c) = c /\ U8(DefaultAddr) = DefaultAddr
    BY DEF Channels, U8, DefaultAddr
  <1> QED
    BY <1>1 DEF InitCall, Call

LEMMA SetupStep ==
  ASSUME ~Lossy, TypeOK, SetupInv, [Next]_vars
  PROVE  SetupInv'
  <1> USE DEF SetupInv, InitJob
  <1>1. ASSUME NEW ok \in Outcomes, I2C_DisableAllChannels(ok) PROVE SetupInv'
    <2>1. mux' = {} /\ currentChannel' = -1
      <3>1. ok = TRUE
        BY DEF Outcomes
      <3> QED
        BY <1>1, <3>1, NoBit DEF I2C_DisableAllChannels, I2C_WR1
    <2> QED
      BY <1>1, <2>1 DEF MuxFollowsShadow, InitPhase, PassedStopped,
                        I2C_DisableAllChannels
  <1>2. CASE SelectInvalid
    BY <1>2, ChannelRange, CallChannel DEF TypeOK, SelectInvalid
  <1>3. CASE SelectCached
    BY <1>3 DEF MuxFollowsShadow, InitPhase, PassedStopped, SelectCached
  <1>4. ASSUME NEW ok \in Outcomes, SelectNew(ok) PROVE SetupInv'
    <2>1. mux' = {job.channel} /\ currentChannel' = job.channel
      <3>1. ok = TRUE
        BY DEF Outcomes
      <3>2. job.channel \in Channels
        BY <1>4, CallChannel DEF TypeOK, SelectNew
      <3> QED
        BY <1>4, <3>1, <3>2, OneBit DEF SelectNew, I2C_WR1
    <2>2. job.channel # -1
      BY CallChannel DEF TypeOK
    <2> QED
      BY <1>4, <2>1, <2>2 DEF MuxFollowsShadow, InitPhase, PassedStopped,
                              SelectNew
  <1>5. ASSUME NEW ok \in Outcomes, WriteReg(ok) PROVE SetupInv'
    <2> SUFFICES ASSUME job.fn = "motorDriverInit" PROVE SetupInv'
      BY <1>5 DEF WriteReg
    <2>1. /\ phase = "access" /\ phase' = "access" /\ n' = n + 1 /\ n < 4
          /\ job' = job /\ currentChannel' = currentChannel /\ n \in Nat
      <3>1. Len(Writes(job)) = 4
        BY InitWrites
      <3>2. n \in 0 .. 4 /\ n < 4
        BY <1>5, <3>1 DEF WriteReg, TypeOK
      <3>3. phase = "access" /\ UNCHANGED <<phase, job, currentChannel>>
        BY <1>5 DEF WriteReg
      <3>4. n' = n + 1
        BY <1>5 DEF WriteReg
      <3> QED
        BY <3>2, <3>3, <3>4
    <2>2. mux = {job.asked}
      <3>1. job.channel # -1
        BY CallChannel DEF TypeOK
      <3> QED
        BY <2>1, <3>1 DEF MuxFollowsShadow, InitPhase
    <2>3. mux' = mux
      BY <1>5 DEF WriteReg, I2C_WR2, OnWire, DefaultAddr, MuxAddr
    <2>4. ASSUME NEW d \in Drivers, d # job.asked PROVE regs'[d] = regs[d]
      BY <1>5, <2>2, <2>4 DEF WriteReg, I2C_WR2
    <2>5. ASSUME job.asked \in Drivers, n = 3
          PROVE  regs'[job.asked][LS1] = StopCode
      <3>1. ok = TRUE /\ OnWire(job.addr) = DefaultAddr
        BY DEF Outcomes, OnWire, DefaultAddr
      <3>2. regs'[job.asked] = [regs[job.asked] EXCEPT ![LS1] = StopCode]
        BY <1>5, <2>2, <2>5, <3>1, InitWrites DEF WriteReg, I2C_WR2
      <3>3. regs[job.asked] \in [Regs -> Byte] /\ LS1 \in Regs
        BY <2>5 DEF TypeOK, Regs
      <3> QED
        BY <3>2, <3>3
    <2>6. PassedStopped'
      <3> SUFFICES ASSUME NEW d \in Drivers,
                          d < job.asked \/ (d = job.asked /\ n + 1 = 4)
                   PROVE  regs'[d][LS1] = StopCode
        BY <2>1 DEF PassedStopped
      <3>1. CASE d < job.asked
        <4>1. d \in Int /\ job.asked \in Int
          BY DriversAssumption DEF Channels
        <4> QED
          BY <2>4, <3>1, <4>1 DEF PassedStopped
      <3>2. CASE d = job.asked /\ n + 1 = 4
        BY <2>1, <2>5, <3>2
      <3> QED
        BY <3>1, <3>2
    <2> QED
      BY <2>1, <2>3, <2>6 DEF MuxFollowsShadow, InitPhase
  <1>6. ASSUME NEW ok \in Outcomes, ReadReg(ok) PROVE SetupInv'
    BY <1>6 DEF ReadReg, Reads
  <1>7. CASE NextInit
    <2>1. job.asked \in Int /\ n = 4 /\ job.fn = "motorDriverInit"
      BY <1>7, CallChannel, InitWrites DEF NextInit, TypeOK
    <2>2. job.asked + 1 \in Channels
      BY <1>7, <2>1, ChannelRange DEF NextInit
    <2>3. InitJob' /\ job'.asked = job.asked + 1
      BY <1>7, <2>2, SetupBegins DEF NextInit
    <2>4. PassedStopped'
      <3>1. Drivers \subseteq Int
        BY DriversAssumption DEF Channels
      <3> QED
        BY <1>7, <2>1, <2>3, <3>1 DEF PassedStopped, NextInit
    <2> QED
      BY <1>7, <2>1, <2>3, <2>4 DEF MuxFollowsShadow, InitPhase, NextInit
  <1>8. CASE Return
    BY <1>8, InitWrites DEF MuxFollowsShadow, InitPhase, PassedStopped, Return
  <1>9. ASSUME NEW l \in Lines, Dispatch(l) PROVE SetupInv'
    BY <1>9, LineNotInit DEF Dispatch
  <1>10. CASE Restart
    <2>1. 0 \in Channels /\ \A d \in Drivers : d \in Int /\ ~(d < 0)
      BY DriversAssumption DEF Channels
    <2>2. InitJob' /\ job'.asked = 0 /\ n' = 0
      BY <1>10, <2>1, SetupBegins DEF Restart
    <2>3. PassedStopped'
      BY <2>1, <2>2 DEF PassedStopped
    <2> QED
      BY <1>10, <2>2, <2>3 DEF MuxFollowsShadow, InitPhase, Restart
  <1>11. CASE UNCHANGED vars
    BY <1>11 DEF MuxFollowsShadow, InitPhase, PassedStopped, vars
  <1> QED
    BY <1>1, <1>2, <1>3, <1>4, <1>5, <1>6, <1>7, <1>8, <1>9, <1>10, <1>11
       DEF Next, Foreground, Spin

LEMMA SetupInit == Init => SetupInv
  <1>1. 0 \in Channels /\ \A d \in Drivers : d \in Int /\ ~(d < 0)
    BY DriversAssumption DEF Channels
  <1> QED
    BY <1>1, SetupBegins DEF Init, SetupInv, InitJob, MuxFollowsShadow,
                             InitPhase, PassedStopped

LEMMA SetupEnds == SetupInv => SetupRestoresBoard
  <1> SUFFICES ASSUME SetupInv, phase = "idle", job.fn = "motorDriverInit"
               PROVE  SetupRestoresBoard
    BY DEF SetupRestoresBoard
  <1>1. job.asked = 7 /\ n = 4 /\ currentChannel = 7 /\ mux = {7}
    BY DEF SetupInv, InitPhase, MuxFollowsShadow
  <1>2. \A d \in Drivers : d < 7 \/ d = 7
    BY DriversAssumption DEF Channels
  <1> QED
    BY <1>1, <1>2 DEF SetupInv, PassedStopped, SetupRestoresBoard

(* With no transaction lost, a completed setup() leaves every fitted       *)
(* driver stopped and channel 7 selected, whatever the operator typed and  *)
(* whenever the restarts came.                                             *)
THEOREM SetupStopsEveryDriver ==
  ASSUME ~Lossy
  PROVE  Spec => []SetupRestoresBoard
  <1>1. TypeOK /\ SetupInv /\ [Next]_vars => SetupInv'
    BY SetupStep
  <1> QED
    BY <1>1, SetupInit, SetupEnds, TypeCorrect, PTL DEF Spec
=============================================================================
