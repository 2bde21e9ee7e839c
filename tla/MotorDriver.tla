---------------------------- MODULE MotorDriver ----------------------------
(***************************************************************************)
(* The LP3943 motor-driver interface of MotorDriver_LP3943.cpp, as pure    *)
(* data: which call a console line becomes, and which registers that call  *)
(* writes, in which order.  How the writes travel over the bus is the      *)
(* subject of MotorBus; what they promise is the subject of Actuators.     *)
(*                                                                         *)
(* An LP3943 output is steered by two bits of a selector register; as the  *)
(* comments of the source have it, 00 is on, 01 is off, 10 follows PWM0    *)
(* and 11 follows PWM1.  LS1 holds the four outputs of one bridge: two     *)
(* direction inputs (bits 1:0 and 3:2), a third line moving with the first *)
(* (bits 5:4) and the speed line (bits 7:6).                               *)
(***************************************************************************)
EXTENDS Integers, Sequences

DefaultAddr == 96      \* MOTOR_DRIVER_DEFAULT_ADDRESS, 0x60
MuxAddr     == 112     \* I2C_MUX_ADDRESS, 0x70

PSC0 == 2
PWM0 == 3
PSC1 == 4
PWM1 == 5
LS1  == 7
LS2  == 8
Regs == {PSC0, PWM0, PSC1, PWM1, LS1, LS2}
Byte == 0 .. 255
Channels == 0 .. 7     \* of the PCA9548A multiplexer

U8Kept(n) == n         \* mutant: the argument stays an int

(* int to uint8_t, which every argument of the driver functions undergoes. *)
U8(n) == n % 256

-----------------------------------------------------------------------------
(* Console lines, parsed: a verb and up to four integers.                  *)

Verbs == {"move", "stop", "defaultmove", "setspeeds", "a", "b", "c", "d"}
Line  == [verb : Verbs, channel : Int, addr : Int, a : Int, b : Int]

(* One call of a driver function.  asked is the mux channel as typed (and  *)
(* as echoed to the operator), channel the uint8_t the function receives.  *)
Functions == {"variableMotionControl", "motorDriverStop",
              "defaultMotionControl", "setMotionControl",
              "motorDriverRegControl", "motorDriverInit",
              "readCurrentEstimate", "readLimitTriggers"}
Calls == [fn : Functions, asked : Int, channel : Byte, addr : Byte,
          p : Byte, q : Byte]

Call(fn, asked, addr, p, q) ==
  [fn |-> fn, asked |-> asked, channel |-> U8(asked), addr |-> U8(addr),
   p |-> U8(p), q |-> U8(q)]

Flag(i) == IF i # 0 THEN 1 ELSE 0

(* The if-else chain of loop(): the call a recognised line makes.          *)
CallOf(l) ==
  CASE l.verb = "move" ->
         Call("variableMotionControl", l.channel, l.addr, l.a, Flag(l.b))
    [] l.verb = "stop" ->
         Call("motorDriverStop", l.channel, l.addr, 0, 0)
    [] l.verb = "defaultmove" ->
         Call("defaultMotionControl", l.channel, l.addr, l.a, Flag(l.b))
    [] l.verb = "setspeeds" ->
         Call("setMotionControl", l.channel, l.addr, l.a, l.b)
    [] l.verb = "a" -> Call("motorDriverRegControl", 7, DefaultAddr, 0, 0)
    [] l.verb = "b" -> Call("motorDriverRegControl", 7, DefaultAddr, 0, 1)
    [] l.verb = "c" -> Call("readCurrentEstimate", 7, DefaultAddr, 0, 0)
    [] l.verb = "d" -> Call("readLimitTriggers", 7, DefaultAddr, 0, 0)

(* setup() initialises the drivers of channels 0 to 7 in turn.             *)
InitCall(c) == Call("motorDriverInit", c, DefaultAddr, 0, 0)

-----------------------------------------------------------------------------
(* The register writes of each function, in program order.                 *)

Wr(r, v) == [reg |-> r, val |-> v]
RegWrite == [reg : Regs, val : Byte]

StopCode == 85                                       \* 0x55: all four off

(* The selector of the speed line for each level of defaultmove.           *)
SpeedBits(level) ==
  CASE level = 3 -> 0
    [] level = 2 -> 192
    [] level = 1 -> 128
    [] level \notin {1, 2, 3} -> 64

DirectionCodeBoth(forward) == IF forward = 1 THEN 0 ELSE 17  \* mutant

DirectionCode(forward) == IF forward = 1 THEN 4 ELSE 17

(* mutant: the last register of the initialisation is left out.            *)
motorDriverInitShort == << Wr(PSC0, 0), Wr(PWM0, 128), Wr(PSC1, 0) >>

motorDriverInit ==
  << Wr(PSC0, 0), Wr(PWM0, 128), Wr(PSC1, 0), Wr(LS1, StopCode) >>

motorDriverRegControl(enable) ==
  IF enable = 1 THEN << Wr(LS2, 21), Wr(LS2, 5) >> ELSE << Wr(LS2, 0) >>

variableMotionControl(speed, direction) ==
  << Wr(PWM1, 255 - speed),
     Wr(LS1, IF direction = 1 THEN 196 ELSE 209) >>

setMotionControl(speedOne, speedTwo) ==
  << Wr(PWM0, 255 - speedOne), Wr(PWM1, 255 - speedTwo) >>

(* The two masks share no bit, so their bitwise or is their sum.           *)
defaultMotionControl(level, direction) ==
  << Wr(LS1, SpeedBits(level) + DirectionCode(direction)) >>

motorDriverStop == << Wr(LS1, StopCode) >>

Writes(k) ==
  CASE k.fn = "variableMotionControl" -> variableMotionControl(k.p, k.q)
    [] k.fn = "motorDriverStop"       -> motorDriverStop
    [] k.fn = "defaultMotionControl"  -> defaultMotionControl(k.p, k.q)
    [] k.fn = "setMotionControl"      -> setMotionControl(k.p, k.q)
    [] k.fn = "motorDriverRegControl" -> motorDriverRegControl(k.q)
    [] k.fn = "motorDriverInit"       -> motorDriverInit
    [] k.fn \in {"readCurrentEstimate", "readLimitTriggers"} -> << >>

(* The two functions that end in a blocking register read (I2C_RD).        *)
Reads(k) == k.fn \in {"readCurrentEstimate", "readLimitTriggers"}
=============================================================================
