----------------------------- MODULE MCMotorBus -----------------------------
(***************************************************************************)
(* Instances of MotorBus: what the operator types, and the LP3943 as it    *)
(* powers up (both PWM registers at half, every output selector at 00).    *)
(***************************************************************************)
EXTENDS MotorBus

ThePowerOn == [r \in Regs |-> IF r \in {PWM0, PWM1} THEN 128 ELSE 0]

Typed(verb, channel, addr, a, b) ==
  [verb |-> verb, channel |-> channel, addr |-> addr, a |-> a, b |-> b]

Bare(verb) == Typed(verb, 0, 0, 0, 0)

(* Lines the board can serve.  Speed 300 does not fit a uint8_t; channel 3 *)
(* has no driver.                                                          *)
ValidLines ==
  { Typed("move", 0, 96, 300, 1), Typed("move", 7, 96, 10, 0),
    Typed("defaultmove", 0, 96, 2, 0), Typed("setspeeds", 7, 96, 40, 300),
    Typed("stop", 0, 96, 0, 0), Typed("stop", 3, 96, 0, 0),
    Bare("a"), Bare("b"), Bare("c"), Bare("d") }

(* With a channel and a chip that do not exist.                            *)
MixedLines ==
  { Typed("move", 0, 96, 200, 1), Typed("defaultmove", 7, 96, 2, 1),
    Typed("defaultmove", 9, 96, 1, 0), Typed("stop", 7, 33, 0, 0),
    Bare("c"), Bare("d") }

InvalidChannelLines == {Typed("move", 9, 96, 100, 1)}
ReadLines == {Bare("d")}
=============================================================================
