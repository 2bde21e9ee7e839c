----------------------------- MODULE MCFirmware -----------------------------
(***************************************************************************)
(* Instances of Firmware: what the operator types, and the chips as they   *)
(* power up.                                                               *)
(***************************************************************************)
EXTENDS Firmware

LOCAL D == INSTANCE MotorDriver
ThePowerOn ==
  [r \in D!Regs |-> IF r \in {D!PWM0, D!PWM1} THEN 128 ELSE 0]

TheBmsPowerOn ==
  [r \in {1, 2} \cup (4 .. 30) \cup (32 .. 36) \cup {42, 43, 47} |-> 0]

TheNvm == [r \in (4 .. 30) \cup {42, 43, 47} |-> 1]

Verb(text, len) == [text |-> text, val |-> 0, len |-> len]
Num(val, len) == [text |-> "number", val |-> val, len |-> len]

(* A move at a channel that is too large for its type and a speed that is  *)
(* negative, and with the multiplexer's address as the chip's; a line of   *)
(* 36 characters, whose last number loses five digits; and no command.     *)
MoveWide == << Verb("move", 4), Num(256, 3), Num(112, 3), Num(-172, 4),
               Num(0, 1) >>
Long == << Verb("setspeeds", 9), Num(7, 1), Num(96, 2), Num(100, 10),
           Num(200, 10) >>
NoCommand == << Verb("other", 5), Num(7, 1) >>

TheTypedLines == {MoveWide, Long, NoCommand}

ThePowerCalls ==
  { [fn |-> "precharge", arg |-> 1], [fn |-> "setDSG", arg |-> 0],
    [fn |-> "setCHG", arg |-> 1] }
TheEncCalls == {[fn |-> "readEncoderPosition", channel |-> 15]}
NoCalls == {}
=============================================================================
