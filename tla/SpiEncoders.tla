----------------------------- MODULE SpiEncoders -----------------------------
(***************************************************************************)
(* The rotary encoders of SPI_NCDR_FCT.cpp behind the chip-select          *)
(* multiplexer of SPI_MUX.cpp.  Four pins carry a channel number; STROBE   *)
(* lets it into a latch, and while INHIBIT is low the latch selects one of *)
(* sixteen encoders.  A step is one change of a pin, one exchange on the   *)
(* bus, or the wait for an encoder that reboots.  Shafts turn all the time.*)
(*                                                                         *)
(* A position counts modulo FullTurn (4096).  An encoder keeps its zero;   *)
(* the program makes its own by remembering what it read when it reset the *)
(* encoder, in memory that a restart of the controller clears.             *)
(***************************************************************************)
EXTENDS Integers

CONSTANTS
  FullTurn,    \* positions of a full turn
  Fitted,      \* channels at which an encoder is fitted
  NoAnswer,    \* the word read when no encoder drives the line
  EncCalls,    \* calls that may follow setup(); none as shipped
  MaxResets    \* bound on the restarts of the controller

Channels == 0 .. 15
EncFns == {"resetEncoder", "readEncoderPosition", "readTurns"}
EncCall(fn, c) == [fn |-> fn, channel |-> c]
FullTurns == 1 .. 4096         \* twelve bits of position
UINT16_MAX == 65535
SpiWords == 0 .. UINT16_MAX    \* two bytes of an exchange

ASSUME FullTurnAssumption == FullTurn \in FullTurns
ASSUME FittedAssumption == Fitted \subseteq Channels
ASSUME NoAnswerAssumption == NoAnswer \in SpiWords
ASSUME MaxResetsAssumption == MaxResets \in Nat

(* Only readTurns leaves offsets alone, which has sixteen entries.         *)
ASSUME EncCallsAssumption ==
  \A k \in EncCalls :
    /\ k \in [fn : EncFns, channel : 0 .. 255]
    /\ k.channel > 15 => k.fn = "readTurns"

VARIABLES
  boot,          \* how many encoders setup() has begun to reset
  step,          \* where the call being served is
  call,          \* the call being served, or the last one
  again,         \* in resetEncoder: whether this is the second exchange
  csPins,        \* MUX_channel, which is also what the four pins show
  latch,         \* the channel in the latch
  inhibit,       \* the INHIBIT pin: no output is selected
  position,      \* the local variable: what the last exchange brought
  offsets,       \* the zero of each channel
  shaft,         \* the angle of each encoder's shaft
  rebooting,     \* encoders that do not answer yet
  travel,        \* how far each shaft has turned from where its zero was read
  seen,          \* travel at the last exchange
  restarts       \* restarts so far

shafts == <<shaft, travel>>
vars == <<boot, step, call, again, csPins, latch, inhibit, position, offsets,
          rebooting, seen, restarts, shafts>>

Angles == 0 .. FullTurn - 1
Positions == 0 .. 4095         \* twelve bits

(* A sum of two angles, as an angle.                                       *)
Around(n) == IF n < FullTurn THEN n ELSE n - FullTurn

Steps == {"idle", "select", "strobe", "enable", "exchange", "disable", "wait",
          "finish"}

(* What the hardware can be in before setup(): any angle, nothing zeroed.  *)
Init ==
  /\ boot = 0
  /\ step = "idle"
  /\ call = EncCall("resetEncoder", 0)
  /\ again = FALSE
  /\ csPins = 0 /\ latch = 0 /\ inhibit = TRUE
  /\ position = 0
  /\ offsets = [c \in Channels |-> 0]
  /\ shaft \in [Fitted -> Angles]
  /\ rebooting = {}
  /\ travel = shaft
  /\ seen = 0
  /\ restarts = 0

(* A shaft turns by one position.                                          *)
Rotate(c) ==
  /\ shaft' = [shaft EXCEPT ![c] = Around(@ + 1)]
  /\ travel' = [travel EXCEPT ![c] = Around(@ + 1)]
  /\ UNCHANGED <<boot, step, call, again, csPins, latch, inhibit, position,
                 offsets, rebooting, seen, restarts>>

-----------------------------------------------------------------------------
(* The calls.                                                              *)

(* setup() resets the sixteen channels in turn; later code may call more.  *)
Begin(k) ==
  /\ step = "idle"
  /\ IF boot < 16 THEN k = EncCall("resetEncoder", boot) ELSE k \in EncCalls
  /\ boot' = IF boot < 16 THEN boot + 1 ELSE boot
  /\ call' = k
  /\ again' = FALSE
  /\ step' = "select"
  /\ UNCHANGED <<csPins, latch, inhibit, position, offsets, rebooting, seen,
                 restarts, shafts>>

(* SPI_CS_MUX: a channel over 15 is refused, and nobody is told.           *)
SPI_CS_MUX ==
  /\ step = "select"
  /\ csPins' = IF call.channel > 15 THEN csPins ELSE call.channel
  /\ step' = "strobe"
  /\ UNCHANGED <<boot, call, again, latch, inhibit, position, offsets,
                 rebooting, seen, restarts, shafts>>

(* mutant: STROBE does not reach the latch.                                *)
StrobeDead ==
  /\ step = "strobe"
  /\ step' = "enable"
  /\ UNCHANGED <<boot, call, again, csPins, latch, inhibit, position,
                 offsets, rebooting, seen, restarts, shafts>>

(* STROBE high and low again: the pins are latched.                        *)
Strobe ==
  /\ step = "strobe"
  /\ latch' = csPins
  /\ step' = "enable"
  /\ UNCHANGED <<boot, call, again, csPins, inhibit, position, offsets,
                 rebooting, seen, restarts, shafts>>

(* INHIBIT low: the outputs follow the latch.                              *)
Enable ==
  /\ step = "enable"
  /\ inhibit' = FALSE
  /\ step' = "exchange"
  /\ UNCHANGED <<boot, call, again, csPins, latch, position, offsets,
                 rebooting, seen, restarts, shafts>>

(* The sixteen bits of an answer: two check bits, the position, two more.  *)
Answer(c, check, low) == check * 16384 + 4 * shaft[c] + low

SelectedAnswers == ~inhibit /\ latch \in Fitted \ rebooting

ReadWordUnmasked(word) == word \div 4      \* mutant: the mask is left out

ReadWord(word) == (word \div 4) % 4096

ZeroRead == call.fn = "resetEncoder" /\ again

(* The bytes of the call go out and an answer comes in.  The first exchange*)
(* of resetEncoder reboots the encoder, the second reads its zero.         *)
Exchange(check, low) ==
  /\ step = "exchange"
  /\ LET word == IF SelectedAnswers THEN Answer(latch, check, low)
                                    ELSE NoAnswer
     IN  position' = ReadWord(word)
  /\ rebooting' =
       IF SelectedAnswers /\ call.fn = "resetEncoder" /\ ~again
         THEN rebooting \cup {latch} ELSE rebooting
  /\ seen' = IF call.channel \in Fitted THEN travel[call.channel] ELSE 0
  /\ travel' = [c \in Fitted |->
                  IF ZeroRead /\ c = call.channel THEN 0 ELSE travel[c]]
  /\ step' = "disable"
  /\ UNCHANGED <<boot, call, again, csPins, latch, inhibit, offsets, shaft,
                 restarts>>

(* DEACTIVATE_MUX: INHIBIT high.                                           *)
DEACTIVATE_MUX ==
  /\ step = "disable"
  /\ inhibit' = TRUE
  /\ step' = IF call.fn = "resetEncoder" /\ ~again THEN "wait" ELSE "finish"
  /\ UNCHANGED <<boot, call, again, csPins, latch, position, offsets,
                 rebooting, seen, restarts, shafts>>

(* mutant: the zero is read while the encoder still reboots.               *)
WaitForRebootTooShort ==
  /\ step = "wait"
  /\ offsets' = [offsets EXCEPT ![call.channel] = 0]
  /\ again' = TRUE
  /\ step' = "select"
  /\ UNCHANGED <<boot, call, csPins, latch, inhibit, position, rebooting,
                 seen, restarts, shafts>>

(* resetEncoder clears the offset and waits 200 ms, taken to be enough for *)
(* an encoder to be back: a slower one would have its next answer stored   *)
(* as its zero, whatever that is.                                          *)
WaitForReboot ==
  /\ step = "wait"
  /\ offsets' = [offsets EXCEPT ![call.channel] = 0]
  /\ rebooting' = {}
  /\ again' = TRUE
  /\ step' = "select"
  /\ UNCHANGED <<boot, call, csPins, latch, inhibit, position, seen, restarts,
                 shafts>>

(* mutant: no wrap-around; the difference of two uint16_t.                 *)
RelativeUnwrapped(p, offset) == (p - offset) % 65536

(* The position from the offset, around the end of the turn.               *)
Relative(p, offset) ==
  IF p >= offset THEN p - offset ELSE (FullTurn + p) - offset

(* The call returns; a reset has stored its zero.                          *)
Finish ==
  /\ step = "finish"
  /\ offsets' = IF call.fn = "resetEncoder"
                  THEN [offsets EXCEPT ![call.channel] = position]
                  ELSE offsets
  /\ step' = "idle"
  /\ UNCHANGED <<boot, call, again, csPins, latch, inhibit, position,
                 rebooting, seen, restarts, shafts>>

(* The controller starts again: pins and memory are set anew, the latch    *)
(* and the shafts are as they were, and encoders have rebooted long before *)
(* setup() comes to them.                                                  *)
Restart ==
  /\ restarts < MaxResets
  /\ restarts' = restarts + 1
  /\ boot' = 0
  /\ step' = "idle"
  /\ call' = EncCall("resetEncoder", 0)
  /\ again' = FALSE
  /\ csPins' = 0 /\ inhibit' = TRUE
  /\ position' = 0 /\ seen' = 0
  /\ offsets' = [c \in Channels |-> 0]
  /\ rebooting' = {}
  /\ travel' = shaft
  /\ UNCHANGED <<latch, shaft>>

Booted == boot = 16 /\ step = "idle"

(* A call goes on by itself, and setup() to the next one.                  *)
Foreground ==
  \/ boot < 16 /\ Begin(EncCall("resetEncoder", boot))
  \/ SPI_CS_MUX
  \/ Strobe
  \/ Enable
  \/ \E check, low \in {0, 3} : Exchange(check, low)
  \/ DEACTIVATE_MUX
  \/ WaitForReboot
  \/ Finish

Next ==
  \/ Foreground
  \/ boot = 16 /\ \E k \in EncCalls : Begin(k)
  \/ \E c \in Fitted : Rotate(c)
  \/ Restart

Spec == Init /\ [][Next]_vars

-----------------------------------------------------------------------------
(* Properties.                                                             *)

(* Every value fits its type; above all, the offsets of all channels and   *)
(* what was read last are positions, so that their difference is one.      *)
TypeOK ==
  /\ boot \in 0 .. 16
  /\ step \in Steps
  /\ call \in [fn : EncFns, channel : 0 .. 255]
  /\ call.channel > 15 => call.fn = "readTurns"
  /\ again \in BOOLEAN
  /\ csPins \in Channels /\ latch \in Channels
  /\ inhibit \in BOOLEAN
  /\ position \in Positions
  /\ offsets \in [Channels -> Positions]
  /\ shaft \in [Fitted -> Angles] /\ travel \in [Fitted -> Angles]
  /\ rebooting \subseteq Fitted
  /\ seen \in Angles
  /\ restarts \in 0 .. MaxResets

(* While an encoder is selected it is the one of the call being served, if *)
(* the call's channel exists: whatever an earlier call, one with a bad     *)
(* channel or a restart in the middle of one left in the latch.            *)
SelectedIsServed == ~inhibit /\ call.channel \in Channels => latch = call.channel

(* What readEncoderPosition returns is how far the shaft has turned since  *)
(* its encoder was last reset, or its angle if it has not been since the   *)
(* start: the offset is that channel's own, read after the reboot, and the *)
(* subtraction goes around the end of the turn.                            *)
PositionIsTravel ==
  step = "finish" /\ call.fn = "readEncoderPosition" /\ call.channel \in Fitted
    => Relative(position, offsets[call.channel]) = seen

(* Once setup() is through with an encoder, its offset is where the shaft  *)
(* was when it had rebooted; angle and offset account for all its travel,  *)
(* through any number of calls, for other channels too.                    *)
OffsetsAccount ==
  step = "idle" =>
    \A c \in Fitted : shaft[c] = Around(offsets[c] + travel[c])
=============================================================================
