-------------------------- MODULE SpiEncodersProofs --------------------------
(***************************************************************************)
(* Theorems about SpiEncoders, for every resolution, any set of encoders   *)
(* and calls, and any number of restarts.                                  *)
(***************************************************************************)
EXTENDS SpiEncoders, TLAPS

(* What an encoder puts on the line is the angle of its shaft, whatever    *)
(* the bits around it.                                                     *)
LEMMA ReadWordAnswer ==
  ASSUME NEW c, shaft[c] \in Positions,
         NEW check \in {0, 3}, NEW low \in {0, 3}
  PROVE  ReadWord(Answer(c, check, low)) = shaft[c]
  <1>1. PICK a \in Positions : a = shaft[c]
    OBVIOUS
  <1>2. Answer(c, check, low) = check * 16384 + 4 * a + low
    BY <1>1, SMT DEF Answer
  <1>3. PICK word \in Nat : word = check * 16384 + 4 * a + low
    BY DEF Positions
  <1>4. ReadWord(word) = a
    <2>1. CASE check = 0
      BY <1>3, <2>1 DEF ReadWord, Positions
    <2>2. CASE check = 3
      BY <1>3, <2>2 DEF ReadWord, Positions
    <2> QED
      BY <2>1, <2>2
  <1>5. word = Answer(c, check, low)
    BY <1>2, <1>3
  <1> QED
    BY <1>1, <1>4, <1>5

LEMMA ReadWordType == ASSUME NEW w \in Nat PROVE ReadWord(w) \in Positions
  BY DEF ReadWord, Positions

LEMMA AnglesFit == 0 \in Angles /\ Angles \subseteq Positions
  BY FullTurnAssumption DEF FullTurns, Angles, Positions

LEMMA ZeroPosition == 0 \in Positions
  BY DEF Positions

LEMMA AroundType ==
  ASSUME NEW a \in Angles
  PROVE  Around(a + 1) \in Angles
  BY FullTurnAssumption DEF FullTurns, Angles, Around

-----------------------------------------------------------------------------
(* Type correctness, in two halves: the Booleans and the rest.             *)

Data ==
  /\ boot \in 0 .. 16
  /\ step \in Steps
  /\ call \in [fn : EncFns, channel : 0 .. 255]
  /\ call.channel > 15 => call.fn = "readTurns"
  /\ csPins \in Channels /\ latch \in Channels
  /\ position \in Positions
  /\ offsets \in [Channels -> Positions]
  /\ shaft \in [Fitted -> Angles] /\ travel \in [Fitted -> Angles]
  /\ rebooting \subseteq Fitted
  /\ seen \in Angles
  /\ restarts \in 0 .. MaxResets

Booleans == again \in BOOLEAN /\ inhibit \in BOOLEAN

LEMMA TypeHalves == TypeOK <=> Data /\ Booleans
  BY DEF TypeOK, Data, Booleans

LEMMA BooleansStep == ASSUME Booleans, [Next]_vars PROVE Booleans'
  BY DEF Booleans, Next, Foreground, Begin, SPI_CS_MUX, Strobe, Enable,
         Exchange, DEACTIVATE_MUX, WaitForReboot, Finish, Rotate, Restart, vars

LEMMA CallType ==
  ASSUME Data
  PROVE  call.channel \in 0 .. 255 /\ call.fn \in EncFns
  BY DEF Data

LEMMA BeginType ==
  ASSUME Data, NEW k, Begin(k)
  PROVE  Data'
  <1>1. /\ k \in [fn : EncFns, channel : 0 .. 255]
        /\ k.channel > 15 => k.fn = "readTurns"
    <2>1. CASE boot < 16
      <3>1. k = EncCall("resetEncoder", boot) /\ boot \in 0 .. 15
        BY <2>1 DEF Begin, Data
      <3> QED
        BY <3>1 DEF EncCall, EncFns
    <2>2. CASE ~(boot < 16)
      <3>1. k \in EncCalls
        BY <2>2, Zenon DEF Begin
      <3> QED
        BY <3>1, EncCallsAssumption
    <2> QED
      BY <2>1, <2>2
  <1>2. boot' \in 0 .. 16
    <2>1. boot' = (IF boot < 16 THEN boot + 1 ELSE boot)
      BY Zenon DEF Begin
    <2> QED
      BY <2>1 DEF Data
  <1>3. /\ step' = "select" /\ call' = k
        /\ UNCHANGED <<csPins, latch, position, offsets, rebooting, seen,
                       restarts, shaft, travel>>
    BY Zenon DEF Begin, shafts
  <1> QED
    BY <1>1, <1>2, <1>3 DEF Data, Steps

LEMMA SelectType ==
  ASSUME Data, SPI_CS_MUX
  PROVE  Data'
  <1>1. csPins' \in Channels
    <2>1. csPins' = (IF call.channel > 15 THEN csPins ELSE call.channel)
      BY Zenon DEF SPI_CS_MUX
    <2>2. csPins \in Channels
      BY DEF Data
    <2> QED
      BY <2>1, <2>2, CallType DEF Channels
  <1>2. /\ step' = "strobe"
        /\ UNCHANGED <<boot, call, latch, position, offsets, rebooting, seen,
                       restarts, shaft, travel>>
    BY Zenon DEF SPI_CS_MUX, shafts
  <1> QED
    BY <1>1, <1>2 DEF Data, Steps

LEMMA ExchangeType ==
  ASSUME Data, NEW check \in {0, 3}, NEW low \in {0, 3},
         Exchange(check, low)
  PROVE  Data'
  <1>1. position' \in Positions
    <2>1. CASE SelectedAnswers
      <3>1. latch \in Fitted
        BY <2>1, Zenon DEF SelectedAnswers
      <3>2. shaft[latch] \in Nat
        BY <3>1, FullTurnAssumption DEF FullTurns, Angles, Data
      <3>3. Answer(latch, check, low) \in Nat
        BY <3>2 DEF Answer
      <3>4. position' = ReadWord(Answer(latch, check, low))
        BY <2>1, Zenon DEF Exchange
      <3>5. ReadWord(Answer(latch, check, low)) \in Positions
        BY <3>3, ReadWordType, Zenon
      <3> QED
        BY <3>4, <3>5, Zenon
    <2>2. CASE ~SelectedAnswers
      <3>1. position' = ReadWord(NoAnswer)
        BY <2>2, Zenon DEF Exchange
      <3>2. NoAnswer \in Nat
        BY NoAnswerAssumption DEF SpiWords, UINT16_MAX
      <3>3. ReadWord(NoAnswer) \in Positions
        BY <3>2, ReadWordType, Zenon
      <3> QED
        BY <3>1, <3>3, Zenon
    <2> QED
      BY <2>1, <2>2
  <1>2. rebooting' \subseteq Fitted
    <2>1. SelectedAnswers => latch \in Fitted
      BY Zenon DEF SelectedAnswers
    <2>2. \/ rebooting' = rebooting
          \/ SelectedAnswers /\ rebooting' = rebooting \cup {latch}
      BY Zenon DEF Exchange
    <2> QED
      BY <2>1, <2>2 DEF Data
  <1>3. seen' \in Angles
    <2>1. seen' = IF call.channel \in Fitted THEN travel[call.channel] ELSE 0
      BY Zenon DEF Exchange
    <2> QED
      BY <2>1, AnglesFit DEF Data
  <1>4. travel' \in [Fitted -> Angles]
    <2>1. travel' = [c \in Fitted |->
                       IF ZeroRead /\ c = call.channel THEN 0 ELSE travel[c]]
      BY Zenon DEF Exchange
    <2>2. \A c \in Fitted : travel[c] \in Angles
      BY DEF Data
    <2>3. \A c \in Fitted :
            (IF ZeroRead /\ c = call.channel THEN 0 ELSE travel[c]) \in Angles
      BY <2>2, AnglesFit, Zenon
    <2> QED
      BY <2>1, <2>3, Zenon
  <1>5. /\ step' = "disable"
        /\ UNCHANGED <<boot, call, csPins, latch, offsets, shaft, restarts>>
    BY Zenon DEF Exchange
  <1> QED
    BY <1>1, <1>2, <1>3, <1>4, <1>5 DEF Data, Steps

LEMMA RotateType ==
  ASSUME Data, NEW c \in Fitted, Rotate(c)
  PROVE  Data'
  <1>1. shaft[c] \in Angles /\ travel[c] \in Angles
    BY DEF Data
  <1>2. Around(shaft[c] + 1) \in Angles /\ Around(travel[c] + 1) \in Angles
    BY <1>1, AroundType
  <1>3. /\ shaft' = [shaft EXCEPT ![c] = Around(@ + 1)]
        /\ travel' = [travel EXCEPT ![c] = Around(@ + 1)]
        /\ UNCHANGED <<boot, step, call, csPins, latch, position, offsets,
                       rebooting, seen, restarts>>
    BY Zenon DEF Rotate
  <1> QED
    BY <1>2, <1>3 DEF Data

LEMMA OffsetType ==
  ASSUME Data, NEW p \in Positions
  PROVE  [offsets EXCEPT ![call.channel] = p] \in [Channels -> Positions]
  <1>1. offsets \in [Channels -> Positions]
    BY DEF Data
  <1> QED
    BY <1>1

LEMMA RestartType ==
  ASSUME Data, Restart
  PROVE  Data'
  <1>1. call' \in [fn : EncFns, channel : 0 .. 255] /\ call'.channel = 0
    <2>1. call' = EncCall("resetEncoder", 0)
      BY Zenon DEF Restart
    <2> QED
      BY <2>1 DEF EncCall, EncFns
  <1>2. restarts' \in 0 .. MaxResets
    BY MaxResetsAssumption DEF Data, Restart
  <1>3. /\ boot' = 0 /\ step' = "idle" /\ csPins' = 0 /\ position' = 0
        /\ seen' = 0 /\ offsets' = [c \in Channels |-> 0] /\ rebooting' = {}
        /\ travel' = shaft /\ UNCHANGED <<latch, shaft>>
    BY Zenon DEF Restart
  <1>4. rebooting' \subseteq Fitted /\ csPins' \in Channels
    BY <1>3 DEF Channels
  <1>5. offsets' \in [Channels -> Positions] /\ travel' \in [Fitted -> Angles]
    BY <1>3, ZeroPosition DEF Data
  <1> QED
    BY <1>1, <1>2, <1>3, <1>4, <1>5, AnglesFit DEF Data, Steps

LEMMA DataStep ==
  ASSUME Data, [Next]_vars
  PROVE  Data'
  <1>1. CASE Strobe
    BY <1>1 DEF Data, Strobe, Steps, shafts
  <1>2. CASE Enable
    <2>1. /\ step' = "exchange"
          /\ UNCHANGED <<boot, call, csPins, latch, position, offsets,
                         rebooting, seen, restarts, shaft, travel>>
      BY <1>2, Zenon DEF Enable, shafts
    <2> QED
      BY <2>1 DEF Data, Steps
  <1>3. CASE DEACTIVATE_MUX
    <2>1. /\ step' \in {"wait", "finish"}
          /\ UNCHANGED <<boot, call, csPins, latch, position, offsets,
                         rebooting, seen, restarts, shaft, travel>>
      BY <1>3, Zenon DEF DEACTIVATE_MUX, shafts
    <2> QED
      BY <2>1 DEF Data, Steps
  <1>4. CASE WaitForReboot
    <2>1. /\ step' = "select" /\ rebooting' = {}
          /\ offsets' = [offsets EXCEPT ![call.channel] = 0]
          /\ UNCHANGED <<boot, call, csPins, latch, position, seen, restarts,
                         shaft, travel>>
      BY <1>4, Zenon DEF WaitForReboot, shafts
    <2>2. offsets' \in [Channels -> Positions]
      BY <2>1, OffsetType, ZeroPosition
    <2> QED
      BY <2>1, <2>2 DEF Data, Steps
  <1>5. CASE Finish
    <2>1. /\ step' = "idle"
          /\ \/ offsets' = [offsets EXCEPT ![call.channel] = position]
             \/ offsets' = offsets
          /\ UNCHANGED <<boot, call, csPins, latch, position, rebooting, seen,
                         restarts, shaft, travel>>
      BY <1>5, Zenon DEF Finish, shafts
    <2>2. position \in Positions /\ offsets \in [Channels -> Positions]
      BY DEF Data
    <2>3. [offsets EXCEPT ![call.channel] = position]
            \in [Channels -> Positions]
      BY <2>2, OffsetType
    <2>4. offsets' \in [Channels -> Positions]
      BY <2>1, <2>2, <2>3
    <2> QED
      BY <2>1, <2>4 DEF Data, Steps
  <1>6. CASE UNCHANGED vars
    <2>1. UNCHANGED <<boot, step, call, csPins, latch, position, offsets,
                      shaft, rebooting, travel, seen, restarts>>
      BY <1>6, Zenon DEF vars, shafts
    <2> QED
      BY <2>1 DEF Data
  <1> QED
    BY <1>1, <1>2, <1>3, <1>4, <1>5, <1>6, BeginType, SelectType,
       ExchangeType, RotateType, RestartType DEF Next, Foreground

LEMMA DataInit == Init => Data
  <1> SUFFICES ASSUME Init PROVE Data
    OBVIOUS
  <1>1. call \in [fn : EncFns, channel : 0 .. 255] /\ call.channel = 0
    <2>1. call = EncCall("resetEncoder", 0)
      BY Zenon DEF Init
    <2> QED
      BY <2>1 DEF EncCall, EncFns
  <1>2. /\ boot = 0 /\ step = "idle" /\ csPins = 0 /\ latch = 0
        /\ position = 0 /\ offsets = [c \in Channels |-> 0]
        /\ shaft \in [Fitted -> Angles] /\ rebooting = {} /\ travel = shaft
        /\ seen = 0 /\ restarts = 0
    BY Zenon DEF Init
  <1> QED
    BY <1>1, <1>2, AnglesFit, ZeroPosition, MaxResetsAssumption
       DEF Data, Steps, Channels

(* For every resolution, set of encoders, calls and restarts, what is read *)
(* and remembered of a channel is a position, and the pins and the latch   *)
(* hold a channel.                                                         *)
THEOREM TypeCorrect == Spec => []TypeOK
  <1>1. Init => Booleans
    BY DEF Init, Booleans
  <1>2. Spec => [](Data /\ Booleans)
    BY <1>1, DataInit, DataStep, BooleansStep, PTL DEF Spec
  <1> QED
    BY <1>2, TypeHalves, PTL

-----------------------------------------------------------------------------
(* The way of a channel number: from the call to the pins, into the latch, *)
(* and out of it only while the call exchanges its bytes.                  *)

Path ==
  /\ ~inhibit => step \in {"exchange", "disable"}
  /\ step = "exchange" => ~inhibit
  /\ step = "strobe" /\ call.channel \in Channels => csPins = call.channel
  /\ step \in {"enable", "exchange", "disable"} /\ call.channel \in Channels
       => latch = call.channel

LEMMA PathStep ==
  ASSUME Data, Path, [Next]_vars
  PROVE  Path'
  <1>1. ASSUME NEW k, Begin(k) PROVE Path'
    BY <1>1, Zenon DEF Path, Begin
  <1>2. CASE SPI_CS_MUX
    <2>1. call.channel \in Channels => ~(call.channel > 15)
      BY DEF Channels
    <2> QED
      BY <1>2, <2>1, Zenon DEF Path, SPI_CS_MUX
  <1>3. CASE Strobe
    BY <1>3, Zenon DEF Path, Strobe
  <1>4. CASE Enable
    BY <1>4, Zenon DEF Path, Enable
  <1>5. ASSUME NEW check \in {0, 3}, NEW low \in {0, 3}, Exchange(check, low)
        PROVE  Path'
    BY <1>5, Zenon DEF Path, Exchange
  <1>6. CASE DEACTIVATE_MUX
    BY <1>6, Zenon DEF Path, DEACTIVATE_MUX
  <1>7. CASE WaitForReboot
    BY <1>7, Zenon DEF Path, WaitForReboot
  <1>8. CASE Finish
    BY <1>8, Zenon DEF Path, Finish
  <1>9. ASSUME NEW c \in Fitted, Rotate(c) PROVE Path'
    BY <1>9, Zenon DEF Path, Rotate
  <1>10. CASE Restart
    BY <1>10, Zenon DEF Path, Restart
  <1>11. CASE UNCHANGED vars
    BY <1>11, Zenon DEF Path, vars
  <1> QED
    BY <1>1, <1>2, <1>3, <1>4, <1>5, <1>6, <1>7, <1>8, <1>9, <1>10, <1>11,
       Zenon DEF Next, Foreground

LEMMA PathHolds == Spec => [](Data /\ Path)
  <1>1. Init => Path
    BY Zenon DEF Init, Path
  <1> QED
    BY <1>1, DataInit, DataStep, PathStep, PTL DEF Spec

(* An encoder that is selected is the one of the call being served, for    *)
(* calls in any order and restarts that leave another in the latch.        *)
THEOREM ServedIsSelected == Spec => []SelectedIsServed
  <1>1. Path => SelectedIsServed
    BY Zenon DEF Path, SelectedIsServed
  <1> QED
    BY <1>1, PathHolds, PTL

-----------------------------------------------------------------------------
(* What the offsets account for.                                           *)

(* Sums of angles.                                                         *)
LEMMA AroundZero ==
  ASSUME NEW a \in Angles
  PROVE  Around(0 + a) = a /\ Around(a + 0) = a
  BY FullTurnAssumption DEF FullTurns, Angles, Around

LEMMA AroundNext ==
  ASSUME NEW o \in Angles, NEW t \in Angles
  PROVE  Around(Around(o + t) + 1) = Around(o + Around(t + 1))
  BY FullTurnAssumption DEF FullTurns, Angles, Around

LEMMA RelativeAround ==
  ASSUME NEW o \in Angles, NEW t \in Angles
  PROVE  Relative(Around(o + t), o) = t
  BY FullTurnAssumption DEF FullTurns, Angles, Around, Relative

(* A reboot is over before anything else is read, and only resetEncoder    *)
(* has a second exchange.                                                  *)
Reboots ==
  /\ again => call.fn = "resetEncoder"
  /\ step = "wait" => call.fn = "resetEncoder" /\ ~again
  /\ step = "finish" /\ call.fn = "resetEncoder" => again
  /\ rebooting # {} =>
       step \in {"disable", "wait"} /\ call.fn = "resetEncoder" /\ ~again

LEMMA RebootsStep ==
  ASSUME Reboots, [Next]_vars
  PROVE  Reboots'
  <1>1. ASSUME NEW k, Begin(k) PROVE Reboots'
    BY <1>1, Zenon DEF Reboots, Begin
  <1>2. CASE SPI_CS_MUX
    BY <1>2, Zenon DEF Reboots, SPI_CS_MUX
  <1>3. CASE Strobe
    BY <1>3, Zenon DEF Reboots, Strobe
  <1>4. CASE Enable
    BY <1>4, Zenon DEF Reboots, Enable
  <1>5. ASSUME NEW check \in {0, 3}, NEW low \in {0, 3}, Exchange(check, low)
        PROVE  Reboots'
    BY <1>5, Zenon DEF Reboots, Exchange
  <1>6. CASE DEACTIVATE_MUX
    BY <1>6, Zenon DEF Reboots, DEACTIVATE_MUX
  <1>7. CASE WaitForReboot
    BY <1>7, Zenon DEF Reboots, WaitForReboot
  <1>8. CASE Finish
    BY <1>8, Zenon DEF Reboots, Finish
  <1>9. ASSUME NEW c \in Fitted, Rotate(c) PROVE Reboots'
    BY <1>9, Zenon DEF Reboots, Rotate
  <1>10. CASE Restart
    BY <1>10, Zenon DEF Reboots, Restart
  <1>11. CASE UNCHANGED vars
    BY <1>11, Zenon DEF Reboots, vars
  <1> QED
    BY <1>1, <1>2, <1>3, <1>4, <1>5, <1>6, <1>7, <1>8, <1>9, <1>10, <1>11,
       Zenon DEF Next, Foreground

LEMMA RebootsHold == Spec => [](Data /\ Path /\ Reboots)
  <1>1. Init => Reboots
    BY Zenon DEF Init, Reboots
  <1> QED
    BY <1>1, RebootsStep, PathHolds, PTL DEF Spec

-----------------------------------------------------------------------------
(* The account of a channel: its angle is a base plus its travel.  The base*)
(* is the stored offset or, from the second exchange of resetEncoder until *)
(* it is stored, the position just read.                                   *)

Accounted(base, c) == base \in Angles /\ shaft[c] = Around(base + travel[c])

Zeroing(c) == again /\ step # "idle" /\ c = call.channel

Account ==
  \A c \in Fitted :
    IF Zeroing(c) THEN step \in {"disable", "finish"} => Accounted(position, c)
                  ELSE Accounted(offsets[c], c)

Reading ==
  step \in {"disable", "finish"} /\ call.fn = "readEncoderPosition"
    /\ call.channel \in Fitted
    => Relative(position, offsets[call.channel]) = seen

(* An exchange with a fitted channel, once nothing reboots, brings the     *)
(* angle of its shaft.                                                     *)
LEMMA ExchangeReads ==
  ASSUME Data, Path, Reboots, call.channel \in Fitted,
         call.fn = "resetEncoder" => again,
         NEW check \in {0, 3}, NEW low \in {0, 3}, Exchange(check, low)
  PROVE  position' = shaft[call.channel] /\ shaft[call.channel] \in Angles
  <1>1. call.channel \in Channels
    BY FittedAssumption
  <1>2. ~inhibit /\ latch = call.channel /\ rebooting = {}
    BY <1>1, Zenon DEF Exchange, Path, Reboots
  <1>3. latch \in Fitted \ rebooting
    BY <1>2
  <1>4. SelectedAnswers
    BY <1>2, <1>3, Zenon DEF SelectedAnswers
  <1>5. position' = ReadWord(Answer(latch, check, low))
    BY <1>4, Zenon DEF Exchange
  <1>6. shaft[latch] \in Angles
    BY <1>3 DEF Data
  <1>7. shaft[latch] \in Positions
    BY <1>6, AnglesFit, Zenon
  <1>8. ReadWord(Answer(latch, check, low)) = shaft[latch]
    BY <1>7, ReadWordAnswer
  <1> QED
    BY <1>2, <1>5, <1>6, <1>8, Zenon

LEMMA AccountExchange ==
  ASSUME Data, Path, Reboots, Account,
         NEW check \in {0, 3}, NEW low \in {0, 3}, Exchange(check, low)
  PROVE  Account' /\ Reading'
  <1>1. /\ step = "exchange" /\ step' = "disable"
        /\ UNCHANGED <<call, again, offsets, shaft>>
        /\ seen' = IF call.channel \in Fitted THEN travel[call.channel] ELSE 0
        /\ travel' = [c \in Fitted |->
                        IF ZeroRead /\ c = call.channel THEN 0 ELSE travel[c]]
    BY Zenon DEF Exchange
  <1>2. ZeroRead <=> again
    BY Zenon DEF ZeroRead, Reboots
  <1>3. \A c \in Fitted : Zeroing(c) <=> again /\ c = call.channel
    BY <1>1, Zenon DEF Zeroing
  <1>4. \A c \in Fitted : Zeroing(c)' <=> again /\ c = call.channel
    BY <1>1, Zenon DEF Zeroing
  <1>5. ASSUME NEW c \in Fitted, again, c = call.channel
        PROVE  Accounted(position, c)'
    <2>1. position' = shaft[c] /\ shaft[c] \in Angles
      BY <1>5, ExchangeReads
    <2>2. travel'[c] = 0
      BY <1>1, <1>2, <1>5, Zenon
    <2>3. Around(shaft[c] + 0) = shaft[c]
      BY <2>1, AroundZero
    <2> QED
      BY <1>1, <2>1, <2>2, <2>3, Zenon DEF Accounted
  <1>6. ASSUME NEW c \in Fitted, ~(again /\ c = call.channel)
        PROVE  Accounted(offsets[c], c)'
    <2>1. Accounted(offsets[c], c)
      BY <1>3, <1>6, Zenon DEF Account
    <2>2. travel'[c] = travel[c]
      BY <1>1, <1>2, <1>6, Zenon
    <2> QED
      BY <1>1, <2>1, <2>2, Zenon DEF Accounted
  <1>7. Account'
    BY <1>4, <1>5, <1>6, Zenon DEF Account
  <1>8. ASSUME call.fn = "readEncoderPosition", call.channel \in Fitted
        PROVE  Relative(position', offsets[call.channel]) = seen'
    <2> DEFINE c == call.channel
    <2>1. call.fn # "resetEncoder"
      BY <1>8
    <2>2. ~again
      BY <2>1, Zenon DEF Reboots
    <2>3. position' = shaft[c]
      BY <1>8, <2>1, ExchangeReads
    <2>4. offsets[c] \in Angles /\ shaft[c] = Around(offsets[c] + travel[c])
      BY <1>3, <1>8, <2>2, Zenon DEF Account, Accounted
    <2>5. travel[c] \in Angles
      BY <1>8 DEF Data
    <2>6. Relative(Around(offsets[c] + travel[c]), offsets[c]) = travel[c]
      BY <2>4, <2>5, RelativeAround
    <2> QED
      BY <1>1, <1>8, <2>3, <2>4, <2>6, Zenon
  <1>9. Reading'
    BY <1>1, <1>8, Zenon DEF Reading
  <1> QED
    BY <1>7, <1>9

LEMMA AccountRotate ==
  ASSUME Data, Account, NEW d \in Fitted, Rotate(d)
  PROVE  Account'
  <1>1. /\ shaft' = [shaft EXCEPT ![d] = Around(@ + 1)]
        /\ travel' = [travel EXCEPT ![d] = Around(@ + 1)]
        /\ UNCHANGED <<step, call, again, position, offsets>>
    BY Zenon DEF Rotate
  <1>2. ASSUME NEW c \in Fitted, NEW base, Accounted(base, c)
        PROVE  base \in Angles /\ shaft'[c] = Around(base + travel'[c])
    <2>1. base \in Angles /\ shaft[c] = Around(base + travel[c])
      BY <1>2, Zenon DEF Accounted
    <2>2. shaft[c] \in Angles /\ travel[c] \in Angles
      BY DEF Data
    <2>3. Around(Around(base + travel[c]) + 1) =
            Around(base + Around(travel[c] + 1))
      BY <2>1, <2>2, AroundNext
    <2>4. CASE c = d
      <3>1. /\ shaft'[c] = Around(shaft[c] + 1)
            /\ travel'[c] = Around(travel[c] + 1)
        BY <1>1, <2>4 DEF Data
      <3> QED
        BY <2>1, <2>3, <3>1, Zenon
    <2>5. CASE c # d
      <3>1. shaft'[c] = shaft[c] /\ travel'[c] = travel[c]
        BY <1>1, <2>5 DEF Data
      <3> QED
        BY <2>1, <3>1, Zenon
    <2> QED
      BY <2>4, <2>5
  <1>3. \A c \in Fitted : Zeroing(c)' <=> Zeroing(c)
    BY <1>1, Zenon DEF Zeroing
  <1>4. \A c \in Fitted : Accounted(position, c) => Accounted(position, c)'
    BY <1>1, <1>2, Zenon DEF Accounted
  <1>5. \A c \in Fitted : Accounted(offsets[c], c) => Accounted(offsets[c], c)'
    BY <1>1, <1>2, Zenon DEF Accounted
  <1> QED
    BY <1>1, <1>3, <1>4, <1>5, Zenon DEF Account

LEMMA AccountWait ==
  ASSUME Data, Reboots, Account, WaitForReboot
  PROVE  Account'
  <1>1. /\ step = "wait" /\ step' = "select" /\ again'
        /\ offsets' = [offsets EXCEPT ![call.channel] = 0]
        /\ UNCHANGED <<call, position, shaft, travel>>
    BY Zenon DEF WaitForReboot, shafts
  <1>2. ~again
    BY <1>1, Zenon DEF Reboots
  <1>3. ASSUME NEW c \in Fitted, c # call.channel
        PROVE  Accounted(offsets[c], c)'
    <2>1. Accounted(offsets[c], c)
      BY <1>2, <1>3, Zenon DEF Account, Zeroing
    <2>2. c \in Channels
      BY FittedAssumption
    <2>3. offsets'[c] = offsets[c]
      BY <1>1, <1>3, <2>2 DEF Data
    <2> QED
      BY <1>1, <2>1, <2>3, Zenon DEF Accounted
  <1>4. \A c \in Fitted : c = call.channel => Zeroing(c)'
    <2>1. step' # "idle"
      BY <1>1
    <2> QED
      BY <1>1, <2>1, Zenon DEF Zeroing
  <1>5. step' \notin {"disable", "finish"}
    BY <1>1
  <1>6. \A c \in Fitted : c # call.channel => ~Zeroing(c)'
    BY <1>1, Zenon DEF Zeroing
  <1> QED
    BY <1>3, <1>4, <1>5, <1>6, Zenon DEF Account

LEMMA AccountFinish ==
  ASSUME Data, Reboots, Account, Finish
  PROVE  Account'
  <1>1. /\ step = "finish" /\ step' = "idle"
        /\ offsets' = IF call.fn = "resetEncoder"
                        THEN [offsets EXCEPT ![call.channel] = position]
                        ELSE offsets
        /\ UNCHANGED <<call, again, position, shaft, travel>>
    BY Zenon DEF Finish, shafts
  <1>2. call.fn = "resetEncoder" <=> again
    BY <1>1, Zenon DEF Reboots
  <1>3. ASSUME NEW c \in Fitted PROVE Accounted(offsets[c], c)'
    <2>1. c \in Channels
      BY FittedAssumption
    <2>2. CASE again /\ c = call.channel
      <3>1. step # "idle"
        BY <1>1
      <3>2. Accounted(position, c)
        BY <1>1, <2>2, <3>1, Zenon DEF Account, Zeroing
      <3>3. offsets'[c] = position
        BY <1>1, <1>2, <2>1, <2>2 DEF Data
      <3> QED
        BY <1>1, <3>2, <3>3, Zenon DEF Accounted
    <2>3. CASE ~(again /\ c = call.channel)
      <3>1. Accounted(offsets[c], c)
        BY <2>3, Zenon DEF Account, Zeroing
      <3>2. CASE again
        <4>1. c # call.channel
          BY <2>3, <3>2
        <4>2. offsets' = [offsets EXCEPT ![call.channel] = position]
          BY <1>1, <1>2, <3>2, Zenon
        <4>3. offsets'[c] = offsets[c]
          BY <4>1, <4>2, <2>1 DEF Data
        <4> QED
          BY <1>1, <3>1, <4>3, Zenon DEF Accounted
      <3>3. CASE ~again
        <4>1. offsets' = offsets
          BY <1>1, <1>2, <3>3, Zenon
        <4> QED
          BY <1>1, <3>1, <4>1, Zenon DEF Accounted
      <3> QED
        BY <3>2, <3>3
    <2> QED
      BY <2>2, <2>3
  <1>4. \A c \in Fitted : ~Zeroing(c)'
    BY <1>1, Zenon DEF Zeroing
  <1> QED
    BY <1>3, <1>4, Zenon DEF Account

(* From a start or a restart on, every offset is zero and every angle is   *)
(* its own travel.                                                         *)
LEMMA Unzeroed ==
  ASSUME NEW c \in Fitted, NEW o, NEW sh \in [Fitted -> Angles],
         o = [d \in Channels |-> 0]
  PROVE  o[c] \in Angles /\ sh[c] = Around(o[c] + sh[c])
  <1>1. o[c] = 0 /\ sh[c] \in Angles
    BY FittedAssumption
  <1>2. Around(0 + sh[c]) = sh[c]
    BY <1>1, AroundZero
  <1> QED
    BY <1>1, <1>2, AnglesFit, Zenon

LEMMA AccountInit == Init => Account /\ Reading
  <1> SUFFICES ASSUME Init PROVE Account /\ Reading
    OBVIOUS
  <1>1. /\ step = "idle" /\ offsets = [d \in Channels |-> 0]
        /\ shaft \in [Fitted -> Angles] /\ travel = shaft
    BY Zenon DEF Init
  <1>2. \A c \in Fitted : Accounted(offsets[c], c)
    BY <1>1, Unzeroed, Zenon DEF Accounted
  <1>3. Account
    BY <1>1, <1>2, Zenon DEF Account, Zeroing
  <1>4. Reading
    BY <1>1 DEF Reading
  <1> QED
    BY <1>3, <1>4

LEMMA AccountRestart ==
  ASSUME Data, Restart
  PROVE  Account' /\ Reading'
  <1>1. /\ step' = "idle" /\ offsets' = [d \in Channels |-> 0]
        /\ shaft \in [Fitted -> Angles] /\ travel' = shaft /\ shaft' = shaft
    BY Zenon DEF Restart, Data
  <1>2. \A c \in Fitted : Accounted(offsets[c], c)'
    BY <1>1, Unzeroed, Zenon DEF Accounted
  <1>3. Account'
    BY <1>1, <1>2, Zenon DEF Account, Zeroing
  <1>4. Reading'
    BY <1>1 DEF Reading
  <1> QED
    BY <1>3, <1>4

(* The steps that leave shafts, travel, offsets and position alone.        *)
LEMMA AccountKept ==
  ASSUME Account, Reading, Reboots,
         UNCHANGED <<call, again, position, offsets, shaft, travel, seen>>,
         step # "idle", step' # "idle",
         step' \in {"disable", "finish"} => step \in {"disable", "finish"}
  PROVE  Account' /\ Reading'
  <1>1. \A c \in Fitted : Zeroing(c)' <=> Zeroing(c)
    BY Zenon DEF Zeroing
  <1>2. Account'
    BY <1>1, Zenon DEF Account, Accounted
  <1>3. Reading'
    BY Zenon DEF Reading
  <1> QED
    BY <1>2, <1>3

LEMMA AccountStep ==
  ASSUME Data, Path, Reboots, Account, Reading, [Next]_vars
  PROVE  Account' /\ Reading'
  <1>1. ASSUME NEW k, Begin(k) PROVE Account' /\ Reading'
    <2>1. /\ step = "idle" /\ step' = "select" /\ ~again'
          /\ UNCHANGED <<position, offsets, shaft, travel, seen>>
      BY <1>1, Zenon DEF Begin, shafts
    <2>2. \A c \in Fitted : Accounted(offsets[c], c)
      BY <2>1, Zenon DEF Account, Zeroing
    <2>3. Account'
      BY <2>1, <2>2, Zenon DEF Account, Zeroing, Accounted
    <2>4. Reading'
      BY <2>1 DEF Reading
    <2> QED
      BY <2>3, <2>4
  <1>2. ASSUME SPI_CS_MUX \/ Strobe \/ Enable \/ DEACTIVATE_MUX
        PROVE  Account' /\ Reading'
    <2>1. /\ UNCHANGED <<call, again, position, offsets, shaft, travel, seen>>
          /\ step \in {"select", "strobe", "enable", "disable"}
          /\ step' \in {"strobe", "enable", "exchange", "wait", "finish"}
          /\ step' = "finish" => step = "disable"
      BY <1>2 DEF SPI_CS_MUX, Strobe, Enable, DEACTIVATE_MUX, shafts
    <2>2. /\ step # "idle" /\ step' # "idle"
          /\ step' \in {"disable", "finish"} => step \in {"disable", "finish"}
      BY <2>1
    <2> QED
      BY <2>1, <2>2, AccountKept
  <1>3. CASE WaitForReboot
    <2>1. step' = "select"
      BY <1>3, Zenon DEF WaitForReboot
    <2>2. Reading'
      BY <2>1 DEF Reading
    <2> QED
      BY <1>3, <2>2, AccountWait
  <1>4. CASE Finish
    <2>1. step' = "idle"
      BY <1>4, Zenon DEF Finish
    <2>2. Reading'
      BY <2>1 DEF Reading
    <2> QED
      BY <1>4, <2>2, AccountFinish
  <1>5. ASSUME NEW c \in Fitted, Rotate(c) PROVE Account' /\ Reading'
    <2>1. UNCHANGED <<step, call, position, offsets, seen>>
      BY <1>5, Zenon DEF Rotate
    <2>2. Reading'
      BY <2>1, Zenon DEF Reading
    <2> QED
      BY <1>5, <2>2, AccountRotate
  <1>6. CASE UNCHANGED vars
    <2>1. UNCHANGED <<step, call, again, position, offsets, shaft, travel,
                      seen>>
      BY <1>6, Zenon DEF vars, shafts
    <2> QED
      BY <2>1, Zenon DEF Account, Accounted, Zeroing, Reading
  <1> QED
    BY <1>1, <1>2, <1>3, <1>4, <1>5, <1>6, AccountExchange, AccountRestart
       DEF Next, Foreground

LEMMA AccountHolds == Spec => [](Data /\ Account /\ Reading)
  BY AccountInit, AccountStep, RebootsHold, PTL DEF Spec

(* Between calls the offset of every encoder and its travel since account  *)
(* for the angle of its shaft: no reset, of this channel or another, no    *)
(* restart and no turn around the end makes an offset stale.               *)
THEOREM OffsetsAccountForTravel == Spec => []OffsetsAccount
  <1>1. Account => OffsetsAccount
    BY Zenon DEF Account, Accounted, Zeroing, OffsetsAccount
  <1> QED
    BY <1>1, AccountHolds, PTL

(* readEncoderPosition returns how far the shaft has turned since its zero *)
(* was read, for every resolution and any order of calls.                  *)
THEOREM PositionsAreTravel == Spec => []PositionIsTravel
  <1>1. Reading => PositionIsTravel
    BY Zenon DEF Reading, PositionIsTravel
  <1> QED
    BY <1>1, AccountHolds, PTL
=============================================================================
