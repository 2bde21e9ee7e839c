----------------------------- MODULE BmsReadings -----------------------------
(***************************************************************************)
(* The measuring side of the battery monitor: the L9961 converting in      *)
(* cycles and raising RDY at the end of each, the interrupt that notes the *)
(* time, isBMSDataValid, and the coulomb counter of BMS_ReadCommands.cpp.  *)
(*                                                                         *)
(* Three parties act: the chip and the clock, the interrupt, and the one   *)
(* foreground program, which the interrupt may interrupt anywhere.  A step *)
(* of the foreground is one access to a shared variable or one transaction *)
(* with the chip.  micros() counts modulo Wrap, and so does every sum made *)
(* of it.  Nothing in the program tells an answer of zero from no answer.  *)
(*                                                                         *)
(* Charge is counted in steps of the chip's accumulator, TotalCoulombs in  *)
(* the hundredths of a coulomb it is rounded to.                           *)
(***************************************************************************)
EXTENDS Integers

CONSTANTS
  Wrap,          \* values micros() runs through, 2^32 microseconds
  MeasureCycle,  \* measureCycleInt: from one RDY to the next
  CellFilter,    \* cellFilterInt: sampling time of one cell
  Cells,         \* cellStackSize
  Slack,         \* the 2 * 0.8 ms added to the window
  SetupTime,     \* when setup() attaches the interrupt: after its delays
  Delay,         \* bound on the interrupt's latency, and on a test's length
  Charges,       \* what one sample may add to the accumulator
  MaxCharge,     \* bound on its size
  Hundredth,     \* accumulator steps to a hundredth of a coulomb
  MaxSamples,    \* bound on the samples taken
  MaxLost        \* bound on the transactions that fail

(* mutant: the sampling time of the cells is not subtracted.               *)
validWindowWhole == (MeasureCycle + Slack) % Wrap

validWindow == (MeasureCycle - (Cells + 1) * CellFilter + Slack) % Wrap

(* How long after RDY the registers keep the converted data; as a length   *)
(* of time, where validWindow is what the program computes for it.         *)
Stable == MeasureCycle - (Cells + 1) * CellFilter + Slack
Old == Stable + 2 * Delay + MeasureCycle    \* ages are not told apart beyond

ASSUME TimesAssumption ==
  /\ {Wrap, MeasureCycle, CellFilter, Cells, Slack, SetupTime, Delay}
       \subseteq Nat
  /\ 0 < Stable /\ Stable <= MeasureCycle
  /\ Delay < Stable
  /\ Stable <= SetupTime /\ SetupTime < Wrap
  /\ Old < Wrap
ASSUME CountsAssumption ==
  /\ MaxSamples \in 0 .. 255
  /\ MaxLost \in Nat
  /\ MaxCharge \in Nat
  /\ Hundredth \in Nat \ {0}
  /\ MaxCharge * MaxSamples < 8388608
  /\ Charges \subseteq (-MaxCharge) .. MaxCharge

VARIABLES
  now,               \* micros()
  converting,        \* whether the chip converts
  clk,               \* how far the current conversion cycle is
  age,               \* time since the last RDY, at most Old
  rdy,               \* an RDY edge the interrupt has not served
  wrapped,           \* whether micros() started over since the last RDY
  bmsDataReady, bmsDataTimestamp,
  phase,             \* where the foreground is
  t, s,              \* what isBMSDataValid has read of now and the timestamp
  begun,             \* when it began
  acc, cnt,          \* the accumulator of the chip and its sample count
  held, heldCount,   \* their copies in registers 0x2D and 0x2E
  msb,               \* the local of readCoulombCounter
  TotalCoulombs,     \* in hundredths
  TotalSampleCount,
  readings,          \* readings so far that brought a sample
  charge, samples,   \* what the chip has measured since the start
  cleared, clearedCount,  \* what resets have cleared without showing it
  lost               \* transactions that failed

clockVars   == <<now, converting, clk, age, rdy, wrapped>>
stampVars   == <<bmsDataReady, bmsDataTimestamp>>
testVars    == <<t, s, begun>>
chipVars    == <<acc, cnt, held, heldCount>>
totalVars   == <<msb, TotalCoulombs, TotalSampleCount, readings>>
measured    == <<charge, samples>>
dropped     == <<cleared, clearedCount>>
counterVars == <<chipVars, totalVars, measured, dropped, lost>>
vars == <<clockVars, stampVars, phase, testVars, counterVars>>

NotRead == -1

-----------------------------------------------------------------------------
(* setup() has attached the interrupt and turned conversions on.           *)
Init ==
  /\ now = SetupTime
  /\ converting = TRUE
  /\ clk = 0 /\ age = Old /\ rdy = FALSE /\ wrapped = FALSE
  /\ bmsDataReady = FALSE /\ bmsDataTimestamp = 0
  /\ phase = "idle" /\ t = NotRead /\ s = NotRead /\ begun = NotRead
  /\ acc = 0 /\ cnt = 0 /\ held = 0 /\ heldCount = 0
  /\ msb = 0 /\ TotalCoulombs = 0 /\ TotalSampleCount = 0
  /\ charge = 0 /\ samples = 0 /\ readings = 0
  /\ cleared = 0 /\ clearedCount = 0 /\ lost = 0

-----------------------------------------------------------------------------
(* The chip, the clock and the interrupt.                                  *)

Since(m) == (now - m) % Wrap

(* Time passes, but not past an RDY that is due, an interrupt that is      *)
(* pending too long, or a test that has taken as long as it may.           *)
Tick ==
  /\ converting => clk < MeasureCycle
  /\ rdy => age < Delay
  /\ begun # NotRead => Since(begun) < Delay
  /\ now' = (now + 1) % Wrap
  /\ wrapped' = (wrapped \/ now + 1 = Wrap)
  /\ clk' = IF converting THEN clk + 1 ELSE clk
  /\ age' = IF age < Old THEN age + 1 ELSE age
  /\ UNCHANGED <<converting, rdy, stampVars, phase, testVars, counterVars>>

(* A conversion ends: new data in the registers, RDY rises.                *)
Rise ==
  /\ converting
  /\ clk = MeasureCycle
  /\ clk' = 0 /\ age' = 0 /\ rdy' = TRUE /\ wrapped' = FALSE
  /\ UNCHANGED <<now, converting, stampVars, phase, testVars, counterVars>>

(* mutant: only the first edge is noted.                                   *)
onBMSReadyRiseOnce ==
  /\ rdy
  /\ rdy' = FALSE
  /\ bmsDataReady' = TRUE
  /\ bmsDataTimestamp' = IF bmsDataReady THEN bmsDataTimestamp ELSE now
  /\ UNCHANGED <<now, converting, clk, age, wrapped, phase, testVars,
                 counterVars>>

(* The interrupt: it runs to its end before the foreground goes on.        *)
onBMSReadyRise ==
  /\ rdy
  /\ rdy' = FALSE
  /\ bmsDataReady' = TRUE
  /\ bmsDataTimestamp' = now
  /\ UNCHANGED <<now, converting, clk, age, wrapped, phase, testVars,
                 counterVars>>

(* The chip adds one current sample to its accumulator.                    *)
Sample(q) ==
  /\ converting
  /\ samples < MaxSamples
  /\ acc' = acc + q /\ charge' = charge + q
  /\ cnt' = cnt + 1 /\ samples' = samples + 1
  /\ UNCHANGED <<clockVars, stampVars, phase, testVars, held, heldCount,
                 totalVars, dropped, lost>>

-----------------------------------------------------------------------------
(* The foreground.                                                         *)

(* setBMSConversionState: a command function turns conversions off, and    *)
(* only an explicit call turns them on again.                              *)
setBMSConversionState(on) ==
  /\ phase = "idle"
  /\ converting' = on
  /\ clk' = IF on /\ converting THEN clk ELSE 0
  /\ UNCHANGED <<now, age, rdy, wrapped, stampVars, phase, testVars,
                 counterVars>>

(* isBMSDataValid reads the clock and the timestamp, in the order the      *)
(* compiler chose: the operands of < are unsequenced.                      *)
Testing ==
  /\ phase \in {"idle", "test"}
  /\ phase' = "test"
  /\ begun' = IF phase = "idle" THEN now ELSE begun

ReadMicros ==
  /\ Testing
  /\ t = NotRead
  /\ t' = now
  /\ UNCHANGED <<s, clockVars, stampVars, counterVars>>

ReadTimestamp ==
  /\ Testing
  /\ s = NotRead
  /\ s' = bmsDataTimestamp
  /\ UNCHANGED <<t, clockVars, stampVars, counterVars>>

Tested == phase = "test" /\ t # NotRead /\ s # NotRead
Verdict == t < (s + validWindow) % Wrap

isBMSDataValid ==
  /\ Tested
  /\ phase' = "idle" /\ t' = NotRead /\ s' = NotRead /\ begun' = NotRead
  /\ UNCHANGED <<clockVars, stampVars, counterVars>>

-----------------------------------------------------------------------------
(* readCoulombCounter.                                                     *)

Word == 65536
TwosComplement(n) == n % 16777216
SignExtended(n) == IF n >= 8388608 THEN n - 16777216 ELSE n

(* What the registers 0x2D and 0x2E show of the copies.                    *)
AccMsb == TwosComplement(held) \div 256
AccLsbAndCount == 256 * (TwosComplement(held) % 256) + (heldCount % 256)

Outcomes == IF lost < MaxLost THEN {TRUE, FALSE} ELSE {TRUE}
Counted(ok) == lost' = IF ok THEN lost ELSE lost + 1

(* Writing the counter resets it.  Whether the chip then shows what it had *)
(* counted, or drops it, the program does not say: the reading that        *)
(* follows is of use only if it shows it.  Either way the two registers    *)
(* stand still until the next reset.                                       *)
Reset(shows) ==
  /\ held' = (IF shows THEN acc ELSE 0)
  /\ heldCount' = (IF shows THEN cnt ELSE 0)
  /\ acc' = 0 /\ cnt' = 0
  /\ cleared' = (IF shows THEN cleared ELSE cleared + acc)
  /\ clearedCount' = (IF shows THEN clearedCount ELSE clearedCount + cnt)

ResetCounter(ok) ==
  /\ phase = "idle"
  /\ phase' = "msb"
  /\ IF ok THEN \E shows \in BOOLEAN : Reset(shows)
           ELSE UNCHANGED <<chipVars, dropped>>
  /\ Counted(ok)
  /\ UNCHANGED <<clockVars, stampVars, testVars, totalVars, measured>>

(* mutant: the function returns a signed sixteen-bit integer.              *)
readBMSDataSigned(register, last, ok) ==
  LET Signed(n) == IF n >= 32768 THEN n - Word ELSE n
  IN  IF ok THEN {Signed(register)} ELSE {0, Signed(last)}

(* readBMSData: the register asked for or, when the chip does not answer,  *)
(* zero; if only the register address is lost, the register last addressed.*)
readBMSData(register, last, ok) == IF ok THEN {register} ELSE {0, last}

ReadMsb(ok) ==
  /\ phase = "msb"
  /\ phase' = "lsb"
  /\ msb' \in readBMSData(AccMsb, AccMsb, ok)
  /\ Counted(ok)
  /\ UNCHANGED <<clockVars, stampVars, testVars, chipVars, TotalCoulombs,
                 TotalSampleCount, readings, measured, dropped>>

Acc24Unsigned(high, low) == 256 * high + (low \div 256)  \* mutant: no sign

Acc24(high, low) == SignExtended(256 * high + (low \div 256))

(* roundf of the quotient n / d: to the nearest integer, a half away from  *)
(* zero.                                                                   *)
Roundf(n, d) == IF n >= 0 THEN (2 * n + d) \div (2 * d)
                          ELSE -((d - 2 * n) \div (2 * d))

(* The second half arrives and the totals grow; the one in coulombs is     *)
(* rounded to two decimal places each time.                                *)
ReadLsb(ok) ==
  /\ phase = "lsb"
  /\ phase' = "idle"
  /\ \E lsb_and_count \in readBMSData(AccLsbAndCount, AccMsb, ok) :
       LET coulombs == Acc24(msb, lsb_and_count)
           sampleCount == lsb_and_count % 256
       IN  /\ TotalCoulombs' =
                Roundf(Hundredth * TotalCoulombs + coulombs, Hundredth)
           /\ TotalSampleCount' = TotalSampleCount + sampleCount
           /\ readings' = readings + (IF sampleCount > 0 THEN 1 ELSE 0)
  /\ msb' = 0
  /\ Counted(ok)
  /\ UNCHANGED <<clockVars, stampVars, testVars, chipVars, measured,
                 dropped>>

-----------------------------------------------------------------------------
Next ==
  \/ Tick
  \/ Rise
  \/ onBMSReadyRise
  \/ \E q \in Charges : Sample(q)
  \/ \E on \in BOOLEAN : setBMSConversionState(on)
  \/ ReadMicros
  \/ ReadTimestamp
  \/ isBMSDataValid
  \/ \E ok \in Outcomes : ResetCounter(ok)
  \/ \E ok \in Outcomes : ReadMsb(ok)
  \/ \E ok \in Outcomes : ReadLsb(ok)

Spec == Init /\ [][Next]_vars
-----------------------------------------------------------------------------
(* Properties.                                                             *)

(* Every value fits its type: the clock and the timestamp count below      *)
(* Wrap, RDY is served within Delay, a reading's halves fit sixteen bits.  *)
TypeOK ==
  /\ now \in 0 .. Wrap - 1
  /\ converting \in BOOLEAN
  /\ clk \in 0 .. MeasureCycle
  /\ age \in 0 .. Old
  /\ rdy \in BOOLEAN /\ (rdy => age <= Delay)
  /\ wrapped \in BOOLEAN
  /\ bmsDataReady \in BOOLEAN
  /\ bmsDataTimestamp \in 0 .. Wrap - 1
  /\ phase \in {"idle", "test", "msb", "lsb"}
  /\ t \in (0 .. Wrap - 1) \cup {NotRead}
  /\ s \in (0 .. Wrap - 1) \cup {NotRead}
  /\ begun \in (0 .. Wrap - 1) \cup {NotRead}
  /\ {acc, held, TotalCoulombs, charge, cleared} \subseteq Int
  /\ {cnt, heldCount, samples, clearedCount} \subseteq 0 .. MaxSamples
  /\ msb \in 0 .. Word - 1
  /\ TotalSampleCount \in Nat /\ readings \in Nat
  /\ lost \in 0 .. MaxLost

(* Data called valid was converted less than the stable time before the    *)
(* clock was read, give or take the Delay that the interrupt or the test   *)
(* itself may take ("Returns true if the converted data is still valid,    *)
(* false if expired"): whatever the order of the two reads, wherever the   *)
(* interrupt comes between them, and however long conversions have been    *)
(* off, until micros() starts over; the comparison is only of numbers.     *)
ValidIsYoung ==
  Tested /\ Verdict /\ ~wrapped => age - Since(t) < Stable + Delay

(* Data noted by the interrupt and younger than the stable time is not     *)
(* called expired, unless the end of its window is beyond the last value   *)
(* of micros(), or micros() started over during the test.                  *)
YoungIsValid ==
  Tested /\ ~rdy /\ bmsDataReady /\ s = bmsDataTimestamp /\ age < Stable =>
    (~wrapped /\ t <= now /\ s + Stable < Wrap => Verdict)

Reading == phase \in {"msb", "lsb"}

(* What is in TotalCoulombs, in the chip, on its way from one to the other *)
(* or dropped by a reset, and how far that is from what was measured.      *)
Accounted == Hundredth * TotalCoulombs + acc
               + (IF Reading THEN held ELSE 0) + cleared
Drift == charge - Accounted

(* While no transaction has failed, rounding is all that the totals lose:  *)
(* at most half a hundredth of a coulomb in every reading that brings a    *)
(* sample, and never a sample.  Nothing is lost or counted twice between   *)
(* the reset of a running counter and its two halves read after it.  What  *)
(* a reset dropped unseen is not in the totals, and is kept account of.    *)
LedgerBalanced ==
  lost = 0 =>
    /\ 2 * Drift <= Hundredth * readings
    /\ -(Hundredth * readings) <= 2 * Drift
    /\ samples = TotalSampleCount + cnt
                   + (IF Reading THEN heldCount ELSE 0) + clearedCount
=============================================================================
