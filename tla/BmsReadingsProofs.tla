-------------------------- MODULE BmsReadingsProofs --------------------------
(***************************************************************************)
(* BmsReadings for every timing the assumptions allow, every range and     *)
(* number of samples, every number of lost transactions and every size of  *)
(* an accumulator step: rounding is all that the coulomb counter loses,    *)
(* and a verdict of isBMSDataValid can be relied on until micros() starts  *)
(* over.                                                                   *)
(*                                                                         *)
(* The two invariants share no variable but the phase: LedgerInv speaks of *)
(* the counter, YoungInv of the clock, the interrupt and the test.         *)
(***************************************************************************)
EXTENDS BmsReadings, TLAPS

(* Reading a two's complement in two halves gives the number back, and the *)
(* count that comes with the second.                                       *)
LEMMA HalvesJoin ==
  ASSUME NEW n \in Int, -8388608 <= n, n < 8388608, NEW m \in 0 .. 255,
         NEW high, high = TwosComplement(n) \div 256,
         NEW low, low = 256 * (TwosComplement(n) % 256) + (m % 256)
  PROVE  Acc24(high, low) = n /\ low % 256 = m
  <1>1. PICK w : w = TwosComplement(n)
    OBVIOUS
  <1>2. w \in Nat /\ w < 16777216 /\ (n >= 0 => w = n)
        /\ (n < 0 => w = n + 16777216)
    BY <1>1 DEF TwosComplement
  <1>3. high = w \div 256 /\ low = 256 * (w % 256) + m
    BY <1>1
  <1>4. low \div 256 = w % 256 /\ low % 256 = m
    BY <1>2, <1>3
  <1>5. 256 * high + (w % 256) = w
    BY <1>2, <1>3
  <1>6. 256 * high + (low \div 256) = w
    BY <1>4, <1>5
  <1>7. SignExtended(w) = n
    BY <1>2 DEF SignExtended
  <1> QED
    BY <1>4, <1>6, <1>7 DEF Acc24

(* roundf is at most one half off, and leaves whole numbers alone.         *)
LEMMA Quotient ==
  ASSUME NEW m \in Nat, NEW d \in Nat \ {0}
  PROVE  /\ m \div d \in Nat
         /\ d * (m \div d) <= m /\ m < d * (m \div d) + d
  OBVIOUS

LEMMA RoundfNear ==
  ASSUME NEW n \in Int, NEW d \in Nat \ {0}, NEW r, r = Roundf(n, d)
  PROVE  /\ r \in Int /\ d * r \in Int
         /\ 2 * (n - d * r) <= d /\ -d <= 2 * (n - d * r)
  <1>1. CASE n >= 0
    <2>1. PICK q : q = (2 * n + d) \div (2 * d)
      OBVIOUS
    <2>2. 2 * n + d \in Nat /\ 2 * d \in Nat \ {0}
      BY <1>1
    <2>3. /\ q \in Nat
          /\ (2 * d) * q <= 2 * n + d /\ 2 * n + d < (2 * d) * q + 2 * d
      BY <2>1, <2>2, Quotient
    <2>4. (2 * d) * q = 2 * (d * q) /\ d * q \in Int
      BY <2>3
    <2>5. r = q
      BY <1>1, <2>1 DEF Roundf
    <2> QED
      BY <2>3, <2>4, <2>5
  <1>2. CASE n < 0
    <2>1. PICK q : q = (d - 2 * n) \div (2 * d)
      OBVIOUS
    <2>2. d - 2 * n \in Nat /\ 2 * d \in Nat \ {0}
      BY <1>2
    <2>3. /\ q \in Nat
          /\ (2 * d) * q <= d - 2 * n /\ d - 2 * n < (2 * d) * q + 2 * d
      BY <2>1, <2>2, Quotient
    <2>4. (2 * d) * q = 2 * (d * q) /\ d * q \in Int /\ d * (-q) = -(d * q)
      BY <2>3
    <2>5. r = -q
      BY <1>2, <2>1 DEF Roundf
    <2> QED
      BY <2>3, <2>4, <2>5
  <1> QED
    BY <1>1, <1>2

LEMMA RoundfExact ==
  ASSUME NEW k \in Int, NEW d \in Nat \ {0}
  PROVE  Roundf(d * k, d) = k
  <1>1. PICK r : r = Roundf(d * k, d)
    OBVIOUS
  <1>2. d * k \in Int
    OBVIOUS
  <1>3. /\ r \in Int
        /\ 2 * (d * k - d * r) <= d /\ -d <= 2 * (d * k - d * r)
    BY <1>1, <1>2, RoundfNear
  <1>4. d * k - d * r = d * (k - r)
    BY <1>3
  <1>5. k - r >= 1 => d * (k - r) >= d
    BY <1>3
  <1>6. k - r <= -1 => d * (k - r) <= -d
    BY <1>3
  <1> QED
    BY <1>1, <1>3, <1>4, <1>5, <1>6

-----------------------------------------------------------------------------
(* A number of samples bounds what they add up to.                         *)
Within(x, k) == -(MaxCharge * k) <= x /\ x <= MaxCharge * k

LEMMA SampleWithin ==
  ASSUME NEW x \in Int, NEW k \in Nat, Within(x, k), NEW q \in Charges
  PROVE  q \in Int /\ Within(x + q, k + 1)
  <1>1. MaxCharge \in Nat /\ q \in (-MaxCharge) .. MaxCharge
    BY CountsAssumption
  <1>2. MaxCharge * (k + 1) = MaxCharge * k + MaxCharge
    BY <1>1
  <1>3. MaxCharge * k \in Int
    BY <1>1
  <1>4. PICK p \in Int : p = MaxCharge * k
    BY <1>3
  <1> QED
    BY <1>1, <1>2, <1>4 DEF Within

LEMMA NoneWithin == Within(0, 0)
  BY CountsAssumption DEF Within

LEMMA WithinFits ==
  ASSUME NEW x \in Int, NEW k \in 0 .. MaxSamples, Within(x, k)
  PROVE  -8388608 <= x /\ x < 8388608 /\ k \in 0 .. 255
  <1>1. MaxCharge \in Nat /\ MaxSamples \in 0 .. 255
    BY CountsAssumption
  <1>2. MaxCharge * k <= MaxCharge * MaxSamples
    BY <1>1
  <1>3. MaxCharge * MaxSamples < 8388608
    BY CountsAssumption
  <1> QED
    BY <1>1, <1>2, <1>3 DEF Within

-----------------------------------------------------------------------------
(* The invariant: what the chip counts, shows and has dropped is bounded   *)
(* by its samples, the first half read is that of the value shown, and the *)
(* ledger balances, but for what rounding has made of it.                  *)
Numbers ==
  /\ acc \in Int /\ held \in Int /\ charge \in Int /\ TotalCoulombs \in Int
  /\ cleared \in Int /\ clearedCount \in Nat /\ readings \in Nat
  /\ cnt \in Nat /\ heldCount \in Nat /\ samples \in Nat
  /\ TotalSampleCount \in Nat /\ lost \in Nat
  /\ msb \in 0 .. Word - 1

Bounded ==
  /\ samples <= MaxSamples /\ cnt <= samples /\ heldCount <= samples
  /\ cnt + clearedCount <= samples
  /\ Within(acc, cnt) /\ Within(held, heldCount)

HalfRead == lost = 0 /\ phase = "lsb" => msb = AccMsb

(* The rounding so far, at most a half per reading that brought a sample.  *)
Off(x) == 2 * x <= Hundredth * readings /\ -(Hundredth * readings) <= 2 * x

InFlight == IF Reading THEN held ELSE 0
CountInFlight == IF Reading THEN heldCount ELSE 0

Balanced ==
  lost = 0 =>
    /\ Off(Drift)
    /\ samples = TotalSampleCount + cnt + CountInFlight + clearedCount

LedgerInv == Numbers /\ Bounded /\ HalfRead /\ Balanced

LEMMA WordPositive == Word \in Nat /\ 0 < Word
  BY SMT DEF Word

LEMMA DriftIs ==
  ASSUME LedgerInv
  PROVE  /\ Hundredth * TotalCoulombs \in Int /\ InFlight \in Int
         /\ Drift = charge - (Hundredth * TotalCoulombs + acc + InFlight
                                + cleared)
         /\ Drift \in Int /\ Hundredth * readings \in Int
  <1>1. Hundredth \in Nat
    BY CountsAssumption
  <1>2. InFlight \in Int
    BY DEF InFlight, LedgerInv, Numbers
  <1>3. Hundredth * TotalCoulombs \in Int /\ Hundredth * readings \in Int
    BY <1>1 DEF LedgerInv, Numbers
  <1> QED
    BY <1>2, <1>3 DEF Drift, Accounted, InFlight, LedgerInv, Numbers

LEMMA InitLedger == Init => LedgerInv
  <1> SUFFICES ASSUME Init PROVE LedgerInv
    OBVIOUS
  <1>1. Numbers /\ Bounded /\ HalfRead
    BY NoneWithin, CountsAssumption, WordPositive
       DEF Init, Numbers, Bounded, HalfRead
  <1>2. Hundredth * 0 = 0
    BY CountsAssumption
  <1>3. ~Reading
    BY DEF Init, Reading
  <1>4. Drift = 0
    BY <1>2, <1>3 DEF Init, Drift, Accounted
  <1>5. Off(Drift)
    BY <1>2, <1>4 DEF Init, Off
  <1>6. samples = TotalSampleCount + cnt + CountInFlight + clearedCount
    BY <1>3 DEF Init, CountInFlight
  <1> QED
    BY <1>1, <1>5, <1>6 DEF LedgerInv, Balanced

LEMMA Elsewhere ==
  ASSUME LedgerInv, UNCHANGED counterVars,
         phase' = phase \/ {phase, phase'} \subseteq {"idle", "test"}
  PROVE  LedgerInv'
  <1>1. /\ acc' = acc /\ cnt' = cnt /\ held' = held /\ heldCount' = heldCount
        /\ msb' = msb /\ TotalCoulombs' = TotalCoulombs
        /\ TotalSampleCount' = TotalSampleCount
        /\ charge' = charge /\ samples' = samples /\ lost' = lost
        /\ readings' = readings /\ cleared' = cleared
        /\ clearedCount' = clearedCount
    BY DEF counterVars, chipVars, totalVars, measured, dropped
  <1>2. (phase' = "lsb" => phase = "lsb") /\ (Reading' <=> Reading)
    BY DEF Reading
  <1>3. Numbers' /\ Bounded'
    BY <1>1 DEF LedgerInv, Numbers, Bounded, Within
  <1>4. HalfRead'
    BY <1>1, <1>2 DEF LedgerInv, HalfRead, AccMsb
  <1>5. Balanced'
    <2>1. Drift' = Drift /\ CountInFlight' = CountInFlight
      BY <1>1, <1>2 DEF Drift, Accounted, CountInFlight
    <2> QED
      BY <1>1, <2>1 DEF LedgerInv, Balanced, Off
  <1> QED
    BY <1>3, <1>4, <1>5 DEF LedgerInv

LEMMA SampleStep ==
  ASSUME LedgerInv, NEW q \in Charges, Sample(q)
  PROVE  LedgerInv'
  <1>1. /\ samples < MaxSamples
        /\ acc' = acc + q /\ charge' = charge + q
        /\ cnt' = cnt + 1 /\ samples' = samples + 1
        /\ held' = held /\ heldCount' = heldCount /\ msb' = msb
        /\ TotalCoulombs' = TotalCoulombs
        /\ TotalSampleCount' = TotalSampleCount
        /\ lost' = lost /\ phase' = phase /\ readings' = readings
        /\ cleared' = cleared /\ clearedCount' = clearedCount
    BY DEF Sample, totalVars, dropped
  <1>2. q \in Int /\ Within(acc + q, cnt + 1)
    BY SampleWithin DEF LedgerInv, Numbers, Bounded
  <1>3. Within(acc, cnt)' /\ Within(held, heldCount)'
    BY <1>1, <1>2 DEF LedgerInv, Bounded, Within
  <1>4. Numbers'
    BY <1>1, <1>2 DEF LedgerInv, Numbers
  <1>5. Bounded'
    BY <1>1, <1>3, CountsAssumption DEF LedgerInv, Numbers, Bounded
  <1>6. HalfRead'
    BY <1>1 DEF LedgerInv, HalfRead, AccMsb
  <1>7. Balanced'
    <2>1. Drift' = Drift
      <3>1. Reading' <=> Reading
        BY <1>1 DEF Reading
      <3> QED
        BY <1>1, <1>2, <3>1, DriftIs
           DEF Drift, Accounted, InFlight, LedgerInv, Numbers
    <2>2. CountInFlight' = CountInFlight /\ CountInFlight \in Int
      BY <1>1 DEF CountInFlight, Reading, LedgerInv, Numbers
    <2> QED
      BY <1>1, <2>1, <2>2 DEF LedgerInv, Numbers, Balanced, Off
  <1> QED
    BY <1>4, <1>5, <1>6, <1>7 DEF LedgerInv

(* A transaction that fails ends what the ledger promises.                 *)
LEMMA LossEnds ==
  ASSUME LedgerInv, NEW ok \in BOOLEAN, Counted(ok)
  PROVE  /\ lost' \in Nat
         /\ lost' = 0 => ok /\ lost = 0
  BY DEF LedgerInv, Numbers, Counted

LEMMA ResetStep ==
  ASSUME LedgerInv, NEW ok \in BOOLEAN, ResetCounter(ok)
  PROVE  LedgerInv'
  <1>1. /\ phase = "idle" /\ phase' = "msb" /\ Counted(ok)
        /\ TotalCoulombs' = TotalCoulombs
        /\ TotalSampleCount' = TotalSampleCount /\ readings' = readings
        /\ charge' = charge /\ samples' = samples /\ msb' = msb
    BY DEF ResetCounter, totalVars, measured
  <1>2. \/ ok /\ \E shows \in BOOLEAN : Reset(shows)
        \/ /\ ~ok /\ held' = held /\ heldCount' = heldCount
           /\ acc' = acc /\ cnt' = cnt
           /\ cleared' = cleared /\ clearedCount' = clearedCount
    BY DEF ResetCounter, chipVars, dropped
  <1>3. lost' \in Nat /\ (lost' = 0 => ok /\ lost = 0)
    BY <1>1, LossEnds
  <1>4. ~Reading /\ Reading'
    BY <1>1 DEF Reading
  <1>5. HalfRead'
    BY <1>1 DEF HalfRead
  <1>6. CASE ~ok
    <2>1. Numbers' /\ Bounded'
      BY <1>1, <1>2, <1>3, <1>6 DEF LedgerInv, Numbers, Bounded, Within
    <2>2. Balanced'
      BY <1>3, <1>6 DEF Balanced
    <2> QED
      BY <1>5, <2>1, <2>2 DEF LedgerInv
  <1>7. ASSUME ok, Reset(TRUE) PROVE LedgerInv'
    <2>1. /\ held' = acc /\ heldCount' = cnt /\ acc' = 0 /\ cnt' = 0
          /\ cleared' = cleared /\ clearedCount' = clearedCount
      BY <1>7 DEF Reset
    <2>2. Numbers'
      BY <1>1, <1>3, <2>1 DEF LedgerInv, Numbers
    <2>3. Within(acc, cnt)' /\ Within(held, heldCount)'
      BY <2>1, NoneWithin DEF LedgerInv, Bounded, Within
    <2>4. Bounded'
      BY <1>1, <2>1, <2>3 DEF LedgerInv, Numbers, Bounded
    <2>5. Drift' = Drift
      BY <1>1, <1>4, <2>1, DriftIs
         DEF Drift, Accounted, InFlight, LedgerInv, Numbers
    <2>6. /\ CountInFlight = 0 /\ CountInFlight' = heldCount'
      BY <1>4 DEF CountInFlight
    <2>7. Balanced'
      BY <1>1, <1>3, <2>1, <2>5, <2>6 DEF LedgerInv, Numbers, Balanced, Off
    <2> QED
      BY <1>5, <2>2, <2>4, <2>7 DEF LedgerInv
  <1>8. ASSUME ok, Reset(FALSE) PROVE LedgerInv'
    <2>1. /\ held' = 0 /\ heldCount' = 0 /\ acc' = 0 /\ cnt' = 0
          /\ cleared' = cleared + acc /\ clearedCount' = clearedCount + cnt
      BY <1>8 DEF Reset
    <2>2. Numbers'
      BY <1>1, <1>3, <2>1 DEF LedgerInv, Numbers
    <2>3. Within(acc, cnt)' /\ Within(held, heldCount)'
      BY <2>1, NoneWithin DEF Within
    <2>4. Bounded'
      BY <1>1, <2>1, <2>3 DEF LedgerInv, Numbers, Bounded
    <2>5. Drift' = Drift
      BY <1>1, <1>4, <2>1, DriftIs
         DEF Drift, Accounted, InFlight, LedgerInv, Numbers
    <2>6. /\ CountInFlight = 0 /\ CountInFlight' = heldCount'
      BY <1>4 DEF CountInFlight
    <2>7. Balanced'
      BY <1>1, <1>3, <2>1, <2>5, <2>6 DEF LedgerInv, Numbers, Balanced, Off
    <2> QED
      BY <1>5, <2>2, <2>4, <2>7 DEF LedgerInv
  <1> QED
    BY <1>2, <1>6, <1>7, <1>8

(* What the chip shows fits its sixteen bits.                              *)
LEMMA RegistersFit ==
  ASSUME held \in Int, heldCount \in Nat
  PROVE  AccMsb \in 0 .. Word - 1 /\ AccLsbAndCount \in Int
  <1>1. PICK w : w = TwosComplement(held)
    OBVIOUS
  <1>2. w \in Nat /\ w < 16777216
    BY <1>1 DEF TwosComplement
  <1>3. /\ w \div 256 \in Nat /\ w \div 256 < 65536
        /\ 256 * (w % 256) + (heldCount % 256) \in Int
    BY <1>2
  <1>4. Word \in Nat /\ w \div 256 <= Word - 1
    BY <1>3, SMT DEF Word
  <1> QED
    BY <1>1, <1>3, <1>4 DEF AccMsb, AccLsbAndCount

LEMMA MsbStep ==
  ASSUME LedgerInv, NEW ok \in BOOLEAN, ReadMsb(ok)
  PROVE  LedgerInv'
  <1>1. /\ phase = "msb" /\ phase' = "lsb" /\ Counted(ok)
        /\ msb' \in readBMSData(AccMsb, AccMsb, ok)
        /\ acc' = acc /\ cnt' = cnt /\ held' = held /\ heldCount' = heldCount
        /\ TotalCoulombs' = TotalCoulombs
        /\ TotalSampleCount' = TotalSampleCount
        /\ charge' = charge /\ samples' = samples /\ readings' = readings
        /\ cleared' = cleared /\ clearedCount' = clearedCount
    BY DEF ReadMsb, measured, chipVars, dropped
  <1>2. lost' \in Nat /\ (lost' = 0 => ok /\ lost = 0)
    BY <1>1, LossEnds
  <1>3. Numbers' /\ Bounded'
    <2>1. msb' \in 0 .. Word - 1
      BY <1>1, RegistersFit, WordPositive
         DEF LedgerInv, Numbers, readBMSData
    <2> QED
      BY <1>1, <1>2, <2>1 DEF LedgerInv, Numbers, Bounded, Within
  <1>4. HalfRead'
    <2>1. AccMsb' = AccMsb
      BY <1>1 DEF AccMsb
    <2>2. ok => msb' = AccMsb
      BY <1>1 DEF readBMSData
    <2> QED
      BY <1>2, <2>1, <2>2 DEF HalfRead
  <1>5. Balanced'
    <2>1. Reading /\ Reading'
      BY <1>1 DEF Reading
    <2>2. Drift' = Drift /\ CountInFlight' = CountInFlight
      BY <1>1, <2>1 DEF Drift, Accounted, CountInFlight
    <2> QED
      BY <1>1, <1>2, <2>2 DEF LedgerInv, Balanced, Off
  <1> QED
    BY <1>3, <1>4, <1>5 DEF LedgerInv

LEMMA LsbStep ==
  ASSUME LedgerInv, NEW ok \in BOOLEAN, ReadLsb(ok)
  PROVE  LedgerInv'
  <1>1. /\ phase = "lsb" /\ phase' = "idle" /\ Counted(ok)
        /\ acc' = acc /\ cnt' = cnt /\ held' = held /\ heldCount' = heldCount
        /\ charge' = charge /\ samples' = samples /\ msb' = 0
        /\ cleared' = cleared /\ clearedCount' = clearedCount
    BY DEF ReadLsb, measured, chipVars, dropped
  <1>2. PICK low \in readBMSData(AccLsbAndCount, AccMsb, ok) :
          /\ TotalCoulombs' =
               Roundf(Hundredth * TotalCoulombs + Acc24(msb, low), Hundredth)
          /\ TotalSampleCount' = TotalSampleCount + (low % 256)
          /\ readings' = readings + (IF low % 256 > 0 THEN 1 ELSE 0)
    BY DEF ReadLsb
  <1>3. lost' \in Nat /\ (lost' = 0 => ok /\ lost = 0)
    BY <1>1, LossEnds
  <1>4. ok /\ lost = 0 => Acc24(msb, low) = held /\ low % 256 = heldCount
    <2> SUFFICES ASSUME ok, lost = 0
                 PROVE  Acc24(msb, low) = held /\ low % 256 = heldCount
      OBVIOUS
    <2>1. msb = AccMsb /\ low = AccLsbAndCount
      BY <1>1, <1>2 DEF LedgerInv, HalfRead, readBMSData
    <2>2. /\ held \in Int /\ -8388608 <= held /\ held < 8388608
          /\ heldCount \in 0 .. 255
      <3>1. held \in Int /\ heldCount \in 0 .. MaxSamples
            /\ Within(held, heldCount)
        BY CountsAssumption DEF LedgerInv, Numbers, Bounded
      <3> QED
        BY <3>1, WithinFits
    <2> QED
      BY <2>1, <2>2, HalvesJoin DEF AccMsb, AccLsbAndCount
  <1>5. low % 256 \in Nat /\ Acc24(msb, low) \in Int
    <2>1. msb \in Int /\ low \in Int
      BY <1>1, <1>2, RegistersFit, WordPositive
         DEF LedgerInv, Numbers, readBMSData
    <2> QED
      BY <2>1 DEF Acc24, SignExtended
  <1>a. PICK before \in Int : before = Hundredth * TotalCoulombs
    BY DriftIs
  <1>b. PICK after : after = Hundredth * TotalCoulombs'
    OBVIOUS
  <1>c. PICK sum \in Int : sum = before + Acc24(msb, low)
    BY <1>5
  <1>e. /\ TotalCoulombs' \in Int /\ after \in Int
        /\ 2 * (sum - after) <= Hundredth
        /\ -Hundredth <= 2 * (sum - after)
    <2>1. Hundredth \in Nat \ {0}
      BY CountsAssumption
    <2>2. PICK r : r = TotalCoulombs'
      OBVIOUS
    <2>3. r = Roundf(sum, Hundredth)
      BY <1>2, <1>a, <1>c, <2>2
    <2>4. /\ r \in Int /\ Hundredth * r \in Int
          /\ 2 * (sum - Hundredth * r) <= Hundredth
          /\ -Hundredth <= 2 * (sum - Hundredth * r)
      BY <2>1, <2>3, RoundfNear
    <2>5. after = Hundredth * r
      BY <1>b, <2>2
    <2> QED
      BY <2>2, <2>4, <2>5, Zenon
  <1>d. Acc24(msb, low) = 0 => after = before
    <2>1. Hundredth \in Nat \ {0} /\ TotalCoulombs \in Int
      BY CountsAssumption DEF LedgerInv, Numbers
    <2>2. Roundf(Hundredth * TotalCoulombs, Hundredth) = TotalCoulombs
      BY <2>1, RoundfExact
    <2> QED
      BY <1>2, <1>a, <1>b, <2>2
  <1>6. Numbers'
    BY <1>1, <1>2, <1>3, <1>5, <1>e, WordPositive DEF LedgerInv, Numbers
  <1>7. Bounded'
    BY <1>1 DEF LedgerInv, Bounded, Within
  <1>8. HalfRead'
    BY <1>1 DEF HalfRead
  <1>9. Balanced'
    <2> SUFFICES ASSUME ok, lost = 0
                 PROVE  /\ Off(Drift)'
                        /\ samples' = TotalSampleCount' + cnt' + CountInFlight'
                                       + clearedCount'
      BY <1>3 DEF Balanced
    <2>1. Reading /\ ~Reading'
      BY <1>1 DEF Reading
    <2>2. Acc24(msb, low) = held /\ low % 256 = heldCount
      BY <1>4
    <2>3. samples' = TotalSampleCount' + cnt' + CountInFlight' + clearedCount'
      BY <1>1, <1>2, <2>1, <2>2
         DEF LedgerInv, Numbers, Balanced, CountInFlight
    <2>4. Drift = charge - (before + acc + held + cleared)
      BY <1>a, <2>1, DriftIs DEF InFlight
    <2>5. Drift' = charge - (after + acc + cleared)
      <3>1. after + acc + 0 + cleared = after + acc + cleared
        BY <1>e DEF LedgerInv, Numbers
      <3> QED
        BY <1>1, <1>b, <2>1, <3>1 DEF Drift, Accounted
    <2>6. Drift' = Drift + (before + held - after)
      BY <1>5, <1>e, <2>2, <2>4, <2>5 DEF LedgerInv, Numbers
    <2>7. PICK bound \in Int : bound = Hundredth * readings
      BY DriftIs
    <2>8. 2 * Drift <= bound /\ -bound <= 2 * Drift
      BY <2>7 DEF LedgerInv, Balanced, Off
    <2>9. Off(Drift)'
      <3>1. CASE heldCount > 0
        <4>1. readings' = readings + 1
          BY <1>2, <2>2, <3>1
        <4>2. Hundredth * readings' = bound + Hundredth /\ Hundredth \in Nat
          BY <2>7, <4>1, CountsAssumption DEF LedgerInv, Numbers
        <4>3. PICK more \in Int : more = Hundredth * readings'
          BY <2>7, <4>2
        <4>4. 2 * Drift' <= more /\ -more <= 2 * Drift'
          BY <1>c, <1>e, <2>2, <2>6, <2>8, <4>2, <4>3, DriftIs
             DEF LedgerInv, Numbers
        <4> QED
          BY <4>3, <4>4 DEF Off
      <3>2. CASE ~(heldCount > 0)
        <4>1. heldCount = 0 /\ readings' = readings
          BY <1>2, <2>2, <3>2 DEF LedgerInv, Numbers
        <4>2. held = 0
          <5>1. MaxCharge * 0 = 0
            BY CountsAssumption
          <5> QED
            BY <4>1, <5>1 DEF LedgerInv, Numbers, Bounded, Within
        <4>3. Drift' = Drift
          BY <1>d, <2>2, <2>6, <4>2, DriftIs
        <4> QED
          BY <2>7, <2>8, <4>1, <4>3 DEF Off
      <3> QED
        BY <3>1, <3>2
    <2> QED
      BY <2>3, <2>9
  <1> QED
    BY <1>6, <1>7, <1>8, <1>9 DEF LedgerInv

-----------------------------------------------------------------------------
LEMMA LedgerStep == LedgerInv /\ [Next]_vars => LedgerInv'
  <1> SUFFICES ASSUME LedgerInv, [Next]_vars
               PROVE  LedgerInv'
    OBVIOUS
  <1>1. CASE Tick \/ Rise \/ onBMSReadyRise
    BY <1>1, Elsewhere DEF Tick, Rise, onBMSReadyRise
  <1>2. CASE \E q \in Charges : Sample(q)
    BY <1>2, SampleStep
  <1>3. CASE \E on \in BOOLEAN : setBMSConversionState(on)
    BY <1>3, Elsewhere DEF setBMSConversionState
  <1>4. CASE ReadMicros \/ ReadTimestamp \/ isBMSDataValid
    BY <1>4, Elsewhere
       DEF ReadMicros, ReadTimestamp, isBMSDataValid, Testing, Tested
  <1>5. \A ok \in Outcomes : ok \in BOOLEAN
    BY DEF Outcomes
  <1>6. CASE \E ok \in Outcomes : ResetCounter(ok)
    BY <1>5, <1>6, ResetStep
  <1>7. CASE \E ok \in Outcomes : ReadMsb(ok)
    BY <1>5, <1>7, MsbStep
  <1>8. CASE \E ok \in Outcomes : ReadLsb(ok)
    BY <1>5, <1>8, LsbStep
  <1>9. CASE UNCHANGED vars
    BY <1>9, Elsewhere DEF vars
  <1> QED
    BY <1>1, <1>2, <1>3, <1>4, <1>6, <1>7, <1>8, <1>9 DEF Next

LEMMA LedgerHolds == LedgerInv => LedgerBalanced
  BY DEF LedgerInv, Balanced, Off, CountInFlight, LedgerBalanced

(* Whatever is sampled, in whatever order the halves of a reading and the  *)
(* samples come, whether a reset shows the counter or drops it, and for    *)
(* every number of samples the twenty-four bits hold: as long as no        *)
(* transaction fails, TotalCoulombs is off by at most half of a hundredth  *)
(* of a coulomb per reading, and TotalSampleCount by nothing.              *)
THEOREM OnlyRoundingIsLost == Spec => []LedgerBalanced
  <1>1. Init => LedgerInv
    BY InitLedger
  <1>2. LedgerInv /\ [Next]_vars => LedgerInv'
    BY LedgerStep
  <1>3. LedgerInv => LedgerBalanced
    BY LedgerHolds
  <1> QED
    BY <1>1, <1>2, <1>3, PTL DEF Spec

-----------------------------------------------------------------------------
(* The clock, the conversion cycle and the variables of a test.            *)
Instants == 0 .. Wrap - 1

Clocked ==
  /\ now \in Instants
  /\ converting \in BOOLEAN
  /\ clk \in 0 .. MeasureCycle
  /\ age \in 0 .. Old
  /\ rdy \in BOOLEAN /\ (rdy => age <= Delay)
  /\ wrapped \in BOOLEAN
  /\ bmsDataReady \in BOOLEAN
  /\ bmsDataTimestamp \in Instants

InTest ==
  /\ phase \in {"idle", "test", "msb", "lsb"}
  /\ t \in Instants \cup {NotRead}
  /\ s \in Instants \cup {NotRead}
  /\ begun \in Instants \cup {NotRead}

(* The times of the cycle, as numbers.                                     *)
LEMMA Times ==
  /\ Wrap \in Nat /\ MeasureCycle \in Nat /\ Delay \in Nat /\ SetupTime \in Nat
  /\ Stable \in Int /\ Old \in Int
  /\ 0 < Stable /\ Stable <= MeasureCycle /\ Delay < Stable
  /\ Stable <= SetupTime /\ SetupTime < Wrap
  /\ Old = Stable + 2 * Delay + MeasureCycle /\ Old < Wrap
  <1>1. /\ Wrap \in Nat /\ MeasureCycle \in Nat /\ Delay \in Nat
        /\ SetupTime \in Nat /\ Slack \in Nat
        /\ Cells \in Nat /\ CellFilter \in Nat
    BY TimesAssumption
  <1>2. (Cells + 1) * CellFilter \in Int
    BY <1>1
  <1>3. Stable \in Int
    BY <1>1, <1>2 DEF Stable
  <1>4. Old = Stable + 2 * Delay + MeasureCycle
    BY DEF Old
  <1> QED
    BY <1>1, <1>3, <1>4, TimesAssumption

(* micros() counts on, and starts over at Wrap.                            *)
LEMMA NextInstant ==
  ASSUME NEW m \in Instants
  PROVE  /\ m + 1 < Wrap => (m + 1) % Wrap = m + 1
         /\ m + 1 = Wrap => (m + 1) % Wrap = 0
         /\ (m + 1) % Wrap \in Instants
  <1>1. Wrap \in Nat /\ Wrap > 0 /\ m \in Nat /\ m < Wrap
    BY Times DEF Instants
  <1>2. m + 1 < Wrap => (m + 1) % Wrap = m + 1
    BY <1>1
  <1>3. m + 1 = Wrap => (m + 1) % Wrap = 0
    BY <1>1
  <1> QED
    BY <1>1, <1>2, <1>3 DEF Instants

(* How long ago an instant was, and that a tick makes it one more.         *)
LEMMA SinceIs ==
  ASSUME now \in Instants, NEW m \in Instants
  PROVE  /\ m <= now => Since(m) = now - m
         /\ m > now => Since(m) = now - m + Wrap
         /\ Since(m) \in Nat
  <1>1. Wrap \in Nat /\ Wrap > 0
    BY Times
  <1>2. /\ m \in Nat /\ m < Wrap /\ now \in Nat /\ now < Wrap
    BY <1>1 DEF Instants
  <1>3. m <= now => (now - m) % Wrap = now - m
    BY <1>1, <1>2
  <1>4. m > now => (now - m) % Wrap = now - m + Wrap
    BY <1>1, <1>2
  <1> QED
    BY <1>1, <1>2, <1>3, <1>4 DEF Since

LEMMA SinceTicks ==
  ASSUME now \in Instants, now' = (now + 1) % Wrap, NEW m \in Instants,
         Since(m) < Delay
  PROVE  now' \in Instants /\ ((now - m) % Wrap) + 1 = (now' - m) % Wrap
  <1>1. Wrap \in Nat /\ Wrap > 0 /\ Delay \in Nat /\ Delay < Wrap
    BY Times
  <1>2. /\ m \in Nat /\ m < Wrap /\ now \in Nat /\ now < Wrap
    BY <1>1 DEF Instants
  <1>3. /\ now' \in Instants /\ (now + 1 < Wrap => now' = now + 1)
        /\ (now + 1 = Wrap => now' = 0)
    BY NextInstant
  <1>4. /\ m <= now => (now - m) % Wrap = now - m
        /\ m > now => (now - m) % Wrap = now - m + Wrap
    BY SinceIs DEF Since
  <1>5. (now - m) % Wrap < Delay
    BY DEF Since
  <1>6. CASE now + 1 < Wrap
    <2>1. m <= now + 1 => (now + 1 - m) % Wrap = now + 1 - m
      BY <1>1, <1>2, <1>6
    <2>2. m > now + 1 => (now + 1 - m) % Wrap = now + 1 - m + Wrap
      BY <1>1, <1>2, <1>6
    <2>3. m > now => m > now + 1
      BY <1>1, <1>2, <1>4, <1>5
    <2> QED
      BY <1>1, <1>2, <1>3, <1>4, <1>6, <2>1, <2>2, <2>3
  <1>7. CASE now + 1 = Wrap
    <2>1. m > 0
      BY <1>1, <1>2, <1>4, <1>5, <1>7
    <2>2. (0 - m) % Wrap = Wrap - m
      BY <1>1, <1>2, <2>1
    <2> QED
      BY <1>1, <1>2, <1>3, <1>4, <1>7, <2>2
  <1> QED
    BY <1>1, <1>2, <1>3, <1>6, <1>7

-----------------------------------------------------------------------------
(* A test takes at most Delay from its first read on.                      *)
Span ==
  /\ begun # NotRead <=> phase = "test"
  /\ t # NotRead \/ s # NotRead => begun # NotRead
  /\ begun # NotRead => Since(begun) <= Delay

(* Before the first RDY nothing has been noted, and data is too old.       *)
First ==
  /\ age = Old /\ ~rdy /\ bmsDataTimestamp = 0 /\ SetupTime <= now
  /\ t # NotRead => SetupTime <= t
  /\ s # NotRead => s = 0

(* After an RDY, while micros() has not started over: the timestamp is at  *)
(* most Delay later than the RDY; so is one read into s, unless it was     *)
(* read before the interrupt noted that RDY, which is then a recent one.   *)
Noted(m) == m <= now - age + Delay

Later ==
  /\ ~rdy => Noted(bmsDataTimestamp)
  /\ s # NotRead => Noted(s) \/ age - Since(begun) <= Delay

(* The timestamp is not earlier than the RDY it stands for.                *)
NotEarly ==
  ~wrapped /\ ~rdy /\ bmsDataReady /\ age < Old =>
    now - age <= bmsDataTimestamp

YoungInv ==
  /\ Clocked /\ InTest /\ Span /\ NotEarly
  /\ ~wrapped => First \/ Later

LEMMA NotReadIs == NotRead \in Int /\ NotRead \notin Instants
  BY Times DEF NotRead, Instants

LEMMA InitYoung == Init => YoungInv
  <1> SUFFICES ASSUME Init PROVE YoungInv
    OBVIOUS
  <1>1. 0 \in Instants /\ SetupTime \in Instants /\ Old \in 0 .. Old
        /\ 0 \in 0 .. MeasureCycle
    BY Times DEF Instants
  <1>2. Clocked /\ InTest
    BY <1>1 DEF Init, Clocked, InTest
  <1>3. Span /\ First
    BY Times DEF Init, Span, First
  <1>4. NotEarly
    BY Times DEF Init, NotEarly
  <1> QED
    BY <1>2, <1>3, <1>4 DEF YoungInv

LEMMA TickStep ==
  ASSUME YoungInv, Tick
  PROVE  YoungInv'
  <1>1. /\ now' = (now + 1) % Wrap
        /\ wrapped' = (wrapped \/ now + 1 = Wrap)
        /\ clk' = (IF converting THEN clk + 1 ELSE clk)
        /\ age' = (IF age < Old THEN age + 1 ELSE age)
        /\ (converting => clk < MeasureCycle) /\ (rdy => age < Delay)
        /\ (begun # NotRead => Since(begun) < Delay)
    BY DEF Tick
  <1>2. /\ converting' = converting /\ rdy' = rdy /\ phase' = phase
        /\ bmsDataReady' = bmsDataReady
        /\ bmsDataTimestamp' = bmsDataTimestamp
        /\ t' = t /\ s' = s /\ begun' = begun
    BY DEF Tick, stampVars, testVars
  <1>3. Clocked /\ InTest /\ Span /\ NotEarly /\ (~wrapped => First \/ Later)
    BY DEF YoungInv
  <1>4. now \in Instants /\ age \in Int /\ bmsDataTimestamp \in Int
        /\ (s # NotRead => s \in Int) /\ (t # NotRead => t \in Int)
    BY <1>3, Times DEF Clocked, InTest, Instants
  <1>5. now' \in Instants /\ (now + 1 < Wrap => now' = now + 1)
        /\ now \in Int /\ now < Wrap
    BY <1>1, <1>4, NextInstant, Times DEF Instants
  <1>6. ~wrapped' => ~wrapped /\ now' = now + 1
    <2>1. ~wrapped' => ~wrapped /\ now + 1 # Wrap
      BY <1>1, Zenon
    <2> QED
      BY <1>5, <2>1, Times
  <1>7. begun # NotRead =>
          Since(begun) \in Nat /\ Since(begun)' = Since(begun) + 1
    <2> SUFFICES ASSUME begun # NotRead
                 PROVE  /\ Since(begun) \in Nat
                        /\ Since(begun)' = Since(begun) + 1
      OBVIOUS
    <2>1. begun \in Instants
      BY <1>3 DEF InTest
    <2>2. ((now - begun) % Wrap) + 1 = (now' - begun) % Wrap
      BY <1>1, <1>4, <2>1, SinceTicks
    <2>3. Since(begun) \in Nat
      BY <1>4, <2>1, SinceIs
    <2> QED
      BY <1>2, <2>2, <2>3 DEF Since
  <1>8. Clocked'
    <2>1. clk' \in 0 .. MeasureCycle /\ age' \in 0 .. Old
      BY <1>1, <1>3, Times DEF Clocked
    <2>2. wrapped' \in BOOLEAN
      BY <1>1, <1>3 DEF Clocked
    <2>3. rdy' => age' <= Delay
      BY <1>1, <1>2, <1>4, Times
    <2> QED
      BY <1>2, <1>3, <1>5, <2>1, <2>2, <2>3 DEF Clocked
  <1>9. InTest'
    BY <1>2, <1>3 DEF InTest
  <1>10. Span'
    BY <1>1, <1>2, <1>3, <1>7, Times DEF Span
  <1>11. NotEarly'
    BY <1>1, <1>2, <1>3, <1>4, <1>5, <1>6, Times DEF NotEarly
  <1>12. ASSUME ~wrapped', First
         PROVE  First'
    BY <1>1, <1>2, <1>4, <1>5, <1>6, <1>12, Times DEF First
  <1>13. ASSUME ~wrapped', Later
         PROVE  Later'
    <2>1. now' - age' >= now - age
      BY <1>1, <1>4, <1>5, <1>6, <1>13, Times
    <2>2. ~rdy' => Noted(bmsDataTimestamp)'
      BY <1>1, <1>2, <1>4, <1>5, <1>13, <2>1, Times DEF Later, Noted
    <2>3. s # NotRead => begun # NotRead
      BY <1>3 DEF Span
    <2>4. s # NotRead /\ Noted(s) => Noted(s)'
      BY <1>1, <1>2, <1>4, <1>5, <2>1, Times DEF Noted
    <2>5. s # NotRead /\ age - Since(begun) <= Delay
            => age' - Since(begun)' <= Delay
      BY <1>1, <1>4, <1>7, <2>3, Times
    <2> QED
      BY <1>2, <1>13, <2>2, <2>4, <2>5 DEF Later
  <1> QED
    BY <1>3, <1>6, <1>8, <1>9, <1>10, <1>11, <1>12, <1>13 DEF YoungInv

LEMMA RiseStep ==
  ASSUME YoungInv, Rise
  PROVE  YoungInv'
  <1>1. /\ clk' = 0 /\ age' = 0 /\ rdy' = TRUE /\ wrapped' = FALSE
        /\ now' = now /\ converting' = converting /\ phase' = phase
        /\ bmsDataReady' = bmsDataReady
        /\ bmsDataTimestamp' = bmsDataTimestamp
        /\ t' = t /\ s' = s /\ begun' = begun
    BY DEF Rise, stampVars, testVars
  <1>2. Clocked /\ InTest /\ Span
    BY DEF YoungInv
  <1>3. Clocked' /\ InTest'
    <2>1. clk' \in 0 .. MeasureCycle /\ age' \in 0 .. Old /\ age' <= Delay
      BY <1>1, Times
    <2>2. /\ rdy' \in BOOLEAN /\ wrapped' \in BOOLEAN
          /\ bmsDataReady' \in BOOLEAN /\ converting' \in BOOLEAN
      BY <1>1, <1>2 DEF Clocked
    <2> QED
      BY <1>1, <1>2, <2>1, <2>2 DEF Clocked, InTest
  <1>4. Span' /\ NotEarly'
    BY <1>1, <1>2 DEF Span, Since, NotEarly
  <1>5. Later'
    <2>1. s # NotRead => Since(begun) \in Nat
      BY <1>2, SinceIs DEF Clocked, InTest, Span
    <2>2. Since(begun)' = Since(begun)
      BY <1>1 DEF Since
    <2>3. s # NotRead => age' - Since(begun)' <= Delay
      BY <1>1, <2>1, <2>2, Times
    <2> QED
      BY <1>1, <2>3 DEF Later
  <1> QED
    BY <1>3, <1>4, <1>5 DEF YoungInv

LEMMA ServeStep ==
  ASSUME YoungInv, onBMSReadyRise
  PROVE  YoungInv'
  <1>1. /\ rdy /\ rdy' = FALSE /\ bmsDataReady' = TRUE
        /\ bmsDataTimestamp' = now
        /\ now' = now /\ converting' = converting /\ clk' = clk /\ age' = age
        /\ wrapped' = wrapped /\ phase' = phase
        /\ t' = t /\ s' = s /\ begun' = begun
    BY DEF onBMSReadyRise, testVars
  <1>2. Clocked /\ InTest /\ Span /\ (~wrapped => Later)
    BY <1>1 DEF YoungInv, First
  <1>3. Clocked' /\ InTest'
    <2>1. now \in Instants /\ bmsDataTimestamp' \in Instants
      BY <1>1, <1>2 DEF Clocked
    <2>2. /\ rdy' \in BOOLEAN /\ ~rdy' /\ wrapped' \in BOOLEAN
          /\ bmsDataReady' \in BOOLEAN /\ converting' \in BOOLEAN
      BY <1>1, <1>2 DEF Clocked
    <2>3. clk' \in 0 .. MeasureCycle /\ age' \in 0 .. Old
      BY <1>1, <1>2 DEF Clocked
    <2> QED
      BY <1>1, <1>2, <2>1, <2>2, <2>3 DEF Clocked, InTest
  <1>4. now \in Int /\ age \in Int /\ 0 <= age /\ age <= Delay
    BY <1>1, <1>2, Times DEF Clocked, Instants
  <1>5. Span' /\ NotEarly'
    BY <1>1, <1>2, <1>4 DEF Span, Since, NotEarly
  <1>6. ~wrapped' => Later'
    BY <1>1, <1>2, <1>4, Times DEF Later, Noted, Since
  <1> QED
    BY <1>3, <1>5, <1>6 DEF YoungInv

LEMMA SwitchStep ==
  ASSUME YoungInv, NEW on \in BOOLEAN, setBMSConversionState(on)
  PROVE  YoungInv'
  <1>1. /\ converting' = on /\ clk' = (IF on /\ converting THEN clk ELSE 0)
        /\ now' = now /\ age' = age /\ rdy' = rdy /\ wrapped' = wrapped
        /\ bmsDataReady' = bmsDataReady
        /\ bmsDataTimestamp' = bmsDataTimestamp
        /\ phase' = phase /\ t' = t /\ s' = s /\ begun' = begun
    BY DEF setBMSConversionState, stampVars, testVars
  <1>2. clk' \in 0 .. MeasureCycle
    BY <1>1, Times DEF YoungInv, Clocked
  <1>3. Clocked'
    BY <1>1, <1>2 DEF YoungInv, Clocked
  <1>4. /\ InTest' /\ Span' /\ NotEarly'
        /\ (First' <=> First) /\ (Later' <=> Later)
    BY <1>1 DEF YoungInv, InTest, Span, NotEarly, First, Later, Noted, Since
  <1> QED
    BY <1>1, <1>3, <1>4 DEF YoungInv

(* Neither the counter nor a stutter touches what tests are about.         *)
LEMMA CounterStep ==
  ASSUME YoungInv, UNCHANGED <<clockVars, stampVars, testVars>>,
         phase' \in {"idle", "test", "msb", "lsb"},
         phase' = "test" <=> phase = "test"
  PROVE  YoungInv'
  <1>1. /\ now' = now /\ converting' = converting /\ clk' = clk /\ age' = age
        /\ rdy' = rdy /\ wrapped' = wrapped
        /\ bmsDataReady' = bmsDataReady
        /\ bmsDataTimestamp' = bmsDataTimestamp
        /\ t' = t /\ s' = s /\ begun' = begun
    BY DEF clockVars, stampVars, testVars
  <1>2. Clocked' /\ InTest'
    BY <1>1 DEF YoungInv, Clocked, InTest
  <1>3. Span' /\ NotEarly' /\ (First' <=> First) /\ (Later' <=> Later)
    BY <1>1 DEF YoungInv, Span, NotEarly, First, Later, Noted, Since
  <1> QED
    BY <1>1, <1>2, <1>3 DEF YoungInv

(* Either read of a test, the first one or the second.                     *)
LEMMA TestStep ==
  ASSUME YoungInv, ReadMicros \/ ReadTimestamp
  PROVE  YoungInv'
  <1>1. /\ phase \in {"idle", "test"} /\ phase' = "test"
        /\ begun' = (IF phase = "idle" THEN now ELSE begun)
    BY DEF ReadMicros, ReadTimestamp, Testing
  <1>2. /\ now' = now /\ converting' = converting /\ clk' = clk /\ age' = age
        /\ rdy' = rdy /\ wrapped' = wrapped
        /\ bmsDataReady' = bmsDataReady
        /\ bmsDataTimestamp' = bmsDataTimestamp
    BY DEF ReadMicros, ReadTimestamp, clockVars, stampVars
  <1>3. \/ t' = now /\ s' = s
        \/ t' = t /\ s' = bmsDataTimestamp
    BY DEF ReadMicros, ReadTimestamp
  <1>4. Clocked /\ InTest /\ Span /\ NotEarly /\ (~wrapped => First \/ Later)
    BY DEF YoungInv
  <1>5. begun' \in Instants /\ begun' # NotRead
    BY <1>1, <1>4, NotReadIs DEF Clocked, InTest, Span
  <1>6. Since(begun)' \in Nat /\ Since(begun)' <= Delay
    <2>1. CASE phase = "idle"
      <3>1. Since(begun)' = Since(now)
        BY <1>1, <1>2, <2>1 DEF Since
      <3>2. Since(now) = 0
        BY <1>4, SinceIs, Times DEF Clocked, Instants
      <3> QED
        BY <3>1, <3>2, Times
    <2>2. CASE phase = "test"
      <3>1. begun' = begun /\ begun \in Instants /\ begun # NotRead
        BY <1>1, <1>4, <2>2 DEF InTest, Span
      <3>2. Since(begun)' = Since(begun)
        BY <1>2, <3>1 DEF Since
      <3>3. Since(begun) \in Nat /\ Since(begun) <= Delay
        BY <1>4, <3>1, SinceIs DEF Clocked, Span
      <3> QED
        BY <3>2, <3>3
    <2> QED
      BY <1>1, <2>1, <2>2
  <1>7. Clocked' /\ InTest' /\ NotEarly'
    BY <1>1, <1>2, <1>3, <1>4, <1>5 DEF Clocked, InTest, NotEarly
  <1>8. Span'
    BY <1>1, <1>5, <1>6 DEF Span
  <1>9. First => First'
    BY <1>2, <1>3 DEF First
  <1>10. Later => Later'
    <2> SUFFICES ASSUME Later PROVE Later'
      OBVIOUS
    <2>1. ~rdy' => Noted(bmsDataTimestamp)'
      BY <1>2 DEF Later, Noted
    <2>2. CASE s' = s
      <3>1. s # NotRead => phase = "test" /\ begun' = begun
        BY <1>1, <1>4 DEF Span
      <3>2. s # NotRead => (Noted(s) \/ age - Since(begun) <= Delay)'
        BY <1>2, <2>2, <3>1 DEF Later, Noted, Since
      <3> QED
        BY <2>1, <2>2, <3>2 DEF Later
    <2>3. CASE s' = bmsDataTimestamp
      <3>1. ~rdy => Noted(s)'
        BY <1>2, <2>3 DEF Later, Noted
      <3>2. rdy => age' - Since(begun)' <= Delay
        BY <1>2, <1>4, <1>6, Times DEF Clocked
      <3> QED
        BY <2>1, <3>1, <3>2 DEF Later
    <2> QED
      BY <1>3, <2>2, <2>3
  <1> QED
    BY <1>2, <1>4, <1>7, <1>8, <1>9, <1>10 DEF YoungInv

LEMMA VerdictStep ==
  ASSUME YoungInv, isBMSDataValid
  PROVE  YoungInv'
  <1>1. /\ phase' = "idle" /\ t' = NotRead /\ s' = NotRead /\ begun' = NotRead
        /\ now' = now /\ converting' = converting /\ clk' = clk /\ age' = age
        /\ rdy' = rdy /\ wrapped' = wrapped
        /\ bmsDataReady' = bmsDataReady
        /\ bmsDataTimestamp' = bmsDataTimestamp
    BY DEF isBMSDataValid, clockVars, stampVars
  <1>2. Clocked' /\ InTest'
    BY <1>1 DEF YoungInv, Clocked, InTest
  <1>3. Span' /\ NotEarly' /\ (First => First') /\ (Later => Later')
    BY <1>1 DEF YoungInv, Span, NotEarly, First, Later, Noted
  <1> QED
    BY <1>1, <1>2, <1>3 DEF YoungInv

LEMMA YoungStep == YoungInv /\ [Next]_vars => YoungInv'
  <1> SUFFICES ASSUME YoungInv, [Next]_vars
               PROVE  YoungInv'
    OBVIOUS
  <1>1. CASE Tick
    BY <1>1, TickStep
  <1>2. CASE Rise
    BY <1>2, RiseStep
  <1>3. CASE onBMSReadyRise
    BY <1>3, ServeStep
  <1>4. CASE \E on \in BOOLEAN : setBMSConversionState(on)
    BY <1>4, SwitchStep
  <1>5. CASE ReadMicros \/ ReadTimestamp
    BY <1>5, TestStep
  <1>6. CASE isBMSDataValid
    BY <1>6, VerdictStep
  <1>7. phase \in {"idle", "test", "msb", "lsb"}
    BY DEF YoungInv, InTest
  <1>8. CASE \E q \in Charges : Sample(q)
    BY <1>7, <1>8, CounterStep DEF Sample
  <1>9. CASE \E ok \in Outcomes : ResetCounter(ok)
    BY <1>9, CounterStep DEF ResetCounter
  <1>10. CASE \E ok \in Outcomes : ReadMsb(ok)
    BY <1>10, CounterStep DEF ReadMsb
  <1>11. CASE \E ok \in Outcomes : ReadLsb(ok)
    BY <1>11, CounterStep DEF ReadLsb
  <1>12. CASE UNCHANGED vars
    BY <1>7, <1>12, CounterStep DEF vars
  <1> QED
    BY <1>1, <1>2, <1>3, <1>4, <1>5, <1>6, <1>8, <1>9, <1>10, <1>11, <1>12
       DEF Next

(* What the verdict compares with, where the sum does and does not wrap.   *)
LEMMA WindowEnd ==
  ASSUME NEW m \in Instants
  PROVE  /\ (m + validWindow) % Wrap \in Int
         /\ (m + validWindow) % Wrap <= m + Stable
         /\ m + Stable < Wrap => (m + validWindow) % Wrap = m + Stable
  <1>1. /\ Wrap \in Nat /\ Wrap > 0 /\ Stable \in Nat /\ Stable < Wrap
        /\ m \in Nat /\ m < Wrap
    BY Times DEF Instants
  <1>2. Stable % Wrap = Stable
    BY <1>1
  <1>3. validWindow = Stable
    BY <1>2 DEF validWindow, Stable
  <1>4. m + Stable < Wrap => (m + Stable) % Wrap = m + Stable
    BY <1>1
  <1>5. (m + Stable) % Wrap \in Int /\ (m + Stable) % Wrap <= m + Stable
    BY <1>1
  <1> QED
    BY <1>3, <1>4, <1>5

LEMMA YoungHolds == YoungInv => ValidIsYoung
  <1> SUFFICES ASSUME YoungInv, Tested, Verdict, ~wrapped
               PROVE  age - Since(t) < Stable + Delay
    BY DEF ValidIsYoung
  <1>1. /\ t \in Instants /\ s \in Instants /\ begun \in Instants
        /\ now \in Instants
    BY DEF YoungInv, Clocked, InTest, Tested, Span
  <1>2. t < (s + validWindow) % Wrap
    BY DEF Verdict
  <1>3. /\ t \in Nat /\ s \in Nat /\ now \in Nat /\ age \in Nat
        /\ t < Wrap
    BY <1>1, Times DEF YoungInv, Clocked, Instants
  <1>4. t < s + Stable
    BY <1>1, <1>2, <1>3, WindowEnd, Times
  <1>5. Later
    BY <1>3, <1>4, Times DEF YoungInv, First, Tested
  <1>6. Since(t) \in Nat /\ Since(begun) \in Nat /\ Since(begun) <= Delay
    BY <1>1, SinceIs DEF YoungInv, Span, Tested
  <1>7. CASE Noted(s)
    <2>1. Since(t) >= now - t
      BY <1>1, <1>3, SinceIs, Times
    <2> QED
      BY <1>3, <1>4, <1>6, <1>7, <2>1, Times DEF Noted
  <1>8. CASE age - Since(begun) <= Delay
    BY <1>3, <1>6, <1>8, Times
  <1> QED
    BY <1>5, <1>7, <1>8 DEF Later, Tested

LEMMA NotEarlyHolds == YoungInv => YoungIsValid
  <1> SUFFICES ASSUME YoungInv, Tested, ~rdy, bmsDataReady,
                      s = bmsDataTimestamp, age < Stable,
                      ~wrapped, t <= now, s + Stable < Wrap
               PROVE  Verdict
    BY DEF YoungIsValid
  <1>1. t \in Instants /\ s \in Instants /\ now \in Instants /\ age \in Nat
    BY DEF YoungInv, Clocked, InTest, Tested
  <1>2. t \in Nat /\ s \in Nat /\ now \in Nat
    BY <1>1, Times DEF Instants
  <1>3. now - age <= s
    BY <1>1, Times DEF YoungInv, NotEarly
  <1>4. (s + validWindow) % Wrap = s + Stable
    BY <1>1, WindowEnd
  <1> QED
    BY <1>1, <1>2, <1>3, <1>4, Times DEF Verdict

-----------------------------------------------------------------------------
LEMMA LossesBounded ==
  ASSUME LedgerInv, lost <= MaxLost, [Next]_vars
  PROVE  lost' <= MaxLost
  <1>1. lost \in Nat /\ MaxLost \in Nat
    BY CountsAssumption DEF LedgerInv, Numbers
  <1>2. ASSUME NEW ok \in Outcomes, Counted(ok)
        PROVE  lost' <= MaxLost
    <2>1. ok \/ (~ok /\ lost < MaxLost)
      BY Zenon DEF Outcomes
    <2>2. ok => lost' = lost
      BY <1>2 DEF Counted
    <2>3. ~ok => lost' = lost + 1
      BY <1>2 DEF Counted
    <2> QED
      BY <1>1, <2>1, <2>2, <2>3
  <1>3. CASE \E ok \in Outcomes :
               ResetCounter(ok) \/ ReadMsb(ok) \/ ReadLsb(ok)
    <2>1. PICK ok \in Outcomes : Counted(ok)
      BY <1>3 DEF ResetCounter, ReadMsb, ReadLsb
    <2> QED
      BY <1>2, <2>1
  <1>4. CASE UNCHANGED counterVars
    <2>1. lost' = lost
      BY <1>4 DEF counterVars
    <2> QED
      BY <2>1
  <1>5. CASE \E q \in Charges : Sample(q)
    BY <1>5 DEF Sample
  <1>6. Tick \/ Rise \/ onBMSReadyRise => UNCHANGED counterVars
    BY DEF Tick, Rise, onBMSReadyRise
  <1>7. (\E on \in BOOLEAN : setBMSConversionState(on))
          \/ ReadMicros \/ ReadTimestamp \/ isBMSDataValid
          => UNCHANGED counterVars
    BY DEF setBMSConversionState, ReadMicros, ReadTimestamp, isBMSDataValid
  <1>8. UNCHANGED vars => UNCHANGED counterVars
    BY DEF vars
  <1> QED
    BY <1>3, <1>4, <1>5, <1>6, <1>7, <1>8 DEF Next

AllInv == LedgerInv /\ lost <= MaxLost /\ YoungInv

LEMMA TypesHold == AllInv => TypeOK
  <1> SUFFICES ASSUME AllInv PROVE TypeOK
    OBVIOUS
  <1>1. /\ cnt \in 0 .. MaxSamples /\ heldCount \in 0 .. MaxSamples
        /\ samples \in 0 .. MaxSamples /\ clearedCount \in 0 .. MaxSamples
    BY CountsAssumption DEF AllInv, LedgerInv, Numbers, Bounded
  <1>2. lost \in 0 .. MaxLost
    BY CountsAssumption DEF AllInv, LedgerInv, Numbers
  <1> QED
    BY <1>1, <1>2
       DEF AllInv, LedgerInv, Numbers, YoungInv, Clocked, InTest, Instants,
           TypeOK

(* Every variable keeps its type; an RDY is served within Delay, a half of *)
(* the counter fits sixteen bits, a sample count never wraps in its byte.  *)
THEOREM TypeCorrect == Spec => []TypeOK
  <1>1. Init => AllInv
    BY InitLedger, InitYoung, CountsAssumption DEF AllInv, Init
  <1>2. AllInv /\ [Next]_vars => AllInv'
    BY LedgerStep, YoungStep, LossesBounded DEF AllInv
  <1>3. AllInv => TypeOK
    BY TypesHold
  <1> QED
    BY <1>1, <1>2, <1>3, PTL DEF Spec

(* isBMSDataValid calls no data valid that was too old when it read the    *)
(* clock, whichever of its two reads comes first and wherever the          *)
(* interrupt falls, as long as micros() has not started over since RDY.    *)
THEOREM DataIsYoung == Spec => []ValidIsYoung
  <1>1. Init => YoungInv
    BY InitYoung
  <1>2. YoungInv /\ [Next]_vars => YoungInv'
    BY YoungStep
  <1>3. YoungInv => ValidIsYoung
    BY YoungHolds
  <1> QED
    BY <1>1, <1>2, <1>3, PTL DEF Spec

(* It refuses no data that is still good, apart from the wrap-around.      *)
THEOREM YoungDataIsValid == Spec => []YoungIsValid
  <1>1. Init => YoungInv
    BY InitYoung
  <1>2. YoungInv /\ [Next]_vars => YoungInv'
    BY YoungStep
  <1>3. YoungInv => YoungIsValid
    BY NotEarlyHolds
  <1> QED
    BY <1>1, <1>2, <1>3, PTL DEF Spec
=============================================================================
