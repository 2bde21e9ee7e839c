------------------------------ MODULE MotorBus ------------------------------
(***************************************************************************)
(* The motor side of the firmware: the console loop of main.cpp, the       *)
(* driver functions of MotorDriver_LP3943.cpp, the channel selection of    *)
(* I2C_MUX.cpp and the bus accesses of I2C_FCT.cpp, one step per I2C       *)
(* transaction.  The PCA9548A multiplexer and the LP3943 drivers behind it *)
(* are the hardware those transactions act on.                             *)
(*                                                                         *)
(* All drivers answer at one address; which of them hears a transaction is *)
(* decided by the multiplexer alone.  The firmware never reads the         *)
(* multiplexer back: it trusts currentChannel.  No transaction's result is *)
(* looked at, so a lost one leaves no trace in the program.                *)
(***************************************************************************)
EXTENDS MotorDriver

CONSTANTS
  Drivers,     \* mux channels at which an LP3943 is fitted
  Lines,       \* console lines the operator may send
  PowerOn,     \* register contents of an LP3943 after power-up
  Lossy,       \* whether a transaction may go unacknowledged
  MaxResets    \* bound on the restarts of the controller

ASSUME DriversAssumption == Drivers \subseteq Channels
ASSUME LinesAssumption == Lines \subseteq Line
ASSUME PowerOnAssumption == PowerOn \in [Regs -> Byte]
ASSUME LossyAssumption == Lossy \in BOOLEAN
ASSUME MaxResetsAssumption == MaxResets \in Nat

VARIABLES
  phase,           \* where the foreground program is
  job,             \* the driver call being served, or the last one
  n,               \* register writes of the call already issued
  currentChannel,  \* I2C_MUX.cpp's record of the selected channel, -1: none
  mux,             \* the channels the multiplexer really connects
  regs,            \* the registers of each driver
  resets           \* restarts so far

vars == <<phase, job, n, currentChannel, mux, regs, resets>>

Phases == {"disable", "select", "access", "spin", "idle"}

-----------------------------------------------------------------------------
(* The hardware.                                                           *)

(* 1 << channel, and back: the channels named by a control byte.           *)
ControlByte(c) == << 1, 2, 4, 8, 16, 32, 64, 128 >>[c + 1]
Bits(b) == {c \in Channels : (b \div ControlByte(c)) % 2 = 1}

Outcomes == IF Lossy THEN {TRUE, FALSE} ELSE {TRUE}

(* I2C_WR with one data byte, sent to the multiplexer.                     *)
I2C_WR1(byte, ok) == mux' = IF ok THEN Bits(byte) ELSE mux

(* An address on the wire has seven bits; the eighth is shifted out.       *)
OnWire(addr) == addr % 128

(* I2C_WR with a register and a data byte: every driver on a connected     *)
(* channel takes it; the multiplexer, when it is the one addressed, takes  *)
(* the last byte as its control byte.                                      *)
I2C_WR2(addr, w, ok) ==
  /\ regs' = [d \in Drivers |->
                IF ok /\ OnWire(addr) = DefaultAddr /\ d \in mux
                  THEN [regs[d] EXCEPT ![w.reg] = w.val]
                  ELSE regs[d]]
  /\ mux' = IF ok /\ OnWire(addr) = MuxAddr THEN Bits(w.val) ELSE mux

(* I2C_RD gets its byte only if some connected driver answers.             *)
Answers(addr, ok) == ok /\ OnWire(addr) = DefaultAddr /\ mux \cap Drivers # {}

-----------------------------------------------------------------------------
Init ==
  /\ phase = "disable"
  /\ job = InitCall(0)
  /\ n = 0
  /\ currentChannel = -1
  /\ mux = {}
  /\ regs = [d \in Drivers |-> PowerOn]
  /\ resets = 0

(* setup(): I2C_DisableAllChannels before the first motorDriverInit.       *)
I2C_DisableAllChannels(ok) ==
  /\ phase = "disable"
  /\ I2C_WR1(0, ok)
  /\ currentChannel' = -1
  /\ phase' = "select"
  /\ UNCHANGED <<job, n, regs, resets>>

(* I2C_SelectChannel, first exit: the channel is refused.  The function    *)
(* returns nothing, so the caller goes on to its register accesses.        *)
SelectInvalid ==
  /\ phase = "select"
  /\ job.channel > 7
  /\ phase' = "access"
  /\ UNCHANGED <<job, n, currentChannel, mux, regs, resets>>

(* mutant: = written for ==, which records the channel and selects nothing. *)
SelectCachedAssigns ==
  /\ phase = "select"
  /\ job.channel \in 1 .. 7
  /\ currentChannel' = job.channel
  /\ phase' = "access"
  /\ UNCHANGED <<job, n, mux, regs, resets>>

(* Second exit: the channel is believed to be selected already.            *)
SelectCached ==
  /\ phase = "select"
  /\ job.channel <= 7
  /\ currentChannel = job.channel
  /\ phase' = "access"
  /\ UNCHANGED <<job, n, currentChannel, mux, regs, resets>>

(* mutant: the new selection is not recorded.                              *)
SelectNewUnrecorded(ok) ==
  /\ phase = "select"
  /\ job.channel <= 7
  /\ currentChannel # job.channel
  /\ I2C_WR1(ControlByte(job.channel), ok)
  /\ phase' = "access"
  /\ UNCHANGED <<job, n, currentChannel, regs, resets>>

(* mutant: channels counted from one in the control byte.                  *)
SelectNewFromOne(ok) ==
  /\ phase = "select"
  /\ job.channel <= 7
  /\ currentChannel # job.channel
  /\ I2C_WR1(ControlByte((job.channel + 1) % 8), ok)
  /\ currentChannel' = job.channel
  /\ phase' = "access"
  /\ UNCHANGED <<job, n, regs, resets>>

(* mutant: the new channel is added to the one selected before.            *)
SelectNewAdds(ok) ==
  /\ phase = "select"
  /\ job.channel <= 7
  /\ currentChannel # job.channel
  /\ I2C_WR1(ControlByte(job.channel) +
                (IF currentChannel < 0 THEN 0 ELSE ControlByte(currentChannel)),
             ok)
  /\ currentChannel' = job.channel
  /\ phase' = "access"
  /\ UNCHANGED <<job, n, regs, resets>>

(* The channel is switched, and recorded whether or not that succeeded.    *)
SelectNew(ok) ==
  /\ phase = "select"
  /\ job.channel <= 7
  /\ currentChannel # job.channel
  /\ I2C_WR1(ControlByte(job.channel), ok)
  /\ currentChannel' = job.channel
  /\ phase' = "access"
  /\ UNCHANGED <<job, n, regs, resets>>

(* The next register write of the call.                                    *)
WriteReg(ok) ==
  /\ phase = "access"
  /\ n < Len(Writes(job))
  /\ I2C_WR2(job.addr, Writes(job)[n + 1], ok)
  /\ n' = n + 1
  /\ UNCHANGED <<phase, job, currentChannel, resets>>

(* mutant: the condition of the waiting loop inverted.                     *)
ReadRegInverted(ok) ==
  /\ phase = "access"
  /\ Reads(job)
  /\ phase' = IF Answers(job.addr, ok) THEN "spin" ELSE "idle"
  /\ UNCHANGED <<job, n, currentChannel, mux, regs, resets>>

(* I2C_RD of readLimitTriggers and readCurrentEstimate.  Unanswered, it    *)
(* never leaves its while (!Wire.available()).                             *)
ReadReg(ok) ==
  /\ phase = "access"
  /\ Reads(job)
  /\ phase' = IF Answers(job.addr, ok) THEN "idle" ELSE "spin"
  /\ UNCHANGED <<job, n, currentChannel, mux, regs, resets>>

(* The byte asked for has been missed: polling again changes nothing.      *)
Spin == phase = "spin" /\ UNCHANGED vars

(* setup() goes on to the driver of the next channel.                      *)
NextInit ==
  /\ phase = "access"
  /\ n = Len(Writes(job))
  /\ job.fn = "motorDriverInit"
  /\ job.asked < 7
  /\ job' = InitCall(job.asked + 1)
  /\ n' = 0
  /\ phase' = "select"
  /\ UNCHANGED <<currentChannel, mux, regs, resets>>

(* The call returns to the console loop (or setup() is done with drivers). *)
Return ==
  /\ phase = "access"
  /\ n = Len(Writes(job))
  /\ ~Reads(job)
  /\ job.fn = "motorDriverInit" => job.asked = 7
  /\ phase' = "idle"
  /\ UNCHANGED <<job, n, currentChannel, mux, regs, resets>>

(* loop() dispatches a complete line.                                      *)
Dispatch(l) ==
  /\ phase = "idle"
  /\ job' = CallOf(l)
  /\ n' = 0
  /\ phase' = "select"
  /\ UNCHANGED <<currentChannel, mux, regs, resets>>

(* The controller starts again: statics are initialised afresh and setup() *)
(* pulses the multiplexer's reset line.  The drivers, on boards of their   *)
(* own, keep their registers unless the power went too.                    *)
Restart ==
  /\ resets < MaxResets
  /\ resets' = resets + 1
  /\ phase' = "disable"
  /\ job' = InitCall(0)
  /\ n' = 0
  /\ currentChannel' = -1
  /\ mux' = {}
  /\ \/ UNCHANGED regs
     \/ regs' = [d \in Drivers |-> PowerOn]

(* What the processor does by itself, given time.                          *)
Foreground ==
  \/ \E ok \in Outcomes : I2C_DisableAllChannels(ok)
  \/ SelectInvalid
  \/ SelectCached
  \/ \E ok \in Outcomes : SelectNew(ok)
  \/ \E ok \in Outcomes : WriteReg(ok)
  \/ \E ok \in Outcomes : ReadReg(ok)
  \/ NextInit
  \/ Return

Next ==
  \/ Foreground
  \/ Spin
  \/ \E l \in Lines : Dispatch(l)
  \/ Restart

(* The processor keeps running; nobody has to type, nothing has to fail.   *)
Spec == Init /\ [][Next]_vars /\ WF_vars(Foreground)

-----------------------------------------------------------------------------
(* Properties.                                                             *)

(* Every value fits the type it has in the program or in the chips: the    *)
(* arguments have been narrowed to uint8_t, the record of the channel is   *)
(* -1 or a channel, and registers hold bytes.                              *)
TypeOK ==
  /\ phase \in Phases
  /\ job \in Calls
  /\ n \in 0 .. Len(Writes(job))
  /\ currentChannel \in Channels \cup {-1}
  /\ mux \subseteq Channels
  /\ regs \in [Drivers -> [Regs -> Byte]]
  /\ resets \in 0 .. MaxResets

(* The record I2C_MUX.cpp keeps of the active channel is what the chip     *)
(* connects, so that skipping a selection ("already active") is harmless.  *)
MuxFollowsShadow ==
  mux = IF currentChannel = -1 THEN {} ELSE {currentChannel}

(* The multiplexer never joins two drivers, all at one address, on the bus.*)
AtMostOneChannel == \A a, b \in mux : a = b

(* What a call has written so far is in the driver of its channel (unless  *)
(* written over by the call itself): so the echo after it ("Stopped motor  *)
(* on mux channel ...") reports what has happened.                         *)
JobEffect ==
  job.channel \in Drivers =>
    \A i \in 1 .. n :
      (\A j \in i + 1 .. n : Writes(job)[j].reg # Writes(job)[i].reg) =>
        regs[job.channel][Writes(job)[i].reg] = Writes(job)[i].val

(* Only the driver on the channel the operator typed is written to, except *)
(* when the power goes.                                                    *)
ServedChannelOnly ==
  [][phase' # "disable" =>
       \A d \in Drivers : regs'[d] # regs[d] => d = job.asked]_vars

(* When setup() has initialised the drivers, every fitted one has its      *)
(* bridge off and channel 7 is selected, whatever state the lines typed    *)
(* before a restart left the drivers and the multiplexer in.               *)
SetupRestoresBoard ==
  phase = "idle" /\ job.fn = "motorDriverInit" =>
    /\ \A d \in Drivers : regs[d][LS1] = StopCode
    /\ mux = {7}
    /\ currentChannel = 7

(* No driver has both direction inputs of its bridge on, once written to:  *)
(* neither half-done calls, lost transactions nor restarts bring it about. *)
BothOn(b) == b % 4 = 0 /\ (b \div 4) % 4 = 0

NeverBothDirections ==
  \A d \in Drivers : regs[d][LS1] = PowerOn[LS1] \/ ~BothOn(regs[d][LS1])

(* Every driver call, those of setup() included, returns to the console.   *)
EveryCallReturns == phase # "idle" ~> phase = "idle"

(* The conditions under which the bus does what Actuators promises: no     *)
(* transaction is lost, and the operator types addresses and channels that *)
(* the board has.                                                          *)
Nominal ==
  /\ ~Lossy
  /\ \A l \in Lines : /\ OnWire(CallOf(l).addr) = DefaultAddr
                     /\ CallOf(l).asked \in Channels

(* The program implements the promise: each register write reaches the     *)
(* driver of the channel asked for, selecting channels is invisible.       *)
Abs == INSTANCE Actuators
         WITH console <- IF phase = "idle" THEN "ready" ELSE "busy"

ImplementsActuators == Abs!Spec
=============================================================================
