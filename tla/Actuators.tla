----------------------------- MODULE Actuators -----------------------------
(***************************************************************************)
(* What the motor side of the firmware promises, with no bus, multiplexer  *)
(* or cached channel in it: calls are served one at a time, and a call     *)
(* writes its own registers, in order, on the driver of the channel it     *)
(* names and on no other.  A restart abandons the call in progress and     *)
(* begins the initialisation of the drivers again; the drivers either kept *)
(* their registers through it or lost power and start afresh.              *)
(***************************************************************************)
EXTENDS MotorDriver

CONSTANTS
  Drivers,     \* mux channels at which an LP3943 is fitted
  Lines,       \* console lines the operator may send
  PowerOn      \* register contents of an LP3943 after power-up

VARIABLES
  console,     \* "busy" while a call is being served, else "ready"
  job,         \* the call being served, or the last one served
  n,           \* how many of its register writes have been made
  regs         \* the registers of each driver

vars == <<console, job, n, regs>>

Init ==
  /\ console = "busy"
  /\ job = InitCall(0)
  /\ n = 0
  /\ regs = [d \in Drivers |-> PowerOn]

Accept(l) ==
  /\ console = "ready"
  /\ console' = "busy"
  /\ job' = CallOf(l)
  /\ n' = 0
  /\ UNCHANGED regs

(* The next write of the call reaches the driver asked for, if it exists.  *)
Apply ==
  /\ console = "busy"
  /\ n < Len(Writes(job))
  /\ n' = n + 1
  /\ regs' = [d \in Drivers |->
                IF d = job.asked
                  THEN [regs[d] EXCEPT ![Writes(job)[n + 1].reg] =
                                         Writes(job)[n + 1].val]
                  ELSE regs[d]]
  /\ UNCHANGED <<console, job>>

Finish ==
  /\ console = "busy"
  /\ n = Len(Writes(job))
  /\ \/ /\ job.fn = "motorDriverInit"
        /\ job.asked < 7
        /\ job' = InitCall(job.asked + 1)
        /\ n' = 0
        /\ UNCHANGED <<console, regs>>
     \/ /\ job.fn = "motorDriverInit" => job.asked = 7
        /\ console' = "ready"
        /\ UNCHANGED <<job, n, regs>>

Restart ==
  /\ console' = "busy"
  /\ job' = InitCall(0)
  /\ n' = 0
  /\ \/ UNCHANGED regs
     \/ regs' = [d \in Drivers |-> PowerOn]

Next == (\E l \in Lines : Accept(l)) \/ Apply \/ Finish \/ Restart

Spec == Init /\ [][Next]_vars
=============================================================================
