------------------------------ MODULE IntrTest ------------------------------
(***************************************************************************)
(* The interrupt latency test of interrupt_overhead/user_mode (test.c) on  *)
(* top of the driver.  The sender makes NUM_ITERS IPIs and waits after     *)
(* each for received; the receiver, on RECV_CORE, reads the clock six      *)
(* times in a row and takes a gap of more than 1000 cycles between two of  *)
(* the readings for the IPI, whatever interrupt made it.  An interrupt     *)
(* that arrives outside of the six readings goes unnoticed.  The first gap *)
(* is then compared with the time stamps of the kernel to decide whether a *)
(* line is printed; this changes nothing else and is left out.             *)
(*                                                                         *)
(* start, received and finished are volatile and each thread stores to     *)
(* them in program order, which the target (x86) keeps.                    *)
(***************************************************************************)
EXTENDS ThletIntr

CONSTANT NUM_ITERS

ASSUME IntrTestAssumption == NUM_ITERS \in Nat \ {0}

VARIABLES
  start, received, finished,   \* the flags the threads share
  rpc, spc,                    \* where the receiver and the sender are
  i,                           \* the sender's loop counter
  gap,                         \* has an interrupt hit the readings under way?
  acks                         \* history: how often the receiver set received

flags == <<start, received, finished>>
sendervars == <<spc, i>>
receivervars == <<rpc, gap, acks>>
vars == <<drivervars, flags, sendervars, receivervars>>

Init ==
  /\ DriverInit
  /\ start = FALSE /\ received = FALSE /\ finished = FALSE
  /\ rpc = "start" /\ spc = "start" /\ i = 0
  /\ gap = FALSE /\ acks = 0

-----------------------------------------------------------------------------
(* sender_listener *)

WaitForStart ==
  /\ spc = "start" /\ start
  /\ spc' = "for"
  /\ UNCHANGED <<drivervars, flags, i, receivervars>>

\* One turn of the for loop begins, or the loop ends.
SendIpi ==
  /\ spc = "for"
  /\ \/ /\ i < NUM_ITERS
        /\ IOCTL_SENDIPI
        /\ spc' = "call" /\ UNCHANGED finished
     \/ /\ i = NUM_ITERS
        /\ finished' = TRUE
        /\ spc' = "done" /\ UNCHANGED drivervars
  /\ UNCHANGED <<start, received, i, receivervars>>

CallReturns ==
  /\ spc = "call" /\ ipi = "none"
  /\ spc' = "wait"
  /\ UNCHANGED <<drivervars, flags, i, receivervars>>

\* while (!received), then received = 0.
WaitForReceiver ==
  /\ spc = "wait" /\ received
  /\ received' = FALSE
  /\ i' = i + 1 /\ spc' = "for"
  /\ UNCHANGED <<drivervars, start, finished, receivervars>>

Sender == WaitForStart \/ SendIpi \/ CallReturns \/ WaitForReceiver

-----------------------------------------------------------------------------
(* receiver *)

SetStart ==
  /\ rpc = "start"
  /\ start' = TRUE /\ rpc' = "arm"
  /\ UNCHANGED <<drivervars, received, finished, sendervars, gap, acks>>

\* IOCTL_STAT_START, before the loop and again after the statistics were read.
Arm ==
  /\ rpc \in {"arm", "rearm"}
  /\ IOCTL_STAT_START
  /\ rpc' = IF rpc = "arm" THEN "loop" ELSE "ack"
  /\ UNCHANGED <<flags, sendervars, gap, acks>>

\* while (!finished)
Loop ==
  /\ rpc = "loop"
  /\ rpc' = IF finished THEN "join" ELSE "readings"
  /\ gap' = FALSE
  /\ UNCHANGED <<drivervars, flags, sendervars, acks>>

\* Mutant: the gap is not seen.
Check_misses ==
  /\ rpc = "readings"
  /\ rpc' = "loop"
  /\ UNCHANGED <<drivervars, flags, sendervars, gap, acks>>

\* t6 has been read and the differences are compared: is one of them a gap?
Check ==
  /\ rpc = "readings"
  /\ rpc' = IF gap THEN "get" ELSE "loop"
  /\ UNCHANGED <<drivervars, flags, sendervars, gap, acks>>

\* IOCTL_GET_STATS, and the line printed if the first gap holds the interrupt
\* that the kernel stamped last.
GetStats ==
  /\ rpc = "get"
  /\ IOCTL_GET_STATS
  /\ rpc' = "rearm"
  /\ UNCHANGED <<flags, sendervars, gap, acks>>

Acknowledge ==
  /\ rpc = "ack"
  /\ received' = TRUE /\ acks' = acks + 1
  /\ rpc' = "spin"
  /\ UNCHANGED <<drivervars, start, finished, sendervars, gap>>

\* Mutant: the receiver goes on without waiting for the sender.
Spin_not ==
  /\ rpc = "spin"
  /\ rpc' = "loop"
  /\ UNCHANGED <<drivervars, flags, sendervars, gap, acks>>

\* while (received)
Spin ==
  /\ rpc = "spin" /\ ~received
  /\ rpc' = "loop"
  /\ UNCHANGED <<drivervars, flags, sendervars, gap, acks>>

\* main joins the sender after receiver returns.
Join ==
  /\ rpc = "join" /\ spc = "done"
  /\ rpc' = "done"
  /\ UNCHANGED <<drivervars, flags, sendervars, gap, acks>>

Receiver == SetStart \/ Arm \/ Loop \/ Check \/ GetStats \/ Acknowledge \/ Spin \/ Join

-----------------------------------------------------------------------------
(* Interrupts of RECV_CORE *)

\* The IPI interrupts the receiver wherever it is.  The handler takes long
\* enough to be noticed if the readings are under way.
Ipi ==
  /\ handler
  /\ gap' = (gap \/ rpc = "readings")
  /\ UNCHANGED <<flags, sendervars, rpc, acks>>

\* Another interrupt that takes more than 1000 cycles hits the readings; one
\* that is shorter, or that comes at another time, changes nothing.
OtherInterrupt ==
  /\ rpc = "readings" /\ ~gap
  /\ gap' = TRUE
  /\ UNCHANGED <<drivervars, flags, sendervars, rpc, acks>>

\* Both threads have ended, or the sender has and the receiver waits for it
\* with an acknowledgement nobody will take.
Ended ==
  /\ spc = "done" /\ (rpc = "done" \/ (rpc = "spin" /\ received))
  /\ UNCHANGED vars

Next == Sender \/ Receiver \/ Ipi \/ OtherInterrupt \/ Ended

Spec == Init /\ [][Next]_vars

\* Each thread has a CPU of its own and IPIs are delivered.  The timer of
\* RECV_CORE keeps interrupting it, and the receiver spends its time in the
\* readings: sooner or later one of the ticks falls into them.
FairSpec ==
  /\ Spec
  /\ WF_vars(Sender) /\ WF_vars(Receiver) /\ WF_vars(Ipi)
  /\ SF_vars(OtherInterrupt)

-----------------------------------------------------------------------------
\* The handshake over received (test.c lines 116-119 and 163-167): the sender
\* consumes every acknowledgement, none is overwritten or counted twice, and
\* the receiver is never more than one ahead.
Lockstep == acks = i + (IF received THEN 1 ELSE 0)

\* The sender gets through its NUM_ITERS turns although IPIs may go
\* unnoticed: the next interrupt that is noticed stands in for them.
SenderFinishes == <>(spc = "done")
=============================================================================
