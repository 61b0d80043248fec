----------------------------- MODULE ThletSwitch ----------------------------
(***************************************************************************)
(* The context-switch benchmark of context_switch/motivation_sched/        *)
(* user_mode: thlet_switch_user.c and its driver thlet_switch_helper.c.    *)
(* Threads bound to one core compute and yield in turn; the kernel         *)
(* measures its scheduler on that core between the driver's START and      *)
(* FINISH.  main runs on another core.                                     *)
(*                                                                         *)
(* The measurements are represented by the set of yields <<t, i>> that     *)
(* they include.  The time stamps and the loop counts are left out, and so *)
(* is stats[id].finished, which nobody reads.                              *)
(***************************************************************************)
EXTENDS Integers, Sequences, FiniteSets

CONSTANTS
  Threads,            \* THLET_SWITCH_THREADS of them
  THLET_SWITCH_ITER,
  None

ASSUME SwitchAssumption ==
  /\ IsFiniteSet(Threads) /\ Threads # {} /\ None \notin Threads
  /\ THLET_SWITCH_ITER \in Nat \ {0}

VARIABLES
  (* thlet_switch_helper.c *)
  on,                 \* cpu_thlet_switch_start of the core
  sum,                \* cpu_thlet_switch_stats_sum of the core
  kstats,             \* the page shared with the benchmark
  (* thlet_switch_user.c *)
  main, pc, iter,
  thlet_switch_start,
  finish_cnt,
  (* the core's scheduler *)
  permitted,          \* may the process use SCHED_FIFO?
  cur,                \* the thread that runs, or None
  fifo,               \* the SCHED_FIFO threads that wait for the core, in order
  class,              \* each thread's scheduling class
  ready               \* history: were all threads at the start flag at START?

helpervars == <<on, sum, kstats>>
corevars == <<cur, fifo, class>>
vars == <<helpervars, main, pc, iter, thlet_switch_start, finish_cnt,
          permitted, corevars, ready>>

Yields == Threads \X (1 .. THLET_SWITCH_ITER)

-----------------------------------------------------------------------------
(* thlet_switch_helper.c.  The core's flag is as an earlier run left it. *)

thlet_switch_helper_mmap == on \in BOOLEAN /\ sum = {} /\ kstats = {}

THLET_IOCTL_START == sum' = {} /\ on' = TRUE /\ UNCHANGED kstats

\* FINISH stops the measurement, then copies it.
FinishStop == on' = FALSE /\ UNCHANGED <<sum, kstats>>
FinishCopy == kstats' = sum /\ UNCHANGED <<on, sum>>

-----------------------------------------------------------------------------
(* The scheduler of the core. *)

\* The threads of the normal class that wait for the core.
Others == {t \in Threads \ {cur} : class[t] = "other" /\ pc[t] \notin {"none", "pin", "ended"}}

FifoRuns == cur \in {t \in Threads : class[t] = "fifo"}

\* The core passes from cur, which stays runnable, to t: a SCHED_FIFO thread
\* takes it from a normal one, and a normal one gets it when its turn comes or
\* when the SCHED_FIFO threads have used up their share of the time.
Switch(t) ==
  /\ \/ /\ ~FifoRuns
        /\ fifo # << >> /\ t = Head(fifo) /\ fifo' = Tail(fifo)
     \/ /\ t \in Others
        /\ cur = None => fifo = << >>
        /\ fifo' = IF FifoRuns THEN <<cur>> \o fifo ELSE fifo
  /\ cur' = t
  /\ UNCHANGED <<helpervars, main, pc, iter, thlet_switch_start, finish_cnt,
                 permitted, class, ready>>

-----------------------------------------------------------------------------
(* thlet_switch_fn *)

Step(t, from, to) == pc[t] = from /\ pc' = [pc EXCEPT ![t] = to]

\* Not yet bound, the thread runs on any core.
pthread_setaffinity_np(t) ==
  /\ Step(t, "pin", "class")
  /\ UNCHANGED <<helpervars, main, iter, thlet_switch_start, finish_cnt,
                 permitted, corevars, ready>>

\* Mutant: the class is not set.
pthread_setschedparam_not(t) ==
  /\ cur = t /\ Step(t, "class", "wait")
  /\ UNCHANGED <<cur, fifo, class>>
  /\ UNCHANGED <<helpervars, main, iter, thlet_switch_start, finish_cnt, permitted, ready>>

\* Without the permission the call fails, which is not noticed.  With it, the
\* thread keeps the core or waits behind the other SCHED_FIFO threads.
pthread_setschedparam(t) ==
  /\ cur = t /\ Step(t, "class", "wait")
  /\ \/ ~permitted /\ UNCHANGED <<cur, fifo, class>>
     \/ /\ permitted
        /\ class' = [class EXCEPT ![t] = "fifo"]
        /\ \/ UNCHANGED <<cur, fifo>>
           \/ fifo # << >> /\ cur' = Head(fifo) /\ fifo' = Append(Tail(fifo), t)
  /\ UNCHANGED <<helpervars, main, iter, thlet_switch_start, finish_cnt, permitted, ready>>

WaitForStart(t) ==
  /\ cur = t /\ thlet_switch_start /\ Step(t, "wait", "loop")
  /\ UNCHANGED <<helpervars, main, iter, thlet_switch_start, finish_cnt,
                 permitted, corevars, ready>>

\* The first time stamp of an iteration: the computation begins.
Compute(t) ==
  /\ cur = t /\ iter[t] < THLET_SWITCH_ITER /\ Step(t, "loop", "compute")
  /\ UNCHANGED <<helpervars, main, iter, thlet_switch_start, finish_cnt,
                 permitted, corevars, ready>>

\* The second one: the computation ends.
Computed(t) ==
  /\ cur = t /\ Step(t, "compute", "yield")
  /\ UNCHANGED <<helpervars, main, iter, thlet_switch_start, finish_cnt,
                 permitted, corevars, ready>>

\* A SCHED_FIFO thread goes to the end of its queue; a normal one (then
\* all are) gives way to any other.  The kernel measures the call if it is asked to.
sched_yield(t) ==
  /\ cur = t /\ Step(t, "yield", "loop")
  /\ iter' = [iter EXCEPT ![t] = @ + 1]
  /\ sum' = IF on THEN sum \union {<<t, iter[t] + 1>>} ELSE sum
  /\ \/ /\ class[t] = "fifo"
        /\ cur' = Head(Append(fifo, t)) /\ fifo' = Tail(Append(fifo, t))
     \/ class[t] = "other" /\ cur' \in Others \union {t} /\ UNCHANGED fifo
  /\ UNCHANGED <<on, kstats, main, thlet_switch_start, finish_cnt, permitted, class, ready>>

FinishCnt(t) ==
  /\ cur = t /\ iter[t] = THLET_SWITCH_ITER /\ Step(t, "loop", "check")
  /\ finish_cnt' = finish_cnt + 1
  /\ UNCHANGED <<helpervars, main, iter, thlet_switch_start, permitted, corevars, ready>>

\* The thread returns; the core is free.
Return(t) == pc' = [pc EXCEPT ![t] = "ended"] /\ cur' = None

\* Mutant: the first thread stops the measurement.
CheckLast_first(t) ==
  /\ cur = t /\ pc[t] = "check"
  /\ IF finish_cnt > 0
     THEN FinishStop /\ Step(t, "check", "copy") /\ UNCHANGED cur
     ELSE Return(t) /\ UNCHANGED helpervars
  /\ UNCHANGED <<main, iter, thlet_switch_start, finish_cnt, permitted, fifo, class, ready>>

\* Mutant: the count is compared with one more.
CheckLast_off_by_one(t) ==
  /\ cur = t /\ pc[t] = "check"
  /\ IF finish_cnt > Cardinality(Threads)
     THEN FinishStop /\ Step(t, "check", "copy") /\ UNCHANGED cur
     ELSE Return(t) /\ UNCHANGED helpervars
  /\ UNCHANGED <<main, iter, thlet_switch_start, finish_cnt, permitted, fifo, class, ready>>

CheckLast(t) ==
  /\ cur = t /\ pc[t] = "check"
  /\ IF finish_cnt = Cardinality(Threads)
     THEN FinishStop /\ Step(t, "check", "copy") /\ UNCHANGED cur
     ELSE Return(t) /\ UNCHANGED helpervars
  /\ UNCHANGED <<main, iter, thlet_switch_start, finish_cnt, permitted, fifo, class, ready>>

ThreadFinish(t) ==
  /\ cur = t /\ pc[t] = "copy" /\ Return(t)
  /\ FinishCopy
  /\ UNCHANGED <<main, iter, thlet_switch_start, finish_cnt, permitted, fifo, class, ready>>

thlet_switch_fn(t) ==
  \/ pthread_setaffinity_np(t) \/ pthread_setschedparam(t) \/ WaitForStart(t)
  \/ Compute(t) \/ Computed(t) \/ sched_yield(t)
  \/ FinishCnt(t) \/ CheckLast(t) \/ ThreadFinish(t)

-----------------------------------------------------------------------------
(* main *)

Init ==
  /\ thlet_switch_helper_mmap
  /\ main = "create" /\ thlet_switch_start = FALSE /\ finish_cnt = 0
  /\ pc = [t \in Threads |-> "none"] /\ iter = [t \in Threads |-> 0]
  /\ permitted \in BOOLEAN
  /\ cur = None /\ fifo = << >> /\ class = [t \in Threads |-> "other"]
  /\ ready = FALSE

Main(from, to) == main = from /\ main' = to

\* The first failure ends the process, with the threads there are.
pthread_create(t) ==
  /\ main = "create" /\ pc[t] = "none"
  /\ \/ pc' = [pc EXCEPT ![t] = "pin"] /\ UNCHANGED <<main, cur, fifo>>
     \/ /\ main' = "failed"
        /\ pc' = [u \in Threads |-> "ended"] /\ cur' = None /\ fifo' = << >>
  /\ UNCHANGED <<helpervars, iter, thlet_switch_start, finish_cnt, permitted, class, ready>>

StartMeasuring ==
  /\ Main("create", "start") /\ \A t \in Threads : pc[t] # "none"
  /\ THLET_IOCTL_START
  /\ ready' = (permitted /\ \A t \in Threads : pc[t] = "wait")
  /\ UNCHANGED <<pc, iter, thlet_switch_start, finish_cnt, permitted, corevars>>

\* Mutant: the flag is forgotten.
StartThreads_not ==
  /\ Main("start", "join")
  /\ UNCHANGED <<helpervars, pc, iter, thlet_switch_start, finish_cnt, permitted, corevars, ready>>

StartThreads ==
  /\ Main("start", "join")
  /\ thlet_switch_start' = TRUE
  /\ UNCHANGED <<helpervars, pc, iter, finish_cnt, permitted, corevars, ready>>

JoinAll ==
  /\ Main("join", "finish") /\ \A t \in Threads : pc[t] = "ended"
  /\ UNCHANGED <<helpervars, pc, iter, thlet_switch_start, finish_cnt, permitted, corevars, ready>>

MainStop ==
  /\ Main("finish", "copy") /\ FinishStop
  /\ UNCHANGED <<pc, iter, thlet_switch_start, finish_cnt, permitted, corevars, ready>>

MainCopy ==
  /\ Main("copy", "printed") /\ FinishCopy
  /\ UNCHANGED <<pc, iter, thlet_switch_start, finish_cnt, permitted, corevars, ready>>

MainStep ==
  \/ \E t \in Threads : pthread_create(t)
  \/ StartMeasuring \/ StartThreads \/ JoinAll \/ MainStop \/ MainCopy

Ended == main \in {"printed", "failed"} /\ UNCHANGED vars

Next ==
  \/ MainStep \/ Ended
  \/ \E t \in Threads : thlet_switch_fn(t) \/ Switch(t)

Spec == Init /\ [][Next]_vars

\* A free core is given to a thread, a thread that gets the core again and
\* again makes progress, and main is not kept from running by the threads.
FairSpec ==
  /\ Spec /\ WF_vars(MainStep)
  /\ WF_vars(\E t \in Threads : cur = None /\ Switch(t))
  /\ \A t \in Threads : SF_vars(thlet_switch_fn(t))

-----------------------------------------------------------------------------
\* What main prints includes every yield of every thread: the measurement is
\* on before the first and until after the last (lines 86-90 and 122-123).
PrintedComplete == main = "printed" => kstats = Yields

\* When main copies the measurement from its core the benchmark's core no
\* longer adds to it: the thread that finished last has stopped it (lines 86-90).
QuietAtFinish == main = "finish" => ~on

\* The computations that main adds up (line 131) do not overlap in time,
\* provided all threads have become SCHED_FIFO before the start; a percentage
\* of the total cost is printed of their sum.
ComputationsDisjoint ==
  ready => \A t, u \in Threads : pc[t] = "compute" /\ pc[u] = "compute" => t = u

\* The benchmark ends, in whatever order the threads get the core.
Terminates == <>(main \in {"printed", "failed"})
=============================================================================
