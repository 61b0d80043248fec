----------------------------- MODULE UdpServer ------------------------------
(***************************************************************************)
(* The multi-threaded UDP server of network/baseline/linux/user_mode       *)
(* (udpserver.cpp): main receives max_rpc datagrams into the slots of      *)
(* global_buffer and queues the valid ones; the threads of ThreadPool take *)
(* them from the queue, use the hash table and record the latency in       *)
(* Stats; main then sleeps, reports, frees the table and destroys the      *)
(* pool, which stops and joins the threads.                                *)
(*                                                                         *)
(* The sleep does not wait for the threads, so they may use the table      *)
(* after it was freed.  They then lock a freed mutex: fault records it,    *)
(* and the thread may go on, wait for ever or bring the process down.      *)
(*                                                                         *)
(* The sections under queue_mutex, under Stats::mtx and under the bucket   *)
(* locks of hash.c are one step each.  Keys, values and times are left     *)
(* out; of a latency only matters whether it is 0.                         *)
(***************************************************************************)
EXTENDS Integers, Sequences, FiniteSets

CONSTANTS
  Threads,      \* the threads of the pool (MAX_THREAD of them)
  max_rpc,      \* datagrams to receive, main's argument
  MAX_RPC       \* the slots of global_buffer

\* main does not compare its argument with the size of global_buffer; behind
\* the end of the buffer nothing is known.
ASSUME UdpServerAssumption ==
  /\ MAX_RPC \in Nat \ {0} /\ max_rpc \in 1 .. MAX_RPC
  /\ IsFiniteSet(Threads) /\ Threads # {}

VARIABLES
  mpc,            \* where main is
  pheader,        \* datagrams received, the next slot of global_buffer
  tasks, stop,    \* the pool's queue and its flag
  tpc,            \* where each thread is
  rpc,            \* the slot each thread works on, -1 for NULL
  table,          \* "live" or "freed"
  latencies,      \* the slots whose latency Stats has recorded
  total_requests,
  enqueued,       \* history: the slots that were queued
  handled,        \* history: the slots whose handle_rpc has returned
  costly,         \* history: those for which it returned a cost other than 0
  fault           \* has a thread used the table after hash_free?

poolvars == <<tasks, stop>>
threadvars == <<tpc, rpc>>
statvars == <<latencies, total_requests>>
vars == <<mpc, pheader, poolvars, threadvars, table, statvars, enqueued,
          handled, costly, fault>>

Slots == 0 .. MAX_RPC - 1

Init ==
  /\ mpc = "recv" /\ pheader = 0
  /\ tasks = << >> /\ stop = FALSE
  /\ tpc = [t \in Threads |-> "check"] /\ rpc = [t \in Threads |-> -1]
  /\ table = "live"
  /\ latencies = {} /\ total_requests = 0
  /\ enqueued = {} /\ handled = {} /\ costly = {} /\ fault = FALSE

-----------------------------------------------------------------------------
(* main *)

\* Mutant: the datagram is queued without the notification that follows.
recvfrom_silent ==
  /\ mpc = "recv" /\ pheader < max_rpc
  /\ pheader' = pheader + 1
  /\ tasks' = Append(tasks, pheader) /\ enqueued' = enqueued \union {pheader}
  /\ UNCHANGED <<mpc, stop, threadvars, table, statvars, handled, costly, fault>>

\* Mutant: one datagram more than global_buffer was asked to hold.
recvfrom_off_by_one ==
  /\ mpc = "recv" /\ pheader <= max_rpc
  /\ pheader' = pheader + 1
  /\ UNCHANGED <<mpc, poolvars, threadvars, table, statvars, enqueued, handled, costly, fault>>

\* A datagram arrives.  It takes a slot whether its magic is right or not;
\* only if it is, enqueue pushes it.  A recvfrom that fails changes nothing.
recvfrom ==
  /\ mpc = "recv" /\ pheader < max_rpc
  /\ pheader' = pheader + 1
  /\ \/ UNCHANGED <<mpc, tasks, enqueued>>
     \/ /\ tasks' = Append(tasks, pheader) /\ enqueued' = enqueued \union {pheader}
        /\ mpc' = "notify"
  /\ UNCHANGED <<stop, threadvars, table, statvars, handled, costly, fault>>

Blocked == {t \in Threads : tpc[t] = "blocked"}

\* The second half of enqueue: notify_one, after the lock was released.
notify_one ==
  /\ mpc = "notify"
  /\ mpc' = "recv"
  /\ \/ Blocked = {} /\ UNCHANGED tpc
     \/ \E t \in Blocked : tpc' = [tpc EXCEPT ![t] = "check"]
  /\ UNCHANGED <<pheader, poolvars, rpc, table, statvars, enqueued, handled, costly, fault>>

\* sleep(2) after the last datagram.  It ends whether the threads are done or
\* not.
sleep ==
  /\ mpc = "recv" /\ pheader = max_rpc
  /\ mpc' = "report"
  /\ UNCHANGED <<pheader, poolvars, threadvars, table, statvars, enqueued,
                 handled, costly, fault>>

\* report reads what the threads have recorded so far, and prints it.
report ==
  /\ mpc = "report"
  /\ mpc' = "destroy"
  /\ UNCHANGED <<pheader, poolvars, threadvars, table, statvars, enqueued, handled, costly, fault>>

\* destroy: hash_free frees the entries and the locks.
destroy ==
  /\ mpc = "destroy"
  /\ table' = "freed"
  /\ mpc' = "stop"
  /\ UNCHANGED <<pheader, poolvars, threadvars, statvars, enqueued, handled, costly, fault>>

\* ~ThreadPool at the end of main: stop, then notify_all, then join.
StopPool ==
  /\ mpc = "stop"
  /\ stop' = TRUE
  /\ mpc' = "notify_all"
  /\ UNCHANGED <<pheader, tasks, threadvars, table, statvars, enqueued, handled, costly, fault>>

\* Mutant: one thread is woken instead of all.
notify_all_one ==
  /\ mpc = "notify_all"
  /\ \/ Blocked = {} /\ UNCHANGED tpc
     \/ \E t \in Blocked : tpc' = [tpc EXCEPT ![t] = "check"]
  /\ mpc' = "join"
  /\ UNCHANGED <<pheader, poolvars, rpc, table, statvars, enqueued, handled, costly, fault>>

notify_all ==
  /\ mpc = "notify_all"
  /\ tpc' = [t \in Threads |-> IF tpc[t] = "blocked" THEN "check" ELSE tpc[t]]
  /\ mpc' = "join"
  /\ UNCHANGED <<pheader, poolvars, rpc, table, statvars, enqueued, handled, costly, fault>>

join ==
  /\ mpc = "join"
  /\ \A t \in Threads : tpc[t] = "exit"
  /\ mpc' = "done"
  /\ UNCHANGED <<pheader, poolvars, threadvars, table, statvars, enqueued,
                 handled, costly, fault>>

Main ==
  \/ recvfrom \/ notify_one \/ sleep \/ report \/ destroy \/ StopPool \/ notify_all \/ join

-----------------------------------------------------------------------------
(* The threads of the pool. *)

\* Mutant: a thread that is told to stop leaves at once.
wait_leaves(t) ==
  /\ tpc[t] = "check"
  /\ \/ /\ ~stop /\ tasks = << >>
        /\ tpc' = [tpc EXCEPT ![t] = "blocked"]
        /\ UNCHANGED <<tasks, rpc>>
     \/ /\ stop
        /\ tpc' = [tpc EXCEPT ![t] = "exit"]
        /\ UNCHANGED <<tasks, rpc>>
     \/ /\ ~stop /\ tasks # << >>
        /\ rpc' = [rpc EXCEPT ![t] = Head(tasks)]
        /\ tasks' = Tail(tasks)
        /\ tpc' = [tpc EXCEPT ![t] = "handle"]
  /\ UNCHANGED <<mpc, pheader, stop, table, statvars, enqueued, handled, costly, fault>>

\* Mutant: the task is read and not removed.
wait_peeks(t) ==
  /\ tpc[t] = "check"
  /\ tasks # << >>
  /\ rpc' = [rpc EXCEPT ![t] = Head(tasks)]
  /\ tpc' = [tpc EXCEPT ![t] = "handle"]
  /\ UNCHANGED <<mpc, pheader, poolvars, table, statvars, enqueued, handled, costly, fault>>

\* condition.wait with its predicate, under queue_mutex: block, leave or take
\* a task.
wait(t) ==
  /\ tpc[t] = "check"
  /\ \/ /\ ~stop /\ tasks = << >>
        /\ tpc' = [tpc EXCEPT ![t] = "blocked"]
        /\ UNCHANGED <<tasks, rpc>>
     \/ /\ stop /\ tasks = << >>
        /\ tpc' = [tpc EXCEPT ![t] = "exit"]
        /\ UNCHANGED <<tasks, rpc>>
     \/ /\ tasks # << >>
        /\ rpc' = [rpc EXCEPT ![t] = Head(tasks)]
        /\ tasks' = Tail(tasks)
        /\ tpc' = [tpc EXCEPT ![t] = "handle"]
  /\ UNCHANGED <<mpc, pheader, stop, table, statvars, enqueued, handled, costly, fault>>

\* A condition variable may wake a thread for no reason; wait then tests its
\* predicate again.
SpuriousWakeup(t) ==
  /\ tpc[t] = "blocked" /\ mpc # "crashed"
  /\ tpc' = [tpc EXCEPT ![t] = "check"]
  /\ UNCHANGED <<mpc, pheader, poolvars, rpc, table, statvars, enqueued, handled, costly, fault>>

\* handle_rpc returns, with a cost that is 0 or not.
Handled(t) ==
  /\ \E cost \in {0, 1} :
       IF cost = 0
       THEN /\ tpc' = [tpc EXCEPT ![t] = "check"]
            /\ rpc' = [rpc EXCEPT ![t] = -1] /\ UNCHANGED costly
       ELSE /\ tpc' = [tpc EXCEPT ![t] = "add"]
            /\ costly' = costly \union {rpc[t]} /\ UNCHANGED rpc
  /\ handled' = handled \union {rpc[t]}

\* handle_rpc: a Get or a Put on the table, or neither.  On the freed table
\* pthread_mutex_lock may succeed, never return, or bring the process down.
handle_rpc(t) ==
  /\ tpc[t] = "handle"
  /\ \/ Handled(t) /\ UNCHANGED <<mpc, fault>>
     \/ /\ table = "freed"
        /\ fault' = TRUE
        /\ \/ Handled(t) /\ UNCHANGED mpc
           \/ tpc' = [tpc EXCEPT ![t] = "stuck"] /\ UNCHANGED <<mpc, rpc, handled, costly>>
           \/ mpc' = "crashed" /\ UNCHANGED <<tpc, rpc, handled, costly>>
  /\ UNCHANGED <<pheader, poolvars, table, statvars, enqueued>>

\* Stats::add, under Stats::mtx.
add(t) ==
  /\ tpc[t] = "add"
  /\ latencies' = latencies \union {rpc[t]}
  /\ total_requests' = total_requests + 1
  /\ tpc' = [tpc EXCEPT ![t] = "check"]
  /\ rpc' = [rpc EXCEPT ![t] = -1]
  /\ UNCHANGED <<mpc, pheader, poolvars, table, enqueued, handled, costly, fault>>

Thread(t) == mpc # "crashed" /\ (wait(t) \/ handle_rpc(t) \/ add(t))

\* The server has ended, or main waits for threads that hang.
Finished ==
  /\ \/ mpc \in {"done", "crashed"}
     \/ mpc = "join" /\ \A t \in Threads : tpc[t] \in {"exit", "stuck"}
  /\ UNCHANGED vars

Next ==
  \/ Main
  \/ \E t \in Threads : Thread(t) \/ SpuriousWakeup(t)
  \/ Finished

Spec == Init /\ [][Next]_vars

-----------------------------------------------------------------------------
(* Properties. *)

TypeOK ==
  /\ mpc \in {"recv", "notify", "report", "destroy", "stop", "notify_all", "join", "done",
            "crashed"}
  /\ pheader \in 0 .. max_rpc
  /\ tasks \in Seq(Slots) /\ stop \in BOOLEAN
  /\ tpc \in [Threads -> {"check", "blocked", "handle", "stuck", "add", "exit"}]
  /\ rpc \in [Threads -> Slots \union {-1}]
  /\ table \in {"live", "freed"}
  /\ latencies \subseteq Slots /\ total_requests \in Nat
  /\ enqueued \subseteq Slots /\ handled \subseteq Slots /\ costly \subseteq Slots
  /\ fault \in BOOLEAN

Queued == {tasks[j] : j \in 1 .. Len(tasks)}
InHand(t) == tpc[t] \in {"handle", "stuck"}

\* Every request that was queued is in the queue, with one thread or handled,
\* and in one of these places only: none is lost and none is handled twice,
\* not even when the pool is stopped.
OnePlace ==
  /\ enqueued = Queued \union handled \union {rpc[t] : t \in {u \in Threads : InHand(u)}}
  /\ Queued \intersect handled = {}
  /\ \A i, j \in 1 .. Len(tasks) : tasks[i] = tasks[j] => i = j
  /\ \A t \in Threads : InHand(t) =>
       /\ rpc[t] \notin Queued \union handled
       /\ \A u \in Threads : InHand(u) /\ rpc[u] = rpc[t] => u = t

\* No wakeup is lost: while there is a request that every thread could take and
\* all of them sleep, main is about to wake one.
NoLostWakeup ==
  tasks # << >> /\ (\A t \in Threads : tpc[t] = "blocked") => mpc = "notify"

\* When the pool's destructor returns, everything that was queued was handled,
\* and Stats has counted each request that had a cost once.
DrainedWhenDone ==
  mpc = "done" =>
    /\ handled = enqueued
    /\ latencies = costly /\ total_requests = Cardinality(costly)

-----------------------------------------------------------------------------
(* Liveness: threads and main run, and a thread that is notified wakes up; *)
(* nobody counts on spurious wakeups or on datagrams.                      *)

Fairness ==
  /\ WF_vars(notify_one) /\ WF_vars(sleep) /\ WF_vars(report) /\ WF_vars(destroy)
  /\ WF_vars(StopPool) /\ WF_vars(notify_all) /\ WF_vars(join)
  /\ \A t \in Threads : WF_vars(Thread(t))

FairSpec == Spec /\ Fairness

\* Whatever was queued is handled, even if no more datagrams come, as long as
\* no thread has used the freed table.
QueuedIsHandled == \A s \in Slots : s \in enqueued ~> s \in handled \/ fault

\* Once all datagrams are there the server terminates, unless a thread uses
\* the freed table, in whose mutex it may hang while the destructor joins it.
Terminates == pheader = max_rpc ~> mpc = "done" \/ fault
=============================================================================
