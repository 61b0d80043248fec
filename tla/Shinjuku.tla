------------------------------ MODULE Shinjuku ------------------------------
(***************************************************************************)
(* The Shinjuku kernel module of network/baseline/shinjuku: a dispatcher   *)
(* (dispatcher.c) that queues the packets it receives and hands them, one  *)
(* at a time, to workers (worker.c), each bound to a CPU; a worker runs a  *)
(* request on a context of its own and can be preempted by an IPI, which   *)
(* puts the context back into the queue.                                   *)
(*                                                                         *)
(* Dispatcher and worker i share dispatcher_requests[i] (request) and      *)
(* worker_responses[i] (response) without locks: the flag fields say whose *)
(* turn it is.  Stores become visible in program order and the spinning    *)
(* loops reload what they test.                                            *)
(***************************************************************************)
EXTENDS Integers, Sequences, FiniteSets

CONSTANTS
  NumCpus,         \* num_online_cpus()
  Contexts,        \* the contexts, each with its stack, of context_pool
  Packets,         \* the requests that may arrive, each of them once
  Spins,           \* rpc->type of a packet, "the spinning counts"
  QueueSize,       \* the capacity of tskq (128)
  MaxBatch,        \* packets taken from the network at a time (16)
  RecordsContext,  \* does handle_new_packet store the context in ctx_worker?
                   \* FALSE in the source: only the local copy is assigned
  MaxExpiries,     \* bound: how often a request outlives PREEMPTION_DELAY
  None             \* NULL

ASSUME ShinjukuAssumption ==
  /\ NumCpus \in Nat /\ NumCpus >= 3                  \* BUG_ON(num_cpus < 3)
  /\ Spins \in [Packets -> Nat]
  /\ QueueSize \in Nat \ {0} /\ MaxBatch \in Nat /\ MaxExpiries \in Nat
  /\ RecordsContext \in BOOLEAN
  /\ None \notin Contexts /\ None \notin Packets

VARIABLES
  (* network *)
  unsent, rxq,        \* packets to come, packets that shinjuku_rpc_get returns
  consumed,           \* packets given back with dev_consume_skb_any
  dropped,            \* packets that handle_networker forgets
  (* dispatcher *)
  dpc, di, max_batch, \* where do_dispatching is, its i, and max_batch
  tskq,               \* queued requests
  preempt_check,      \* may CPU i still be sent an IPI for its request?
  free,               \* contexts in the pool
  expiries,           \* requests found to be late so far
  (* shared, per CPU *)
  request, response, worker_preempted,
  ipi,                \* the IPI to CPU i: "none", "sent", "pending" there
  (* worker, per CPU *)
  wpc,                \* where it is
  self,               \* the value of worker in the do_work loop it runs
  running,            \* the context whose stack it is on, None in do_work
  irq,                \* are its interrupts enabled?
  ctx_worker, finished,
  (* contexts *)
  frame,              \* the locals of generic_work on the context's stack
  packet_of,          \* history: the packet the context was allocated for
  preemptions         \* history: how often a context was preempted

netvars == <<unsent, rxq, consumed, dropped>>
dispvars == <<dpc, di, max_batch, tskq, preempt_check, free, expiries>>
workvars == <<wpc, self, running, irq, ctx_worker, finished>>
ctxvars == <<frame, packet_of, preemptions>>
vars == <<netvars, dispvars, request, response, worker_preempted, ipi, workvars, ctxvars>>

Cpus == 0 .. NumCpus - 1
Workers == 2 .. NumCpus - 1       \* the CPUs workers are bound to
LastPolled == NumCpus - 3         \* the dispatcher's loop handles 0 .. LastPolled

NoRequest == [flag |-> "WAITING", rnbl |-> None, mbuf |-> None, category |-> "NOCONTENT"]
NoResponse == [flag |-> "RUNNING", rnbl |-> None, mbuf |-> None, category |-> "NOCONTENT"]
NoFrame == [cpu |-> 0, cont |-> None, data |-> 0, i |-> 0]

\* Everything static starts as zeros: RUNNING, WAITING, NULL, false.
Init ==
  /\ unsent = Packets /\ rxq = << >> /\ consumed = {} /\ dropped = {}
  /\ dpc = "boot" /\ di = 0 /\ max_batch = 0 /\ tskq = << >>
  /\ preempt_check = [c \in Cpus |-> FALSE]
  /\ free = Contexts /\ expiries = 0
  /\ request = [c \in Cpus |-> NoRequest]
  /\ response = [c \in Cpus |-> NoResponse]
  /\ worker_preempted = [c \in Cpus |-> FALSE]
  /\ ipi = [c \in Cpus |-> "none"]
  /\ wpc = [w \in Workers |-> "off"]
  /\ self = [w \in Workers |-> w]
  /\ running = [w \in Workers |-> None]
  /\ irq = [w \in Workers |-> TRUE]
  /\ ctx_worker = [c \in Cpus |-> None]
  /\ finished = [c \in Cpus |-> FALSE]
  /\ frame = [k \in Contexts |-> NoFrame]
  /\ packet_of = [k \in Contexts |-> None]
  /\ preemptions = 0

-----------------------------------------------------------------------------
(* The dispatcher.                                                         *)

\* Workers are created for CPU 2, 3, ...; k is the first for which
\* kthread_create fails, NumCpus if none does.  On failure do_dispatching
\* returns and the workers already started wait for ever.
StartWorkers ==
  /\ dpc = "boot"
  /\ \E k \in 2 .. NumCpus :
       /\ wpc' = [w \in Workers |-> IF w < k THEN "init" ELSE "off"]
       /\ dpc' = IF k = NumCpus THEN "poll" ELSE "exit"
  /\ preempt_check' = [c \in Cpus |-> FALSE]
  /\ UNCHANGED <<netvars, di, max_batch, tskq, free, expiries, request, response,
                 worker_preempted, ipi, self, running, irq, ctx_worker, finished, ctxvars>>

\* Mutant: the loop's bound is off by one.
Advance_off_by_one ==
  IF di < LastPolled + 1
  THEN dpc' = "poll" /\ di' = di + 1 /\ UNCHANGED max_batch
  ELSE dpc' = "net" /\ di' = 0 /\ max_batch' = MaxBatch

\* On to the next CPU of the loop, or to handle_networker after the last.
Advance ==
  IF di < LastPolled
  THEN dpc' = "poll" /\ di' = di + 1 /\ UNCHANGED max_batch
  ELSE dpc' = "net" /\ di' = 0 /\ max_batch' = MaxBatch

\* Mutant: the last place of the queue is not used.
kfifo_in_off_by_one(q, e) == IF Len(q) < QueueSize - 1 THEN Append(q, e) ELSE q

\* kfifo_in copies as much as fits; its callers ignore the result.
kfifo_in(q, e) == IF Len(q) < QueueSize THEN Append(q, e) ELSE q

Entry(r) == [rnbl |-> r.rnbl, mbuf |-> r.mbuf, category |-> r.category]

\* The context and the packet go back.
handle_finished(i) ==
  /\ response[i].flag = "FINISHED"
  /\ free' = free \union {response[i].rnbl}
  /\ consumed' = consumed \union {response[i].mbuf}

\* Mutant: the request is looked at but stays in the queue.
dispatch_request_peeks(i, q) ==
  /\ tskq' = q
  /\ IF q = << >>
     THEN /\ response' = [response EXCEPT ![i].flag = "PROCESSED"]
          /\ UNCHANGED <<request, preempt_check>>
     ELSE /\ response' = [response EXCEPT ![i].flag = "RUNNING"]
          /\ request' = [request EXCEPT ![i] =
               [flag |-> "ACTIVE", rnbl |-> Head(q).rnbl, mbuf |-> Head(q).mbuf,
                category |-> Head(q).category]]
          /\ preempt_check' = [preempt_check EXCEPT ![i] = TRUE]
  /\ Advance

\* The first request of queue q goes to CPU i, if there is one.  The flag is
\* PROCESSED and preempt_check false when this is reached from
\* handle_finished or handle_preempted, which set them, and left as they are
\* when the response was PROCESSED before.
dispatch_request(i, q) ==
  /\ IF q = << >>
     THEN /\ tskq' = q
          /\ response' = [response EXCEPT ![i].flag = "PROCESSED"]
          /\ preempt_check' =
               [preempt_check EXCEPT ![i] = response[i].flag = "PROCESSED" /\ @]
          /\ UNCHANGED request
     ELSE /\ tskq' = Tail(q)
          /\ response' = [response EXCEPT ![i].flag = "RUNNING"]
          /\ request' = [request EXCEPT ![i] =
               [flag |-> "ACTIVE", rnbl |-> Head(q).rnbl, mbuf |-> Head(q).mbuf,
                category |-> Head(q).category]]
          /\ preempt_check' = [preempt_check EXCEPT ![i] = TRUE]
  /\ Advance

\* handle_worker on a CPU whose response is there: handle_finished or
\* handle_preempted, then dispatch_request.
HandleResponse ==
  /\ dpc = "poll"
  /\ \/ handle_finished(di) /\ dispatch_request(di, tskq)
     \/ /\ response[di].flag = "PREEMPTED"
        /\ dispatch_request(di, kfifo_in(tskq, Entry(response[di])))
        /\ UNCHANGED <<free, consumed>>
     \/ /\ response[di].flag = "PROCESSED"
        /\ dispatch_request(di, tskq)
        /\ UNCHANGED <<free, consumed>>
  /\ UNCHANGED <<unsent, rxq, dropped, expiries, worker_preempted, ipi, workvars, ctxvars>>

\* handle_worker on a CPU that runs a request that is not late, or that
\* preempt_check says not to preempt.
StillRunning ==
  /\ dpc = "poll"
  /\ response[di].flag = "RUNNING"
  /\ Advance
  /\ UNCHANGED <<netvars, tskq, preempt_check, free, expiries, request, response,
                 worker_preempted, ipi, workvars, ctxvars>>

\* The request of CPU di was dispatched more than PREEMPTION_DELAY cycles ago.
preempt_worker ==
  /\ dpc = "poll"
  /\ response[di].flag = "RUNNING"
  /\ preempt_check[di]
  /\ expiries < MaxExpiries
  /\ expiries' = expiries + 1
  /\ preempt_check' = [preempt_check EXCEPT ![di] = FALSE]
  /\ dpc' = "csd"
  /\ UNCHANGED <<netvars, di, max_batch, tskq, free, request, response,
                 worker_preempted, ipi, workvars, ctxvars>>

\* smp_call_function_single does not wait for the handler, but the sender has
\* one call slot for this: it waits until the handler of its last call has
\* been started.
smp_call_function_single ==
  /\ dpc = "csd"
  /\ \A c \in Cpus : ipi[c] = "none"
  /\ ipi' = [ipi EXCEPT ![di] = "sent"]
  /\ Advance
  /\ UNCHANGED <<netvars, tskq, preempt_check, free, expiries, request, response,
                 worker_preempted, workvars, ctxvars>>

\* One turn of the loop of handle_networker.  A packet fetched when the batch
\* is used up, or when there is no context for it, is forgotten.
handle_networker ==
  /\ dpc = "net"
  /\ \/ /\ rxq = << >>
        /\ dpc' = "poll"
        /\ UNCHANGED <<rxq, dropped, max_batch, tskq, free, packet_of>>
     \/ /\ rxq # << >> /\ max_batch = 0
        /\ rxq' = Tail(rxq)
        /\ dropped' = dropped \union {Head(rxq)}
        /\ dpc' = "poll"
        /\ UNCHANGED <<max_batch, tskq, free, packet_of>>
     \/ /\ rxq # << >> /\ max_batch > 0 /\ free = {}
        /\ rxq' = Tail(rxq)
        /\ dropped' = dropped \union {Head(rxq)}
        /\ max_batch' = max_batch - 1
        /\ UNCHANGED <<dpc, tskq, free, packet_of>>
     \/ /\ rxq # << >> /\ max_batch > 0
        /\ rxq' = Tail(rxq)
        /\ max_batch' = max_batch - 1
        /\ \E k \in free :
             /\ free' = free \ {k}
             /\ packet_of' = [packet_of EXCEPT ![k] = Head(rxq)]
             /\ tskq' = kfifo_in(tskq, [rnbl |-> k, mbuf |-> Head(rxq), category |-> "PACKET"])
        /\ UNCHANGED <<dpc, dropped>>
  /\ UNCHANGED <<unsent, consumed, di, preempt_check, expiries, request, response,
                 worker_preempted, ipi, workvars, frame, preemptions>>

Dispatcher ==
  \/ StartWorkers \/ HandleResponse \/ StillRunning \/ preempt_worker
  \/ smp_call_function_single \/ handle_networker

-----------------------------------------------------------------------------
(* Outside: packets arrive, and IPIs reach their CPU.                      *)

Receive(p) ==
  /\ p \in unsent
  /\ unsent' = unsent \ {p}
  /\ rxq' = Append(rxq, p)
  /\ UNCHANGED <<consumed, dropped, dispvars, request, response, worker_preempted,
                 ipi, workvars, ctxvars>>

IpiArrives(w) ==
  /\ ipi[w] = "sent"
  /\ ipi' = [ipi EXCEPT ![w] = "pending"]
  /\ UNCHANGED <<netvars, dispvars, request, response, worker_preempted, workvars, ctxvars>>

\* A pending IPI is taken as soon as interrupts are enabled.  The handler's
\* local_irq_disable ends with the interrupt, which restores sstatus.
worker_ipi_handler(w) ==
  /\ ipi[w] = "pending" /\ irq[w]
  /\ ipi' = [ipi EXCEPT ![w] = "none"]
  /\ worker_preempted' = [worker_preempted EXCEPT ![w] = TRUE]
  /\ UNCHANGED <<netvars, dispvars, request, response, workvars, ctxvars>>

Interrupted(w) == ipi[w] = "pending" /\ irq[w]

-----------------------------------------------------------------------------
(* The workers.  In do_work a CPU uses the per-CPU variables of self[w];   *)
(* generic_work asks for the CPU it is on.                                 *)

\* init_worker tells the dispatcher that it is there ...
init_worker(w) ==
  /\ wpc[w] = "init"
  /\ wpc' = [wpc EXCEPT ![w] = "ready"]
  /\ worker_preempted' = [worker_preempted EXCEPT ![w] = FALSE]
  /\ response' = [response EXCEPT ![w].flag = "PROCESSED"]
  /\ UNCHANGED <<netvars, dispvars, request, ipi, self, running, irq, ctx_worker, finished,
                 ctxvars>>

\* ... and disables interrupts after that.
local_irq_disable(w) ==
  /\ wpc[w] = "ready" /\ ~Interrupted(w)
  /\ wpc' = [wpc EXCEPT ![w] = "wait"]
  /\ irq' = [irq EXCEPT ![w] = FALSE]
  /\ UNCHANGED <<netvars, dispvars, request, response, worker_preempted, ipi, self, running,
                 ctx_worker, finished, ctxvars>>

\* make_kcontext puts data into the saved a0; swapcontext_very_fast loads
\* a1, a2, a3 from the context it switches to and clears a0.
FirstArgument(data) == 0

\* handle_new_packet: switch to a fresh context, which starts generic_work,
\* which enables interrupts and reads ctx_worker of the CPU it runs on.
handle_new_packet(w) ==
  LET v == self[w]
      k == request[v].rnbl
      cw == IF RecordsContext THEN [ctx_worker EXCEPT ![v] = k] ELSE ctx_worker
  IN  /\ request[v].category = "PACKET"
      /\ finished' = [finished EXCEPT ![v] = FALSE]
      /\ ctx_worker' = cw
      /\ frame' = [frame EXCEPT ![k] =
           [cpu |-> w, cont |-> cw[w], data |-> FirstArgument(Spins[request[v].mbuf]), i |-> 0]]
      /\ irq' = [irq EXCEPT ![w] = TRUE]
      /\ wpc' = [wpc EXCEPT ![w] = "loop"]

\* Mutant: the context that is resumed is not recorded.
handle_context_keeps_context(w) ==
  LET v == self[w] IN
  /\ request[v].category # "PACKET"
  /\ finished' = [finished EXCEPT ![v] = FALSE]
  /\ wpc' = [wpc EXCEPT ![w] = "cond"]
  /\ UNCHANGED <<ctx_worker, frame, irq>>

\* handle_context: resume a preempted context after its swapcontext call, with
\* the saved sstatus, in which interrupts are disabled.  set_context_link
\* does nothing.
handle_context(w) ==
  LET v == self[w] IN
  /\ request[v].category # "PACKET"
  /\ finished' = [finished EXCEPT ![v] = FALSE]
  /\ ctx_worker' = [ctx_worker EXCEPT ![v] = request[v].rnbl]
  /\ wpc' = [wpc EXCEPT ![w] = "cond"]
  /\ UNCHANGED <<frame, irq>>

\* Mutant: the request's flag is not taken back.
handle_request_keeps_active(w) ==
  LET v == self[w] IN
  /\ wpc[w] = "wait" /\ request[v].flag = "ACTIVE"
  /\ running' = [running EXCEPT ![w] = request[v].rnbl]
  /\ handle_new_packet(w) \/ handle_context(w)
  /\ UNCHANGED <<netvars, dispvars, request, response, worker_preempted, ipi, self,
                 packet_of, preemptions>>

handle_request(w) ==
  LET v == self[w] IN
  /\ wpc[w] = "wait" /\ request[v].flag = "ACTIVE"
  /\ request' = [request EXCEPT ![v].flag = "WAITING"]
  /\ running' = [running EXCEPT ![w] = request[v].rnbl]
  /\ handle_new_packet(w) \/ handle_context(w)
  /\ UNCHANGED <<netvars, dispvars, response, worker_preempted, ipi, self, packet_of, preemptions>>

\* Mutant: the worker that ends leaves its CPU with interrupts disabled.
handle_short_packet_masked(w) ==
  LET v == self[w] IN
  /\ wpc[w] = "wait" /\ request[v].flag = "ACTIVE" /\ request[v].category = "PACKET"
  /\ request' = [request EXCEPT ![v].flag = "WAITING"]
  /\ wpc' = [wpc EXCEPT ![w] = "bug"]
  /\ UNCHANGED <<netvars, dispvars, response, worker_preempted, ipi, self, running, irq,
                 ctx_worker, finished, ctxvars>>

\* handle_request with a new packet whose payload is too short for an Rpc: the
\* BUG_ON of parse_data ends the worker, and with it the request.
handle_short_packet(w) ==
  LET v == self[w] IN
  /\ wpc[w] = "wait" /\ request[v].flag = "ACTIVE" /\ request[v].category = "PACKET"
  /\ request' = [request EXCEPT ![v].flag = "WAITING"]
  /\ wpc' = [wpc EXCEPT ![w] = "bug"]
  /\ irq' = [irq EXCEPT ![w] = TRUE]
  /\ UNCHANGED <<netvars, dispvars, response, worker_preempted, ipi, self, running, ctx_worker,
                 finished, ctxvars>>

\* swapcontext_very_fast(cont, uctx_main) on the stack of running[w]: the
\* registers are saved in cont, a fault if that is NULL, and the CPU goes on
\* in the do_work loop whose registers are in uctx_main.
SwapOut(w) ==
  LET f == frame[running[w]] IN
  IF f.cont = None
  THEN /\ wpc' = [wpc EXCEPT ![w] = "dead"]
       /\ irq' = [irq EXCEPT ![w] = TRUE]
       /\ UNCHANGED <<self, running>>
  ELSE /\ wpc' = [wpc EXCEPT ![w] = "report"]
       /\ irq' = [irq EXCEPT ![w] = FALSE]
       /\ self' = [self EXCEPT ![w] = f.cpu]
       /\ running' = [running EXCEPT ![w] = None]

\* Mutant: worker_preempted is tested and not cleared.
Spin_keeps_flag(w) ==
  LET f == frame[running[w]] IN
  /\ wpc[w] = "loop" /\ ~Interrupted(w)
  /\ frame' = [frame EXCEPT ![running[w]].i = @ + 1]
  /\ preemptions' = preemptions + (IF worker_preempted[f.cpu] THEN 1 ELSE 0)
  /\ wpc' = [wpc EXCEPT ![w] = IF worker_preempted[f.cpu] THEN "preempt" ELSE "cond"]
  /\ UNCHANGED <<netvars, dispvars, request, response, worker_preempted, ipi, self, running,
                 irq, ctx_worker, finished, packet_of>>

\* The body of generic_work's loop: worker_preempted is tested and cleared ...
Spin(w) ==
  LET f == frame[running[w]] IN
  /\ wpc[w] = "loop" /\ ~Interrupted(w)
  /\ frame' = [frame EXCEPT ![running[w]].i = @ + 1]
  /\ IF worker_preempted[f.cpu]
     THEN /\ worker_preempted' = [worker_preempted EXCEPT ![f.cpu] = FALSE]
          /\ preemptions' = preemptions + 1
          /\ wpc' = [wpc EXCEPT ![w] = "preempt"]
     ELSE /\ wpc' = [wpc EXCEPT ![w] = "cond"]
          /\ UNCHANGED <<worker_preempted, preemptions>>
  /\ UNCHANGED <<netvars, dispvars, request, response, ipi, self, running, irq, ctx_worker,
                 finished, packet_of>>

\* ... and then interrupts are disabled and the context is left.
Preempt(w) ==
  /\ wpc[w] = "preempt" /\ ~Interrupted(w)
  /\ SwapOut(w)
  /\ UNCHANGED <<netvars, dispvars, request, response, worker_preempted, ipi, ctx_worker,
                 finished, ctxvars>>

\* The loop's condition, and the end of generic_work.
Finish(w) ==
  LET f == frame[running[w]] IN
  /\ wpc[w] = "cond" /\ ~Interrupted(w)
  /\ IF f.i < f.data
     THEN /\ wpc' = [wpc EXCEPT ![w] = "loop"]
          /\ UNCHANGED <<finished, irq, self, running>>
     ELSE /\ finished' = [finished EXCEPT ![w] = TRUE]
          /\ SwapOut(w)
  /\ UNCHANGED <<netvars, dispvars, request, response, worker_preempted, ipi,
                 ctx_worker, ctxvars>>

\* Mutant: the packet is not copied into the response.
finish_request_keeps_mbuf(w) ==
  LET v == self[w] IN
  /\ wpc[w] = "report"
  /\ wpc' = [wpc EXCEPT ![w] = "wait"]
  /\ response' = [response EXCEPT ![v] =
       [flag |-> IF finished[v] THEN "FINISHED" ELSE "PREEMPTED",
        rnbl |-> ctx_worker[v], mbuf |-> @.mbuf, category |-> "CONTEXT"]]
  /\ UNCHANGED <<netvars, dispvars, request, worker_preempted, ipi, self, running,
                 irq, ctx_worker, finished, ctxvars>>

\* Mutant: a preempted request is not answered.
finish_request_silent(w) ==
  LET v == self[w] IN
  /\ wpc[w] = "report"
  /\ wpc' = [wpc EXCEPT ![w] = "wait"]
  /\ response' = [response EXCEPT ![v] =
       [flag |-> IF finished[v] THEN "FINISHED" ELSE @.flag,
        rnbl |-> ctx_worker[v], mbuf |-> request[v].mbuf, category |-> "CONTEXT"]]
  /\ UNCHANGED <<netvars, dispvars, request, worker_preempted, ipi, self, running,
                 irq, ctx_worker, finished, ctxvars>>

finish_request(w) ==
  LET v == self[w] IN
  /\ wpc[w] = "report"
  /\ wpc' = [wpc EXCEPT ![w] = "wait"]
  /\ response' = [response EXCEPT ![v] =
       [flag |-> IF finished[v] THEN "FINISHED" ELSE "PREEMPTED",
        rnbl |-> ctx_worker[v], mbuf |-> request[v].mbuf, category |-> "CONTEXT"]]
  /\ UNCHANGED <<netvars, dispvars, request, worker_preempted, ipi, self, running,
                 irq, ctx_worker, finished, ctxvars>>

generic_work(w) == Spin(w) \/ Preempt(w) \/ Finish(w)

Worker(w) ==
  \/ init_worker(w) \/ local_irq_disable(w) \/ handle_request(w) \/ handle_short_packet(w)
  \/ generic_work(w) \/ finish_request(w)

\* do_dispatching has returned: nobody serves the workers any more.
Exited == dpc = "exit" /\ UNCHANGED vars

Next ==
  \/ Dispatcher
  \/ \E w \in Workers : Worker(w) \/ IpiArrives(w) \/ worker_ipi_handler(w)
  \/ \E p \in Packets : Receive(p)
  \/ Exited

Spec == Init /\ [][Next]_vars

-----------------------------------------------------------------------------
(* Properties.                                                             *)

Requests == [flag : {"WAITING", "ACTIVE"}, rnbl : Contexts \union {None},
             mbuf : Packets \union {None}, category : {"NOCONTENT", "PACKET", "CONTEXT"}]
Responses == [flag : {"RUNNING", "FINISHED", "PREEMPTED", "PROCESSED"},
              rnbl : Contexts \union {None}, mbuf : Packets \union {None},
              category : {"NOCONTENT", "PACKET", "CONTEXT"}]
Entries == [rnbl : Contexts, mbuf : Packets, category : {"PACKET", "CONTEXT"}]
Places == {"off", "init", "ready", "wait", "loop", "preempt", "cond", "report", "dead", "bug"}
Frames == [cpu : Cpus, cont : Contexts \union {None}, data : Nat, i : Nat]

\* The types.  In particular what is in the queue has a context and a packet:
\* neither kfifo_in stores a NULL.
TypeOK ==
  /\ unsent \subseteq Packets /\ rxq \in Seq(Packets)
  /\ consumed \subseteq Packets /\ dropped \subseteq Packets
  /\ dpc \in {"boot", "poll", "csd", "net", "exit"}
  /\ di \in 0 .. LastPolled /\ max_batch \in 0 .. MaxBatch
  /\ tskq \in Seq(Entries)
  /\ preempt_check \in [Cpus -> BOOLEAN]
  /\ free \subseteq Contexts /\ expiries \in 0 .. MaxExpiries
  /\ request \in [Cpus -> Requests]
  /\ response \in [Cpus -> Responses]
  /\ worker_preempted \in [Cpus -> BOOLEAN]
  /\ ipi \in [Cpus -> {"none", "sent", "pending"}]
  /\ wpc \in [Workers -> Places]
  /\ self \in [Workers -> Cpus]
  /\ running \in [Workers -> Contexts \union {None}]
  /\ irq \in [Workers -> BOOLEAN]
  /\ ctx_worker \in [Cpus -> Contexts \union {None}]
  /\ finished \in [Cpus -> BOOLEAN]
  /\ frame \in [Contexts -> Frames]
  /\ packet_of \in [Contexts -> Packets \union {None}]
  /\ preemptions \in Nat

\* BUG_ON(request->flag != WAITING) in dispatch_request never fires: when the
\* worker's response is there, it has taken the request it answers.
NoBug == \A c \in Cpus : response[c].flag # "RUNNING" => request[c].flag = "WAITING"

\* The context and the packet that are in the hands of CPU c: the request's
\* while the response says RUNNING, then the response's until the dispatcher
\* has processed it.
Slot(c) ==
  CASE response[c].flag = "RUNNING"   -> <<request[c].rnbl, request[c].mbuf>>
    [] response[c].flag = "PROCESSED" -> <<None, None>>
    [] OTHER                          -> <<response[c].rnbl, response[c].mbuf>>

Hands == [c \in Cpus |-> Slot(c)[1]]

\* No context is in two of: the pool, an entry of the queue, the hands of a CPU.
OwnedOnce(pool, queue, hands) ==
  /\ \A c, d \in Cpus : hands[c] # None /\ hands[c] = hands[d] => c = d
  /\ \A c \in Cpus : hands[c] \notin pool
  /\ \A j \in 1 .. Len(queue) :
       /\ queue[j].rnbl \notin pool
       /\ \A c \in Cpus : queue[j].rnbl # hands[c]
       /\ \A k \in 1 .. Len(queue) : queue[j].rnbl = queue[k].rnbl => j = k

\* A context has one owner: none is freed twice, or while a worker runs on it,
\* and none is run by two workers.
OneOwner == OwnedOnce(free, tskq, Hands)

\* A worker runs the context that the dispatcher handed to its CPU, returns to
\* its own loop, and has not answered yet.
RunsItsRequest ==
  \A w \in Workers :
    /\ self[w] = w
    /\ wpc[w] \in {"loop", "preempt", "cond", "dead"} =>
         /\ response[w].flag = "RUNNING" /\ request[w].flag = "WAITING"
         /\ running[w] = request[w].rnbl /\ running[w] # None
         /\ frame[running[w]].cont \in {None, running[w]}

\* The packet that goes with a context is the one the context was allocated
\* for, however often the two are copied through queue, request and response:
\* the packet that handle_finished gives back is the one that was worked on.
PacketKept ==
  /\ \A j \in 1 .. Len(tskq) : tskq[j].mbuf = packet_of[tskq[j].rnbl]
  /\ \A c \in Cpus : Slot(c)[1] # None => Slot(c)[2] = packet_of[Slot(c)[1]]

\* A queue at least as long as the pool is large never overflows, so no
\* context (and no packet with it) gets lost in kfifo_in.
NoContextLost ==
  Cardinality(Contexts) <= QueueSize =>
    \A k \in Contexts :
      \/ k \in free
      \/ \E j \in 1 .. Len(tskq) : tskq[j].rnbl = k
      \/ \E c \in Cpus : Slot(c)[1] = k

\* Filled: whoever is given a request or an answer finds a context and a packet
\* in it, and a context that can be left by its worker is on record.
Filled ==
  /\ \A c \in Cpus :
       /\ request[c].flag = "ACTIVE" => request[c].rnbl # None /\ request[c].mbuf # None
                                        /\ request[c].category # "NOCONTENT"
       /\ response[c].flag \in {"FINISHED", "PREEMPTED"} =>
            response[c].rnbl # None /\ response[c].mbuf # None /\ response[c].category = "CONTEXT"
       /\ ctx_worker[c] # None => request[c].mbuf # None
  /\ \A k \in Contexts : frame[k].cont # None => ctx_worker[frame[k].cpu] # None
  /\ \A w \in Workers :
       /\ wpc[w] \in {"loop", "preempt", "cond", "dead"} => running[w] # None
       /\ wpc[w] = "report" => ctx_worker[self[w]] # None

\* InTurn: the two flags of CPU c agree with the place its worker has reached.
InTurn ==
  /\ \A c \in Cpus :
       \/ /\ c \notin Workers \/ wpc[c] \in {"off", "init"}
          /\ response[c].flag = "RUNNING" /\ request[c].flag = "WAITING"
          /\ request[c].rnbl = None
       \/ /\ c \in Workers /\ wpc[c] \in {"ready", "wait"}
          /\ response[c].flag = "RUNNING" <=> request[c].flag = "ACTIVE"
          /\ request[c].flag = "ACTIVE" => c <= LastPolled
       \/ /\ c \in Workers /\ c <= LastPolled
          /\ wpc[c] \in {"loop", "preempt", "cond", "report", "dead", "bug"}
          /\ response[c].flag = "RUNNING" /\ request[c].flag = "WAITING"
  /\ dpc = "boot" => \A w \in Workers : wpc[w] = "off"

\* AtHome: a worker works on a frame of its own CPU and answers with the context
\* it was given, and a context that waits to be resumed was left by the only
\* worker that can be given it.
Resumable(k) ==
  /\ frame[k].cont = k
  /\ \A w \in Workers : w <= LastPolled => frame[k].cpu = w

AtHome ==
  /\ \A w \in Workers :
       /\ self[w] = w
       /\ wpc[w] \in {"loop", "preempt", "cond", "dead"} =>
            /\ running[w] = request[w].rnbl /\ frame[running[w]].cpu = w
            /\ frame[running[w]].cont # None =>
                 frame[running[w]].cont = running[w] /\ ctx_worker[w] = running[w]
       /\ wpc[w] = "report" =>
            /\ ctx_worker[w] = request[w].rnbl
            /\ ~finished[w] => Resumable(request[w].rnbl)
  /\ \A c \in Cpus :
       /\ response[c].flag = "PREEMPTED" => Resumable(response[c].rnbl)
       /\ request[c].flag = "ACTIVE" /\ request[c].category = "CONTEXT" =>
            Resumable(request[c].rnbl)
  /\ \A j \in 1 .. Len(tskq) : tskq[j].category = "CONTEXT" => Resumable(tskq[j].rnbl)
  /\ ~RecordsContext => \A c \in Cpus : ctx_worker[c] = None
  /\ MaxExpiries = 0 =>
       /\ dpc # "csd" /\ \A c \in Cpus : ~worker_preempted[c] /\ ipi[c] = "none"
       /\ \A w \in Workers : wpc[w] # "preempt"

\* No context moves to another CPU: none is ever resumed, because the worker that
\* leaves it dies or because there are no preemptions, or one worker is served.
NoMigration == ~RecordsContext \/ MaxExpiries = 0 \/ NumCpus <= 5

\* The inductive invariant: what NoBug, OneOwner, RunsItsRequest and PacketKept
\* rest on, as long as no context moves to another CPU.
IInv == TypeOK /\ Filled /\ InTurn /\ AtHome /\ OneOwner /\ PacketKept

\* "Avoid preempting more times." (dispatcher.c:37): each request found late
\* pays for one preemption at most, be it under way as an IPI, noted in
\* worker_preempted or done.
PreemptionsPaid ==
  preemptions + Cardinality({c \in Cpus : worker_preempted[c]})
    + Cardinality({c \in Cpus : ipi[c] # "none"}) + (IF dpc = "csd" THEN 1 ELSE 0)
    <= expiries

\* "Save the preserved registers ..." (context_fast.S:44): a worker that leaves
\* a context saves its registers in a context, not at address 0.
SavesRegisters == \A w \in Workers : wpc[w] # "dead"

\* "we assume the type of Rpc is the spinning counts" (worker.c:85): a request
\* that finishes has spun as often as its packet asks for.
SpinsAsAsked ==
  \A w \in Workers : wpc[w] = "cond" /\ running[w] # None =>
    LET f == frame[running[w]] IN
    f.i >= f.data => f.i >= Spins[packet_of[running[w]]]

-----------------------------------------------------------------------------
(* Liveness.  The dispatcher and the workers are kernel threads bound to   *)
(* CPUs of their own that never sleep; a CPU takes a pending IPI or goes   *)
(* on with its thread, and an IPI that was sent arrives.                   *)

Served == {w \in Workers : w <= LastPolled}

Fairness(W) ==
  /\ WF_vars(Dispatcher)
  /\ \A w \in W :
       /\ WF_vars(Worker(w) \/ worker_ipi_handler(w))
       /\ WF_vars(IpiArrives(w))

FairSpec == Spec /\ Fairness(Workers)

\* Only the workers that get requests are known to go on.
ServedSpec == Spec /\ Fairness(Served)

Queued(p) == \E j \in 1 .. Len(tskq) : tskq[j].mbuf = p

\* A request that was handed to a worker is taken and answered, finished or
\* preempted (worker.c lines 119-160), wherever IPIs hit the worker and even
\* while the dispatcher is kept waiting for its call slot, unless the worker
\* dies of it.
HandedIsAnswered ==
  \A w \in Workers : request[w].flag = "ACTIVE" ~>
    response[w].flag # "RUNNING" \/ wpc[w] \in {"dead", "bug"}

\* The dispatcher does not wait for ever for its call slot: the CPU that its
\* last IPI went to takes it sooner or later.
CallSlotFreed == dpc = "csd" ~> dpc # "csd"

\* "We need at least 1 dispatcher and 1 worker, and 1 for the networker"
\* (dispatcher.c:123): with that many CPUs a queued packet reaches a worker.
QueuedIsTaken == \A p \in Packets : Queued(p) ~> ~Queued(p)
=============================================================================
