# TLA+ models of thlet_evaluation

The repository measures what a context switch, an interrupt, a lock and a network
request cost on a RISC-V kernel with threadlets. Most of it is small benchmark
programs; the parts with most concurrency are the network baselines. This directory
models those, and the interrupt and switch-cost benchmarks that consist of several
threads; it model-checks them with TLC and proves the main properties of three of them
with TLAPS.

## The system

| Part | Source | Modules |
|---|---|---|
| Shinjuku dispatcher, workers and context switch | `network/baseline/shinjuku/` `dispatcher.c`, `worker.c`, `context.c`, `context_fast.S` | `Shinjuku`, `MCShinjuku`; proofs in `ShinjukuTypes`, `ShinjukuTurns`, `ShinjukuOwners`, `ShinjukuProofs` |
| Shinjuku memory pools | `network/baseline/shinjuku/mempool.c` | `Mempool`, `Allocator`, `MCMempool`, `MempoolProofs` |
| UDP server with a thread pool, and its hash table's lifetime | `network/baseline/linux/user_mode/udpserver.cpp`, `hash.c` | `UdpServer`, `MCUdpServer` |
| Kernel key-value RPC threadlets | `network/baseline/linux/user_mode/rpc.rs` | `KvRpc`, `BoundedQueues`, `MCKvRpc`, `KvRpcProofs` |
| TCP client and server, hash table | `network/baseline/linux/user_mode/` `client.c`, `server.c`, `hash.c` | `KvTcp`, `HashTable`, `MCKvTcp` |
| Interrupt statistics driver and latency test | `interrupt_overhead/` `kernel_mode/thlet_intr.c`, `user_mode/test.c` | `ThletIntr`, `IntrTest`, `MCIntrTest` |
| Switch-cost benchmark, user mode, and its driver | `context_switch/motivation_sched/user_mode/` | `ThletSwitch`, `MCThletSwitch` |
| RPC kthread, UDP senders | `network/baseline/linux/` | planned |
| Switch-cost benchmark, kernel mode; scheduler driver | `context_switch/motivation_sched/kernel_mode`, `context_switch/sched` | planned |
| Other interrupt programs (`recv.c`) | `interrupt_overhead/user_mode/` | planned |
| Lock contention module | `lock/` | planned |
| lmbench | `lmbench-3.0-a9/` | none: vendored, used unchanged |

`PROJECT.json` lists every part with its status, every definition with the lines it
models, and the hazards of the code with the properties that cover them.

## Shinjuku

The dispatcher polls the CPUs in turn, collects the response of a worker that is done,
hands it the next queued request, and sends an IPI to a worker whose request has run
for longer than its quantum; after each round it takes a batch of packets from the
network. A worker spins on its request slot, runs the request on a context of its own,
and comes back when the request finishes or when an IPI has set `worker_preempted`.

* State: `request[c]` and `response[c]` are the per-CPU slots, `tskq` the kfifo,
  `free` the context pool, `ipi[c]` the call in flight, `wpc`, `running`, `irq`,
  `ctx_worker`, `finished` the worker; `frame[k]` holds the locals of `generic_work`
  that stay on a context's stack while it is preempted.
* Actions carry the names of the functions. `HandleResponse` is `handle_worker` with
  the functions it calls; `Spin`, `Preempt` and `Finish` are the loop, the way out of it
  and the end of `generic_work`; `SwapOut` is `swapcontext_very_fast` on the way back.
  `handle_short_packet` is `handle_new_packet` up to the `BUG_ON` of `parse_data`, which
  any packet may trip; its worker is then lost with the request it has taken.
* Time is abstracted: a running request may be found late at any poll, at most
  `MaxExpiries` times. `worker_active` is never read and is left out.
* Memory is sequentially consistent in the model. The code has no barriers, so this is
  an assumption about the build and the machine.
* `RecordsContext` is FALSE for the source as it is: `handle_new_packet` assigns the
  context to a local variable and never to `ctx_worker`, so a worker that leaves
  `generic_work` saves its registers through NULL. Nothing behind that point would be
  reached, so the code is also checked with the pointer recorded (TRUE).
* The pools behind `context_alloc` are a set of free contexts here. `Mempool` shows
  that one pool behaves like that. In the source the pools are never created and
  `mempool.o` is not linked by the Makefile.

Runs:

| Run | Instance | Result |
|---|---|---|
| `shinjuku_preemption` | 5 CPUs (one served worker), pointer recorded, 2 expiries | ownership, handshake, pairing of packets and contexts, no more preemptions than late requests |
| `shinjuku_liveness` | as the first, fair | a request handed to a worker is answered unless the worker dies |
| `shinjuku_source` | 6 CPUs (two served), queue of one entry, source as is, fair | ownership while the queue overflows; the wait for the call slot ends |
| `shinjuku_three_cpus` | 3 CPUs, fair | violated: a queued request is never taken |
| `shinjuku_registers` | source as is | violated: registers are saved through NULL |
| `shinjuku_spins` | source as is | violated: `generic_work` gets 0 for its count |

Five CPUs are the fewest with a worker that is served, because the dispatcher polls
CPUs 0 to n-3 while workers sit on 2 to n-1; six give two. The first run does not
check for deadlock: with the pointer recorded, the dispatcher can wait for its call
slot while the worker that holds it waits for a request with interrupts off. That is
a hazard of the code, and `CallSlotFreed` shows that the source as it is does not
get there. Two expiries reach it, in the second run too: that queued requests are all
served is therefore not claimed, only the worker's half of it. An IPI that is late may
preempt the next request instead of the one it was sent for; `PreemptionsPaid` bounds
how many preemptions there are and does not exclude that. Fairness: dispatcher and
workers are kernel threads bound to CPUs of their own, and a CPU with interrupts on
takes a pending IPI; nothing is assumed of the network. The two passing runs need
this of the dispatcher and the workers it serves alone (`ServedSpec`).

## Mempool

A free list is a sequence of elements, the datastore's chunk list a sequence of free
lists. A pool belongs to a core and the datastore is used under a lock once per call,
so each call is one step. `ZeroedPages` says whether the pages come zeroed; the code
does not ask for that. `MaxDrift` bounds how far `num_free` may fall below zero, which
it does because opening a chunk does not count its elements.

`mempool` checks two pools on pages with arbitrary contents, up to the first use of an
uninitialised pointer. Behind it nothing is known: `mempool_init_buf_with_pages` leaves
the last `next` of a chunk as the pages had it. Chunks need not have `chunk_size`
elements, because `num_free` is not counted down when one is opened; the properties
are stated so that they do not assume it.

## UdpServer

`main` and the threads of the pool, each with a program counter. Sections under a
mutex are one step; `enqueue` is two, because it notifies after it has released the
lock. Condition variables may wake a thread for no reason. `sleep(2)` may end while
threads work. `main` frees the table before the pool's destructor joins the threads, so
a thread can lock a freed mutex: `fault` records it, and the thread then goes on, never
returns, or the process is gone. `max_rpc` comes from the command line and is not
compared with `MAX_RPC`, the size of the buffer; the model assumes that it is no larger.

`udpserver` (three threads, three datagrams) shows that no request is lost, handled
twice or left with everybody asleep; that when the server is done the queue is drained
and the statistics have each latency once; and that, up to a use of the freed table,
requests are handled and the server ends, with fairness for each thread and for `main`,
none for spurious wakeups or for the network. Three threads let one sleep, one work and
one be woken at the same time. What `report` prints is not claimed to be complete: it
need not be.
`rpc->timestamp`, which `handle_rpc` reads, is not a field of `Rpc` in `const.h`; the
model only needs whether the latency is zero.

## KvRpc

Two rings with `head`, `tail` and an array, the parity of the server's counter, and
the request each worker holds. The source has the ring operations twice, as methods
and inline with other field names; the inline ones run. `kvrpc` uses rings of three
slots, so that they wrap, fill and empty at different times. It checks that they
implement `BoundedQueues` and, assuming that the workers keep polling, that accepted
requests are taken. It does not check for deadlock: after a receive error the server has ended, and
workers with empty rings only yield.

## KvTcp and HashTable

`HashTable` has the steps of `put` and `get` between lock and unlock; `KvTcp` composes
them with the threads of `server.c` and with the client process. A connection is
waiting to be accepted, open, or shut by the server; it holds at most one request and
one reply, since a client thread waits for each reply. A request is taken to arrive
whole. A stored value is named after the put that made it and carries its key, so that
an entry can be seen to be of one put (`EntryWhole`). The `++` on `numbers` is two
steps, a load and a store. `hash_free` unlinks the entries and frees the locks; a
thread that comes after it (`HashFault`) never gets the lock, returns, or kills the
process. The client is assumed to have no more threads than `NUM_SERVERS`, the size of
the arrays in its `main`; the number of requests comes from its command line.

`kvtcp` has two client threads with at most a request and an Exit each, two keys in one
bucket, and a server for two connections: enough for two puts, or a put and a get, to
meet on a bucket. Connect, accept, each connection and the making of each thread may
fail, and a process that writes to a closed connection may be killed by SIGPIPE. It
shows that entries are whole while the table is there; that the table is used after its
end only if accept has failed (`main` then frees it under its threads); that a client
that ends by itself has every latency once, unless `lat` was too small for them: it has
`MAX_REQ_PER_THREAD` places for each thread, which stores one more than it has requests.
With fairness for every thread and both mains but none for failures, the client ends
and a server with all its connections does, except for connections that `server.c` could
not make a thread for: it does not notice that, nobody answers, and `main` joins an
uninitialized thread. A server that gets fewer connections than `NUM_SERVERS` waits for
more, and may.

## ThletIntr and IntrTest

The driver's state word, its copy in the shared page and the IPI under way, with the
ioctls that `test.c` calls; and the two threads of `test.c` with their flags. The
receiver notices an interrupt by a gap in six readings of the clock, whatever caused
it; an IPI that hits it elsewhere leaves no gap. `test.c` never looks at the driver's
state word; it compares time stamps to decide whether it prints a line, and that is left
out. `intrtest` (three turns) shows that the threads keep in step, and that the sender
completes its turns. The receiver need not end: it spins for ever when its last
acknowledgement comes after the sender's last turn. Fairness: both threads run on cores
of their own, an IPI is delivered, and (strong fairness) some long interrupt, such as
the timer, hits the readings if they go on: without that an unnoticed IPI leaves both
waiting.

## ThletSwitch

`main` on a core of its own, the threads on one core with a queue of SCHED_FIFO threads
and a set of normal ones, and the driver's flag and sums, represented by the set of
yields they include. Until a thread has become SCHED_FIFO it competes as a normal one;
normal threads get the core between SCHED_FIFO ones only when those have used up their
share, which the model allows at any time and never requires. `permitted` is FALSE for
a process without the right to SCHED_FIFO. `thletswitch` (three threads, two yields
each) shows that the printed sums include every yield, that `main` copies them when
nobody adds to them any more, that computations do not overlap when all threads were
SCHED_FIFO and waiting at the start, and that the benchmark ends. Fairness: an idle
core is given to a thread, a thread that gets the core again and again makes progress
(strong fairness, since it may be preempted between), and `main` runs.

## What is proved

* `MempoolProofs`: type correctness, `num_free <= chunk_size`, no aliasing, and that
  the pools implement `Allocator`, for all constants. The inductive invariant says of
  every list that it repeats nothing and holds nothing in use, and of every two lists
  that they share nothing; the bound on `num_free` is what lets `mempool_free_2` take
  the whole list as a chunk.
* `ShinjukuTypes`, `ShinjukuTurns`, `ShinjukuOwners` and `ShinjukuProofs`, each
  extending the one before: type correctness for all constants (`ShinjukuTypes`); and
  under `NoMigration` the
  handshake behind `BUG_ON` at `dispatcher.c:65`, unique ownership, that workers run
  their own request, and that packets stay with their contexts. The inductive
  invariant `IInv` adds whose turn each slot's flags say it is (`InTurn`), that slots
  in use are filled (`Filled`), and that a preempted context resumes on the CPU it was
  started on (`AtHome`). `NoMigration` says that at most one worker is served, or
  nothing is preempted, or the pointer is not recorded: a context that moves to another
  CPU uses the CPU number it read before.
* `KvRpcProofs`: type correctness, that the occupied slots are those from `tail` up to
  `head`, and that the rings implement `BoundedQueues`, for every array size. The
  second is the strengthening the refinement needs.

Liveness, `NoLeak` and `FreeChunksExact` of Mempool, `NoContextLost` and
`PreemptionsPaid` of Shinjuku, and everything about UdpServer, KvTcp, IntrTest and
ThletSwitch are model-checked only.
Liveness is out of the prover's reach.

## Not modelled

lmbench is vendored. `send.c`, `udpserver_simple.c`, `Recv.c`, `simple_epoll.c` and
`measure.c` are sequential I/O; `context_fast.s` is an earlier copy that is not built.
Time stamps and counters' values are left out everywhere, and so are loading and
unloading of the drivers.

## Plan

1. Prove `OnePlace` and `NoLostWakeup` of UdpServer, `EntryWhole` and
   `TableOutlivesThreads` of KvTcp, `PrintedComplete` of ThletSwitch, and `NoLeak` of
   Mempool.
2. Compose the two mempools of `context.c` under Shinjuku's `context_alloc`.
3. Model the kernel-mode switch benchmark with its exit, the lock module and the RPC
   kthread, whose exits race with their threads.
4. Model `recv.c` with the driver's counters, CLEAR and FINISH.
5. Replace Shinjuku's program order by a store order, to see which barriers it needs.
6. Prove `NoContextLost` and `PreemptionsPaid`.
