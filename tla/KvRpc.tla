------------------------------- MODULE KvRpc --------------------------------
(***************************************************************************)
(* The kernel key-value RPC server of                                      *)
(* network/baseline/linux/user_mode/rpc.rs: a server threadlet receives    *)
(* datagrams and spreads them over two ring buffers; a worker threadlet    *)
(* serves each ring.  A ring is a Mutex<RingBuffer>, so what is done under *)
(* its lock is one step.                                                   *)
(*                                                                         *)
(* rc only matters for its parity, which wrapping at 2^32 keeps.           *)
(***************************************************************************)
EXTENDS Integers, Sequences

CONSTANTS
  RING_BUFFER_SIZE,
  Rpcs,              \* the requests, as far as they can be told apart
  None

ASSUME KvRpcAssumption ==
  /\ RING_BUFFER_SIZE \in Nat \ {0, 1}
  /\ None \notin Rpcs

Queues == {0, 1}
Indexes == 0 .. RING_BUFFER_SIZE - 1

VARIABLES
  buffer, head, tail,  \* the fields of QUEUE_0 and QUEUE_1
  rc,                  \* the server's counter, modulo 2
  serving,             \* is the server's loop still running?
  rpc_to_process       \* the request each worker has taken

ring == <<buffer, head, tail>>
vars == <<ring, rc, serving, rpc_to_process>>

Init ==
  /\ buffer = [q \in Queues |-> [i \in Indexes |-> None]]
  /\ head = [q \in Queues |-> 0] /\ tail = [q \in Queues |-> 0]
  /\ rc = 0 /\ serving = TRUE
  /\ rpc_to_process = [q \in Queues |-> None]

\* Mutant: the index runs past the end of the array before it wraps.
Succ_late(i) == IF i = RING_BUFFER_SIZE THEN 0 ELSE i + 1

Succ(i) == (i + 1) % RING_BUFFER_SIZE

\* Mutant: a full ring is not recognised.
push_unchecked(q, r) ==
  /\ buffer' = [buffer EXCEPT ![q][head[q]] = r]
  /\ head' = [head EXCEPT ![q] = Succ(head[q])]
  /\ UNCHANGED tail

\* Mutant: the entry is written where the new head points.
push_at_next(q, r) ==
  /\ IF Succ(head[q]) = tail[q]
     THEN UNCHANGED <<buffer, head>>
     ELSE /\ buffer' = [buffer EXCEPT ![q][Succ(head[q])] = r]
          /\ head' = [head EXCEPT ![q] = Succ(head[q])]
  /\ UNCHANGED tail

\* push, as the server has it inline: one slot stays free, and a request that
\* finds the ring full is dropped.
push(q, r) ==
  /\ IF Succ(head[q]) = tail[q]
     THEN UNCHANGED <<buffer, head>>
     ELSE /\ buffer' = [buffer EXCEPT ![q][head[q]] = r]
          /\ head' = [head EXCEPT ![q] = Succ(head[q])]
  /\ UNCHANGED tail

\* One valid datagram.  One that is too short or has another magic changes
\* nothing.
kernel_kvrpc_server_threadlet(r) ==
  /\ serving
  /\ push(rc, r)
  /\ rc' = (rc + 1) % 2
  /\ UNCHANGED <<serving, rpc_to_process>>

\* A receive error ends the server.
ReceiveError ==
  /\ serving
  /\ serving' = FALSE
  /\ UNCHANGED <<ring, rc, rpc_to_process>>

\* Mutant: the worker only looks at its ring while the server runs.
pop_while_serving(q) ==
  /\ serving
  /\ rpc_to_process[q] = None /\ head[q] # tail[q]
  /\ rpc_to_process' = [rpc_to_process EXCEPT ![q] = buffer[q][tail[q]]]
  /\ buffer' = [buffer EXCEPT ![q][tail[q]] = None]
  /\ tail' = [tail EXCEPT ![q] = Succ(tail[q])]
  /\ UNCHANGED <<head, rc, serving>>

\* pop, as the worker has it inline: take() leaves None behind.  A worker that
\* finds its ring empty yields, which changes nothing.
pop(q) ==
  /\ rpc_to_process[q] = None /\ head[q] # tail[q]
  /\ rpc_to_process' = [rpc_to_process EXCEPT ![q] = buffer[q][tail[q]]]
  /\ buffer' = [buffer EXCEPT ![q][tail[q]] = None]
  /\ tail' = [tail EXCEPT ![q] = Succ(tail[q])]
  /\ UNCHANGED <<head, rc, serving>>

\* The Get and Put branches, which are still empty in the source.
Process(q) ==
  /\ rpc_to_process[q] # None
  /\ rpc_to_process' = [rpc_to_process EXCEPT ![q] = None]
  /\ UNCHANGED <<ring, rc, serving>>

kernel_kvrpc_worker_threadlet(q) == pop(q) \/ Process(q)

Next ==
  \/ \E r \in Rpcs : kernel_kvrpc_server_threadlet(r)
  \/ ReceiveError
  \/ \E q \in Queues : kernel_kvrpc_worker_threadlet(q)

Spec == Init /\ [][Next]_vars

-----------------------------------------------------------------------------
(* Properties. *)

TypeOK ==
  /\ buffer \in [Queues -> [Indexes -> Rpcs \union {None}]]
  /\ head \in [Queues -> Indexes] /\ tail \in [Queues -> Indexes]
  /\ rc \in Queues /\ serving \in BOOLEAN
  /\ rpc_to_process \in [Queues -> Rpcs \union {None}]

\* How many requests lie between tail and head.
Length(q) == IF tail[q] <= head[q] THEN head[q] - tail[q]
             ELSE RING_BUFFER_SIZE - tail[q] + head[q]

\* The distance of a slot from tail.
Offset(q, i) == IF tail[q] <= i THEN i - tail[q] ELSE RING_BUFFER_SIZE - tail[q] + i

\* The slots from tail up to head hold a request and all others hold None, so
\* that a worker's take() never comes back empty from a ring it saw non-empty
\* and a push never overwrites a request.
SlotsMatch ==
  \A q \in Queues, i \in Indexes : buffer[q][i] # None <=> Offset(q, i) < Length(q)

\* The slot of the k-th request from tail.
Place(q, k) == IF tail[q] + k - 1 < RING_BUFFER_SIZE
               THEN tail[q] + k - 1 ELSE tail[q] + k - 1 - RING_BUFFER_SIZE

Contents(q) == [k \in 1 .. Length(q) |-> buffer[q][Place(q, k)]]

Abstract == INSTANCE BoundedQueues WITH
  Capacity <- RING_BUFFER_SIZE - 1,
  queue <- [q \in Queues |-> Contents(q)],
  turn <- rc,
  taken <- rpc_to_process

\* The two rings are the bounded first-in first-out queues of BoundedQueues
\* with one slot less than the array: wrapping around never reorders, repeats
\* or loses a request that was accepted.
ImplementsQueues == Abstract!QSpec

-----------------------------------------------------------------------------
(* Liveness: the workers poll for ever, so each is fair.  Of the server    *)
(* nothing is assumed.                                                     *)

FairSpec == Spec /\ \A q \in Queues : WF_vars(kernel_kvrpc_worker_threadlet(q))

\* A request that was accepted is taken, even after the server has ended on a
\* receive error.
AcceptedIsTaken ==
  \A q \in Queues, i \in Indexes : buffer[q][i] # None ~> buffer[q][i] = None
=============================================================================
