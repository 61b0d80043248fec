--------------------------- MODULE BoundedQueues ----------------------------
(***************************************************************************)
(* What the request queues between a server and its workers promise: each  *)
(* is a first-in first-out queue of at most Capacity requests; a request   *)
(* goes to the queues in turn and is dropped when its queue is full; a     *)
(* worker takes from its own queue, one request at a time.                 *)
(***************************************************************************)
EXTENDS Integers, Sequences

CONSTANTS Queues, Rpcs, Capacity, None

VARIABLES queue, turn, taken

qvars == <<queue, turn, taken>>

QInit ==
  /\ queue = [q \in Queues |-> << >>]
  /\ turn = 0
  /\ taken = [q \in Queues |-> None]

\* The request joins the queue whose turn it is, if that has room; the turn
\* passes on either way.
Submit(r) ==
  /\ queue' = IF Len(queue[turn]) < Capacity
              THEN [queue EXCEPT ![turn] = Append(@, r)] ELSE queue
  /\ turn' = 1 - turn
  /\ UNCHANGED taken

Take(q) ==
  /\ taken[q] = None /\ queue[q] # << >>
  /\ taken' = [taken EXCEPT ![q] = Head(queue[q])]
  /\ queue' = [queue EXCEPT ![q] = Tail(@)]
  /\ UNCHANGED turn

Done(q) ==
  /\ taken[q] # None
  /\ taken' = [taken EXCEPT ![q] = None]
  /\ UNCHANGED <<queue, turn>>

QNext ==
  \/ \E r \in Rpcs : Submit(r)
  \/ \E q \in Queues : Take(q) \/ Done(q)

QSpec == QInit /\ [][QNext]_qvars
=============================================================================
