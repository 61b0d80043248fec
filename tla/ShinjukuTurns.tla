--------------------------- MODULE ShinjukuTurns ----------------------------
(***************************************************************************)
(* What the steps of Shinjuku do to the slots that dispatcher and workers  *)
(* share, and that the flags say whose turn it is.                         *)
(***************************************************************************)
EXTENDS ShinjukuTypes

(* What the steps that several of the proofs below look at do.             *)

(* handle_worker (dispatcher.c:78) on a response: the context goes back to *)
(* the pool or to the queue q, then the head of q to CPU di.               *)
LEMMA ResponseEffect ==
  ASSUME TypeOK, Filled, HandleResponse
  PROVE  /\ di \in Cpus /\ di <= LastPolled
         /\ response[di].flag # "RUNNING"
         /\ UNCHANGED <<wpc, self, running, ctx_worker, finished, frame, packet_of,
                        worker_preempted, ipi>>
         /\ dpc' \in {"poll", "net"}
         /\ \E q \in Seq(Entries) :
              /\ \/ /\ response[di].flag = "FINISHED"
                    /\ free' = free \union {response[di].rnbl} /\ q = tskq
                 \/ /\ response[di].flag = "PREEMPTED" /\ free' = free
                    /\ Entry(response[di]) \in Entries /\ q = kfifo_in(tskq, Entry(response[di]))
                 \/ /\ response[di].flag = "PROCESSED" /\ free' = free /\ q = tskq
              /\ \/ /\ q = << >> /\ tskq' = q /\ request'[di] = request[di]
                    /\ response'[di].flag = "PROCESSED"
                 \/ /\ q # << >> /\ tskq' = Tail(q)
                    /\ Head(q) \in Entries
                    /\ request'[di].flag = "ACTIVE" /\ request'[di].rnbl = Head(q).rnbl
                    /\ request'[di].mbuf = Head(q).mbuf
                    /\ request'[di].category = Head(q).category
                    /\ response'[di].flag = "RUNNING"
         /\ \A c \in Cpus \ {di} : request'[c] = request[c] /\ response'[c] = response[c]
<1> USE CpuFacts, ShinjukuAssumption
<1>1. di \in Cpus /\ di <= LastPolled
  BY DEF TypeOK
<1>2. UNCHANGED <<wpc, self, running, ctx_worker, finished, frame, packet_of,
                  worker_preempted, ipi>>
  BY DEF HandleResponse, workvars, ctxvars
<1>3. PICK q \in Seq(Entries) :
        /\ dispatch_request(di, q)
        /\ \/ /\ response[di].flag = "FINISHED"
              /\ free' = free \union {response[di].rnbl} /\ q = tskq
           \/ /\ response[di].flag = "PREEMPTED" /\ free' = free
              /\ Entry(response[di]) \in Entries /\ q = kfifo_in(tskq, Entry(response[di]))
           \/ /\ response[di].flag = "PROCESSED" /\ free' = free /\ q = tskq
  <2>1. CASE handle_finished(di) /\ dispatch_request(di, tskq)
    BY <2>1 DEF handle_finished, TypeOK
  <2>2. CASE /\ response[di].flag = "PREEMPTED"
             /\ dispatch_request(di, kfifo_in(tskq, Entry(response[di])))
             /\ UNCHANGED <<free, consumed>>
    <3>1. Entry(response[di]) \in Entries
      BY <2>2, <1>1 DEF TypeOK, Filled, Responses, Entries, Entry
    <3>2. kfifo_in(tskq, Entry(response[di])) \in Seq(Entries)
      BY <3>1, QueueType DEF TypeOK
    <3> QED
      BY <2>2, <3>1, <3>2
  <2>3. CASE /\ response[di].flag = "PROCESSED"
             /\ dispatch_request(di, tskq)
             /\ UNCHANGED <<free, consumed>>
    BY <2>3 DEF TypeOK
  <2> QED
    BY <2>1, <2>2, <2>3 DEF HandleResponse
<1>4. dpc' \in {"poll", "net"}
  BY <1>3, AdvanceType DEF dispatch_request, TypeOK
<1>5. \A c \in Cpus \ {di} : request'[c] = request[c] /\ response'[c] = response[c]
  BY <1>1, <1>3, Zenon DEF dispatch_request, TypeOK
<1>6. \/ /\ q = << >> /\ tskq' = q /\ request'[di] = request[di]
         /\ response'[di].flag = "PROCESSED"
      \/ /\ q # << >> /\ tskq' = Tail(q) /\ Head(q) \in Entries
         /\ request'[di].flag = "ACTIVE" /\ request'[di].rnbl = Head(q).rnbl
         /\ request'[di].mbuf = Head(q).mbuf /\ request'[di].category = Head(q).category
         /\ response'[di].flag = "RUNNING"
  <2>1. CASE q = << >>
    <3>1. tskq' = q /\ request' = request /\ response' = [response EXCEPT ![di].flag = "PROCESSED"]
      BY <1>3, <2>1 DEF dispatch_request
    <3> QED
      BY <1>1, <2>1, <3>1 DEF TypeOK, Responses
  <2>2. CASE q # << >>
    <3>1. /\ tskq' = Tail(q) /\ response' = [response EXCEPT ![di].flag = "RUNNING"]
          /\ request' = [request EXCEPT ![di] =
               [flag |-> "ACTIVE", rnbl |-> Head(q).rnbl, mbuf |-> Head(q).mbuf,
                category |-> Head(q).category]]
      BY <1>3, <2>2 DEF dispatch_request
    <3>2. Head(q) \in Entries
      BY <2>2, QueueType
    <3> QED
      BY <1>1, <2>2, <3>1, <3>2 DEF TypeOK, Responses
  <2> QED
    BY <2>1, <2>2
<1> QED
  BY <1>1, <1>2, <1>3, <1>4, <1>5, <1>6, Zenon

(* A step of generic_work (worker.c:52-64) on the worker's own CPU.        *)
LEMMA WorkEffect ==
  ASSUME TypeOK, Filled, NEW w \in Workers, generic_work(w)
  PROVE  /\ wpc[w] \in {"loop", "preempt", "cond"} /\ running[w] \in Contexts
         /\ UNCHANGED <<netvars, dispvars, request, response, ipi, ctx_worker, packet_of>>
         /\ \A k \in Contexts : frame'[k].cont = frame[k].cont /\ frame'[k].cpu = frame[k].cpu
         /\ \A u \in Workers \ {w} : wpc'[u] = wpc[u] /\ running'[u] = running[u]
                                      /\ self'[u] = self[u]
         /\ \A c \in Cpus \ {w} : finished'[c] = finished[c]
         /\ \A c \in Cpus : worker_preempted'[c] => worker_preempted[c]
         /\ \/ /\ wpc'[w] \in {"loop", "preempt", "cond", "dead"} /\ running'[w] = running[w]
               /\ self'[w] = self[w]
            \/ /\ wpc'[w] = "report" /\ self'[w] = frame[running[w]].cpu
               /\ frame[running[w]].cont # None
               /\ finished'[w] \/ wpc[w] = "preempt"
         /\ wpc'[w] = "preempt" => worker_preempted[frame[running[w]].cpu]
<1> USE CpuFacts, ShinjukuAssumption
<1>1. /\ wpc[w] \in {"loop", "preempt", "cond"} /\ running[w] \in Contexts
      /\ frame[running[w]] \in Frames
  BY DEF generic_work, Spin, Preempt, Finish, TypeOK, Filled
<1>2. UNCHANGED <<netvars, dispvars, request, response, ipi, ctx_worker, packet_of>>
  BY DEF generic_work, Spin, Preempt, Finish, ctxvars
<1>3. \A k \in Contexts : frame'[k].cont = frame[k].cont /\ frame'[k].cpu = frame[k].cpu
  <2>1. CASE frame' = frame
    BY <2>1
  <2>2. CASE frame' = [frame EXCEPT ![running[w]].i = @ + 1]
    BY <1>1, <2>2, CountType, Zenon DEF TypeOK
  <2> QED
    BY <2>1, <2>2 DEF generic_work, Spin, Preempt, Finish, ctxvars
<1>4. frame[running[w]].cpu \in Cpus
  BY <1>1 DEF Frames
<1>5. \/ SwapOut(w)
      \/ /\ \E a \in {"loop", "preempt", "cond"} : wpc' = [wpc EXCEPT ![w] = a]
         /\ UNCHANGED <<self, running>>
  BY DEF generic_work, Spin, Preempt, Finish
<1>6. \A u \in Workers \ {w} : wpc'[u] = wpc[u] /\ running'[u] = running[u]
                               /\ self'[u] = self[u]
  BY <1>5 DEF SwapOut, TypeOK
<1>7. \A c \in Cpus \ {w} : finished'[c] = finished[c]
  BY DEF generic_work, Spin, Preempt, Finish, TypeOK
<1>8. worker_preempted' = worker_preempted
      \/ worker_preempted' = [worker_preempted EXCEPT ![frame[running[w]].cpu] = FALSE]
  BY DEF generic_work, Spin, Preempt, Finish
<1>9. \A c \in Cpus : worker_preempted'[c] => worker_preempted[c]
  BY <1>4, <1>8, Zenon DEF TypeOK
<1>10. \/ /\ wpc'[w] \in {"loop", "preempt", "cond", "dead"} /\ running'[w] = running[w]
          /\ self'[w] = self[w]
       \/ /\ wpc'[w] = "report" /\ self'[w] = frame[running[w]].cpu
          /\ frame[running[w]].cont # None /\ SwapOut(w)
  BY <1>5 DEF SwapOut, TypeOK
<1>11. CASE Spin(w)
  <2>1. wpc'[w] = "cond" \/ (wpc'[w] = "preempt" /\ worker_preempted[frame[running[w]].cpu])
    <3>1. CASE worker_preempted[frame[running[w]].cpu]
      <4>1. wpc' = [wpc EXCEPT ![w] = "preempt"]
        BY <1>11, <3>1, Zenon DEF Spin
      <4> QED
        BY <3>1, <4>1 DEF TypeOK
    <3>2. CASE ~worker_preempted[frame[running[w]].cpu]
      <4>1. wpc' = [wpc EXCEPT ![w] = "cond"]
        BY <1>11, <3>2, Zenon DEF Spin
      <4> QED
        BY <4>1, Zenon DEF TypeOK
    <3> QED
      BY <3>1, <3>2
  <2> QED
    BY <1>1, <1>2, <1>3, <1>6, <1>7, <1>9, <1>10, <2>1
<1>12. CASE Preempt(w)
  <2>1. wpc[w] = "preempt" /\ wpc'[w] \in {"report", "dead"}
    BY <1>12 DEF Preempt, SwapOut, TypeOK
  <2> QED
    BY <1>1, <1>2, <1>3, <1>6, <1>7, <1>9, <1>10, <2>1
<1>13. CASE Finish(w)
  <2>1. finished'[w] \/ wpc'[w] = "loop"
    BY <1>13 DEF Finish, TypeOK
  <2>2. wpc'[w] # "preempt"
    BY <1>13, <1>1, <1>4, SMTT(30) DEF Finish, SwapOut, TypeOK
  <2> QED
    BY <1>1, <1>2, <1>3, <1>6, <1>7, <1>9, <1>10, <2>1, <2>2
<1> QED
  BY <1>11, <1>12, <1>13 DEF generic_work

(* handle_request (worker.c:120) of a worker in its own do_work loop.      *)
LEMMA RequestEffect ==
  ASSUME TypeOK, Filled, NEW w \in Workers, self[w] = w, handle_request(w)
  PROVE  /\ wpc[w] = "wait" /\ request[w].flag = "ACTIVE" /\ request[w].rnbl \in Contexts
         /\ UNCHANGED <<netvars, dispvars, response, worker_preempted, ipi, self, packet_of>>
         /\ request'[w].flag = "WAITING" /\ request'[w].rnbl = request[w].rnbl
         /\ request'[w].mbuf = request[w].mbuf /\ request'[w].category = request[w].category
         /\ \A c \in Cpus \ {w} : /\ request'[c] = request[c] /\ ctx_worker'[c] = ctx_worker[c]
                                   /\ finished'[c] = finished[c]
         /\ \A u \in Workers \ {w} : wpc'[u] = wpc[u] /\ running'[u] = running[u]
         /\ wpc'[w] \in {"loop", "cond"} /\ running'[w] = request[w].rnbl
         /\ \/ /\ request[w].category = "PACKET"
               /\ ctx_worker'[w] = (IF RecordsContext THEN request[w].rnbl ELSE ctx_worker[w])
               /\ frame'[request[w].rnbl].cpu = w
               /\ frame'[request[w].rnbl].cont = ctx_worker'[w]
               /\ \A k \in Contexts \ {request[w].rnbl} : frame'[k] = frame[k]
            \/ /\ request[w].category = "CONTEXT" /\ ctx_worker'[w] = request[w].rnbl
               /\ frame' = frame
<1> USE CpuFacts, ShinjukuAssumption
<1>1. /\ wpc[w] = "wait" /\ request[w].flag = "ACTIVE" /\ request[w].rnbl \in Contexts
      /\ w \in Cpus
  BY DEF handle_request, TypeOK, Filled, Requests
<1>2. UNCHANGED <<netvars, dispvars, response, worker_preempted, ipi, self, packet_of>>
  BY DEF handle_request
<1>3. /\ request'[w].flag = "WAITING" /\ request'[w].rnbl = request[w].rnbl
      /\ request'[w].mbuf = request[w].mbuf /\ request'[w].category = request[w].category
      /\ \A c \in Cpus \ {w} : request'[c] = request[c]
  BY <1>1 DEF handle_request, TypeOK, Requests
<1>4. /\ running'[w] = request[w].rnbl
      /\ \A u \in Workers \ {w} : running'[u] = running[u]
  BY DEF handle_request, TypeOK
<1>5. /\ wpc'[w] \in {"loop", "cond"}
      /\ \A u \in Workers \ {w} : wpc'[u] = wpc[u]
  BY SMTT(30) DEF handle_request, handle_new_packet, handle_context, TypeOK
<1>6. \A c \in Cpus \ {w} : ctx_worker'[c] = ctx_worker[c] /\ finished'[c] = finished[c]
  BY <1>1, Zenon DEF handle_request, handle_new_packet, handle_context, TypeOK
<1>7. CASE handle_new_packet(w)
  <2>1. ctx_worker'[w] = (IF RecordsContext THEN request[w].rnbl ELSE ctx_worker[w])
    BY <1>1, <1>7 DEF handle_new_packet, TypeOK
  <2>2. /\ frame'[request[w].rnbl].cpu = w
        /\ frame'[request[w].rnbl].cont = ctx_worker'[w]
        /\ \A k \in Contexts \ {request[w].rnbl} : frame'[k] = frame[k]
    BY <1>1, <1>7 DEF handle_new_packet, TypeOK
  <2>3. request[w].category = "PACKET"
    BY <1>7 DEF handle_new_packet
  <2> QED
    BY <1>1, <1>2, <1>3, <1>4, <1>5, <1>6, <2>1, <2>2, <2>3
<1>8. CASE handle_context(w)
  <2>1. ctx_worker'[w] = request[w].rnbl /\ frame' = frame /\ request[w].category = "CONTEXT"
    BY <1>1, <1>8 DEF handle_context, TypeOK, Filled, Requests
  <2> QED
    BY <1>1, <1>2, <1>3, <1>4, <1>5, <1>6, <2>1
<1> QED
  BY <1>7, <1>8 DEF handle_request

-----------------------------------------------------------------------------
(* The handshake.                                                          *)

TurnOf(c) ==
  \/ /\ c \notin Workers \/ wpc[c] \in {"off", "init"}
     /\ response[c].flag = "RUNNING" /\ request[c].flag = "WAITING"
     /\ request[c].rnbl = None
  \/ /\ c \in Workers /\ wpc[c] \in {"ready", "wait"}
     /\ response[c].flag = "RUNNING" <=> request[c].flag = "ACTIVE"
     /\ request[c].flag = "ACTIVE" => c <= LastPolled
  \/ /\ c \in Workers /\ c <= LastPolled
     /\ wpc[c] \in {"loop", "preempt", "cond", "report", "dead", "bug"}
     /\ response[c].flag = "RUNNING" /\ request[c].flag = "WAITING"

LEMMA InTurnParts ==
  InTurn <=> /\ \A c \in Cpus : TurnOf(c)
             /\ dpc = "boot" => \A w \in Workers : wpc[w] = "off"
BY Zenon DEF InTurn, TurnOf

LEMMA InTurnPartsPrimed ==
  InTurn' <=> /\ \A c \in Cpus : TurnOf(c)'
              /\ dpc' = "boot" => \A w \in Workers : wpc'[w] = "off"
BY Zenon DEF InTurn, TurnOf

(* A step that keeps everything but the turn of one worker.                *)
LEMMA TurnAt ==
  ASSUME InTurn, NEW w \in Workers, wpc[w] # "off", dpc' = dpc, TurnOf(w)',
         \A c \in Cpus \ {w} : request'[c] = request[c] /\ response'[c] = response[c],
         \A u \in Workers \ {w} : wpc'[u] = wpc[u]
  PROVE  InTurn'
<1>1. ASSUME NEW c \in Cpus \ {w} PROVE TurnOf(c)'
  <2>1. TurnOf(c)
    BY InTurnParts
  <2>2. request'[c] = request[c] /\ response'[c] = response[c]
    OBVIOUS
  <2>3. c \in Workers => wpc'[c] = wpc[c]
    OBVIOUS
  <2> QED
    BY <2>1, <2>2, <2>3, SMTT(30) DEF TurnOf
<1>2. dpc' # "boot"
  BY InTurnParts
<1> QED
  BY <1>1, <1>2, InTurnPartsPrimed

LEMMA InTurnStep ==
  ASSUME TypeOK, Filled, InTurn, AtHome, [Next]_vars
  PROVE  InTurn'
<1> USE CpuFacts, ShinjukuAssumption
<1>0. \A w \in Workers : self[w] = w
  BY DEF AtHome
<1>1. CASE StartWorkers
  <2>1. \A w \in Workers : wpc[w] = "off" /\ wpc'[w] \in {"off", "init"}
    BY <1>1 DEF StartWorkers, InTurn
  <2>2. dpc' # "boot" /\ UNCHANGED <<request, response>>
    BY <1>1 DEF StartWorkers
  <2> QED
    BY <2>1, <2>2, Zenon DEF InTurn
<1>2. CASE HandleResponse
  <2>1. di \in Workers /\ wpc[di] \in {"ready", "wait"} /\ request[di].flag = "WAITING"
    BY <1>2, ResponseEffect, SMTT(60) DEF InTurn, TypeOK, Requests
  <2>2. \/ response'[di].flag = "PROCESSED" /\ request'[di].flag = "WAITING"
        \/ response'[di].flag = "RUNNING" /\ request'[di].flag = "ACTIVE"
    BY <1>2, <2>1, ResponseEffect, Zenon
  <2>3. wpc' = wpc /\ dpc' # "boot" /\ di <= LastPolled
        /\ \A c \in Cpus \ {di} : request'[c] = request[c] /\ response'[c] = response[c]
    BY <1>2, ResponseEffect
  <2>4. PICK i \in Workers : i = di
    BY <2>1
  <2>5. /\ wpc'[i] \in {"ready", "wait"} /\ i <= LastPolled
        /\ \/ response'[i].flag = "PROCESSED" /\ request'[i].flag = "WAITING"
           \/ response'[i].flag = "RUNNING" /\ request'[i].flag = "ACTIVE"
        /\ \A c \in Cpus \ {i} : request'[c] = request[c] /\ response'[c] = response[c]
    BY <2>1, <2>2, <2>3, <2>4
  <2> HIDE <2>4
  <2> QED
    BY <2>3, <2>5 DEF InTurn
<1>3. CASE StillRunning \/ preempt_worker \/ smp_call_function_single \/ handle_networker
  <2>1. UNCHANGED <<request, response, wpc>>
    BY <1>3, Zenon DEF StillRunning, preempt_worker, smp_call_function_single,
       handle_networker, workvars
  <2>2. dpc' # "boot"
    BY <1>3, AdvanceType, Zenon DEF StillRunning, preempt_worker, smp_call_function_single,
       handle_networker, TypeOK
  <2> QED
    BY <2>1, <2>2, Zenon DEF InTurn
<1>4. ASSUME NEW p \in Packets, Receive(p) PROVE InTurn'
  BY <1>4, Zenon DEF Receive, InTurn, dispvars, workvars
<1>5. ASSUME NEW w \in Workers, IpiArrives(w) \/ worker_ipi_handler(w) PROVE InTurn'
  <2>1. UNCHANGED <<request, response, wpc, dpc>>
    BY <1>5 DEF IpiArrives, worker_ipi_handler, dispvars, workvars
  <2> QED
    BY <2>1, Zenon DEF InTurn
<1>6. ASSUME NEW w \in Workers, init_worker(w) PROVE InTurn'
  <2>1. /\ response'[w].flag = "PROCESSED"
        /\ \A c \in Cpus \ {w} : response'[c] = response[c]
    BY <1>6 DEF init_worker, TypeOK, Responses
  <2>2. /\ wpc[w] = "init" /\ wpc'[w] = "ready" /\ \A u \in Workers \ {w} : wpc'[u] = wpc[u]
        /\ UNCHANGED <<request, dpc>>
    BY <1>6 DEF init_worker, TypeOK, dispvars
  <2>3. TurnOf(w)
    BY CpuFacts, InTurnParts
  <2>4. TurnOf(w)'
    BY <2>1, <2>2, <2>3 DEF TurnOf
  <2> QED
    BY <2>1, <2>2, <2>4, TurnAt
<1>6a. ASSUME NEW w \in Workers, local_irq_disable(w) PROVE InTurn'
  <2>1. /\ wpc[w] = "ready" /\ wpc'[w] = "wait" /\ \A u \in Workers \ {w} : wpc'[u] = wpc[u]
        /\ UNCHANGED <<request, response, dpc>>
    BY <1>6a DEF local_irq_disable, TypeOK, dispvars
  <2>3. TurnOf(w)
    BY CpuFacts, InTurnParts
  <2>4. TurnOf(w)'
    BY <2>1, <2>3 DEF TurnOf
  <2> QED
    BY <2>1, <2>4, TurnAt
<1>6b. ASSUME NEW w \in Workers, handle_short_packet(w) PROVE InTurn'
  <2>1. /\ wpc[w] = "wait" /\ request[w].flag = "ACTIVE" /\ request'[w].flag = "WAITING"
        /\ wpc'[w] = "bug" /\ UNCHANGED <<response, dpc>>
        /\ \A c \in Cpus \ {w} : request'[c] = request[c]
        /\ \A u \in Workers \ {w} : wpc'[u] = wpc[u]
    BY <1>0, <1>6b DEF handle_short_packet, TypeOK, Requests, dispvars
  <2>3. TurnOf(w)
    BY CpuFacts, InTurnParts
  <2>4. TurnOf(w)'
    BY <2>1, <2>3 DEF TurnOf
  <2> QED
    BY <2>1, <2>4, TurnAt
<1>7. ASSUME NEW w \in Workers, handle_request(w) PROVE InTurn'
  <2>1. /\ wpc[w] = "wait" /\ request[w].flag = "ACTIVE" /\ request'[w].flag = "WAITING"
        /\ wpc'[w] \in {"loop", "cond"} /\ UNCHANGED <<response, dpc>>
        /\ \A c \in Cpus \ {w} : request'[c] = request[c]
        /\ \A u \in Workers \ {w} : wpc'[u] = wpc[u]
    BY <1>0, <1>7, RequestEffect DEF dispvars
  <2>3. TurnOf(w)
    BY CpuFacts, InTurnParts
  <2>4. TurnOf(w)'
    BY <2>1, <2>3 DEF TurnOf
  <2> QED
    BY <2>1, <2>4, TurnAt
<1>8. ASSUME NEW w \in Workers, generic_work(w) PROVE InTurn'
  <2>1. /\ wpc[w] \in {"loop", "preempt", "cond"}
        /\ wpc'[w] \in {"loop", "preempt", "cond", "report", "dead"}
        /\ \A u \in Workers \ {w} : wpc'[u] = wpc[u]
        /\ UNCHANGED <<request, response, dpc>>
    BY <1>8, WorkEffect, SMTT(30) DEF dispvars
  <2>3. TurnOf(w)
    BY CpuFacts, InTurnParts
  <2>4. TurnOf(w)'
    BY <2>1, <2>3 DEF TurnOf
  <2> QED
    BY <2>1, <2>4, TurnAt
<1>9. ASSUME NEW w \in Workers, finish_request(w) PROVE InTurn'
  <2>1. /\ response'[w].flag # "RUNNING"
        /\ \A c \in Cpus \ {w} : response'[c] = response[c]
    BY <1>0, <1>9, Zenon DEF finish_request, TypeOK
  <2>2. /\ wpc[w] = "report" /\ wpc'[w] = "wait"
        /\ \A u \in Workers \ {w} : wpc'[u] = wpc[u]
        /\ UNCHANGED <<request, dpc>>
    BY <1>9, Zenon DEF finish_request, TypeOK, dispvars
  <2>3. TurnOf(w)
    BY CpuFacts, InTurnParts
  <2>4. TurnOf(w)'
    BY <2>1, <2>2, <2>3 DEF TurnOf
  <2> QED
    BY <2>1, <2>2, <2>4, TurnAt
<1>10. CASE UNCHANGED vars
  <2>1. UNCHANGED <<request, response, wpc, dpc>>
    BY <1>10 DEF vars, dispvars, workvars
  <2> QED
    BY <2>1, Zenon DEF InTurn
<1> QED
  BY <1>1, <1>2, <1>3, <1>4, <1>5, <1>6, <1>6a, <1>6b, <1>7, <1>8, <1>9,
     <1>10 DEF Next, Dispatcher, Worker, Exited
=============================================================================
