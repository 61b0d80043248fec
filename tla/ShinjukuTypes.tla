--------------------------- MODULE ShinjukuTypes ----------------------------
(***************************************************************************)
(* Type correctness of Shinjuku for any number of CPUs, contexts and       *)
(* packets.                                                                *)
(***************************************************************************)
EXTENDS Shinjuku, TLAPS

(* The CPUs.                                                               *)
LEMMA CpuFacts ==
  /\ LastPolled \in Nat /\ LastPolled \in Cpus
  /\ Workers \subseteq Cpus /\ 0 .. LastPolled \subseteq Cpus
  /\ \A w \in Workers : w \in Nat
BY ShinjukuAssumption DEF LastPolled, Workers, Cpus

(* What the queue's operations do to its type: kfifo_in of dispatcher.c:53 *)
(* and 110, kfifo_out of 62.                                               *)
LEMMA QueueType ==
  ASSUME NEW q \in Seq(Entries), NEW e \in Entries
  PROVE  /\ kfifo_in(q, e) \in Seq(Entries)
         /\ q # << >> => Tail(q) \in Seq(Entries) /\ Head(q) \in Entries
BY DEF kfifo_in

-----------------------------------------------------------------------------
(* Types.  Filled is needed for the queue: what is put into it comes from  *)
(* the responses.                                                          *)

LEMMA TypeInit == Init => TypeOK /\ Filled
<1> SUFFICES ASSUME Init PROVE TypeOK /\ Filled
  OBVIOUS
<1> USE CpuFacts, ShinjukuAssumption
<1>1. 0 \in Cpus
  BY DEF Cpus
<1>2. TypeOK
  BY <1>1 DEF Init, TypeOK, Places, NoRequest, NoResponse, NoFrame, Requests, Responses, Frames
<1>3. Filled
  BY <1>1 DEF Init, Filled, NoRequest, NoResponse, NoFrame
<1> QED
  BY <1>2, <1>3

(* The loop of do_dispatching (dispatcher.c:142) stays within its bounds.  *)
LEMMA AdvanceType ==
  ASSUME di \in 0 .. LastPolled, max_batch \in 0 .. MaxBatch, Advance
  PROVE  /\ dpc' \in {"poll", "net"} /\ di' \in 0 .. LastPolled
         /\ max_batch' \in 0 .. MaxBatch
BY CpuFacts, ShinjukuAssumption DEF Advance

(* Setting a response's flag (dispatcher.c:48, worker.c:71), and counting  *)
(* in a frame (worker.c:54), keep the types.                               *)
LEMMA FlagType ==
  ASSUME response \in [Cpus -> Responses], NEW c \in Cpus,
         NEW f \in {"RUNNING", "FINISHED", "PREEMPTED", "PROCESSED"}
  PROVE  [response EXCEPT ![c].flag = f] \in [Cpus -> Responses]
BY DEF Responses

LEMMA CountType ==
  ASSUME frame \in [Contexts -> Frames], NEW k \in Contexts,
         frame' = [frame EXCEPT ![k].i = @ + 1]
  PROVE  /\ frame' \in [Contexts -> Frames]
         /\ \A c \in Contexts : frame'[c].cont = frame[c].cont /\ frame'[c].cpu = frame[c].cpu
<1>1. frame' \in [Contexts -> Frames]
  BY DEF Frames
<1>2. ASSUME NEW c \in Contexts
      PROVE  frame'[c].cont = frame[c].cont /\ frame'[c].cpu = frame[c].cpu
  <2>1. CASE c = k
    BY <2>1 DEF Frames
  <2>2. CASE c # k
    BY <2>2
  <2> QED
    BY <2>1, <2>2
<1> QED
  BY <1>1, <1>2

(* Leaving a context (worker.c:58 and 64) keeps the types.                 *)
LEMMA SwapOutType ==
  ASSUME TypeOK, NEW w \in Workers, SwapOut(w), frame[running[w]].cpu \in Cpus
  PROVE  /\ irq' \in [Workers -> BOOLEAN] /\ self' \in [Workers -> Cpus]
         /\ wpc' \in [Workers -> Places]
         /\ running' \in [Workers -> Contexts \union {None}]
BY Zenon DEF TypeOK, SwapOut, Places

(* dispatch_request (dispatcher.c:58) keeps the types.                     *)
LEMMA DispatchType ==
  ASSUME TypeOK, Filled, NEW q \in Seq(Entries), dispatch_request(di, q)
  PROVE  /\ dpc' \in {"poll", "net"} /\ di' \in 0 .. LastPolled
         /\ max_batch' \in 0 .. MaxBatch /\ tskq' \in Seq(Entries)
         /\ preempt_check' \in [Cpus -> BOOLEAN]
         /\ request' \in [Cpus -> Requests] /\ response' \in [Cpus -> Responses]
<1> USE CpuFacts, ShinjukuAssumption
<1>1. dpc' \in {"poll", "net"} /\ di' \in 0 .. LastPolled /\ max_batch' \in 0 .. MaxBatch
  BY SMTT(30) DEF TypeOK, dispatch_request, Advance
<1>2. di \in Cpus
  BY DEF TypeOK
<1>3. preempt_check' \in [Cpus -> BOOLEAN]
  <2> DEFINE b == response[di].flag = "PROCESSED" /\ preempt_check[di]
  <2>1. b \in BOOLEAN
    OBVIOUS
  <2>2. \/ preempt_check' = [preempt_check EXCEPT ![di] = b]
        \/ preempt_check' = [preempt_check EXCEPT ![di] = TRUE]
    BY DEF dispatch_request
  <2> HIDE DEF b
  <2> QED
    BY <1>2, <2>1, <2>2, Zenon DEF TypeOK
<1>4. tskq' \in Seq(Entries)
  <2>1. CASE q = << >>
    BY <2>1 DEF dispatch_request
  <2>2. CASE q # << >>
    <3>1. tskq' = Tail(q)
      BY <2>2 DEF dispatch_request
    <3> QED
      BY <2>2, <3>1
  <2> QED
    BY <2>1, <2>2
<1>5. response' \in [Cpus -> Responses]
  <2>1. \/ response' = [response EXCEPT ![di].flag = "PROCESSED"]
        \/ response' = [response EXCEPT ![di].flag = "RUNNING"]
    BY DEF dispatch_request
  <2>2. response \in [Cpus -> Responses]
    BY DEF TypeOK
  <2>3. [response EXCEPT ![di].flag = "PROCESSED"] \in [Cpus -> Responses]
    BY <1>2, <2>2, FlagType, Zenon
  <2>4. [response EXCEPT ![di].flag = "RUNNING"] \in [Cpus -> Responses]
    BY <1>2, <2>2, FlagType, Zenon
  <2> QED
    BY <2>1, <2>3, <2>4, Zenon
<1>6. request' \in [Cpus -> Requests]
  <2>1. CASE q = << >>
    BY <2>1 DEF TypeOK, dispatch_request
  <2>2. CASE q # << >>
    <3>1. Head(q) \in Entries
      BY <2>2, QueueType
    <3> DEFINE r == [flag |-> "ACTIVE", rnbl |-> Head(q).rnbl, mbuf |-> Head(q).mbuf,
                     category |-> Head(q).category]
    <3>2. r \in Requests
      BY <3>1 DEF Entries, Requests
    <3>3. request' = [request EXCEPT ![di] = r]
      BY <2>2 DEF dispatch_request
    <3> HIDE DEF r
    <3> QED
      BY <1>2, <3>2, <3>3 DEF TypeOK
  <2> QED
    BY <2>1, <2>2
<1> QED
  BY <1>1, <1>3, <1>4, <1>5, <1>6

LEMMA TypeStep ==
  ASSUME TypeOK, Filled, [Next]_vars
  PROVE  TypeOK'
<1> USE CpuFacts, ShinjukuAssumption
<1>1. CASE StartWorkers
  BY <1>1 DEF StartWorkers, TypeOK, Places, netvars, ctxvars
<1>2. CASE HandleResponse
  <2>0. di \in Cpus
    BY DEF TypeOK
  <2>1. /\ free' \subseteq Contexts /\ consumed' \subseteq Packets
        /\ \E q \in Seq(Entries) : dispatch_request(di, q)
    <3>1. CASE handle_finished(di) /\ dispatch_request(di, tskq)
      BY <3>1, <2>0 DEF handle_finished, TypeOK, Filled, Responses
    <3>2. CASE /\ response[di].flag = "PREEMPTED"
               /\ dispatch_request(di, kfifo_in(tskq, Entry(response[di])))
               /\ UNCHANGED <<free, consumed>>
      <4>1. Entry(response[di]) \in Entries
        BY <3>2, <2>0 DEF TypeOK, Filled, Responses, Entries, Entry
      <4> QED
        BY <4>1, <3>2, QueueType DEF TypeOK
    <3>3. CASE dispatch_request(di, tskq) /\ UNCHANGED <<free, consumed>>
      BY <3>3 DEF TypeOK
    <3> QED
      BY <1>2, <3>1, <3>2, <3>3 DEF HandleResponse
  <2>2. PICK q \in Seq(Entries) : dispatch_request(di, q)
    BY <2>1
  <2> QED
    BY <1>2, <2>1, <2>2, DispatchType, Zenon DEF HandleResponse, TypeOK, workvars, ctxvars
<1>3. CASE StillRunning
  <2>1. di' \in 0 .. LastPolled /\ max_batch' \in 0 .. MaxBatch /\ dpc' \in {"poll", "net"}
    BY <1>3, AdvanceType DEF StillRunning, TypeOK
  <2> QED
    BY <1>3, <2>1, Zenon DEF StillRunning, TypeOK, netvars, workvars, ctxvars
<1>4. CASE preempt_worker
  BY <1>4, SMTT(30) DEF preempt_worker, TypeOK, netvars, workvars, ctxvars
<1>5. CASE smp_call_function_single
  <2>1. di' \in 0 .. LastPolled /\ max_batch' \in 0 .. MaxBatch /\ dpc' \in {"poll", "net"}
    BY <1>5, AdvanceType DEF smp_call_function_single, TypeOK
  <2>2. ipi' \in [Cpus -> {"none", "sent", "pending"}]
    BY <1>5 DEF smp_call_function_single, TypeOK
  <2> QED
    BY <1>5, <2>1, <2>2, Zenon DEF smp_call_function_single, TypeOK, netvars, workvars, ctxvars
<1>6. CASE handle_networker
  <2>0. rxq # << >> => Head(rxq) \in Packets /\ Tail(rxq) \in Seq(Packets)
    BY DEF TypeOK
  <2>1. rxq' \in Seq(Packets) /\ dropped' \subseteq Packets /\ dpc' \in {"net", "poll"}
        /\ max_batch' \in 0 .. MaxBatch /\ free' \subseteq Contexts
    <3>1. rxq' = rxq \/ (rxq # << >> /\ rxq' = Tail(rxq))
      BY <1>6 DEF handle_networker
    <3>2. dropped' = dropped \/ (rxq # << >> /\ dropped' = dropped \union {Head(rxq)})
      BY <1>6 DEF handle_networker
    <3>3. max_batch' = max_batch \/ (max_batch > 0 /\ max_batch' = max_batch - 1)
      BY <1>6 DEF handle_networker
    <3>4. free' \subseteq free
      BY <1>6, Zenon DEF handle_networker
    <3>5. dpc' \in {"net", "poll"}
      BY <1>6 DEF handle_networker
    <3>6. rxq' \in Seq(Packets)
      BY <2>0, <3>1, Zenon DEF TypeOK
    <3>7. dropped' \subseteq Packets
      BY <2>0, <3>2 DEF TypeOK
    <3>8. max_batch' \in 0 .. MaxBatch
      BY <3>3 DEF TypeOK
    <3> QED
      BY <3>4, <3>5, <3>6, <3>7, <3>8 DEF TypeOK
  <2>2. packet_of' \in [Contexts -> Packets \union {None}]
    <3>1. \/ packet_of' = packet_of
          \/ /\ rxq # << >>
             /\ \E k \in free : packet_of' = [packet_of EXCEPT ![k] = Head(rxq)]
      BY <1>6, Zenon DEF handle_networker
    <3> QED
      BY <2>0, <3>1, Zenon DEF TypeOK
  <2>3. tskq' \in Seq(Entries)
    <3>1. CASE tskq' = tskq
      BY <3>1 DEF TypeOK
    <3>2. CASE rxq # << >> /\ \E k \in free : tskq' = kfifo_in(tskq,
                  [rnbl |-> k, mbuf |-> Head(rxq), category |-> "PACKET"])
      <4>1. PICK k \in free : tskq' = kfifo_in(tskq,
                  [rnbl |-> k, mbuf |-> Head(rxq), category |-> "PACKET"])
        BY <3>2
      <4>2. [rnbl |-> k, mbuf |-> Head(rxq), category |-> "PACKET"] \in Entries
        BY <3>2 DEF TypeOK, Entries
      <4> QED
        BY <4>1, <4>2, QueueType DEF TypeOK
    <3> QED
      BY <1>6, <3>1, <3>2, Zenon DEF handle_networker
  <2> QED
    BY <1>6, <2>1, <2>2, <2>3, SMTT(60) DEF handle_networker, TypeOK, workvars
<1>7. ASSUME NEW p \in Packets, Receive(p) PROVE TypeOK'
  <2>1. rxq' \in Seq(Packets)
    BY <1>7 DEF Receive, TypeOK
  <2> QED
    BY <1>7, <2>1, Zenon DEF Receive, TypeOK, dispvars, workvars, ctxvars
<1>8. ASSUME NEW w \in Workers, IpiArrives(w) PROVE TypeOK'
  BY <1>8, SMTT(30) DEF IpiArrives, TypeOK, netvars, dispvars, workvars, ctxvars
<1>9. ASSUME NEW w \in Workers, worker_ipi_handler(w) PROVE TypeOK'
  BY <1>9, SMTT(30) DEF worker_ipi_handler, TypeOK, netvars, dispvars, workvars, ctxvars
<1>10. ASSUME NEW w \in Workers, init_worker(w) PROVE TypeOK'
  <2>1. response' \in [Cpus -> Responses]
    BY <1>10, FlagType, Zenon DEF init_worker, TypeOK
  <2> QED
    BY <1>10, <2>1 DEF init_worker, TypeOK, Places, netvars, dispvars, ctxvars
<1>10a. ASSUME NEW w \in Workers, local_irq_disable(w) PROVE TypeOK'
  BY <1>10a, SMTT(30) DEF local_irq_disable, TypeOK, Places, netvars, dispvars, ctxvars
<1>10b. ASSUME NEW w \in Workers, handle_short_packet(w) PROVE TypeOK'
  <2>1. self[w] \in Cpus /\ request[self[w]] \in Requests
    BY Zenon DEF TypeOK
  <2>2. request' \in [Cpus -> Requests]
    BY <1>10b, <2>1, Zenon DEF handle_short_packet, TypeOK, Requests
  <2> QED
    BY <1>10b, <2>2, SMTT(30) DEF handle_short_packet, TypeOK, Places, netvars, dispvars, ctxvars
<1>11. ASSUME NEW w \in Workers, handle_request(w) PROVE TypeOK'
  <2> DEFINE v == self[w]
  <2>1. v \in Cpus /\ request[v] \in Requests /\ request[v].rnbl \in Contexts
    BY <1>11 DEF handle_request, TypeOK, Filled, Requests
  <2>2. request' \in [Cpus -> Requests]
    BY <1>11, <2>1, Zenon DEF handle_request, TypeOK, Requests
  <2>3. frame' \in [Contexts -> Frames]
    <3>1. CASE handle_new_packet(w)
      <4> DEFINE cw == IF RecordsContext THEN [ctx_worker EXCEPT ![v] = request[v].rnbl]
                       ELSE ctx_worker
                 f == [cpu |-> w, cont |-> cw[w],
                       data |-> FirstArgument(Spins[request[v].mbuf]), i |-> 0]
      <4>1. cw[w] \in Contexts \union {None}
        BY <2>1 DEF TypeOK
      <4>2. f \in Frames
        BY <4>1 DEF Frames, FirstArgument
      <4>3. frame' = [frame EXCEPT ![request[v].rnbl] = f]
        BY <3>1 DEF handle_new_packet
      <4> QED
        BY <2>1, <4>2, <4>3 DEF TypeOK
    <3>2. CASE handle_context(w)
      BY <3>2 DEF handle_context, TypeOK
    <3> QED
      BY <1>11, <3>1, <3>2 DEF handle_request
  <2>4. /\ finished' \in [Cpus -> BOOLEAN] /\ irq' \in [Workers -> BOOLEAN]
        /\ ctx_worker' \in [Cpus -> Contexts \union {None}]
        /\ wpc' \in [Workers -> Places]
        /\ running' \in [Workers -> Contexts \union {None}]
    BY <1>11, <2>1, Zenon DEF handle_request, handle_new_packet, handle_context, TypeOK, Places
  <2> QED
    BY <1>11, <2>2, <2>3, <2>4 DEF handle_request, TypeOK, netvars, dispvars
<1>12. ASSUME NEW w \in Workers, Spin(w) PROVE TypeOK'
  <2>1. running[w] \in Contexts /\ frame[running[w]] \in Frames
    BY <1>12 DEF Spin, TypeOK, Filled
  <2>2. frame' \in [Contexts -> Frames]
    BY <1>12, <2>1, CountType, Zenon DEF Spin, TypeOK
  <2>3. frame[running[w]].cpu \in Cpus
    BY <2>1 DEF Frames
  <2>4. worker_preempted' \in [Cpus -> BOOLEAN] /\ preemptions' \in Nat
    <3>1. CASE worker_preempted[frame[running[w]].cpu]
      <4>1. /\ worker_preempted' = [worker_preempted EXCEPT ![frame[running[w]].cpu] = FALSE]
            /\ preemptions' = preemptions + 1
        BY <1>12, <3>1 DEF Spin
      <4> QED
        BY <2>3, <4>1 DEF TypeOK
    <3>2. CASE ~worker_preempted[frame[running[w]].cpu]
      BY <1>12, <3>2, Zenon DEF Spin, TypeOK
    <3> QED
      BY <3>1, <3>2
  <2>5. wpc' \in [Workers -> Places]
    <3>1. wpc' = [wpc EXCEPT ![w] = "preempt"] \/ wpc' = [wpc EXCEPT ![w] = "cond"]
      BY <1>12, Zenon DEF Spin
    <3> QED
      BY <3>1, Zenon DEF TypeOK, Places
  <2> QED
    BY <1>12, <2>2, <2>4, <2>5, Zenon DEF Spin, TypeOK, netvars, dispvars
<1>12a. ASSUME NEW w \in Workers, Preempt(w) PROVE TypeOK'
  <2>1. running[w] \in Contexts /\ frame[running[w]] \in Frames
    BY <1>12a DEF Preempt, TypeOK, Filled
  <2>2. frame[running[w]].cpu \in Cpus
    BY <2>1 DEF Frames
  <2>3. /\ irq' \in [Workers -> BOOLEAN] /\ self' \in [Workers -> Cpus]
        /\ wpc' \in [Workers -> Places]
        /\ running' \in [Workers -> Contexts \union {None}]
    BY <1>12a, <2>2, SwapOutType, Zenon DEF Preempt
  <2> QED
    BY <1>12a, <2>3, SMTT(30) DEF Preempt, TypeOK, netvars, dispvars, ctxvars
<1>13. ASSUME NEW w \in Workers, Finish(w) PROVE TypeOK'
  <2>1. running[w] \in Contexts /\ frame[running[w]] \in Frames
    BY <1>13 DEF Finish, TypeOK, Filled
  <2>2. frame[running[w]].cpu \in Cpus
    BY <2>1 DEF Frames
  <2>3. /\ finished' \in [Cpus -> BOOLEAN]
        /\ irq' \in [Workers -> BOOLEAN] /\ self' \in [Workers -> Cpus]
        /\ wpc' \in [Workers -> Places]
        /\ running' \in [Workers -> Contexts \union {None}]
    <3>1. CASE frame[running[w]].i < frame[running[w]].data
      BY <1>13, <3>1 DEF Finish, TypeOK, Places
    <3>2. CASE ~(frame[running[w]].i < frame[running[w]].data)
      BY <1>13, <2>2, <3>2, SwapOutType, Zenon DEF Finish, TypeOK
    <3> QED
      BY <3>1, <3>2
  <2> QED
    BY <1>13, <2>3, SMTT(30) DEF Finish, TypeOK, netvars, dispvars, ctxvars
<1>14. ASSUME NEW w \in Workers, finish_request(w) PROVE TypeOK'
  <2> DEFINE v == self[w]
             r == [flag |-> IF finished[v] THEN "FINISHED" ELSE "PREEMPTED",
                   rnbl |-> ctx_worker[v], mbuf |-> request[v].mbuf, category |-> "CONTEXT"]
  <2>1. v \in Cpus /\ request[v] \in Requests
    BY Zenon DEF TypeOK
  <2>2. r \in Responses
    BY <2>1, Zenon DEF TypeOK, Requests, Responses
  <2>3. response' = [response EXCEPT ![v] = r]
    BY <1>14, SMTT(30) DEF finish_request
  <2> HIDE DEF r
  <2>4. response' \in [Cpus -> Responses]
    BY <2>1, <2>2, <2>3 DEF TypeOK
  <2> QED
    BY <1>14, <2>4, SMTT(30) DEF finish_request, TypeOK, Places, netvars, dispvars, ctxvars
<1>15. CASE UNCHANGED vars
  BY <1>15, SMTT(30) DEF TypeOK, vars, netvars, dispvars, workvars, ctxvars
<1> QED
  BY <1>1, <1>2, <1>3, <1>4, <1>5, <1>6, <1>7, <1>8, <1>9, <1>10, <1>10a, <1>10b,
     <1>11, <1>12, <1>12a, <1>13, <1>14, <1>15
     DEF Next, Dispatcher, Worker, generic_work, Exited

(* Filled is kept, too.                                                    *)
LEMMA FilledStep ==
  ASSUME TypeOK, Filled, [Next]_vars
  PROVE  Filled'
<1> USE CpuFacts, ShinjukuAssumption
<1>1. CASE StartWorkers
  BY <1>1 DEF StartWorkers, Filled, TypeOK, ctxvars
<1>2. CASE HandleResponse
  <2>0. di \in Cpus
    BY DEF TypeOK
  <2>1. PICK q \in Seq(Entries) : dispatch_request(di, q)
    <3>1. CASE dispatch_request(di, tskq)
      BY <3>1 DEF TypeOK
    <3>2. CASE /\ response[di].flag = "PREEMPTED"
               /\ dispatch_request(di, kfifo_in(tskq, Entry(response[di])))
      <4>1. Entry(response[di]) \in Entries
        BY <3>2, <2>0, SMTT(60) DEF TypeOK, Filled, Responses, Entries, Entry
      <4> QED
        BY <4>1, <3>2, QueueType DEF TypeOK
    <3> QED
      BY <1>2, <3>1, <3>2 DEF HandleResponse
  <2>2. UNCHANGED <<ctx_worker, frame, wpc, running, self>>
    BY <1>2, SMTT(60) DEF HandleResponse, workvars, ctxvars
  <2>3. CASE q = << >>
    <3>1. request' = request /\ response' = [response EXCEPT ![di].flag = "PROCESSED"]
      BY <2>1, <2>3 DEF dispatch_request
    <3> QED
      BY <2>0, <2>2, <3>1 DEF Filled, TypeOK, Responses
  <2>4. CASE q # << >>
    <3>1. /\ response' = [response EXCEPT ![di].flag = "RUNNING"]
          /\ request' = [request EXCEPT ![di] =
               [flag |-> "ACTIVE", rnbl |-> Head(q).rnbl, mbuf |-> Head(q).mbuf,
                category |-> Head(q).category]]
      BY <2>1, <2>4 DEF dispatch_request
    <3>2. Head(q) \in Entries
      BY <2>4, QueueType
    <3>3. /\ request'[di].rnbl # None /\ request'[di].mbuf # None
          /\ request'[di].category # "NOCONTENT"
          /\ response'[di].flag = "RUNNING"
          /\ \A c \in Cpus \ {di} : request'[c] = request[c] /\ response'[c] = response[c]
      BY <2>0, <3>1, <3>2, SMTT(30) DEF Entries, TypeOK, Responses
    <3>4. ASSUME NEW c \in Cpus
          PROVE  /\ request'[c].flag = "ACTIVE" => /\ request'[c].rnbl # None
                      /\ request'[c].mbuf # None /\ request'[c].category # "NOCONTENT"
                 /\ response'[c].flag \in {"FINISHED", "PREEMPTED"} =>
                      /\ response'[c].rnbl # None /\ response'[c].mbuf # None
                      /\ response'[c].category = "CONTEXT"
                 /\ ctx_worker'[c] # None => request'[c].mbuf # None
      <4>1. CASE c = di
        BY <3>3, <4>1
      <4>2. CASE c # di
        <5>1. request'[c] = request[c] /\ response'[c] = response[c]
              /\ ctx_worker'[c] = ctx_worker[c]
          BY <2>2, <3>3, <4>2, Zenon
        <5> QED
          BY <5>1, Zenon DEF Filled
      <4> QED
        BY <4>1, <4>2, Zenon
    <3> QED
      BY <2>2, <3>4, Zenon DEF Filled
  <2> QED
    BY <2>3, <2>4
<1>3. CASE StillRunning \/ preempt_worker \/ smp_call_function_single \/ handle_networker
  <2>1. UNCHANGED <<request, response, ctx_worker, frame, wpc, running, self>>
    BY <1>3, Zenon DEF StillRunning, preempt_worker, smp_call_function_single, handle_networker,
       workvars, ctxvars
  <2> QED
    BY <2>1, Zenon DEF Filled
<1>4. ASSUME NEW p \in Packets, Receive(p) PROVE Filled'
  BY <1>4, Zenon DEF Receive, Filled, workvars, ctxvars
<1>5. ASSUME NEW w \in Workers, IpiArrives(w) \/ worker_ipi_handler(w) PROVE Filled'
  BY <1>5, Zenon DEF IpiArrives, worker_ipi_handler, Filled, workvars, ctxvars
<1>6. ASSUME NEW w \in Workers, init_worker(w) PROVE Filled'
  <2>1. /\ response'[w].flag = "PROCESSED"
        /\ \A c \in Cpus \ {w} : response'[c] = response[c]
    BY <1>6 DEF init_worker, TypeOK, Responses
  <2> QED
    BY <1>6, <2>1 DEF init_worker, Filled, TypeOK, ctxvars
<1>6a. ASSUME NEW w \in Workers, local_irq_disable(w) PROVE Filled'
  BY <1>6a, SMTT(60) DEF local_irq_disable, Filled, TypeOK, ctxvars
<1>6b. ASSUME NEW w \in Workers, handle_short_packet(w) PROVE Filled'
  <2>1. /\ \A c \in Cpus : /\ request'[c].flag = "ACTIVE" => request'[c] = request[c]
                           /\ request'[c].mbuf = request[c].mbuf
        /\ UNCHANGED <<response, ctx_worker, frame, running, self>>
    BY <1>6b DEF handle_short_packet, TypeOK, Requests, ctxvars
  <2>2. wpc'[w] = "bug" /\ \A u \in Workers \ {w} : wpc'[u] = wpc[u]
    BY <1>6b DEF handle_short_packet, TypeOK
  <2>3. ASSUME NEW c \in Cpus
        PROVE  /\ request'[c].flag = "ACTIVE" =>
                    /\ request'[c].rnbl # None /\ request'[c].mbuf # None
                    /\ request'[c].category # "NOCONTENT"
               /\ ctx_worker'[c] # None => request'[c].mbuf # None
    <3>1. /\ request'[c].flag = "ACTIVE" => request'[c] = request[c]
          /\ request'[c].mbuf = request[c].mbuf /\ ctx_worker'[c] = ctx_worker[c]
      BY <2>1, Zenon
    <3>2. /\ request[c].flag = "ACTIVE" => request[c].rnbl # None /\ request[c].mbuf # None
                                           /\ request[c].category # "NOCONTENT"
          /\ ctx_worker[c] # None => request[c].mbuf # None
      BY Zenon DEF Filled
    <3> QED
      BY <3>1, <3>2
  <2>4. \A u \in Workers :
          /\ wpc'[u] \in {"loop", "preempt", "cond", "dead"} => running'[u] # None
          /\ wpc'[u] = "report" => ctx_worker'[self'[u]] # None
    BY <2>1, <2>2, SMTT(30) DEF Filled
  <2> QED
    BY <2>1, <2>3, <2>4, Zenon DEF Filled
<1>7. ASSUME NEW w \in Workers, handle_request(w) PROVE Filled'
  <2> DEFINE v == self[w]
             k == request[v].rnbl
  <2>1. v \in Cpus /\ k \in Contexts /\ request[v].mbuf # None /\ k # None
    BY <1>7 DEF handle_request, TypeOK, Filled, Requests
  <2>2. /\ request'[v].flag = "WAITING" /\ request'[v].mbuf = request[v].mbuf
        /\ \A c \in Cpus \ {v} : request'[c] = request[c]
    BY <1>7, <2>1 DEF handle_request, TypeOK, Requests
  <2>3. /\ wpc'[w] \in {"loop", "cond"} /\ \A u \in Workers \ {w} : wpc'[u] = wpc[u]
        /\ running'[w] = k /\ \A u \in Workers \ {w} : running'[u] = running[u]
        /\ self' = self /\ response' = response
    BY <1>7 DEF handle_request, handle_new_packet, handle_context, TypeOK
  <2>4. ctx_worker' = ctx_worker \/ ctx_worker' = [ctx_worker EXCEPT ![v] = k]
    BY <1>7 DEF handle_request, handle_new_packet, handle_context
  <2>5. \A c \in Cpus : (ctx_worker[c] # None => ctx_worker'[c] # None)
                        /\ (ctx_worker'[c] # None => ctx_worker[c] # None \/ c = v)
    BY <2>1, <2>4, Zenon DEF TypeOK
  <2>6. \A c \in Contexts : frame'[c].cont # None => ctx_worker'[frame'[c].cpu] # None
    <3>1. CASE frame' = frame
      BY <2>5, <3>1, Zenon DEF Filled, TypeOK, Frames
    <3>2. CASE handle_new_packet(w)
      <4>1. /\ frame'[k].cpu = w /\ frame'[k].cont = ctx_worker'[w]
            /\ \A c \in Contexts \ {k} : frame'[c] = frame[c]
        BY <2>1, <3>2, Zenon DEF handle_new_packet, TypeOK
      <4>2. \A c \in Contexts \ {k} : frame'[c].cont # None => ctx_worker'[frame'[c].cpu] # None
        <5>1. \A c \in Contexts : frame[c].cpu \in Cpus
          BY DEF TypeOK, Frames
        <5> QED
          BY <2>5, <4>1, <5>1, Zenon DEF Filled
      <4> QED
        BY <4>1, <4>2, Zenon
    <3> QED
      BY <1>7, <3>1, <3>2 DEF handle_request, handle_context
  <2>7. \A c \in Cpus : ctx_worker'[c] # None => request'[c].mbuf # None
    BY <2>1, <2>2, <2>5, Zenon DEF Filled
  <2>8. \A u \in Workers :
          /\ wpc'[u] \in {"loop", "preempt", "cond", "dead"} => running'[u] # None
          /\ wpc'[u] = "report" => ctx_worker'[self'[u]] # None
    BY <2>1, <2>3, <2>5, Zenon DEF Filled, TypeOK
  <2>9. \A c \in Cpus : request'[c].flag = "ACTIVE" => request'[c].rnbl # None
          /\ request'[c].mbuf # None /\ request'[c].category # "NOCONTENT"
    BY <2>2, Zenon DEF Filled
  <2> QED
    BY <2>3, <2>6, <2>7, <2>8, <2>9 DEF Filled
<1>8. ASSUME NEW w \in Workers, generic_work(w) PROVE Filled'
  <2>1. running[w] \in Contexts /\ frame[running[w]] \in Frames
    BY <1>8 DEF generic_work, Spin, Preempt, Finish, TypeOK, Filled
  <2>2. UNCHANGED <<request, response, ctx_worker>>
    BY <1>8 DEF generic_work, Spin, Preempt, Finish
  <2>3. \A k \in Contexts : frame'[k].cont = frame[k].cont /\ frame'[k].cpu = frame[k].cpu
    <3>1. frame' = frame \/ frame' = [frame EXCEPT ![running[w]].i = @ + 1]
      BY <1>8 DEF generic_work, Spin, Preempt, Finish, ctxvars
    <3>2. CASE frame' = frame
      BY <3>2
    <3>3. CASE frame' = [frame EXCEPT ![running[w]].i = @ + 1]
      BY <2>1, <3>3, CountType, Zenon DEF TypeOK
    <3> QED
      BY <3>1, <3>2, <3>3
  <2>s. \/ SwapOut(w)
        \/ /\ \E a \in {"loop", "preempt", "cond"} : wpc' = [wpc EXCEPT ![w] = a]
           /\ UNCHANGED <<self, running>>
    BY <1>8 DEF generic_work, Spin, Preempt, Finish
  <2>4. \A u \in Workers \ {w} : wpc'[u] = wpc[u] /\ running'[u] = running[u]
                                 /\ self'[u] = self[u]
    BY <2>s, SMTT(30) DEF SwapOut, TypeOK
  <2>5. \/ wpc'[w] \in {"loop", "preempt", "cond", "dead"} /\ running'[w] = running[w]
        \/ wpc'[w] = "report" /\ self'[w] = frame[running[w]].cpu
           /\ frame[running[w]].cont # None
    BY <2>s, SMTT(30) DEF SwapOut, TypeOK
  <2>6. wpc'[w] = "report" => ctx_worker'[self'[w]] # None
    BY <2>1, <2>2, <2>5, Zenon DEF Filled
  <2>7. wpc'[w] \in {"loop", "preempt", "cond", "dead"} => running'[w] # None
    BY <2>1, <2>5, Zenon
  <2>8. ASSUME NEW u \in Workers
        PROVE  /\ wpc'[u] \in {"loop", "preempt", "cond", "dead"} => running'[u] # None
               /\ wpc'[u] = "report" => ctx_worker'[self'[u]] # None
    <3>1. CASE u = w
      BY <2>6, <2>7, <3>1
    <3>2. CASE u # w
      <4>1. wpc'[u] = wpc[u] /\ running'[u] = running[u] /\ self'[u] = self[u]
        BY <2>4, <3>2
      <4> QED
        BY <2>2, <4>1, Zenon DEF Filled
    <3> QED
      BY <3>1, <3>2
  <2>9. \A k \in Contexts : frame'[k].cont # None => ctx_worker'[frame'[k].cpu] # None
    BY <2>2, <2>3, Zenon DEF Filled
  <2>10. request' = request /\ response' = response /\ ctx_worker' = ctx_worker
    BY <2>2
  <2> QED
    BY <2>8, <2>9, <2>10, Zenon DEF Filled
<1>9. ASSUME NEW w \in Workers, finish_request(w) PROVE Filled'
  <2> DEFINE v == self[w]
  <2>1. v \in Cpus /\ ctx_worker[v] # None /\ request[v].mbuf # None
    BY <1>9, Zenon DEF finish_request, TypeOK, Filled
  <2>2. /\ response'[v].rnbl # None /\ response'[v].mbuf # None
        /\ response'[v].category = "CONTEXT"
        /\ \A c \in Cpus \ {v} : response'[c] = response[c]
    BY <1>9, <2>1, Zenon DEF finish_request, TypeOK
  <2>3. wpc'[w] = "wait" /\ \A u \in Workers \ {w} : wpc'[u] = wpc[u]
    BY <1>9 DEF finish_request, TypeOK
  <2>4. UNCHANGED <<request, ctx_worker, frame, running, self>>
    BY <1>9 DEF finish_request, ctxvars
  <2> QED
    BY <2>2, <2>3, <2>4, SMTT(30) DEF Filled
<1>10. CASE UNCHANGED vars
  BY <1>10, Zenon DEF Filled, vars, workvars, ctxvars
<1> QED
  BY <1>1, <1>2, <1>3, <1>4, <1>5, <1>6, <1>6a, <1>6b, <1>7, <1>8, <1>9,
     <1>10 DEF Next, Dispatcher, Worker, Exited

(* Every variable keeps its type, for any number of CPUs, contexts and     *)
(* packets; in particular no NULL is ever queued (dispatcher.c:53, 110).   *)
THEOREM TypeCorrect == Spec => []TypeOK
<1>1. TypeOK /\ Filled /\ [Next]_vars => (TypeOK /\ Filled)'
  BY TypeStep, FilledStep
<1> QED
  BY <1>1, TypeInit, PTL DEF Spec
=============================================================================
