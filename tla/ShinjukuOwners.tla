--------------------------- MODULE ShinjukuOwners ---------------------------
(***************************************************************************)
(* Contexts have one owner and keep their packet: the moves between pool,  *)
(* queue and CPUs.                                                         *)
(***************************************************************************)
EXTENDS ShinjukuTurns

(* Ownership.  The moves of a context between pool, queue and CPUs.        *)

LEMMA SlotFacts ==
  ASSUME NEW c \in Cpus
  PROVE  /\ response[c].flag = "RUNNING" => Slot(c) = <<request[c].rnbl, request[c].mbuf>>
         /\ response[c].flag = "PROCESSED" => Slot(c) = <<None, None>>
         /\ response[c].flag \in {"FINISHED", "PREEMPTED"} =>
              Slot(c) = <<response[c].rnbl, response[c].mbuf>>
BY DEF Slot

(* CPU i lets go of what it has (handle_finished, handle_preempted).       *)
LEMMA LetGo ==
  ASSUME NEW pool, NEW q \in Seq(Entries), NEW h, NEW g, NEW i \in Cpus, None \notin pool,
         OwnedOnce(pool, q, h), g[i] = None, \A c \in Cpus \ {i} : g[c] = h[c]
  PROVE  OwnedOnce(pool, q, g)
<1>1. \A j \in 1 .. Len(q) : q[j] \in Entries
  OBVIOUS
<1>2. \A j \in 1 .. Len(q) : q[j].rnbl # None
  BY <1>1, ShinjukuAssumption DEF Entries
<1>3. \A c, d \in Cpus : g[c] # None /\ g[c] = g[d] => c = d
  BY DEF OwnedOnce
<1>4. \A c \in Cpus : g[c] \notin pool
  BY DEF OwnedOnce
<1>5. \A j \in 1 .. Len(q) :
        /\ q[j].rnbl \notin pool
        /\ \A c \in Cpus : q[j].rnbl # g[c]
        /\ \A k \in 1 .. Len(q) : q[j].rnbl = q[k].rnbl => j = k
  BY <1>2 DEF OwnedOnce
<1> QED
  BY <1>3, <1>4, <1>5 DEF OwnedOnce

(* ... and it goes back to the pool (context_free, dispatcher.c:45).       *)
LEMMA ToPool ==
  ASSUME NEW pool, NEW q \in Seq(Entries), NEW h, NEW g, NEW i \in Cpus, None \notin pool,
         OwnedOnce(pool, q, h), h[i] # None, g[i] = None, \A c \in Cpus \ {i} : g[c] = h[c]
  PROVE  OwnedOnce(pool \union {h[i]}, q, g)
<1>1. \A j \in 1 .. Len(q) : q[j] \in Entries
  OBVIOUS
<1>2. \A j \in 1 .. Len(q) : q[j].rnbl # None
  BY <1>1, ShinjukuAssumption DEF Entries
<1>3. \A c, d \in Cpus : g[c] # None /\ g[c] = g[d] => c = d
  BY DEF OwnedOnce
<1>4. \A c \in Cpus : g[c] \notin pool \union {h[i]}
  BY DEF OwnedOnce
<1>5. \A j \in 1 .. Len(q) :
        /\ q[j].rnbl \notin pool \union {h[i]}
        /\ \A c \in Cpus : q[j].rnbl # g[c]
        /\ \A k \in 1 .. Len(q) : q[j].rnbl = q[k].rnbl => j = k
  BY <1>2 DEF OwnedOnce
<1> QED
  BY <1>3, <1>4, <1>5 DEF OwnedOnce

(* A context that nobody has is queued (kfifo_in, dispatcher.c:53 and 110).*)
LEMMA ToQueue ==
  ASSUME NEW pool, NEW q \in Seq(Entries), NEW h, NEW e \in Entries,
         OwnedOnce(pool, q, h), e.rnbl \notin pool, \A c \in Cpus : h[c] # e.rnbl,
         \A j \in 1 .. Len(q) : q[j].rnbl # e.rnbl
  PROVE  OwnedOnce(pool, kfifo_in(q, e), h)
<1>1. CASE kfifo_in(q, e) = q
  BY <1>1
<1>2. CASE kfifo_in(q, e) = Append(q, e)
  <2> DEFINE r == Append(q, e)
  <2>1. Len(r) = Len(q) + 1 /\ Len(q) \in Nat
    OBVIOUS
  <2>2. \A j \in 1 .. Len(r) :
          (j \in 1 .. Len(q) /\ r[j] = q[j]) \/ (j = Len(q) + 1 /\ r[j] = e)
    OBVIOUS
  <2> HIDE DEF r
  <2>3. OwnedOnce(pool, r, h)
    BY <2>1, <2>2 DEF OwnedOnce
  <2> QED
    BY <1>2, <2>3 DEF r
<1> QED
  BY <1>1, <1>2 DEF kfifo_in

(* The first entry of the queue goes to CPU i, which has nothing           *)
(* (dispatch_request, dispatcher.c:58).                                    *)
LEMMA ToCpu ==
  ASSUME NEW pool, NEW q \in Seq(Entries), NEW h, NEW g, NEW i \in Cpus, q # << >>,
         OwnedOnce(pool, q, h), h[i] = None, g[i] = Head(q).rnbl,
         \A c \in Cpus \ {i} : g[c] = h[c]
  PROVE  OwnedOnce(pool, Tail(q), g)
<1> DEFINE t == Tail(q)
<1>1. Len(t) = Len(q) - 1 /\ Len(q) \in Nat /\ Len(q) >= 1 /\ Head(q) = q[1]
  OBVIOUS
<1>2. \A j \in 1 .. Len(t) : t[j] = q[j + 1] /\ j + 1 \in 1 .. Len(q) /\ j + 1 # 1
  OBVIOUS
<1>3. 1 \in 1 .. Len(q)
  BY <1>1
<1> HIDE DEF t
<1>4. \A c, d \in Cpus : g[c] # None /\ g[c] = g[d] => c = d
  BY <1>1, <1>3 DEF OwnedOnce
<1>5. \A c \in Cpus : g[c] \notin pool
  BY <1>1, <1>3 DEF OwnedOnce
<1>6. ASSUME NEW j \in 1 .. Len(t)
      PROVE  /\ t[j].rnbl \notin pool
             /\ \A c \in Cpus : t[j].rnbl # g[c]
             /\ \A k \in 1 .. Len(t) : t[j].rnbl = t[k].rnbl => j = k
  <2>1. t[j].rnbl \notin pool
    BY <1>2 DEF OwnedOnce
  <2>2. t[j].rnbl # q[1].rnbl
    BY <1>2, <1>3 DEF OwnedOnce
  <2>3. \A c \in Cpus : t[j].rnbl # g[c]
    BY <1>1, <1>2, <2>2 DEF OwnedOnce
  <2>4. ASSUME NEW k \in 1 .. Len(t), t[j].rnbl = t[k].rnbl PROVE j = k
    <3>1. j + 1 = k + 1
      BY <1>2, <2>4 DEF OwnedOnce
    <3> QED
      BY <3>1
  <2> QED
    BY <2>1, <2>3, <2>4
<1>7. OwnedOnce(pool, t, g)
  BY <1>4, <1>5, <1>6 DEF OwnedOnce
<1> QED
  BY <1>7 DEF t

(* A context leaves the pool (context_alloc, dispatcher.c:99) and is       *)
(* queued if there is room.                                                *)
LEMMA FromPool ==
  ASSUME NEW pool, NEW q \in Seq(Entries), NEW h, NEW e \in Entries,
         OwnedOnce(pool, q, h), e.rnbl \in pool
  PROVE  OwnedOnce(pool \ {e.rnbl}, kfifo_in(q, e), h)
<1>1. OwnedOnce(pool \ {e.rnbl}, q, h)
  BY DEF OwnedOnce
<1>2. (\A c \in Cpus : h[c] # e.rnbl) /\ (\A j \in 1 .. Len(q) : q[j].rnbl # e.rnbl)
  BY DEF OwnedOnce
<1> QED
  BY <1>1, <1>2, ToQueue

(* Which CPU has what: a CPU's hands only change when the dispatcher deals *)
(* with its response, the worker's own steps leave them as they are.       *)
LEMMA HandsFacts ==
  ASSUME NEW c \in Cpus
  PROVE  /\ response[c].flag = "RUNNING" => Hands[c] = request[c].rnbl
         /\ response[c].flag = "PROCESSED" => Hands[c] = None
         /\ response[c].flag \in {"FINISHED", "PREEMPTED"} => Hands[c] = response[c].rnbl
         /\ Hands[c] = Slot(c)[1]
BY SlotFacts DEF Hands

LEMMA HandsPrimed ==
  ASSUME NEW c \in Cpus
  PROVE  /\ response'[c].flag = "RUNNING" =>
              Hands'[c] = request'[c].rnbl /\ Slot(c)' = <<request'[c].rnbl, request'[c].mbuf>>
         /\ response'[c].flag = "PROCESSED" => Hands'[c] = None /\ Slot(c)' = <<None, None>>
         /\ response'[c].flag \in {"FINISHED", "PREEMPTED"} =>
              Hands'[c] = response'[c].rnbl /\ Slot(c)' = <<response'[c].rnbl, response'[c].mbuf>>
         /\ Hands'[c] = Slot(c)'[1]
BY DEF Hands, Slot

LEMMA SlotSame ==
  ASSUME NEW c \in Cpus, request'[c].rnbl = request[c].rnbl, request'[c].mbuf = request[c].mbuf,
         response'[c] = response[c]
  PROVE  Slot(c)' = Slot(c)
BY DEF Slot

LEMMA HandsSame ==
  ASSUME \A c \in Cpus : Slot(c)' = Slot(c), UNCHANGED <<free, tskq>>, OneOwner
  PROVE  OneOwner'
<1>1. Hands' = Hands
  BY DEF Hands
<1> QED
  BY <1>1 DEF OneOwner, OwnedOnce

(* A worker's step does not change what its CPU has.                       *)
LEMMA WorkerSlots ==
  ASSUME TypeOK, Filled, InTurn, AtHome, NEW w \in Workers,
         \/ local_irq_disable(w) \/ handle_request(w) \/ handle_short_packet(w)
         \/ generic_work(w) \/ finish_request(w)
  PROVE  (\A c \in Cpus : Slot(c)' = Slot(c)) /\ UNCHANGED <<free, tskq, packet_of>>
<1> USE CpuFacts, ShinjukuAssumption
<1>0. self[w] = w
  BY DEF AtHome
<1>1. CASE handle_request(w)
  <2>1. /\ \A c \in Cpus : request'[c].rnbl = request[c].rnbl /\ request'[c].mbuf = request[c].mbuf
        /\ UNCHANGED <<response, free, tskq, packet_of>>
    BY <1>0, <1>1, RequestEffect DEF dispvars
  <2> QED
    BY <2>1, SlotSame
<1>1a. CASE handle_short_packet(w)
  <2>1. \A c \in Cpus : request'[c].rnbl = request[c].rnbl /\ request'[c].mbuf = request[c].mbuf
    BY <1>0, <1>1a DEF handle_short_packet, TypeOK, Requests
  <2>2. UNCHANGED <<response, free, tskq, packet_of>>
    BY <1>1a DEF handle_short_packet, dispvars, ctxvars
  <2> QED
    BY <2>1, <2>2, SlotSame
<1>2. CASE local_irq_disable(w) \/ generic_work(w)
  <2>1. UNCHANGED <<request, response, free, tskq, packet_of>>
    BY <1>2, WorkEffect DEF local_irq_disable, dispvars, ctxvars
  <2> QED
    BY <2>1, SlotSame
<1>3. CASE finish_request(w)
  <2>1. /\ response'[w].flag \in {"FINISHED", "PREEMPTED"}
        /\ response'[w].rnbl = ctx_worker[w] /\ response'[w].mbuf = request[w].mbuf
        /\ \A c \in Cpus \ {w} : response'[c] = response[c]
    BY <1>0, <1>3 DEF finish_request, TypeOK
  <2>2. UNCHANGED <<request, free, tskq, packet_of>> /\ wpc[w] = "report"
    BY <1>3 DEF finish_request, dispvars, ctxvars
  <2>3. response[w].flag = "RUNNING" /\ ctx_worker[w] = request[w].rnbl
    BY <2>2 DEF InTurn, AtHome
  <2>4. Slot(w)' = Slot(w)
    BY <2>1, <2>3, HandsPrimed, SlotFacts
  <2> QED
    BY <2>1, <2>2, <2>4, SlotSame
<1> QED
  BY <1>1, <1>1a, <1>2, <1>3

LEMMA OneOwnerStep ==
  ASSUME TypeOK, Filled, InTurn, AtHome, OneOwner, [Next]_vars
  PROVE  OneOwner'
<1> USE CpuFacts, ShinjukuAssumption
<1>0. None \notin free /\ tskq \in Seq(Entries)
  BY DEF TypeOK
<1>1. CASE StartWorkers
  <2>1. UNCHANGED <<request, response, free, tskq>>
    BY <1>1 DEF StartWorkers
  <2> QED
    BY <2>1, SlotSame, HandsSame
<1>2. CASE HandleResponse
  <2>0. di \in Cpus /\ response[di].flag # "RUNNING"
    BY <1>2, ResponseEffect
  <2>1. PICK q \in Seq(Entries) :
          /\ \/ /\ response[di].flag = "FINISHED"
                /\ free' = free \union {response[di].rnbl} /\ q = tskq
             \/ /\ response[di].flag = "PREEMPTED" /\ free' = free
                /\ Entry(response[di]) \in Entries /\ q = kfifo_in(tskq, Entry(response[di]))
             \/ /\ response[di].flag = "PROCESSED" /\ free' = free /\ q = tskq
          /\ \/ /\ q = << >> /\ tskq' = q /\ response'[di].flag = "PROCESSED"
             \/ /\ q # << >> /\ tskq' = Tail(q)
                /\ request'[di].rnbl = Head(q).rnbl /\ response'[di].flag = "RUNNING"
    BY <1>2, ResponseEffect
  <2>2. \A c \in Cpus \ {di} : Hands'[c] = Hands[c]
    <3>1. \A c \in Cpus \ {di} : request'[c] = request[c] /\ response'[c] = response[c]
      BY <1>2, ResponseEffect, Zenon
    <3> QED
      BY <3>1, SlotSame, HandsFacts, HandsPrimed, SMTT(30)
  <2> DEFINE g == [Hands EXCEPT ![di] = None]
  <2>3. g[di] = None /\ \A c \in Cpus \ {di} : g[c] = Hands[c]
    BY <2>0 DEF Hands
  <2> HIDE DEF g
  <2>4. OwnedOnce(free', q, g)
    <3>1. CASE response[di].flag = "FINISHED"
      <4>1. Hands[di] = response[di].rnbl /\ Hands[di] # None
        <5>1. response[di].rnbl # None
          BY <2>0, <3>1, Zenon DEF Filled
        <5>2. Hands[di] = response[di].rnbl
          BY <2>0, <3>1, HandsFacts
        <5> QED
          BY <5>1, <5>2
      <4>2. OwnedOnce(free \union {Hands[di]}, tskq, g)
        BY <1>0, <2>0, <2>3, <4>1, ToPool, Zenon DEF OneOwner
      <4> QED
        BY <2>1, <3>1, <4>1, <4>2, Zenon
    <3>2. CASE response[di].flag = "PREEMPTED"
      <4> DEFINE e == Entry(response[di])
      <4>1. e.rnbl = response[di].rnbl /\ Hands[di] = e.rnbl /\ e.rnbl # None /\ e \in Entries
        BY <2>0, <2>1, <3>2, HandsFacts DEF Filled, Entry
      <4>2. OwnedOnce(free, tskq, g)
        BY <1>0, <2>0, <2>3, LetGo, Zenon DEF OneOwner
      <4>3. /\ e.rnbl \notin free
            /\ \A c \in Cpus : g[c] # e.rnbl
            /\ \A j \in 1 .. Len(tskq) : tskq[j].rnbl # e.rnbl
        <5>1. Hands[di] \notin free /\ \A j \in 1 .. Len(tskq) : tskq[j].rnbl # Hands[di]
          BY <2>0, Zenon DEF OneOwner, OwnedOnce
        <5>2. \A c \in Cpus \ {di} : Hands[c] # Hands[di]
          BY <2>0, <4>1 DEF OneOwner, OwnedOnce
        <5> QED
          BY <2>3, <4>1, <5>1, <5>2
      <4> HIDE DEF e
      <4>4. OwnedOnce(free, kfifo_in(tskq, e), g)
        BY <1>0, <4>1, <4>2, <4>3, ToQueue
      <4> QED
        BY <2>1, <3>2, <4>4 DEF e
    <3>3. CASE response[di].flag = "PROCESSED"
      <4>1. OwnedOnce(free, tskq, g)
        BY <1>0, <2>0, <2>3, LetGo, Zenon DEF OneOwner
      <4> QED
        BY <2>1, <3>3, <4>1
    <3> QED
      BY <2>1, <3>1, <3>2, <3>3
  <2>5. CASE q = << >>
    <3>1. Hands'[di] = None /\ tskq' = q
      BY <2>0, <2>1, <2>5, HandsPrimed, Zenon
    <3>2. OwnedOnce(free', q, Hands')
      <4>1. \A c \in Cpus : Hands'[c] = g[c]
        BY <2>2, <2>3, <3>1, Zenon
      <4> QED
        BY <2>4, <4>1, Zenon DEF OwnedOnce
    <3> QED
      BY <3>1, <3>2 DEF OneOwner, OwnedOnce
  <2>6. CASE q # << >>
    <3>1. Hands'[di] = Head(q).rnbl /\ tskq' = Tail(q)
      BY <2>0, <2>1, <2>6, HandsPrimed
    <3>2. \A c \in Cpus \ {di} : Hands'[c] = g[c]
      BY <2>2, <2>3
    <3>3. OwnedOnce(free', Tail(q), Hands')
      BY <2>0, <2>3, <2>4, <2>6, <3>1, <3>2, ToCpu, Zenon
    <3> QED
      BY <3>1, <3>3 DEF OneOwner, OwnedOnce
  <2> QED
    BY <2>5, <2>6
<1>3. CASE StillRunning \/ preempt_worker \/ smp_call_function_single
  <2>1. UNCHANGED <<request, response, free, tskq>>
    BY <1>3 DEF StillRunning, preempt_worker, smp_call_function_single
  <2> QED
    BY <2>1, SlotSame, HandsSame
<1>4. CASE handle_networker
  <2>1. UNCHANGED <<request, response>>
    BY <1>4 DEF handle_networker
  <2>2. \A c \in Cpus : Slot(c)' = Slot(c)
    BY <2>1, SlotSame
  <2>3. CASE UNCHANGED <<free, tskq>>
    BY <2>2, <2>3, HandsSame
  <2>4. CASE rxq # << >> /\ \E k \in free :
               /\ free' = free \ {k}
               /\ tskq' = kfifo_in(tskq, [rnbl |-> k, mbuf |-> Head(rxq), category |-> "PACKET"])
    <3>1. PICK k \in free :
               /\ free' = free \ {k}
               /\ tskq' = kfifo_in(tskq, [rnbl |-> k, mbuf |-> Head(rxq), category |-> "PACKET"])
      BY <2>4
    <3> DEFINE e == [rnbl |-> k, mbuf |-> Head(rxq), category |-> "PACKET"]
    <3>2. e \in Entries /\ e.rnbl = k
      BY <2>4, SMTT(30) DEF TypeOK, Entries
    <3> HIDE DEF e
    <3>3. OwnedOnce(free \ {e.rnbl}, kfifo_in(tskq, e), Hands)
      BY <1>0, <3>2, FromPool DEF OneOwner
    <3>4. Hands' = Hands
      BY <2>2 DEF Hands
    <3>5. free' = free \ {e.rnbl} /\ tskq' = kfifo_in(tskq, e)
      BY <3>1, <3>2 DEF e
    <3>6. OwnedOnce(free', tskq', Hands')
      BY <3>3, <3>4, <3>5
    <3> QED
      BY <3>6, Zenon DEF OneOwner, OwnedOnce
  <2> QED
    BY <1>4, <2>3, <2>4, Zenon DEF handle_networker
<1>5. ASSUME NEW p \in Packets, Receive(p) PROVE OneOwner'
  <2>1. UNCHANGED <<request, response, free, tskq>>
    BY <1>5 DEF Receive, dispvars
  <2> QED
    BY <2>1, SlotSame, HandsSame
<1>6. ASSUME NEW w \in Workers, IpiArrives(w) \/ worker_ipi_handler(w) PROVE OneOwner'
  <2>1. UNCHANGED <<request, response, free, tskq>>
    BY <1>6 DEF IpiArrives, worker_ipi_handler, dispvars
  <2> QED
    BY <2>1, SlotSame, HandsSame
<1>7. ASSUME NEW w \in Workers, init_worker(w) PROVE OneOwner'
  <2>1. /\ wpc[w] = "init" /\ UNCHANGED <<request, free, tskq>>
        /\ response'[w].flag = "PROCESSED"
        /\ \A c \in Cpus \ {w} : response'[c] = response[c]
    BY <1>7 DEF init_worker, TypeOK, Responses, dispvars
  <2>2. Hands'[w] = None
    BY <2>1, HandsPrimed, CpuFacts
  <2>2a. ASSUME NEW c \in Cpus \ {w} PROVE Hands'[c] = Hands[c]
    <3>1. Slot(c)' = Slot(c)
      BY <2>1, SlotSame
    <3> QED
      BY <3>1, HandsFacts, HandsPrimed
  <2>3. OwnedOnce(free, tskq, Hands')
    BY <1>0, <2>2, <2>2a, LetGo, CpuFacts DEF OneOwner
  <2>4. free' = free /\ tskq' = tskq
    BY <2>1
  <2> QED
    BY <2>3, <2>4, SMTT(30) DEF OneOwner, OwnedOnce
<1>8. ASSUME NEW w \in Workers,
             \/ local_irq_disable(w) \/ handle_request(w) \/ handle_short_packet(w)
             \/ generic_work(w) \/ finish_request(w)
      PROVE  OneOwner'
  BY <1>8, WorkerSlots, HandsSame
<1>9. CASE UNCHANGED vars
  <2>1. UNCHANGED <<request, response, free, tskq>>
    BY <1>9 DEF vars, dispvars
  <2> QED
    BY <2>1, SlotSame, HandsSame
<1> QED
  BY <1>1, <1>2, <1>3, <1>4, <1>5, <1>6, <1>7, <1>8, <1>9 DEF Next, Dispatcher, Worker, Exited

-----------------------------------------------------------------------------
(* What holds of every entry still does after kfifo_in and kfifo_out.      *)
LEMMA QueueElements ==
  ASSUME NEW q \in Seq(Entries), NEW e \in Entries
  PROVE  /\ \A j \in 1 .. Len(kfifo_in(q, e)) :
              kfifo_in(q, e)[j] = e \/ \E i \in 1 .. Len(q) : kfifo_in(q, e)[j] = q[i]
         /\ q # << >> => /\ \A j \in 1 .. Len(Tail(q)) : \E i \in 1 .. Len(q) : Tail(q)[j] = q[i]
                         /\ \E i \in 1 .. Len(q) : Head(q) = q[i]
<1>1. \A j \in 1 .. Len(kfifo_in(q, e)) :
        kfifo_in(q, e)[j] = e \/ \E i \in 1 .. Len(q) : kfifo_in(q, e)[j] = q[i]
  <2>1. CASE kfifo_in(q, e) = q
    BY <2>1
  <2>2. CASE kfifo_in(q, e) = Append(q, e)
    <3>1. \A j \in 1 .. Len(Append(q, e)) :
            Append(q, e)[j] = e \/ (j \in 1 .. Len(q) /\ Append(q, e)[j] = q[j])
      OBVIOUS
    <3> QED
      BY <2>2, <3>1
  <2> QED
    BY <2>1, <2>2 DEF kfifo_in
<1>2. ASSUME q # << >>
      PROVE  /\ \A j \in 1 .. Len(Tail(q)) : \E i \in 1 .. Len(q) : Tail(q)[j] = q[i]
             /\ \E i \in 1 .. Len(q) : Head(q) = q[i]
  <2>1. \A j \in 1 .. Len(Tail(q)) : j + 1 \in 1 .. Len(q) /\ Tail(q)[j] = q[j + 1]
    BY <1>2
  <2>2. 1 \in 1 .. Len(q) /\ Head(q) = q[1]
    BY <1>2
  <2> QED
    BY <2>1, <2>2
<1> QED
  BY <1>1, <1>2

LEMMA PacketSame ==
  ASSUME PacketKept, \A c \in Cpus : Slot(c)' = Slot(c), UNCHANGED <<tskq, packet_of>>
  PROVE  PacketKept'
BY DEF PacketKept

LEMMA PacketKeptStep ==
  ASSUME TypeOK, Filled, InTurn, AtHome, OneOwner, PacketKept, [Next]_vars
  PROVE  PacketKept'
<1> USE CpuFacts, ShinjukuAssumption
<1>0. tskq \in Seq(Entries)
  BY DEF TypeOK
<1>1. CASE HandleResponse
  <2>i. PICK i \in Cpus : i = di
    BY <1>1, ResponseEffect, Zenon
  <2>0. packet_of' = packet_of
    BY <1>1, ResponseEffect, Zenon
  <2>1. PICK q \in Seq(Entries) :
          /\ \/ q = tskq
             \/ /\ response[i].flag = "PREEMPTED" /\ Entry(response[i]) \in Entries
                /\ q = kfifo_in(tskq, Entry(response[i]))
          /\ \/ /\ q = << >> /\ tskq' = q /\ response'[i].flag = "PROCESSED"
             \/ /\ q # << >> /\ tskq' = Tail(q) /\ Head(q) \in Entries
                /\ request'[i].rnbl = Head(q).rnbl /\ request'[i].mbuf = Head(q).mbuf
                /\ response'[i].flag = "RUNNING"
    BY <1>1, <2>i, ResponseEffect, SMTT(30)
  <2>2. \A c \in Cpus \ {i} : Slot(c)' = Slot(c)
    <3>1. \A c \in Cpus \ {i} : request'[c] = request[c] /\ response'[c] = response[c]
      BY <1>1, <2>i, ResponseEffect, Zenon
    <3> QED
      BY <3>1, SlotSame, Zenon
  <2>3. \A j \in 1 .. Len(q) : q[j].mbuf = packet_of[q[j].rnbl]
    <3>1. CASE q = tskq
      BY <3>1 DEF PacketKept
    <3>2. CASE /\ response[i].flag = "PREEMPTED" /\ Entry(response[i]) \in Entries
               /\ q = kfifo_in(tskq, Entry(response[i]))
      <4> DEFINE e == Entry(response[i])
      <4>1. e.mbuf = packet_of[e.rnbl]
        <5>1. Slot(i) = <<e.rnbl, e.mbuf>>
          BY <3>2, SlotFacts, Zenon DEF Entry
        <5>2. e.rnbl # None
          BY <3>2, Zenon DEF Entries
        <5> QED
          BY <5>1, <5>2, SMTT(30) DEF PacketKept
      <4>2. e \in Entries /\ q = kfifo_in(tskq, e)
        BY <3>2
      <4> HIDE DEF e
      <4>3. \A j \in 1 .. Len(q) : q[j] = e \/ \E l \in 1 .. Len(tskq) : q[j] = tskq[l]
        BY <1>0, <4>2, QueueElements
      <4> QED
        BY <4>1, <4>3, SMTT(30) DEF PacketKept
    <3> QED
      BY <2>1, <3>1, <3>2, Zenon
  <2>4. CASE q = << >>
    <3>1. tskq' = q /\ Slot(i)'[1] = None
      BY <2>1, <2>4, HandsPrimed, Zenon
    <3> QED
      BY <2>0, <2>2, <2>3, <3>1, Zenon DEF PacketKept
  <2>5. CASE q # << >>
    <3>1. tskq' = Tail(q) /\ Slot(i)' = <<Head(q).rnbl, Head(q).mbuf>>
      BY <2>1, <2>5, HandsPrimed, Zenon
    <3>2. Head(q).mbuf = packet_of[Head(q).rnbl]
      BY <2>1, <2>3, <2>5, QueueElements, SMTT(30)
    <3>3. \A j \in 1 .. Len(Tail(q)) : Tail(q)[j].mbuf = packet_of[Tail(q)[j].rnbl]
      BY <2>1, <2>3, <2>5, QueueElements, SMTT(30)
    <3>4. \A j \in 1 .. Len(tskq') : tskq'[j].mbuf = packet_of'[tskq'[j].rnbl]
      BY <2>0, <3>1, <3>3, SMTT(60)
    <3>5. \A c \in Cpus : Slot(c)'[1] # None => Slot(c)'[2] = packet_of'[Slot(c)'[1]]
      BY <2>0, <2>2, <3>1, <3>2 DEF PacketKept
    <3> QED
      BY <3>4, <3>5, Zenon DEF PacketKept
  <2> QED
    BY <2>4, <2>5
<1>2. CASE handle_networker
  <2>1. \A c \in Cpus : Slot(c)' = Slot(c)
    BY <1>2, SlotSame DEF handle_networker
  <2>2. CASE UNCHANGED <<tskq, packet_of>>
    BY <2>1, <2>2, PacketSame
  <2>3. CASE rxq # << >> /\ \E k \in free :
               /\ packet_of' = [packet_of EXCEPT ![k] = Head(rxq)]
               /\ tskq' = kfifo_in(tskq, [rnbl |-> k, mbuf |-> Head(rxq), category |-> "PACKET"])
    <3>1. PICK k \in free :
               /\ packet_of' = [packet_of EXCEPT ![k] = Head(rxq)]
               /\ tskq' = kfifo_in(tskq, [rnbl |-> k, mbuf |-> Head(rxq), category |-> "PACKET"])
      BY <2>3, Zenon
    <3> DEFINE e == [rnbl |-> k, mbuf |-> Head(rxq), category |-> "PACKET"]
    <3>2. e \in Entries /\ e.rnbl = k /\ e.mbuf = Head(rxq)
      BY <2>3, SMTT(60) DEF TypeOK, Entries
    <3>3. tskq' = kfifo_in(tskq, e)
      BY <3>1, SMTT(60)
    <3> HIDE DEF e
    <3>4. packet_of'[k] = Head(rxq) /\ \A x \in Contexts \ {k} : packet_of'[x] = packet_of[x]
      BY <3>1 DEF TypeOK
    <3>5. \A j \in 1 .. Len(tskq) : tskq[j].rnbl \in Contexts \ {k}
      <4>1. \A j \in 1 .. Len(tskq) : tskq[j] \in Entries
        BY <1>0
      <4> QED
        BY <4>1, <3>1, SMTT(60) DEF OneOwner, OwnedOnce, Entries
    <3>6. \A j \in 1 .. Len(tskq') : tskq'[j].mbuf = packet_of'[tskq'[j].rnbl]
      <4>1. \A j \in 1 .. Len(tskq') : tskq'[j] = e \/ \E i \in 1 .. Len(tskq) : tskq'[j] = tskq[i]
        BY <1>0, <3>2, <3>3, QueueElements
      <4> QED
        BY <3>2, <3>4, <3>5, <4>1, SMTT(60) DEF PacketKept
    <3>7. ASSUME NEW c \in Cpus, Slot(c)[1] # None
          PROVE  Slot(c)[2] = packet_of'[Slot(c)[1]]
      <4>1. Slot(c)[1] \in Contexts
        BY <3>7, SlotFacts, SMTT(60) DEF TypeOK, Requests, Responses
      <4>2. Slot(c)[1] # k
        BY <3>1, HandsFacts, SMTT(60) DEF OneOwner, OwnedOnce
      <4> QED
        BY <3>4, <3>7, <4>1, <4>2 DEF PacketKept
    <3> QED
      BY <2>1, <3>6, <3>7, Zenon DEF PacketKept
  <2> QED
    BY <1>2, <2>2, <2>3, Zenon DEF handle_networker
<1>3. CASE StartWorkers \/ StillRunning \/ preempt_worker \/ smp_call_function_single
  <2>1. UNCHANGED <<request, response, packet_of, tskq>>
    BY <1>3, SMTT(60) DEF StartWorkers, StillRunning, preempt_worker, smp_call_function_single,
       ctxvars
  <2> QED
    BY <2>1, SlotSame, PacketSame
<1>4. ASSUME NEW p \in Packets, Receive(p) PROVE PacketKept'
  <2>1. UNCHANGED <<request, response, packet_of, tskq>>
    BY <1>4 DEF Receive, dispvars, ctxvars
  <2> QED
    BY <2>1, SlotSame, PacketSame
<1>5. ASSUME NEW w \in Workers, IpiArrives(w) \/ worker_ipi_handler(w) PROVE PacketKept'
  <2>1. UNCHANGED <<request, response, packet_of, tskq>>
    BY <1>5 DEF IpiArrives, worker_ipi_handler, dispvars, ctxvars
  <2> QED
    BY <2>1, SlotSame, PacketSame
<1>6. ASSUME NEW w \in Workers, init_worker(w) PROVE PacketKept'
  <2>1. /\ UNCHANGED <<request, tskq, packet_of>>
        /\ response'[w].flag = "PROCESSED"
        /\ \A c \in Cpus \ {w} : response'[c] = response[c]
    BY <1>6 DEF init_worker, TypeOK, Responses, dispvars, ctxvars
  <2>2. Slot(w)'[1] = None /\ \A c \in Cpus \ {w} : Slot(c)' = Slot(c)
    BY <2>1, SlotSame, HandsPrimed, SMTT(60)
  <2> QED
    BY <2>1, <2>2 DEF PacketKept
<1>7. ASSUME NEW w \in Workers,
             \/ local_irq_disable(w) \/ handle_request(w) \/ handle_short_packet(w)
             \/ generic_work(w) \/ finish_request(w)
      PROVE  PacketKept'
  BY <1>7, WorkerSlots, PacketSame
<1>8. CASE UNCHANGED vars
  <2>1. UNCHANGED <<request, response, packet_of, tskq>>
    BY <1>8 DEF vars, dispvars, ctxvars
  <2> QED
    BY <2>1, SlotSame, PacketSame
<1> QED
  BY <1>1, <1>2, <1>3, <1>4, <1>5, <1>6, <1>7, <1>8 DEF Next, Dispatcher, Worker, Exited
=============================================================================
