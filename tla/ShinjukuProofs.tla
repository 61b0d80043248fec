--------------------------- MODULE ShinjukuProofs ---------------------------
(***************************************************************************)
(* Contexts stay on their CPU as long as none is preempted or there is one *)
(* worker for it to come back to; with that, the theorems about Shinjuku:  *)
(* the handshake between dispatcher and workers, and the ownership of      *)
(* contexts and packets.                                                   *)
(***************************************************************************)
EXTENDS ShinjukuOwners

(* Contexts stay on their CPU.                                             *)

LEMMA ResumableSame ==
  ASSUME NEW k \in Contexts, frame'[k].cont = frame[k].cont, frame'[k].cpu = frame[k].cpu,
         Resumable(k)
  PROVE  Resumable(k)'
BY DEF Resumable

(* The parts of AtHome, for one worker, one CPU and the queue.             *)
HomeOf(w) ==
  /\ self[w] = w
  /\ wpc[w] \in {"loop", "preempt", "cond", "dead"} =>
       /\ running[w] = request[w].rnbl /\ frame[running[w]].cpu = w
       /\ frame[running[w]].cont # None =>
            frame[running[w]].cont = running[w] /\ ctx_worker[w] = running[w]
  /\ wpc[w] = "report" =>
       /\ ctx_worker[w] = request[w].rnbl
       /\ ~finished[w] => Resumable(request[w].rnbl)

WaitingAt(c) ==
  /\ response[c].flag = "PREEMPTED" => Resumable(response[c].rnbl)
  /\ request[c].flag = "ACTIVE" /\ request[c].category = "CONTEXT" =>
       Resumable(request[c].rnbl)

WaitingIn(q) == \A j \in 1 .. Len(q) : q[j].category = "CONTEXT" => Resumable(q[j].rnbl)

Calm ==
  /\ ~RecordsContext => \A c \in Cpus : ctx_worker[c] = None
  /\ MaxExpiries = 0 =>
       /\ dpc # "csd" /\ \A c \in Cpus : ~worker_preempted[c] /\ ipi[c] = "none"
       /\ \A w \in Workers : wpc[w] # "preempt"

LEMMA AtHomeParts ==
  AtHome <=> /\ \A w \in Workers : HomeOf(w)
             /\ \A c \in Cpus : WaitingAt(c)
             /\ WaitingIn(tskq) /\ Calm
BY DEF AtHome, HomeOf, WaitingAt, WaitingIn, Calm

LEMMA AtHomePartsPrimed ==
  ASSUME \A w \in Workers : HomeOf(w)', \A c \in Cpus : WaitingAt(c)', WaitingIn(tskq)', Calm'
  PROVE  AtHome'
BY DEF AtHome, HomeOf, WaitingAt, WaitingIn, Calm

(* A context in a request, a response or the queue is a context.           *)
LEMMA WaitingTyped ==
  ASSUME TypeOK, Filled
  PROVE  /\ \A c \in Cpus : request[c].flag = "ACTIVE" => request[c].rnbl \in Contexts
         /\ \A c \in Cpus : response[c].flag = "PREEMPTED" => response[c].rnbl \in Contexts
         /\ \A j \in 1 .. Len(tskq) : tskq[j].rnbl \in Contexts
         /\ \A w \in Workers :
              wpc[w] \in {"loop", "preempt", "cond", "dead"} => running[w] \in Contexts
<1>1. \A j \in 1 .. Len(tskq) : tskq[j] \in Entries
  BY DEF TypeOK
<1> QED
  BY <1>1, CpuFacts DEF TypeOK, Filled, Requests, Responses, Entries

(* Steps that touch neither frames nor workers nor requests.               *)
LEMMA AtHomeSame ==
  ASSUME AtHome, Calm', WaitingIn(tskq)',
         UNCHANGED <<request, response, wpc, self, running, ctx_worker, finished, frame>>
  PROVE  AtHome'
BY DEF AtHome, Calm, WaitingIn, Resumable

(* handle_worker, dispatcher.c:78. *)
LEMMA HomeResponse ==
  ASSUME TypeOK, Filled, InTurn, AtHome, HandleResponse
  PROVE  AtHome'
<1> USE CpuFacts, ShinjukuAssumption
<1>i. PICK i \in Cpus : i = di
  BY ResponseEffect, Zenon
<1>1. /\ response[i].flag # "RUNNING"
      /\ UNCHANGED <<wpc, self, running, ctx_worker, finished, frame, worker_preempted, ipi>>
      /\ dpc' \in {"poll", "net"}
      /\ \A c \in Cpus \ {i} : request'[c] = request[c] /\ response'[c] = response[c]
  BY <1>i, ResponseEffect, Zenon
<1>2. PICK q \in Seq(Entries) :
        /\ \/ q = tskq
           \/ /\ response[i].flag = "PREEMPTED" /\ Entry(response[i]) \in Entries
              /\ q = kfifo_in(tskq, Entry(response[i]))
        /\ \/ /\ q = << >> /\ tskq' = q /\ request'[i] = request[i]
              /\ response'[i].flag = "PROCESSED"
           \/ /\ q # << >> /\ tskq' = Tail(q) /\ Head(q) \in Entries
              /\ request'[i].flag = "ACTIVE" /\ request'[i].rnbl = Head(q).rnbl
              /\ request'[i].category = Head(q).category
              /\ response'[i].flag = "RUNNING"
  BY <1>i, ResponseEffect
<1>3. \A k : Resumable(k)' <=> Resumable(k)
  BY <1>1 DEF Resumable
<1>4. WaitingIn(q)
  <2>1. CASE q = tskq
    BY <2>1, AtHomeParts
  <2>2. CASE /\ response[i].flag = "PREEMPTED" /\ Entry(response[i]) \in Entries
             /\ q = kfifo_in(tskq, Entry(response[i]))
    <3> DEFINE e == Entry(response[i])
    <3>1. e \in Entries /\ q = kfifo_in(tskq, e) /\ tskq \in Seq(Entries)
      BY <2>2 DEF TypeOK
    <3>2. Resumable(e.rnbl)
      BY <2>2 DEF AtHome, Entry
    <3> HIDE DEF e
    <3>3. \A j \in 1 .. Len(q) : q[j] = e \/ \E l \in 1 .. Len(tskq) : q[j] = tskq[l]
      BY <3>1, QueueElements
    <3> QED
      BY <3>2, <3>3, AtHomeParts DEF WaitingIn
  <2> QED
    BY <1>2, <2>1, <2>2
<1>5. WaitingIn(tskq)'
  <2>1. CASE q = << >>
    BY <1>2, <1>3, <1>4, <2>1 DEF WaitingIn
  <2>2. CASE q # << >>
    <3>1. tskq' = Tail(q) /\ \A j \in 1 .. Len(Tail(q)) : \E l \in 1 .. Len(q) : Tail(q)[j] = q[l]
      BY <1>2, <2>2, QueueElements
    <3> QED
      BY <1>3, <1>4, <3>1 DEF WaitingIn
  <2> QED
    BY <2>1, <2>2
<1>6. WaitingAt(i)'
  <2>1. CASE q = << >>
    BY <1>2, <1>3, <2>1, AtHomeParts DEF WaitingAt
  <2>2. CASE q # << >>
    <3>1. \E l \in 1 .. Len(q) : Head(q) = q[l]
      BY <1>2, <2>2, QueueElements
    <3>2. Head(q).category = "CONTEXT" => Resumable(Head(q).rnbl)
      BY <1>4, <3>1 DEF WaitingIn
    <3> QED
      BY <1>2, <1>3, <2>2, <3>2 DEF WaitingAt
  <2> QED
    BY <2>1, <2>2
<1>7. \A c \in Cpus : WaitingAt(c)'
  BY <1>1, <1>3, <1>6, AtHomeParts DEF WaitingAt
<1>8. \A w \in Workers : HomeOf(w)'
  <2>1. i \in Workers /\ wpc[i] \in {"ready", "wait"}
    BY <1>1 DEF InTurn
  <2>2. HomeOf(i)'
    BY <1>1, <2>1, AtHomeParts, Zenon DEF HomeOf
  <2>3. ASSUME NEW w \in Workers, w # i PROVE HomeOf(w)'
    <3>1. request'[w] = request[w] /\ HomeOf(w)
      BY <1>1, <2>3, AtHomeParts
    <3> QED
      BY <1>1, <1>3, <3>1 DEF HomeOf
  <2> QED
    BY <2>2, <2>3
<1>9. Calm'
  BY <1>1, AtHomeParts DEF Calm
<1> QED
  BY <1>5, <1>7, <1>8, <1>9, AtHomePartsPrimed

(* Another CPU that has something, or the queue, has another context than  *)
(* a worker that has taken its request.                                    *)
LEMMA OthersElsewhere ==
  ASSUME TypeOK, Filled, InTurn, OneOwner, NEW w \in Workers,
         response[w].flag = "RUNNING", request[w].rnbl # None
  PROVE  /\ \A c \in Cpus \ {w} :
              /\ response[c].flag = "RUNNING" => request[c].rnbl # request[w].rnbl
              /\ response[c].flag = "PREEMPTED" => response[c].rnbl # request[w].rnbl
         /\ \A j \in 1 .. Len(tskq) : tskq[j].rnbl # request[w].rnbl
<1>1. w \in Cpus /\ Hands[w] = request[w].rnbl
  BY CpuFacts, HandsFacts
<1>2. \A c \in Cpus \ {w} : Hands[c] # Hands[w]
  BY <1>1 DEF OneOwner, OwnedOnce
<1>3. \A j \in 1 .. Len(tskq) : tskq[j].rnbl # Hands[w]
  BY <1>1 DEF OneOwner, OwnedOnce
<1> QED
  BY <1>1, <1>2, <1>3, HandsFacts

(* handle_request, worker.c:120. *)
LEMMA HomeRequest ==
  ASSUME TypeOK, Filled, InTurn, AtHome, OneOwner, NEW w \in Workers, handle_request(w)
  PROVE  AtHome'
<1> USE CpuFacts, ShinjukuAssumption
<1> DEFINE k == request[w].rnbl
<1>0. self[w] = w /\ w \in Cpus
  BY DEF AtHome
<1>1. /\ wpc[w] = "wait" /\ request[w].flag = "ACTIVE" /\ k \in Contexts /\ k # None
      /\ UNCHANGED <<response, worker_preempted, ipi, self, tskq, dpc>>
  BY <1>0, RequestEffect DEF dispvars
<1>2. /\ request'[w].flag = "WAITING" /\ request'[w].rnbl = k
      /\ \A c \in Cpus \ {w} : request'[c] = request[c] /\ ctx_worker'[c] = ctx_worker[c]
                               /\ finished'[c] = finished[c]
      /\ \A u \in Workers \ {w} : wpc'[u] = wpc[u] /\ running'[u] = running[u]
      /\ wpc'[w] \in {"loop", "cond"} /\ running'[w] = k
  BY <1>0, RequestEffect, Zenon
<1>3. response[w].flag = "RUNNING" /\ w <= LastPolled
  BY <1>0, <1>1 DEF InTurn
<1>4. \A x \in Contexts \ {k} : frame'[x] = frame[x]
  BY <1>0, RequestEffect, SMTT(30)
<1>5. \A x \in Contexts \ {k} : Resumable(x) => Resumable(x)'
  BY <1>4 DEF Resumable
<1>6. /\ frame'[k].cpu = w
      /\ frame'[k].cont # None => frame'[k].cont = k /\ ctx_worker'[w] = k
      /\ ~RecordsContext => ctx_worker'[w] = None
  <2>1. CASE /\ ctx_worker'[w] = (IF RecordsContext THEN k ELSE ctx_worker[w])
             /\ frame'[k].cpu = w /\ frame'[k].cont = ctx_worker'[w]
    BY <1>0, <2>1, Zenon DEF AtHome
  <2>2. CASE request[w].category = "CONTEXT" /\ ctx_worker'[w] = k /\ frame' = frame
    <3>1. Resumable(k)
      BY <1>0, <1>1, <2>2, Zenon DEF AtHome
    <3>2. frame[k].cont = k /\ frame[k].cpu = w
      BY <1>3, <3>1 DEF Resumable
    <3>3. RecordsContext
      <4>1. ctx_worker[w] # None
        BY <1>1, <3>2, Zenon DEF Filled
      <4>2. RecordsContext \/ ctx_worker[w] = None
        BY <1>0, AtHomeParts, Zenon DEF Calm
      <4> QED
        BY <4>1, <4>2
    <3> QED
      BY <2>2, <3>2, <3>3
  <2> QED
    BY <1>0, <2>1, <2>2, RequestEffect, SMTT(30)
<1>7. Calm'
  BY <1>1, <1>2, <1>6, AtHomeParts, SMTT(30) DEF Calm
<1>8. WaitingIn(tskq)'
  BY <1>1, <1>3, <1>5, OthersElsewhere, WaitingTyped, AtHomeParts DEF WaitingIn
<1>9. ASSUME NEW c \in Cpus PROVE WaitingAt(c)'
  <2>1. CASE c = w
    BY <1>1, <1>2, <1>3, <2>1 DEF WaitingAt
  <2>2. CASE c # w
    <3>1. request'[c] = request[c] /\ response'[c] = response[c] /\ WaitingAt(c)
      BY <1>1, <1>2, <2>2, AtHomeParts
    <3>2. request[c].flag = "ACTIVE" => request[c].rnbl \in Contexts \ {k}
      <4>1. request[c].flag = "ACTIVE" => response[c].flag = "RUNNING"
        BY Zenon DEF InTurn
      <4> QED
        BY <1>1, <1>3, <2>2, <4>1, OthersElsewhere, WaitingTyped, Zenon
    <3>3. response[c].flag = "PREEMPTED" => response[c].rnbl \in Contexts \ {k}
      BY <1>1, <1>3, <2>2, OthersElsewhere, WaitingTyped, Zenon
    <3> QED
      BY <1>5, <3>1, <3>2, <3>3 DEF WaitingAt
  <2> QED
    BY <2>1, <2>2
<1>10. ASSUME NEW u \in Workers PROVE HomeOf(u)'
  <2>1. CASE u = w
    BY <1>0, <1>1, <1>2, <1>6, <2>1, Zenon DEF HomeOf
  <2>2. CASE u # w
    <3>1. /\ request'[u] = request[u] /\ ctx_worker'[u] = ctx_worker[u]
          /\ finished'[u] = finished[u] /\ wpc'[u] = wpc[u] /\ running'[u] = running[u]
          /\ self'[u] = self[u] /\ HomeOf(u)
      BY <1>1, <1>2, <2>2, AtHomeParts
    <3>2. wpc[u] \in {"loop", "preempt", "cond", "report", "dead"} => request[u].rnbl # k
      <4>1. wpc[u] \in {"loop", "preempt", "cond", "report", "dead"} => response[u].flag = "RUNNING"
        BY DEF InTurn
      <4> QED
        BY <1>1, <1>3, <2>2, <4>1, OthersElsewhere
    <3>3. wpc[u] \in {"loop", "preempt", "cond", "dead"} => frame'[running[u]] = frame[running[u]]
      BY <1>4, <3>1, <3>2, WaitingTyped DEF HomeOf
    <3>4. wpc[u] = "report" => request[u].rnbl \in Contexts
      BY <3>1 DEF HomeOf, Filled, TypeOK
    <3> QED
      BY <1>5, <3>1, <3>2, <3>3, <3>4, SMTT(30) DEF HomeOf
  <2> QED
    BY <2>1, <2>2
<1> QED
  BY <1>7, <1>8, <1>9, <1>10, AtHomePartsPrimed

(* generic_work, worker.c:52-64: a context that is left unfinished is left *)
(* by the only worker that is served.                                      *)
LEMMA HomeWork ==
  ASSUME NoMigration, TypeOK, Filled, InTurn, AtHome, NEW w \in Workers, generic_work(w)
  PROVE  AtHome'
<1> USE CpuFacts, ShinjukuAssumption
<1>1. /\ wpc[w] \in {"loop", "preempt", "cond"} /\ running[w] \in Contexts
      /\ UNCHANGED <<dpc, tskq, request, response, ipi, ctx_worker>>
      /\ \A k \in Contexts : frame'[k].cont = frame[k].cont /\ frame'[k].cpu = frame[k].cpu
      /\ \A u \in Workers \ {w} : wpc'[u] = wpc[u] /\ running'[u] = running[u]
                                   /\ self'[u] = self[u]
      /\ \A c \in Cpus \ {w} : finished'[c] = finished[c]
      /\ \A c \in Cpus : worker_preempted'[c] => worker_preempted[c]
  BY WorkEffect, Zenon DEF dispvars
<1>2. \/ /\ wpc'[w] \in {"loop", "preempt", "cond", "dead"} /\ running'[w] = running[w]
         /\ self'[w] = self[w]
      \/ /\ wpc'[w] = "report" /\ self'[w] = frame[running[w]].cpu
         /\ frame[running[w]].cont # None
         /\ finished'[w] \/ wpc[w] = "preempt"
  BY WorkEffect, Zenon
<1>3. w <= LastPolled /\ w \in Cpus
  BY <1>1 DEF InTurn
<1>4. /\ running[w] = request[w].rnbl /\ frame[running[w]].cpu = w
      /\ frame[running[w]].cont # None =>
           frame[running[w]].cont = running[w] /\ ctx_worker[w] = running[w]
      /\ self[w] = w
  BY <1>1, SMTT(30) DEF AtHome
<1>5. \A k \in Contexts : Resumable(k) => Resumable(k)'
  BY <1>1, ResumableSame, SMTT(30)
<1>6. ASSUME wpc'[w] = "report", ~finished'[w]
      PROVE  Resumable(request[w].rnbl)'
  <2>1. /\ frame[running[w]].cont = running[w] /\ ctx_worker[w] = running[w]
        /\ wpc[w] = "preempt"
    BY <1>2, <1>4, <1>6
  <2>2. RecordsContext /\ MaxExpiries # 0
    BY <1>1, <1>3, <2>1, SMTT(30) DEF AtHome
  <2>3. \A u \in Workers : u <= LastPolled => u = w
    BY <1>3, <2>2 DEF NoMigration, LastPolled, Workers
  <2>4. Resumable(running[w])
    BY <1>4, <2>1, <2>3, SMTT(30) DEF Resumable
  <2> QED
    BY <1>1, <1>4, <1>5, <2>4
<1>7. HomeOf(w)'
  <2>1. CASE /\ wpc'[w] \in {"loop", "preempt", "cond", "dead"} /\ running'[w] = running[w]
             /\ self'[w] = self[w]
    BY <1>1, <1>4, <2>1, SMTT(60) DEF HomeOf
  <2>2. CASE wpc'[w] = "report" /\ self'[w] = frame[running[w]].cpu /\ frame[running[w]].cont # None
    <3>1. request'[w].rnbl = request[w].rnbl
      BY <1>1
    <3>2. ~finished'[w] => Resumable(request[w].rnbl)'
      BY <1>6, <2>2
    <3>3. ctx_worker'[w] = request'[w].rnbl /\ self'[w] = w
      BY <1>1, <1>4, <2>2, SMTT(30)
    <3> QED
      BY <2>2, <3>1, <3>2, <3>3, SMTT(30) DEF HomeOf
  <2> QED
    BY <1>2, <2>1, <2>2
<1>8. ASSUME NEW u \in Workers, u # w PROVE HomeOf(u)'
  <2>1. /\ wpc'[u] = wpc[u] /\ running'[u] = running[u] /\ self'[u] = self[u]
        /\ finished'[u] = finished[u] /\ HomeOf(u)
    BY <1>1, <1>8, AtHomeParts, SMTT(60)
  <2>2. wpc[u] \in {"loop", "preempt", "cond", "dead"} => running[u] \in Contexts
    BY WaitingTyped
  <2>3. wpc[u] = "report" => request[u].rnbl \in Contexts
    BY <2>1, SMTT(30) DEF HomeOf, Filled, TypeOK
  <2> QED
    BY <1>1, <1>5, <2>1, <2>2, <2>3 DEF HomeOf
<1>9. \A c \in Cpus : WaitingAt(c)'
  BY <1>1, <1>5, WaitingTyped, AtHomeParts, Zenon DEF WaitingAt
<1>10. WaitingIn(tskq)'
  BY <1>1, <1>5, WaitingTyped, AtHomeParts, Zenon DEF WaitingIn
<1>11. Calm'
  <2>1. MaxExpiries = 0 => \A u \in Workers : wpc'[u] # "preempt"
    <3>1. wpc'[w] = "preempt" => worker_preempted[w]
      BY <1>4, WorkEffect, Zenon
    <3> QED
      BY <1>1, <1>3, <3>1, AtHomeParts, SMTT(30) DEF Calm
  <2>2. Calm
    BY AtHomeParts
  <2>3. ctx_worker' = ctx_worker /\ dpc' = dpc /\ ipi' = ipi
    BY <1>1
  <2>4. \A c \in Cpus : worker_preempted'[c] => worker_preempted[c]
    BY <1>1
  <2> QED
    BY <2>1, <2>2, <2>3, <2>4, Zenon DEF Calm
<1> QED
  BY <1>7, <1>8, <1>9, <1>10, <1>11, AtHomePartsPrimed

(* finish_request, worker.c:132. *)
LEMMA HomeFinish ==
  ASSUME TypeOK, Filled, InTurn, AtHome, NEW w \in Workers, finish_request(w)
  PROVE  AtHome'
<1> USE CpuFacts, ShinjukuAssumption
<1>0. self[w] = w /\ w \in Cpus /\ wpc[w] = "report"
  BY SMTT(60) DEF AtHome, finish_request
<1>1. /\ response'[w].flag = "PREEMPTED" => ~finished[w]
      /\ response'[w].rnbl = ctx_worker[w]
      /\ \A c \in Cpus \ {w} : response'[c] = response[c]
  BY <1>0 DEF finish_request, TypeOK
<1>2. wpc'[w] = "wait" /\ \A u \in Workers \ {w} : wpc'[u] = wpc[u]
  BY SMTT(30) DEF finish_request, TypeOK
<1>3. UNCHANGED <<dpc, tskq, request, worker_preempted, ipi, self, running, ctx_worker,
                  finished, frame>>
  BY Zenon DEF finish_request, dispvars, ctxvars
<1>4. \A k : Resumable(k)' <=> Resumable(k)
  BY <1>3 DEF Resumable
<1>5. HomeOf(w)
  BY AtHomeParts
<1>6. WaitingAt(w)'
  <2>1. request[w].flag = "WAITING"
    BY <1>0 DEF InTurn
  <2>2. response'[w].flag = "PREEMPTED" => Resumable(response'[w].rnbl)
    BY <1>0, <1>1, <1>5 DEF HomeOf
  <2> QED
    BY <1>3, <1>4, <2>1, <2>2 DEF WaitingAt
<1>7. \A c \in Cpus : WaitingAt(c)'
  BY <1>1, <1>3, <1>4, <1>6, AtHomeParts, Zenon DEF WaitingAt
<1>8. \A u \in Workers : HomeOf(u)'
  BY <1>2, <1>3, <1>4, AtHomeParts, SMTT(60) DEF HomeOf
<1>9. WaitingIn(tskq)'
  BY <1>3, <1>4, AtHomeParts, Zenon DEF WaitingIn
<1>10. Calm'
  BY <1>2, <1>3, AtHomeParts, SMTT(30) DEF Calm
<1> QED
  BY <1>7, <1>8, <1>9, <1>10, AtHomePartsPrimed

LEMMA AtHomeStep ==
  ASSUME NoMigration, TypeOK, Filled, InTurn, AtHome, OneOwner, [Next]_vars
  PROVE  AtHome'
<1> USE CpuFacts, ShinjukuAssumption
<1>0. WaitingIn(tskq) /\ Calm
  BY AtHomeParts
<1>1. CASE StartWorkers
  <2>1. /\ \A w \in Workers : wpc'[w] \in {"off", "init"}
        /\ UNCHANGED <<request, response, tskq, worker_preempted, ipi, self, ctx_worker, frame>>
        /\ dpc' # "csd"
    BY <1>1 DEF StartWorkers, ctxvars
  <2>2. \A k : Resumable(k)' <=> Resumable(k)
    BY <2>1 DEF Resumable
  <2>3. \A w \in Workers : HomeOf(w)'
    BY <2>1, AtHomeParts, SMTT(30) DEF HomeOf
  <2>4. \A c \in Cpus : WaitingAt(c)'
    BY <2>1, <2>2, AtHomeParts, SMTT(60) DEF WaitingAt
  <2>5. WaitingIn(tskq)' /\ Calm'
    BY <1>0, <2>1, <2>2 DEF WaitingIn, Calm
  <2> QED
    BY <2>3, <2>4, <2>5, AtHomePartsPrimed
<1>2. CASE HandleResponse
  BY <1>2, HomeResponse
<1>3. CASE StillRunning \/ preempt_worker \/ smp_call_function_single
  <2>1. UNCHANGED <<request, response, wpc, self, running, ctx_worker, finished, frame, tskq,
                    worker_preempted>>
    BY <1>3 DEF StillRunning, preempt_worker, smp_call_function_single, workvars, ctxvars
  <2>2. WaitingIn(tskq)'
    BY <1>0, <2>1, Zenon DEF WaitingIn, Resumable
  <2>3. MaxExpiries = 0 => StillRunning
    BY <1>0, <1>3 DEF preempt_worker, smp_call_function_single, Calm, TypeOK
  <2>4. StillRunning => dpc' # "csd" /\ ipi' = ipi
    BY AdvanceType, SMTT(30) DEF StillRunning, TypeOK
  <2>5. Calm'
    BY <1>0, <2>1, <2>3, <2>4 DEF Calm
  <2> QED
    BY <2>1, <2>2, <2>5, AtHomeSame
<1>4. CASE handle_networker
  <2>1. UNCHANGED <<request, response, wpc, self, running, ctx_worker, finished, frame,
                    worker_preempted, ipi>>
    BY <1>4 DEF handle_networker, workvars
  <2>2. dpc' # "csd"
    BY <1>4 DEF handle_networker
  <2>3. Calm'
    BY <1>0, <2>1, <2>2 DEF Calm
  <2>4. WaitingIn(tskq)'
    <3>1. CASE tskq' = tskq
      <4>1. frame' = frame
        BY <2>1
      <4> QED
        BY <1>0, <3>1, <4>1, Zenon DEF WaitingIn, Resumable
    <3>2. CASE rxq # << >> /\ \E k \in free :
            tskq' = kfifo_in(tskq, [rnbl |-> k, mbuf |-> Head(rxq), category |-> "PACKET"])
      <4>1. PICK e \in Entries : e.category = "PACKET" /\ tskq' = kfifo_in(tskq, e)
        <5>1. PICK k \in free :
                tskq' = kfifo_in(tskq, [rnbl |-> k, mbuf |-> Head(rxq), category |-> "PACKET"])
          BY <3>2
        <5>2. [rnbl |-> k, mbuf |-> Head(rxq), category |-> "PACKET"] \in Entries
          BY <3>2, SMTT(60) DEF TypeOK, Entries
        <5> QED
          BY <5>1, <5>2
      <4>2. \A j \in 1 .. Len(tskq') : tskq'[j] = e \/ \E l \in 1 .. Len(tskq) : tskq'[j] = tskq[l]
        <5>1. tskq \in Seq(Entries)
          BY DEF TypeOK
        <5> QED
          BY <4>1, <5>1, QueueElements
      <4> QED
        BY <1>0, <2>1, <4>1, <4>2, SMTT(60) DEF WaitingIn, Resumable
    <3> QED
      BY <1>4, <3>1, <3>2, Zenon DEF handle_networker
  <2> QED
    BY <2>1, <2>3, <2>4, AtHomeSame
<1>5. ASSUME NEW p \in Packets, Receive(p) PROVE AtHome'
  <2>1. UNCHANGED <<request, response, wpc, self, running, ctx_worker, finished, frame, tskq,
                    worker_preempted, ipi, dpc>>
    BY <1>5 DEF Receive, dispvars, workvars, ctxvars
  <2> QED
    BY <1>0, <2>1, AtHomeSame, Zenon DEF WaitingIn, Resumable, Calm
<1>6. ASSUME NEW w \in Workers, IpiArrives(w) \/ worker_ipi_handler(w) PROVE AtHome'
  <2>1. UNCHANGED <<request, response, wpc, self, running, ctx_worker, finished, frame, tskq>>
    BY <1>6 DEF IpiArrives, worker_ipi_handler, dispvars, workvars, ctxvars
  <2>2. ipi[w] # "none" /\ w \in Cpus
    BY <1>6 DEF IpiArrives, worker_ipi_handler
  <2>3. Calm'
    BY <1>0, <2>1, <2>2 DEF Calm
  <2>4. WaitingIn(tskq)'
    BY <1>0, <2>1, Zenon DEF WaitingIn, Resumable
  <2> QED
    BY <2>1, <2>3, <2>4, AtHomeSame
<1>7. ASSUME NEW w \in Workers, init_worker(w) PROVE AtHome'
  <2>1. /\ UNCHANGED <<request, self, running, ctx_worker, finished, frame, tskq, ipi, dpc>>
        /\ response'[w].flag = "PROCESSED"
        /\ \A c \in Cpus \ {w} : response'[c] = response[c]
    BY <1>7 DEF init_worker, TypeOK, Responses, dispvars, ctxvars
  <2>2. wpc'[w] = "ready" /\ \A u \in Workers \ {w} : wpc'[u] = wpc[u]
    BY <1>7 DEF init_worker, TypeOK
  <2>3. \A c \in Cpus : worker_preempted'[c] => worker_preempted[c]
    BY <1>7 DEF init_worker, TypeOK
  <2>4. \A k : Resumable(k)' <=> Resumable(k)
    BY <2>1, Zenon DEF Resumable
  <2>5. \A u \in Workers : HomeOf(u)'
    BY <2>1, <2>2, <2>4, AtHomeParts, SMTT(60) DEF HomeOf
  <2>6. \A c \in Cpus : WaitingAt(c)'
    BY <2>1, <2>4, AtHomeParts, Zenon DEF WaitingAt
  <2>7. WaitingIn(tskq)'
    BY <1>0, <2>1, <2>4, Zenon DEF WaitingIn
  <2>8. Calm'
    <3>1. ~RecordsContext => \A c \in Cpus : ctx_worker'[c] = None
      BY <1>0, <2>1, Zenon DEF Calm
    <3>2. MaxExpiries = 0 =>
            dpc' # "csd" /\ \A c \in Cpus : ~worker_preempted'[c] /\ ipi'[c] = "none"
      BY <1>0, <2>1, <2>3, Zenon DEF Calm
    <3>3. MaxExpiries = 0 => \A u \in Workers : wpc'[u] # "preempt"
      BY <1>0, <2>2, SMTT(30) DEF Calm
    <3> QED
      BY <3>1, <3>2, <3>3, Zenon DEF Calm
  <2> QED
    BY <2>5, <2>6, <2>7, <2>8, AtHomePartsPrimed
<1>7a. ASSUME NEW w \in Workers, local_irq_disable(w) \/ handle_short_packet(w) PROVE AtHome'
  <2>1. UNCHANGED <<response, self, running, ctx_worker, finished, frame, tskq, worker_preempted,
                    ipi, dpc>>
    BY <1>7a, SMTT(30) DEF local_irq_disable, handle_short_packet, dispvars, ctxvars
  <2>2. wpc'[w] \in {"wait", "bug"} /\ \A u \in Workers \ {w} : wpc'[u] = wpc[u]
    BY <1>7a, SMTT(30) DEF local_irq_disable, handle_short_packet, TypeOK
  <2>3. \A c \in Cpus : /\ request'[c].flag = "ACTIVE" => request'[c] = request[c]
                        /\ request'[c].rnbl = request[c].rnbl
    <3>1. CASE local_irq_disable(w)
      BY <3>1, Zenon DEF local_irq_disable
    <3>2. CASE handle_short_packet(w)
      BY <3>2 DEF handle_short_packet, TypeOK, Requests
    <3> QED
      BY <1>7a, <3>1, <3>2
  <2>4. \A k : Resumable(k)' <=> Resumable(k)
    BY <2>1 DEF Resumable
  <2>5. \A u \in Workers : HomeOf(u)'
    <3>1. HomeOf(w)'
      BY <2>1, <2>2, AtHomeParts, SMTT(60) DEF HomeOf
    <3>2. ASSUME NEW u \in Workers, u # w PROVE HomeOf(u)'
      <4>1. wpc'[u] = wpc[u] /\ request'[u].rnbl = request[u].rnbl /\ HomeOf(u)
        BY <2>2, <2>3, <3>2, AtHomeParts, Zenon
      <4> QED
        BY <2>1, <2>4, <4>1, Zenon DEF HomeOf
    <3> QED
      BY <3>1, <3>2
  <2>6. \A c \in Cpus : WaitingAt(c)'
    <3> SUFFICES ASSUME NEW c \in Cpus PROVE WaitingAt(c)'
      OBVIOUS
    <3>1. WaitingAt(c) /\ response' = response
      BY <2>1, AtHomeParts
    <3>2. /\ request'[c].flag = "ACTIVE" => request'[c] = request[c]
          /\ request'[c].rnbl = request[c].rnbl
      BY <2>3
    <3> QED
      BY <2>4, <3>1, <3>2, Zenon DEF WaitingAt
  <2>7. WaitingIn(tskq)'
    BY <1>0, <2>1, <2>4, Zenon DEF WaitingIn
  <2>8. Calm'
    BY <1>0, <2>1, <2>2, SMTT(30) DEF Calm
  <2> QED
    BY <2>5, <2>6, <2>7, <2>8, AtHomePartsPrimed
<1>8. ASSUME NEW w \in Workers, handle_request(w) PROVE AtHome'
  BY <1>8, HomeRequest
<1>9. ASSUME NEW w \in Workers, generic_work(w) PROVE AtHome'
  BY <1>9, HomeWork
<1>10. ASSUME NEW w \in Workers, finish_request(w) PROVE AtHome'
  BY <1>10, HomeFinish
<1>11. CASE UNCHANGED vars
  <2>1. UNCHANGED <<request, response, wpc, self, running, ctx_worker, finished, frame, tskq,
                    worker_preempted, ipi, dpc>>
    BY <1>11 DEF vars, dispvars, workvars, ctxvars
  <2>2. WaitingIn(tskq)'
    BY <1>0, <2>1, Zenon DEF WaitingIn, Resumable
  <2>3. Calm'
    BY <1>0, <2>1, Zenon DEF Calm
  <2> QED
    BY <2>1, <2>2, <2>3, AtHomeSame
<1> QED
  BY <1>1, <1>2, <1>3, <1>4, <1>5, <1>6, <1>7, <1>7a, <1>8, <1>9, <1>10,
     <1>11 DEF Next, Dispatcher, Worker, Exited

-----------------------------------------------------------------------------
(* The theorems.                                                           *)

LEMMA IInvInit == Init => IInv
<1> SUFFICES ASSUME Init PROVE IInv
  OBVIOUS
<1> USE CpuFacts, ShinjukuAssumption
<1>1. TypeOK /\ Filled
  BY TypeInit
<1>2. InTurn
  BY SMTT(60) DEF Init, InTurn, NoRequest, NoResponse
<1>3. AtHome
  <2>1. tskq = << >> /\ Len(tskq) = 0
    BY DEF Init
  <2>2. WaitingIn(tskq)
    BY <2>1 DEF WaitingIn
  <2>3. (\A w \in Workers : HomeOf(w)) /\ Calm
    BY SMTT(60) DEF Init, HomeOf, Calm
  <2>4. \A c \in Cpus : WaitingAt(c)
    BY DEF Init, WaitingAt, NoRequest, NoResponse
  <2> QED
    BY <2>2, <2>3, <2>4, AtHomeParts
<1>4. \A c \in Cpus : Hands[c] = None /\ Slot(c)[1] = None
  <2>1. \A c \in Cpus : response[c].flag = "RUNNING" /\ request[c].rnbl = None
    BY DEF Init, NoRequest, NoResponse
  <2> QED
    BY <2>1, HandsFacts
<1>5. OneOwner
  BY <1>4, SMTT(60) DEF Init, OneOwner, OwnedOnce
<1>6. PacketKept
  BY <1>4, SMTT(30) DEF Init, PacketKept
<1> QED
  BY <1>1, <1>2, <1>3, <1>5, <1>6 DEF IInv

LEMMA IInvInvariant == NoMigration /\ Spec => []IInv
<1>1. NoMigration /\ IInv /\ [Next]_vars => IInv'
  BY TypeStep, FilledStep, InTurnStep, AtHomeStep, OneOwnerStep, PacketKeptStep DEF IInv
<1>2. NoMigration \in BOOLEAN /\ (NoMigration => NoMigration')
  BY DEF NoMigration
<1>3. NoMigration => []NoMigration
  BY <1>2, PTL
<1> QED
  BY <1>1, <1>3, IInvInit, PTL DEF Spec

(* As long as no context moves to another CPU, the BUG_ON of               *)
(* dispatch_request (dispatcher.c:65) never fires.                         *)
THEOREM HandshakeKept == NoMigration /\ Spec => []NoBug
<1>1. IInv => NoBug
  BY SMTT(60) DEF IInv, TypeOK, Requests, InTurn, NoBug
<1> QED
  BY <1>1, IInvInvariant, PTL

(* ... every context has one owner: none is freed while a worker runs on   *)
(* it (dispatcher.c:45), none is run by two workers.                       *)
THEOREM OwnersUnique == NoMigration /\ Spec => []OneOwner
<1>1. IInv => OneOwner
  BY DEF IInv
<1> QED
  BY <1>1, IInvInvariant, PTL

(* ... every worker runs what its CPU was given (worker.c:120-130).        *)
THEOREM WorkersRunTheirRequests == NoMigration /\ Spec => []RunsItsRequest
<1>1. IInv => RunsItsRequest
  <2> SUFFICES ASSUME IInv, NEW w \in Workers
               PROVE  /\ self[w] = w
                      /\ wpc[w] \in {"loop", "preempt", "cond", "dead"} =>
                           /\ response[w].flag = "RUNNING" /\ request[w].flag = "WAITING"
                           /\ running[w] = request[w].rnbl /\ running[w] # None
                           /\ frame[running[w]].cont \in {None, running[w]}
    BY Zenon DEF RunsItsRequest
  <2>1. w \in Cpus
    BY CpuFacts
  <2>2. HomeOf(w)
    BY AtHomeParts DEF IInv
  <2> QED
    BY <2>1, <2>2, Zenon DEF IInv, HomeOf, InTurn, Filled
<1> QED
  BY <1>1, IInvInvariant, PTL

(* ... and the packet that is given back with a context (dispatcher.c:46)  *)
(* is the one the context was allocated for.                               *)
THEOREM PacketsKept == NoMigration /\ Spec => []PacketKept
<1>1. IInv => PacketKept
  BY DEF IInv
<1> QED
  BY <1>1, IInvInvariant, PTL
=============================================================================
