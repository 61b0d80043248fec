---------------------------- MODULE KvRpcProofs -----------------------------
(* Proofs about KvRpc, for every ring size and every set of requests. *)
EXTENDS KvRpc, SequenceTheorems, TLAPS

USE DEF Queues

\* The index arithmetic of the rings, without the modulo.
LEMMA SuccValue ==
  ASSUME NEW i \in Indexes
  PROVE  Succ(i) = IF i = RING_BUFFER_SIZE - 1 THEN 0 ELSE i + 1
<1> DEFINE N == RING_BUFFER_SIZE
<1>1. N \in Nat /\ N > 1
  BY KvRpcAssumption
<1>2. i \in Int /\ 0 <= i /\ i <= N - 1
  BY <1>1 DEF Indexes
<1>3. CASE i = N - 1
  <2>1. i + 1 = N
    BY <1>1, <1>2, <1>3
  <2>2. N % N = 0
    BY <1>1
  <2> QED BY <2>1, <2>2, <1>3 DEF Succ
<1>4. CASE i # N - 1
  <2>1. i + 1 \in 0 .. N - 1
    BY <1>1, <1>2, <1>4
  <2>2. (i + 1) % N = i + 1
    BY <1>1, <2>1
  <2> QED BY <2>2, <1>4 DEF Succ
<1> QED BY <1>3, <1>4

LEMMA SuccType ==
  ASSUME NEW i \in Indexes
  PROVE  Succ(i) \in Indexes
BY SuccValue, KvRpcAssumption DEF Indexes

LEMMA TypeInit == Init => TypeOK
BY KvRpcAssumption DEF Init, TypeOK, Indexes

LEMMA PushType ==
  ASSUME TypeOK, NEW q \in Queues, NEW r \in Rpcs, push(q, r)
  PROVE  /\ buffer' \in [Queues -> [Indexes -> Rpcs \union {None}]]
         /\ head' \in [Queues -> Indexes]
         /\ tail' \in [Queues -> Indexes]
<1>1. head[q] \in Indexes /\ Succ(head[q]) \in Indexes
  BY SuccType DEF TypeOK
<1> QED BY <1>1 DEF TypeOK, push

LEMMA TypeStep == TypeOK /\ [Next]_vars => TypeOK'
<1> SUFFICES ASSUME TypeOK, [Next]_vars PROVE TypeOK'
  OBVIOUS
<1>1. ASSUME NEW r \in Rpcs, kernel_kvrpc_server_threadlet(r) PROVE TypeOK'
  <2>1. rc \in Queues /\ rc' \in Queues
    BY <1>1 DEF TypeOK, kernel_kvrpc_server_threadlet
  <2>2. push(rc, r) /\ serving' = serving /\ rpc_to_process' = rpc_to_process
    BY <1>1 DEF kernel_kvrpc_server_threadlet
  <2> QED BY <2>1, <2>2, PushType DEF TypeOK
<1>2. CASE ReceiveError
  BY <1>2, Zenon DEF TypeOK, ReceiveError, ring
<1>3. ASSUME NEW q \in Queues, pop(q) PROVE TypeOK'
  <2>1. tail[q] \in Indexes /\ Succ(tail[q]) \in Indexes
    BY SuccType DEF TypeOK
  <2> QED BY <1>3, <2>1 DEF TypeOK, pop
<1>4. ASSUME NEW q \in Queues, Process(q) PROVE TypeOK'
  BY <1>4 DEF TypeOK, Process, ring
<1>5. CASE UNCHANGED vars
  BY <1>5 DEF TypeOK, vars, ring
<1> QED BY <1>1, <1>2, <1>3, <1>4, <1>5 DEF Next, kernel_kvrpc_worker_threadlet

\* The rings' indexes stay within the array and its entries are requests or
\* None.
THEOREM TypeCorrect == Spec => []TypeOK
BY TypeInit, TypeStep, PTL DEF Spec

-----------------------------------------------------------------------------
(* The slots that hold a request are the ones from tail up to head. *)

\* Writing at head and moving head on adds one slot to the occupied ones.
LEMMA PushSlots ==
  ASSUME NEW h \in Indexes, NEW t \in Indexes, NEW i \in Indexes, Succ(h) # t
  PROVE  LET off == IF t <= i THEN i - t ELSE RING_BUFFER_SIZE - t + i
             len == IF t <= h THEN h - t ELSE RING_BUFFER_SIZE - t + h
             s == Succ(h)
             lenp == IF t <= s THEN s - t ELSE RING_BUFFER_SIZE - t + s
         IN  off < lenp <=> (off < len \/ i = h)
BY SuccValue, KvRpcAssumption DEF Indexes

\* Moving tail on takes the slot it was on away from the occupied ones.
LEMMA PopSlots ==
  ASSUME NEW h \in Indexes, NEW t \in Indexes, NEW i \in Indexes, h # t
  PROVE  LET s == Succ(t)
             off == IF t <= i THEN i - t ELSE RING_BUFFER_SIZE - t + i
             len == IF t <= h THEN h - t ELSE RING_BUFFER_SIZE - t + h
             offp == IF s <= i THEN i - s ELSE RING_BUFFER_SIZE - s + i
             lenp == IF s <= h THEN h - s ELSE RING_BUFFER_SIZE - s + h
         IN  offp < lenp <=> (off < len /\ i # t)
BY SuccValue, KvRpcAssumption DEF Indexes

LEMMA SlotsStep == TypeOK /\ SlotsMatch /\ [Next]_vars => SlotsMatch'
<1> SUFFICES ASSUME TypeOK, SlotsMatch, [Next]_vars PROVE SlotsMatch'
  OBVIOUS
<1>1. ASSUME NEW r \in Rpcs, kernel_kvrpc_server_threadlet(r) PROVE SlotsMatch'
  <2> SUFFICES ASSUME NEW q \in Queues, NEW i \in Indexes
               PROVE  buffer'[q][i] # None <=> Offset(q, i)' < Length(q)'
    BY DEF SlotsMatch
  <2>1. push(rc, r) /\ rc \in Queues
    BY <1>1 DEF kernel_kvrpc_server_threadlet, TypeOK
  <2>2. buffer[q][i] # None <=> Offset(q, i) < Length(q)
    BY DEF SlotsMatch
  <2>3. r # None
    BY KvRpcAssumption
  <2>4. CASE q # rc \/ Succ(head[rc]) = tail[rc]
    <3>1. buffer'[q] = buffer[q] /\ head'[q] = head[q] /\ tail'[q] = tail[q]
      BY <2>1, <2>4 DEF push, TypeOK
    <3> QED BY <3>1, <2>2 DEF Offset, Length
  <2>5. CASE q = rc /\ Succ(head[q]) # tail[q]
    <3>1. /\ head'[q] = Succ(head[q]) /\ tail'[q] = tail[q]
          /\ buffer'[q][i] = IF i = head[q] THEN r ELSE buffer[q][i]
      BY <2>1, <2>5 DEF push, TypeOK
    <3>2. head[q] \in Indexes /\ tail[q] \in Indexes
      BY DEF TypeOK
    <3>3. Offset(q, i)' < Length(q)' <=> (Offset(q, i) < Length(q) \/ i = head[q])
      BY <3>1, <3>2, <2>5, PushSlots DEF Offset, Length
    <3> QED BY <3>1, <3>3, <2>2, <2>3
  <2> QED BY <2>4, <2>5
<1>2. ASSUME NEW p \in Queues, pop(p) PROVE SlotsMatch'
  <2> SUFFICES ASSUME NEW q \in Queues, NEW i \in Indexes
               PROVE  buffer'[q][i] # None <=> Offset(q, i)' < Length(q)'
    BY DEF SlotsMatch
  <2>2. buffer[q][i] # None <=> Offset(q, i) < Length(q)
    BY DEF SlotsMatch
  <2>3. CASE q # p
    <3>1. buffer'[q] = buffer[q] /\ head'[q] = head[q] /\ tail'[q] = tail[q]
      BY <1>2, <2>3 DEF pop, TypeOK
    <3> QED BY <3>1, <2>2 DEF Offset, Length
  <2>4. CASE q = p
    <3>1. /\ head'[q] = head[q] /\ tail'[q] = Succ(tail[q])
          /\ buffer'[q][i] = IF i = tail[q] THEN None ELSE buffer[q][i]
      BY <1>2, <2>4 DEF pop, TypeOK
    <3>2. head[q] \in Indexes /\ tail[q] \in Indexes /\ head[q] # tail[q]
      BY <1>2, <2>4 DEF TypeOK, pop
    <3>3. Offset(q, i)' < Length(q)' <=> (Offset(q, i) < Length(q) /\ i # tail[q])
      BY <3>1, <3>2, PopSlots DEF Offset, Length
    <3> QED BY <3>1, <3>3, <2>2
  <2> QED BY <2>3, <2>4
<1>3. CASE UNCHANGED ring
  BY <1>3 DEF SlotsMatch, Offset, Length, ring
<1> QED
  BY <1>1, <1>2, <1>3
  DEF Next, kernel_kvrpc_worker_threadlet, ReceiveError, Process, vars

\* A worker that saw its ring non-empty takes a request, and the server never
\* overwrites one: the slots in use are exactly those from tail up to head.
THEOREM SlotsAlwaysMatch == Spec => []SlotsMatch
<1>1. Init => SlotsMatch
  BY KvRpcAssumption DEF Init, SlotsMatch, Offset, Length, Indexes
<1> QED BY <1>1, SlotsStep, TypeCorrect, PTL DEF Spec
-----------------------------------------------------------------------------
(* The rings implement the bounded queues. *)

LEMMA ContentsType ==
  ASSUME TypeOK, SlotsMatch, NEW q \in Queues
  PROVE  /\ Length(q) \in 0 .. RING_BUFFER_SIZE - 1
         /\ Contents(q) \in Seq(Rpcs)
         /\ Len(Contents(q)) = Length(q)
<1>1. head[q] \in Indexes /\ tail[q] \in Indexes
  BY DEF TypeOK
<1>2. Length(q) \in 0 .. RING_BUFFER_SIZE - 1
  BY <1>1, KvRpcAssumption DEF Length, Indexes
<1>3. ASSUME NEW k \in 1 .. Length(q)
      PROVE  buffer[q][Place(q, k)] \in Rpcs
  <2> DEFINE p == Place(q, k)
  <2>1. k \in 1 .. RING_BUFFER_SIZE
    BY <1>2, KvRpcAssumption
  <2>2. p = IF tail[q] + k - 1 < RING_BUFFER_SIZE
            THEN tail[q] + k - 1 ELSE tail[q] + k - 1 - RING_BUFFER_SIZE
    BY DEF Place
  <2> HIDE DEF p
  <2>3. p \in Indexes /\ Offset(q, p) = k - 1
    BY <1>1, <2>1, <2>2, KvRpcAssumption DEF Indexes, Offset
  <2>4. Offset(q, p) < Length(q)
    BY <2>3, <1>2, KvRpcAssumption
  <2>5. buffer[q][p] # None
    BY <2>3, <2>4 DEF SlotsMatch
  <2>6. buffer[q][p] \in Rpcs \union {None}
    BY <2>3 DEF TypeOK
  <2> QED BY <2>5, <2>6 DEF p
<1>4. Length(q) \in Nat
  BY <1>2, KvRpcAssumption
<1> QED BY <1>2, <1>3, <1>4 DEF Contents

ContentsTyped ==
  \A q \in Queues : Contents(q) \in Seq(Rpcs) /\ Len(Contents(q)) = Length(q)

LEMMA ContentsTypeAll == TypeOK /\ SlotsMatch => ContentsTyped
BY ContentsType DEF ContentsTyped

\* The same in the next state.
LEMMA ContentsTypePrimed == TypeOK' /\ SlotsMatch' => ContentsTyped'
BY ContentsTypeAll, PTL

LEMMA ContentsTypeNext ==
  ASSUME TypeOK', SlotsMatch', NEW q \in Queues
  PROVE  Contents(q)' \in Seq(Rpcs) /\ Len(Contents(q)') = Length(q)'
BY ContentsTypePrimed DEF ContentsTyped

\* A push that finds room appends to the abstract queue; others leave it.
LEMMA PushAppends ==
  ASSUME TypeOK, SlotsMatch, TypeOK', SlotsMatch',
         NEW q \in Queues, NEW r \in Rpcs, push(q, r)
  PROVE  Contents(q)' = IF Len(Contents(q)) < RING_BUFFER_SIZE - 1
                        THEN Append(Contents(q), r) ELSE Contents(q)
<1> DEFINE N == RING_BUFFER_SIZE
           h == head[q]
           t == tail[q]
<1>1. h \in Indexes /\ t \in Indexes /\ tail'[q] = t
  BY DEF TypeOK, push
<1>2. N \in Nat /\ N > 1
  BY KvRpcAssumption
<1>3. Len(Contents(q)) = Length(q) /\ Length(q) \in 0 .. N - 1 /\ Contents(q) \in Seq(Rpcs)
  BY ContentsType
<1>4. Succ(h) = t <=> ~(Length(q) < N - 1)
  BY <1>1, <1>2, SuccValue DEF Length, Indexes
<1>5. CASE Succ(h) = t
  <2>1. buffer'[q] = buffer[q] /\ head'[q] = h
    BY <1>5 DEF push
  <2>2. Contents(q)' = Contents(q)
    BY <2>1, <1>1 DEF Contents, Length, Place
  <2> QED BY <2>2, <1>3, <1>4, <1>5
<1>6. CASE Succ(h) # t
  <2>1. head'[q] = Succ(h)
    BY <1>6 DEF push, TypeOK
  <2>2. Length(q)' = Length(q) + 1
    BY <2>1, <1>1, <1>2, <1>6, SuccValue DEF Length, Indexes
  <2>3. \A i \in Indexes : buffer'[q][i] = IF i = h THEN r ELSE buffer[q][i]
    BY <1>6 DEF push, TypeOK
  <2>4. Length(q)' \in 0 .. N - 1 /\ Length(q) \in Nat
    BY <2>2, <1>2, <1>3, <1>4, <1>6
  <2>5. ASSUME NEW k \in 1 .. Length(q) + 1
        PROVE  buffer'[q][Place(q, k)] =
                 IF k = Length(q) + 1 THEN r ELSE buffer[q][Place(q, k)]
    <3> DEFINE p == Place(q, k)
    <3>1. k \in 1 .. N
      BY <2>2, <2>4, <1>2
    <3>2. p = IF t + k - 1 < N THEN t + k - 1 ELSE t + k - 1 - N
      BY DEF Place
    <3> HIDE DEF p
    <3>3. p \in Indexes
      BY <3>1, <3>2, <1>1, <1>2 DEF Indexes
    <3>4. p = h <=> k = Length(q) + 1
      BY <3>1, <3>2, <1>1, <1>2, <2>2, <2>4 DEF Length, Indexes
    <3>5. buffer'[q][p] = IF k = Length(q) + 1 THEN r ELSE buffer[q][p]
      BY <3>3, <3>4, <2>3
    <3> QED BY <3>5 DEF p
  <2>6. \A k \in 1 .. Length(q) + 1 : Contents(q)'[k] = buffer'[q][Place(q, k)]
    BY <2>2, <1>1 DEF Contents, Place
  <2>7. /\ Append(Contents(q), r) \in Seq(Rpcs)
        /\ Len(Append(Contents(q), r)) = Length(q) + 1
        /\ \A k \in 1 .. Length(q) + 1 : Append(Contents(q), r)[k] =
             IF k = Length(q) + 1 THEN r ELSE Contents(q)[k]
    BY <1>3, AppendProperties
  <2>8. \A k \in 1 .. Length(q) + 1 :
          k # Length(q) + 1 => Contents(q)[k] = buffer[q][Place(q, k)]
    BY <2>4 DEF Contents
  <2>9. Contents(q)' \in Seq(Rpcs) /\ Len(Contents(q)') = Length(q) + 1
    BY <2>2, ContentsTypeNext
  <2>10. \A k \in 1 .. Length(q) + 1 : Contents(q)'[k] = Append(Contents(q), r)[k]
    BY <2>5, <2>6, <2>7, <2>8
  <2>11. Contents(q)' = Append(Contents(q), r)
    BY <2>7, <2>9, <2>10, SeqEqual
  <2> QED BY <2>11, <1>3, <1>4, <1>6
<1> QED BY <1>5, <1>6

\* A pop takes the head of the abstract queue.
LEMMA PopTakesHead ==
  ASSUME TypeOK, SlotsMatch, TypeOK', SlotsMatch', NEW q \in Queues, pop(q)
  PROVE  /\ Contents(q) # << >>
         /\ rpc_to_process' = [rpc_to_process EXCEPT ![q] = Head(Contents(q))]
         /\ Contents(q)' = Tail(Contents(q))
<1> DEFINE N == RING_BUFFER_SIZE
           h == head[q]
           t == tail[q]
<1>1. h \in Indexes /\ t \in Indexes /\ h # t /\ head'[q] = h /\ tail'[q] = Succ(t)
  BY DEF TypeOK, pop
<1>2. N \in Nat /\ N > 1
  BY KvRpcAssumption
<1>3. Len(Contents(q)) = Length(q) /\ Length(q) \in 0 .. N - 1 /\ Contents(q) \in Seq(Rpcs)
  BY ContentsType
<1>4. Length(q) \in Nat /\ Length(q) > 0
  BY <1>1, <1>2, <1>3 DEF Length, Indexes
<1>5. Length(q)' = Length(q) - 1
  BY <1>1, <1>2, SuccValue DEF Length, Indexes
<1>6. Contents(q)[1] = buffer[q][t]
  <2>1. Place(q, 1) = t
    BY <1>1, <1>2 DEF Place, Indexes
  <2> QED BY <2>1, <1>4 DEF Contents
<1>7. Head(Contents(q)) = buffer[q][t] /\ Contents(q) # << >>
  BY <1>3, <1>4, <1>6
<1>8. ASSUME NEW k \in 1 .. Length(q) - 1
      PROVE  Contents(q)'[k] = Contents(q)[k + 1]
  <2>1. k \in Int /\ k + 1 \in 1 .. Length(q) /\ 1 <= k /\ k <= N - 2
    BY <1>2, <1>3, <1>4
  <2>2. Place(q, k)' = Place(q, k + 1)
    <3>1. CASE t = N - 1
      <4>1. tail'[q] = 0
        BY <3>1, <1>1, SuccValue
      <4> QED BY <4>1, <3>1, <2>1, <1>2 DEF Place
    <3>2. CASE t # N - 1
      <4>1. tail'[q] = t + 1
        BY <3>2, <1>1, SuccValue
      <4> QED BY <4>1, <2>1, <1>1, <1>2 DEF Place, Indexes
    <3> QED BY <3>1, <3>2
  <2>3. Place(q, k + 1) \in Indexes /\ Place(q, k + 1) # t
    BY <2>1, <1>1, <1>2 DEF Place, Indexes
  <2>4. buffer'[q][Place(q, k + 1)] = buffer[q][Place(q, k + 1)]
    BY <2>3 DEF pop, TypeOK
  <2>5. Contents(q)'[k] = buffer'[q][Place(q, k)']
    BY <1>5 DEF Contents
  <2>6. Contents(q)[k + 1] = buffer[q][Place(q, k + 1)]
    BY <2>1 DEF Contents
  <2> QED BY <2>2, <2>4, <2>5, <2>6
<1>9. Contents(q)' \in Seq(Rpcs) /\ Len(Contents(q)') = Length(q) - 1
  BY <1>5, ContentsTypeNext
<1>10. /\ Tail(Contents(q)) \in Seq(Rpcs)
       /\ Len(Tail(Contents(q))) = Length(q) - 1
       /\ \A k \in 1 .. Length(q) - 1 : Tail(Contents(q))[k] = Contents(q)[k + 1]
  BY <1>3, <1>7, HeadTailProperties
<1>13. Contents(q)' = Tail(Contents(q))
  BY <1>8, <1>9, <1>10, SeqEqual
<1> QED BY <1>7, <1>13, Zenon DEF pop

\* A ring nobody touches keeps its contents.
LEMMA OthersKeepContents ==
  ASSUME NEW q \in Queues,
         buffer'[q] = buffer[q], head'[q] = head[q], tail'[q] = tail[q]
  PROVE  Contents(q)' = Contents(q)
BY DEF Contents, Length, Place

LEMMA RefinesInit == Init => Abstract!QInit
<1> SUFFICES ASSUME Init PROVE Abstract!QInit
  OBVIOUS
<1>1. \A q \in Queues : Length(q) = 0
  BY DEF Init, Length
<1>2. \A q \in Queues : Contents(q) = << >>
  BY <1>1 DEF Contents
<1> QED BY <1>2 DEF Init, Abstract!QInit

\* Every step of the rings is a step of the queues or leaves them as they are.
LEMMA RefinesStep ==
  TypeOK /\ SlotsMatch /\ TypeOK' /\ SlotsMatch' /\ [Next]_vars
    => [Abstract!QNext]_(Abstract!qvars)
<1> SUFFICES ASSUME TypeOK, SlotsMatch, TypeOK', SlotsMatch', [Next]_vars
             PROVE  [Abstract!QNext]_(Abstract!qvars)
  OBVIOUS
<1> DEFINE cs == [q \in Queues |-> Contents(q)]
<1>1. ASSUME NEW r \in Rpcs, kernel_kvrpc_server_threadlet(r)
      PROVE  Abstract!Submit(r)
  <2>1. rc \in Queues
    BY DEF TypeOK
  <2>2. PICK p \in Queues : p = rc
    BY <2>1
  <2>3. push(p, r) /\ rpc_to_process' = rpc_to_process
    BY <1>1, <2>2 DEF kernel_kvrpc_server_threadlet
  <2>4. rc' = 1 - rc
    BY <1>1, <2>1 DEF kernel_kvrpc_server_threadlet
  <2>5. Contents(p)' = IF Len(Contents(p)) < RING_BUFFER_SIZE - 1
                       THEN Append(Contents(p), r) ELSE Contents(p)
    BY <2>3, PushAppends
  <2>6. ASSUME NEW q \in Queues, q # p PROVE Contents(q)' = Contents(q)
    <3>1. buffer'[q] = buffer[q] /\ head'[q] = head[q] /\ tail'[q] = tail[q]
      BY <2>3, <2>6 DEF push, TypeOK
    <3> QED BY <3>1, OthersKeepContents
  <2>7. cs' = [q \in Queues |-> Contents(q)']
    OBVIOUS
  <2>8. cs' = IF Len(cs[p]) < RING_BUFFER_SIZE - 1
              THEN [cs EXCEPT ![p] = Append(@, r)] ELSE cs
    BY <2>5, <2>6, <2>7, Zenon
  <2>9. cs' = IF Len(cs[rc]) < RING_BUFFER_SIZE - 1
              THEN [cs EXCEPT ![rc] = Append(@, r)] ELSE cs
    BY <2>2, <2>8
  <2> QED BY <2>3, <2>4, <2>9 DEF Abstract!Submit
<1>2. ASSUME NEW p \in Queues, pop(p)
      PROVE  Abstract!Take(p)
  <2>1. /\ Contents(p) # << >>
        /\ rpc_to_process' = [rpc_to_process EXCEPT ![p] = Head(Contents(p))]
        /\ Contents(p)' = Tail(Contents(p))
    BY <1>2, PopTakesHead
  <2>2. rpc_to_process[p] = None /\ rc' = rc
    BY <1>2 DEF pop
  <2>3. ASSUME NEW q \in Queues, q # p PROVE Contents(q)' = Contents(q)
    <3>1. buffer'[q] = buffer[q] /\ head'[q] = head[q] /\ tail'[q] = tail[q]
      BY <1>2, <2>3 DEF pop, TypeOK
    <3> QED BY <3>1, OthersKeepContents
  <2>4. cs' = [q \in Queues |-> Contents(q)']
    OBVIOUS
  <2>5. cs' = [cs EXCEPT ![p] = Tail(@)]
    BY <2>1, <2>3, <2>4, Zenon
  <2>6. cs[p] = Contents(p)
    OBVIOUS
  <2> QED BY <2>1, <2>2, <2>5, <2>6 DEF Abstract!Take
<1>3. ASSUME UNCHANGED ring PROVE cs' = cs
  <2>1. \A q \in Queues : Contents(q)' = Contents(q)
    BY <1>3 DEF ring, Contents, Length, Place
  <2> QED BY <2>1
<1>4. ASSUME NEW p \in Queues, Process(p)
      PROVE  Abstract!Done(p)
  <2>1. cs' = cs
    BY <1>3, <1>4 DEF Process
  <2> QED BY <2>1, <1>4 DEF Process, Abstract!Done
<1>5. CASE ReceiveError \/ UNCHANGED vars
  <2>1. UNCHANGED <<ring, rc, rpc_to_process>>
    BY <1>5 DEF ReceiveError, vars
  <2>2. cs' = cs
    BY <1>3, <2>1
  <2> QED BY <2>1, <2>2 DEF Abstract!qvars
<1> QED
  BY <1>1, <1>2, <1>4, <1>5 DEF Next, kernel_kvrpc_worker_threadlet, Abstract!QNext

\* The two ring buffers are bounded first-in first-out queues: for every array
\* size, wrapping around never reorders, repeats or loses a request that was
\* accepted, and the server drops one only when its queue is full.
THEOREM RefinesQueues == Spec => ImplementsQueues
<1>1. Spec => [](TypeOK /\ SlotsMatch)
  BY TypeCorrect, SlotsAlwaysMatch, PTL
<1> QED
  BY <1>1, RefinesInit, RefinesStep, PTL DEF Spec, ImplementsQueues, Abstract!QSpec
=============================================================================
