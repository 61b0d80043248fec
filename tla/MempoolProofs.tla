---------------------------- MODULE MempoolProofs ----------------------------
(***************************************************************************)
(* Proofs about Mempool, for any number of pools, elements and any chunk   *)
(* size, with pages that hold zeros or anything else.                      *)
(***************************************************************************)
EXTENDS Mempool, TLAPS

-----------------------------------------------------------------------------
(* The layout of the pages.                                                *)

\* Chunks that fit are inside the pages: NrChunks rounds down.
LEMMA ChunksFit == NrChunks \in Nat /\ NrChunks * ChunkSize <= NrElems
BY MempoolAssumption DEF NrChunks

\* Multiplying by the chunk size keeps the order.
LEMMA TimesMonotone ==
  ASSUME NEW x \in Int, NEW y \in Int, x <= y
  PROVE  x * ChunkSize <= y * ChunkSize
<1>1. (y - x) * ChunkSize >= 0
  BY MempoolAssumption
<1>2. (y - x) * ChunkSize = y * ChunkSize - x * ChunkSize
  BY MempoolAssumption
<1> QED
  BY <1>1, <1>2, MempoolAssumption

\* The elements of a chunk are elements of the pages.
LEMMA ChunkIsList ==
  ASSUME NEW b \in 1 .. NrChunks
  PROVE  Chunk(b) \in Seq(Elems) /\ Len(Chunk(b)) = ChunkSize
<1>1. b * ChunkSize <= NrChunks * ChunkSize
  BY TimesMonotone, ChunksFit
<1>2. (b - 1) * ChunkSize = b * ChunkSize - ChunkSize /\ (b - 1) * ChunkSize >= 0
  BY MempoolAssumption, ChunksFit, TimesMonotone
<1>3. ASSUME NEW k \in 1 .. ChunkSize
      PROVE  (b - 1) * ChunkSize + k \in Elems
  BY <1>1, <1>2, ChunksFit, MempoolAssumption DEF Elems
<1> QED
  BY <1>3, MempoolAssumption DEF Chunk

-----------------------------------------------------------------------------
(* Types.                                                                  *)

LEMMA TakeFromType ==
  ASSUME TypeOK, NEW m \in Pools, NEW list \in Lists, list # << >>,
         TakeFrom(m, list)
  PROVE  /\ head' \in [Pools -> Lists] /\ used' \subseteq Elems
         /\ held' \in Int /\ fault' \in BOOLEAN
         /\ list[1] \in Elems
<1>1. list[1] \in Elems
  BY DEF TakeFrom, Lists
<1>2. Tail(list) \in Lists
  BY DEF Lists
<1> QED
  BY <1>1, <1>2 DEF TakeFrom, TypeOK

LEMMA InitBufType ==
  ASSUME NEW t \in [0 .. NrChunks -> Tails]
  PROVE  mempool_init_buf_with_pages(t) \in Seq(Chunks)
<1>1. ASSUME NEW b \in 0 .. NrChunks PROVE t[b] \in Lists
  <2>1. << >> \in Lists /\ <<Wild>> \in Lists
    BY DEF Lists
  <2>2. t[b] \in {<< >>, <<Wild>>}
    BY DEF Tails
  <2> QED
    BY <2>1, <2>2
<1>2. ASSUME NEW i \in 1 .. NrChunks
      PROVE  Chunk(NrChunks + 1 - i) \o t[NrChunks + 1 - i] \in Chunks
  <2>1. NrChunks + 1 - i \in 1 .. NrChunks
    BY ChunksFit
  <2> DEFINE c == Chunk(NrChunks + 1 - i)
             d == t[NrChunks + 1 - i]
  <2>2. c \in Lists /\ Len(c) # 0 /\ d \in Lists
    BY <1>1, <2>1, ChunkIsList, ChunksFit, MempoolAssumption DEF Lists
  <2> HIDE DEF c, d
  <2>3. c \o d \in Lists /\ Len(c \o d) # 0
    BY <2>2 DEF Lists
  <2>4. c \o d \in Chunks
    BY <2>3 DEF Chunks
  <2> QED
    BY <2>4 DEF c, d
<1>3. [i \in 1 .. NrChunks |-> Chunk(NrChunks + 1 - i) \o t[NrChunks + 1 - i]]
        \in Seq(Chunks)
  BY <1>2, ChunksFit
<1>4. (IF t[0] = << >> THEN << >> ELSE <<t[0]>>) \in Seq(Chunks)
  BY <1>1, ChunksFit DEF Chunks
<1> QED
  BY <1>3, <1>4 DEF mempool_init_buf_with_pages

LEMMA TypeStep == TypeOK /\ [Next]_vars => TypeOK'
<1> SUFFICES ASSUME TypeOK, [Next]_vars PROVE TypeOK'
  OBVIOUS
<1>1. CASE mempool_create_datastore
  <2>1. NrChunks \in Int
    BY ChunksFit
  <2> QED
    BY <1>1, <2>1, InitBufType
    DEF mempool_create_datastore, TypeOK, poolvars
<1>2. ASSUME NEW m \in Pools, mempool_create(m) PROVE TypeOK'
  BY <1>2 DEF mempool_create, TypeOK, dsvars, Lists
<1>3. ASSUME NEW m \in Pools, AllocHead(m) PROVE TypeOK'
  BY <1>3, TakeFromType DEF AllocHead, TypeOK, dsvars
<1>4. ASSUME NEW m \in Pools, AllocPrivate(m) PROVE TypeOK'
  <2>1. private_chunk' \in [Pools -> Lists]
    BY <1>4 DEF AllocPrivate, TypeOK, Lists
  <2> QED
    BY <1>4, <2>1, TakeFromType DEF AllocPrivate, TypeOK, dsvars
<1>5. ASSUME NEW m \in Pools, AllocChunk(m) PROVE TypeOK'
  <2>1. chunk_head[1] \in Chunks /\ chunk_head' \in Seq(Chunks)
    BY <1>5 DEF AllocChunk, TypeOK
  <2>2. chunk_head[1] \in Lists /\ chunk_head[1] # << >>
    BY <2>1 DEF Chunks
  <2> QED
    BY <1>5, <2>1, <2>2, TakeFromType DEF AllocChunk, TypeOK, dsvars
<1>6. ASSUME NEW m \in Pools, NEW e \in Elems, mempool_free(m, e) PROVE TypeOK'
  <2>1. <<e>> \o head[m] \in Lists /\ <<e>> \in Lists
    BY DEF Lists, TypeOK
  <2>2. CASE num_free[m] < chunk_size
    <3>1. head' \in [Pools -> Lists]
      BY <1>6, <2>1, <2>2, Zenon DEF mempool_free, TypeOK
    <3>2. num_free' \in [Pools -> Int] /\ used' \subseteq Elems /\ held' \in Int
      BY <1>6, <2>2 DEF mempool_free, TypeOK
    <3>3. UNCHANGED <<dsvars, magic, private_chunk, fault>>
      BY <1>6, <2>2 DEF mempool_free
    <3> QED
      BY <3>1, <3>2, <3>3 DEF TypeOK, dsvars
  <2>3. CASE ~(num_free[m] < chunk_size)
    <3>1. /\ head' = [head EXCEPT ![m] = <<e>>]
          /\ private_chunk' = [private_chunk EXCEPT ![m] = head[m]]
          /\ used' = used \ {e} /\ held' = held - 1
          /\ UNCHANGED <<ds_magic, chunk_size, magic, num_free, fault>>
          /\ \/ /\ private_chunk[m] # << >>
                /\ chunk_head' = <<private_chunk[m]>> \o chunk_head
                /\ free_chunks' = free_chunks + 1
             \/ UNCHANGED <<chunk_head, free_chunks>>
      BY <1>6, <2>3 DEF mempool_free, mempool_free_2
    <3>2. private_chunk[m] # << >> => <<private_chunk[m]>> \o chunk_head \in Seq(Chunks)
      BY DEF TypeOK, Chunks
    <3>3. chunk_head' \in Seq(Chunks)
      BY <3>1, <3>2, Zenon DEF TypeOK
    <3>4. free_chunks' \in Int
      BY <3>1 DEF TypeOK
    <3>5. head' \in [Pools -> Lists] /\ private_chunk' \in [Pools -> Lists]
      BY <2>1, <3>1 DEF TypeOK
    <3>6. used' \subseteq Elems /\ held' \in Int
      BY <3>1 DEF TypeOK
    <3> QED
      BY <3>1, <3>3, <3>4, <3>5, <3>6 DEF TypeOK
  <2> QED
    BY <2>2, <2>3
<1>7. ASSUME NEW m \in Pools, WildAccess(m) PROVE TypeOK'
  BY <1>7 DEF WildAccess, TypeOK, dsvars, poolvars
<1>8. CASE UNCHANGED vars
  BY <1>8 DEF TypeOK, vars, dsvars, poolvars
<1> QED
  BY <1>1, <1>2, <1>3, <1>4, <1>5, <1>6, <1>7, <1>8
  DEF Next, mempool_alloc, mempool_alloc_2

LEMMA TypeInit == Init => TypeOK
<1>1. << >> \in Lists /\ << >> \in Seq(Chunks)
  BY DEF Lists
<1> SUFFICES ASSUME Init PROVE TypeOK
  OBVIOUS
<1>2. head \in [Pools -> Lists] /\ private_chunk \in [Pools -> Lists]
  BY <1>1 DEF Init
<1>3. num_free \in [Pools -> Int] /\ free_chunks \in Int /\ chunk_size \in {0, ChunkSize}
  BY DEF Init
<1> QED
  BY <1>1, <1>2, <1>3, Zenon DEF Init, TypeOK

-----------------------------------------------------------------------------
(* What taking the first element of a list, or putting one before it, does *)
(* to the list and to the others.                                          *)

LEMMA NilSpare == ASSUME NEW U PROVE Spare(<< >>, U)
BY DEF Spare

LEMMA NilApart ==
  ASSUME NEW s \in Lists PROVE Apart(<< >>, s) /\ Apart(s, << >>)
BY DEF Apart

LEMMA ApartSymmetric ==
  ASSUME NEW s \in Lists, NEW t \in Lists, Apart(s, t) PROVE Apart(t, s)
BY DEF Apart, Lists

LEMMA TailSpare ==
  ASSUME NEW U, NEW s \in Lists, s # << >>, Spare(s, U), s[1] # Wild
  PROVE  Spare(Tail(s), U \union {s[1]})
<1>1. /\ Len(Tail(s)) = Len(s) - 1 /\ Len(s) \in Nat \ {0}
      /\ \A i \in 1 .. Len(Tail(s)) : Tail(s)[i] = s[i + 1]
  BY DEF Lists
<1> QED
  BY <1>1 DEF Spare

LEMMA TailApart ==
  ASSUME NEW s \in Lists, s # << >>, NEW t \in Lists, Apart(s, t)
  PROVE  Apart(Tail(s), t) /\ Apart(t, Tail(s))
<1>1. /\ Len(Tail(s)) = Len(s) - 1 /\ Len(s) \in Nat \ {0}
      /\ \A i \in 1 .. Len(Tail(s)) : Tail(s)[i] = s[i + 1]
  BY DEF Lists
<1> QED
  BY <1>1 DEF Apart

LEMMA TakenFromApart ==
  ASSUME NEW U, NEW s \in Lists, s # << >>, s[1] # Wild, NEW t \in Lists,
         Apart(s, t), Spare(t, U)
  PROVE  Spare(t, U \union {s[1]})
<1>1. Len(s) \in Nat \ {0}
  BY DEF Lists
<1> QED
  BY <1>1 DEF Apart, Spare

LEMMA ConsSpare ==
  ASSUME NEW U, NEW s \in Lists, NEW e \in U, e \in Elems, Spare(s, U)
  PROVE  Spare(<<e>> \o s, U \ {e})
<1> DEFINE c == <<e>> \o s
<1>1. /\ Len(c) = Len(s) + 1 /\ Len(s) \in Nat
      /\ c[1] = e /\ \A i \in 2 .. Len(c) : c[i] = s[i - 1] /\ i - 1 \in 1 .. Len(s)
  BY DEF Lists
<1> HIDE DEF c
<1>2. Spare(c, U \ {e})
  BY <1>1, SMTT(30) DEF Spare
<1> QED
  BY <1>2 DEF c

LEMMA ConsApart ==
  ASSUME NEW U, NEW s \in Lists, NEW t \in Lists, NEW e \in U, e \in Elems,
         Spare(t, U), Apart(s, t)
  PROVE  Apart(<<e>> \o s, t) /\ Apart(t, <<e>> \o s)
<1> DEFINE c == <<e>> \o s
<1>1. /\ Len(c) = Len(s) + 1 /\ Len(s) \in Nat
      /\ c[1] = e /\ \A i \in 2 .. Len(c) : c[i] = s[i - 1] /\ i - 1 \in 1 .. Len(s)
  BY DEF Lists
<1> HIDE DEF c
<1>2. ASSUME NEW i \in 1 .. Len(c), NEW j \in 1 .. Len(t), c[i] = t[j]
      PROVE  c[i] = Wild
  <2>1. CASE i = 1
    BY <1>1, <1>2, <2>1 DEF Spare
  <2>2. CASE i # 1
    BY <1>1, <1>2, <2>2 DEF Apart
  <2> QED
    BY <2>1, <2>2
<1>3. Apart(c, t) /\ Apart(t, c)
  BY <1>2 DEF Apart
<1> QED
  BY <1>3 DEF c

\* A smaller set of elements handed out.
LEMMA SpareShrinks ==
  ASSUME NEW U, NEW s \in Lists, NEW e, Spare(s, U) PROVE Spare(s, U \ {e})
BY DEF Spare

-----------------------------------------------------------------------------
(* No element is in two places: one lemma per call.                        *)

LEMMA AliasHead ==
  ASSUME TypeOK, NoAlias, NEW m \in Pools, AllocHead(m)
  PROVE  NoAlias'
<1> DEFINE s == head[m]
<1>1. /\ s \in Lists /\ s # << >> /\ s[1] # Wild
      /\ head' = [head EXCEPT ![m] = Tail(s)]
      /\ used' = used \union {s[1]}
      /\ UNCHANGED <<private_chunk, chunk_head>>
  BY DEF AllocHead, TakeFrom, TypeOK, dsvars
<1>2. Tail(s) \in Lists
  BY <1>1 DEF Lists
<1>3. \A n \in Pools : /\ head[n] \in Lists /\ private_chunk[n] \in Lists
                       /\ head'[n] = IF n = m THEN Tail(s) ELSE head[n]
  BY <1>1 DEF TypeOK
<1>4. \A i \in 1 .. Len(chunk_head) : chunk_head[i] \in Lists
  BY DEF TypeOK, Chunks
<1> HIDE DEF s
<1>5. /\ Spare(s, used)
      /\ \A n \in Pools : Apart(s, private_chunk[n]) /\ (n # m => Apart(s, head[n]))
      /\ \A i \in 1 .. Len(chunk_head) : Apart(s, chunk_head[i])
  BY DEF NoAlias, s
<1>6. Spare(Tail(s), used')
  BY <1>1, <1>5, TailSpare
<1>7. \A n \in Pools : /\ Spare(private_chunk[n], used')
                       /\ Apart(Tail(s), private_chunk[n])
                       /\ n # m => /\ Spare(head[n], used')
                                  /\ Apart(Tail(s), head[n])
                                  /\ Apart(head[n], Tail(s))
  BY <1>1, <1>3, <1>5, TailApart, TakenFromApart DEF NoAlias
<1>8. \A i \in 1 .. Len(chunk_head) : /\ Spare(chunk_head[i], used')
                                     /\ Apart(Tail(s), chunk_head[i])
  BY <1>1, <1>4, <1>5, TailApart, TakenFromApart DEF NoAlias
<1>10. \A n \in Pools : Spare(head'[n], used') /\ Spare(private_chunk'[n], used')
  BY <1>1, <1>3, <1>6, <1>7, Zenon DEF NoAlias
<1>11. \A n, k \in Pools : Apart(head'[n], private_chunk'[k])
  BY <1>1, <1>3, <1>6, <1>7 DEF NoAlias
<1>12. \A n, k \in Pools : n # k => /\ Apart(head'[n], head'[k])
                                  /\ Apart(private_chunk'[n], private_chunk'[k])
  BY <1>1, <1>3, <1>6, <1>7 DEF NoAlias
<1>13. \A i \in 1 .. Len(chunk_head'), n \in Pools :
        Apart(head'[n], chunk_head'[i]) /\ Apart(private_chunk'[n], chunk_head'[i])
  BY <1>1, <1>3, <1>8 DEF NoAlias
<1>14. \A i, j \in 1 .. Len(chunk_head') :
        /\ Spare(chunk_head'[i], used')
        /\ i # j => Apart(chunk_head'[i], chunk_head'[j])
  BY <1>1, <1>8, Zenon DEF NoAlias
<1> QED
  BY <1>10, <1>11, <1>12, <1>13, <1>14 DEF NoAlias

LEMMA AliasPrivate ==
  ASSUME TypeOK, NoAlias, NEW m \in Pools, AllocPrivate(m)
  PROVE  NoAlias'
<1> DEFINE s == private_chunk[m]
<1>1. /\ s \in Lists /\ s # << >> /\ s[1] # Wild
      /\ head' = [head EXCEPT ![m] = Tail(s)]
      /\ private_chunk' = [private_chunk EXCEPT ![m] = << >>]
      /\ used' = used \union {s[1]}
      /\ UNCHANGED chunk_head
  BY DEF AllocPrivate, TakeFrom, TypeOK, dsvars
<1>2. Tail(s) \in Lists
  BY <1>1 DEF Lists
<1>3. \A n \in Pools :
        /\ head[n] \in Lists /\ private_chunk[n] \in Lists
        /\ head'[n] = IF n = m THEN Tail(s) ELSE head[n]
        /\ private_chunk'[n] = IF n = m THEN << >> ELSE private_chunk[n]
  BY <1>1 DEF TypeOK
<1>4. \A i \in 1 .. Len(chunk_head) : chunk_head[i] \in Lists
  BY DEF TypeOK, Chunks
<1> HIDE DEF s
<1>5. /\ Spare(s, used)
      /\ \A n \in Pools : Apart(head[n], s) /\ (n # m => Apart(s, private_chunk[n]))
      /\ \A i \in 1 .. Len(chunk_head) : Apart(s, chunk_head[i])
  BY DEF NoAlias, s
<1>6. Spare(Tail(s), used')
  BY <1>1, <1>5, TailSpare
<1>7. \A n \in Pools : n # m => /\ Spare(private_chunk[n], used')
                                /\ Apart(Tail(s), private_chunk[n])
                                /\ Spare(head[n], used')
                                /\ Apart(Tail(s), head[n])
                                /\ Apart(head[n], Tail(s))
  BY <1>1, <1>3, <1>5, TailApart, TakenFromApart, ApartSymmetric DEF NoAlias
<1>8. \A i \in 1 .. Len(chunk_head) : /\ Spare(chunk_head[i], used')
                                     /\ Apart(Tail(s), chunk_head[i])
  BY <1>1, <1>4, <1>5, TailApart, TakenFromApart DEF NoAlias
<1>10. \A n \in Pools : Spare(head'[n], used') /\ Spare(private_chunk'[n], used')
  BY <1>1, <1>2, <1>3, <1>6, <1>7, NilSpare, NilApart, Zenon DEF NoAlias
<1>11. \A n, k \in Pools : Apart(head'[n], private_chunk'[k])
  BY <1>1, <1>2, <1>3, <1>6, <1>7, NilSpare, NilApart DEF NoAlias
<1>12. \A n, k \in Pools : n # k => /\ Apart(head'[n], head'[k])
                                  /\ Apart(private_chunk'[n], private_chunk'[k])
  BY <1>1, <1>2, <1>3, <1>6, <1>7, NilSpare, NilApart DEF NoAlias
<1>13. \A i \in 1 .. Len(chunk_head'), n \in Pools :
        Apart(head'[n], chunk_head'[i]) /\ Apart(private_chunk'[n], chunk_head'[i])
  BY <1>1, <1>3, <1>4, <1>8, NilApart DEF NoAlias
<1>14. \A i, j \in 1 .. Len(chunk_head') :
        /\ Spare(chunk_head'[i], used')
        /\ i # j => Apart(chunk_head'[i], chunk_head'[j])
  BY <1>1, <1>8, Zenon DEF NoAlias
<1> QED
  BY <1>10, <1>11, <1>12, <1>13, <1>14 DEF NoAlias

LEMMA AliasChunk ==
  ASSUME TypeOK, NoAlias, NEW m \in Pools, AllocChunk(m)
  PROVE  NoAlias'
<1> DEFINE s == chunk_head[1]
<1>1. /\ s[1] # Wild
      /\ head' = [head EXCEPT ![m] = Tail(s)]
      /\ chunk_head' = Tail(chunk_head) /\ chunk_head # << >>
      /\ used' = used \union {s[1]}
      /\ UNCHANGED private_chunk
  BY DEF AllocChunk, TakeFrom
<1>2. /\ Len(chunk_head) \in Nat \ {0} /\ Len(chunk_head') = Len(chunk_head) - 1
      /\ \A i \in 1 .. Len(chunk_head') :
           chunk_head'[i] = chunk_head[i + 1] /\ i + 1 \in 2 .. Len(chunk_head)
      /\ \A i \in 1 .. Len(chunk_head) : chunk_head[i] \in Chunks
  BY <1>1 DEF TypeOK
<1>3. \A n \in Pools : /\ head[n] \in Lists /\ private_chunk[n] \in Lists
                       /\ head'[n] = IF n = m THEN Tail(s) ELSE head[n]
  BY <1>1 DEF TypeOK
<1>4. /\ \A i \in 1 .. Len(chunk_head) : chunk_head[i] \in Lists
      /\ s \in Lists /\ s # << >>
  BY <1>2 DEF Chunks
<1>5. /\ Spare(s, used)
      /\ \A n \in Pools : Apart(head[n], s) /\ Apart(private_chunk[n], s)
      /\ \A i \in 2 .. Len(chunk_head) : Apart(s, chunk_head[i])
  BY <1>2 DEF NoAlias
<1> HIDE DEF s
<1>6. Spare(Tail(s), used')
  BY <1>1, <1>4, <1>5, TailSpare
<1>7. \A n \in Pools : /\ Spare(private_chunk[n], used')
                       /\ Apart(Tail(s), private_chunk[n])
                       /\ Spare(head[n], used')
                       /\ Apart(Tail(s), head[n])
                       /\ Apart(head[n], Tail(s))
  BY <1>1, <1>3, <1>4, <1>5, TailApart, TakenFromApart, ApartSymmetric DEF NoAlias
<1>8. \A i \in 2 .. Len(chunk_head) : /\ Spare(chunk_head[i], used')
                                     /\ Apart(Tail(s), chunk_head[i])
  BY <1>1, <1>2, <1>4, <1>5, TailApart, TakenFromApart DEF NoAlias
<1>10. \A n \in Pools : Spare(head'[n], used') /\ Spare(private_chunk'[n], used')
  BY <1>1, <1>3, <1>6, <1>7, Zenon
<1>11. \A n, k \in Pools : Apart(head'[n], private_chunk'[k])
  BY <1>1, <1>3, <1>7 DEF NoAlias
<1>12. \A n, k \in Pools : n # k => /\ Apart(head'[n], head'[k])
                                  /\ Apart(private_chunk'[n], private_chunk'[k])
  BY <1>1, <1>3, <1>7 DEF NoAlias
<1>13. \A i \in 1 .. Len(chunk_head'), n \in Pools :
        Apart(head'[n], chunk_head'[i]) /\ Apart(private_chunk'[n], chunk_head'[i])
  BY <1>1, <1>2, <1>3, <1>8 DEF NoAlias
<1>14. \A i, j \in 1 .. Len(chunk_head') :
        /\ Spare(chunk_head'[i], used')
        /\ i # j => Apart(chunk_head'[i], chunk_head'[j])
  BY <1>2, <1>8, SMTT(30) DEF NoAlias
<1> QED
  BY <1>10, <1>11, <1>12, <1>13, <1>14 DEF NoAlias

LEMMA AliasFree ==
  ASSUME TypeOK, NoAlias, NEW m \in Pools, NEW e \in Elems,
         mempool_free(m, e), num_free[m] < chunk_size
  PROVE  NoAlias'
<1> DEFINE s == <<e>> \o head[m]
<1>1. /\ e \in used
      /\ head' = [head EXCEPT ![m] = s]
      /\ used' = used \ {e}
      /\ UNCHANGED <<private_chunk, chunk_head>>
  BY DEF mempool_free, dsvars
<1>2. s \in Lists
  BY DEF Lists, TypeOK
<1>3. \A n \in Pools : /\ head[n] \in Lists /\ private_chunk[n] \in Lists
                       /\ head'[n] = IF n = m THEN s ELSE head[n]
  BY <1>1 DEF TypeOK
<1>4. \A i \in 1 .. Len(chunk_head) : chunk_head[i] \in Lists
  BY DEF TypeOK, Chunks
<1>6. Spare(s, used')
  BY <1>1, <1>3, ConsSpare DEF NoAlias
<1>7. \A n \in Pools : /\ Spare(private_chunk[n], used') /\ Spare(head[n], used')
                       /\ Apart(s, private_chunk[n])
                       /\ n # m => Apart(s, head[n]) /\ Apart(head[n], s)
  BY <1>1, <1>3, ConsApart, SpareShrinks, Zenon DEF NoAlias
<1>8. \A i \in 1 .. Len(chunk_head) : /\ Spare(chunk_head[i], used')
                                     /\ Apart(s, chunk_head[i])
  BY <1>1, <1>3, <1>4, ConsApart, SpareShrinks, Zenon DEF NoAlias
<1> HIDE DEF s
<1>10. \A n \in Pools : Spare(head'[n], used') /\ Spare(private_chunk'[n], used')
  BY <1>1, <1>3, <1>6, <1>7
<1>11. \A n, k \in Pools : Apart(head'[n], private_chunk'[k])
  BY <1>1, <1>3, <1>7 DEF NoAlias
<1>12. \A n, k \in Pools : n # k => /\ Apart(head'[n], head'[k])
                                  /\ Apart(private_chunk'[n], private_chunk'[k])
  BY <1>1, <1>3, <1>7 DEF NoAlias
<1>13. \A i \in 1 .. Len(chunk_head'), n \in Pools :
        Apart(head'[n], chunk_head'[i]) /\ Apart(private_chunk'[n], chunk_head'[i])
  BY <1>1, <1>3, <1>8 DEF NoAlias
<1>14. \A i, j \in 1 .. Len(chunk_head') :
        /\ Spare(chunk_head'[i], used')
        /\ i # j => Apart(chunk_head'[i], chunk_head'[j])
  BY <1>1, <1>8, Zenon DEF NoAlias
<1> QED
  BY <1>10, <1>11, <1>12, <1>13, <1>14 DEF NoAlias

LEMMA AliasFree2 ==
  ASSUME TypeOK, NoAlias, NEW m \in Pools, NEW e \in Elems,
         mempool_free(m, e), ~(num_free[m] < chunk_size)
  PROVE  NoAlias'
<1> DEFINE s == <<e>>
           p == private_chunk[m]
<1>1. /\ e \in used
      /\ head' = [head EXCEPT ![m] = s]
      /\ private_chunk' = [private_chunk EXCEPT ![m] = head[m]]
      /\ used' = used \ {e}
      /\ chunk_head' = <<p>> \o chunk_head \/ chunk_head' = chunk_head
  BY DEF mempool_free, mempool_free_2, dsvars
<1>2. \A n \in Pools :
        /\ head[n] \in Lists /\ private_chunk[n] \in Lists
        /\ head'[n] = IF n = m THEN s ELSE head[n]
        /\ private_chunk'[n] = IF n = m THEN head[m] ELSE private_chunk[n]
  BY <1>1 DEF TypeOK
<1>3. Len(chunk_head) \in Nat /\ \A i \in 1 .. Len(chunk_head) : chunk_head[i] \in Lists
  BY DEF TypeOK, Chunks
<1>4. \/ /\ Len(chunk_head') = Len(chunk_head) + 1 /\ chunk_head'[1] = p
         /\ \A i \in 2 .. Len(chunk_head') :
              i - 1 \in 1 .. Len(chunk_head) /\ chunk_head'[i] = chunk_head[i - 1]
      \/ chunk_head' = chunk_head
  BY <1>1, <1>3 DEF TypeOK
<1>5. Spare(s, used')
  BY <1>1 DEF Spare
<1>6. \A t \in Lists : Spare(t, used) => /\ Spare(t, used')
                                         /\ Apart(s, t) /\ Apart(t, s)
  <2> SUFFICES ASSUME NEW t \in Lists, Spare(t, used)
               PROVE  Spare(t, used') /\ Apart(s, t) /\ Apart(t, s)
    OBVIOUS
  <2>1. Spare(t, used')
    BY <1>1, SpareShrinks, Zenon
  <2>2. Apart(s, t) /\ Apart(t, s)
    BY <1>1 DEF Spare, Apart
  <2> QED
    BY <2>1, <2>2
<1>7. \A n \in Pools : /\ Spare(head[n], used') /\ Spare(private_chunk[n], used')
                       /\ Apart(s, head[n]) /\ Apart(head[n], s)
                       /\ Apart(s, private_chunk[n]) /\ Apart(private_chunk[n], s)
  BY <1>2, <1>6 DEF NoAlias
<1>8. \A i \in 1 .. Len(chunk_head) :
        /\ Spare(chunk_head[i], used') /\ Apart(s, chunk_head[i])
        /\ Apart(p, chunk_head[i]) /\ Apart(chunk_head[i], p)
  BY <1>2, <1>3, <1>6, ApartSymmetric DEF NoAlias
<1> HIDE DEF s
<1>9. \A n \in Pools : Apart(head[n], p) /\ (n # m => Apart(private_chunk[n], p))
  BY DEF NoAlias
<1> HIDE DEF p
<1>10. \A n \in Pools : Spare(head'[n], used') /\ Spare(private_chunk'[n], used')
  BY <1>2, <1>5, <1>7
<1>11. \A n, k \in Pools : Apart(head'[n], private_chunk'[k])
  BY <1>2, <1>7 DEF NoAlias
<1>12. \A n, k \in Pools : n # k => /\ Apart(head'[n], head'[k])
                                  /\ Apart(private_chunk'[n], private_chunk'[k])
  BY <1>2, <1>7, ApartSymmetric DEF NoAlias
<1>13. \A i \in 1 .. Len(chunk_head'), n \in Pools :
        Apart(head'[n], chunk_head'[i]) /\ Apart(private_chunk'[n], chunk_head'[i])
  <2>1. \A i \in 1 .. Len(chunk_head') :
          \/ i = 1 /\ chunk_head'[i] = p
          \/ \E k \in 1 .. Len(chunk_head) : chunk_head'[i] = chunk_head[k]
    BY <1>3, <1>4
  <2>2. \A n \in Pools : Apart(head'[n], p) /\ Apart(private_chunk'[n], p)
    BY <1>2, <1>7, <1>9 DEF p
  <2>3. \A n \in Pools, k \in 1 .. Len(chunk_head) :
          Apart(head'[n], chunk_head[k]) /\ Apart(private_chunk'[n], chunk_head[k])
    BY <1>2, <1>8 DEF NoAlias
  <2> QED
    BY <2>1, <2>2, <2>3
<1>14. \A i, j \in 1 .. Len(chunk_head') :
        /\ Spare(chunk_head'[i], used')
        /\ i # j => Apart(chunk_head'[i], chunk_head'[j])
  <2>1. \A i, j \in 1 .. Len(chunk_head) : i # j => Apart(chunk_head[i], chunk_head[j])
    BY DEF NoAlias
  <2>2. CASE chunk_head' = chunk_head
    BY <1>8, <2>1, <2>2
  <2>3. CASE chunk_head' # chunk_head
    <3>1. \A i \in 1 .. Len(chunk_head') :
            \/ i = 1 /\ chunk_head'[i] = p
            \/ i - 1 \in 1 .. Len(chunk_head) /\ chunk_head'[i] = chunk_head[i - 1]
      BY <1>3, <1>4, <2>3
    <3>2. Spare(p, used')
      BY <1>7 DEF p
    <3> QED
      BY <1>8, <2>1, <3>1, <3>2
  <2> QED
    BY <2>2, <2>3
<1> QED
  BY <1>10, <1>11, <1>12, <1>13, <1>14 DEF NoAlias

\* The chunks that mempool_init_buf_with_pages links have no element twice
\* and none in common.
LEMMA InitBufApart ==
  ASSUME NEW t \in [0 .. NrChunks -> Tails]
  PROVE  LET c == mempool_init_buf_with_pages(t) IN
         \A i, j \in 1 .. Len(c) :
           Spare(c[i], {}) /\ (i # j => Apart(c[i], c[j]))
<1> DEFINE f == [i \in 1 .. NrChunks |-> Chunk(NrChunks + 1 - i) \o t[NrChunks + 1 - i]]
           g == IF t[0] = << >> THEN << >> ELSE <<t[0]>>
           c == f \o g
           block(i) == NrChunks + 1 - i
           addr(b, k) == (b - 1) * ChunkSize + k
<1>1. \A b \in 0 .. NrChunks : t[b] = << >> \/ t[b] = <<Wild>>
  BY DEF Tails
<1>2. \A i \in 1 .. NrChunks :
        /\ block(i) \in 1 .. NrChunks /\ Len(f[i]) \in Nat
        /\ \A k \in 1 .. Len(f[i]) :
             \/ k \in 1 .. ChunkSize /\ f[i][k] = addr(block(i), k)
             \/ f[i][k] = Wild
  <2> TAKE i \in 1 .. NrChunks
  <2>1. block(i) \in 1 .. NrChunks
    BY ChunksFit
  <2>2. /\ Chunk(block(i)) \in Seq(Elems) /\ Len(Chunk(block(i))) = ChunkSize
        /\ \A k \in 1 .. ChunkSize : Chunk(block(i))[k] = (block(i) - 1) * ChunkSize + k
    BY <2>1, ChunkIsList, Zenon DEF Chunk
  <2>3. f[i] = Chunk(block(i)) \o t[block(i)]
    BY Zenon
  <2>4. t[block(i)] = << >> \/ t[block(i)] = <<Wild>>
    BY <1>1, <2>1
  <2> HIDE DEF f, block
  <2>5. CASE t[block(i)] = << >>
    BY <2>1, <2>2, <2>3, <2>5, MempoolAssumption
  <2>6. CASE t[block(i)] = <<Wild>>
    BY <2>1, <2>2, <2>3, <2>6, MempoolAssumption, SMTT(30)
  <2> QED
    BY <2>4, <2>5, <2>6
<1>3. f \in Seq(Lists) /\ Len(f) = NrChunks
  <2>1. ASSUME NEW i \in 1 .. NrChunks
        PROVE  Chunk(block(i)) \o t[block(i)] \in Lists
    <3>1. block(i) \in 1 .. NrChunks
      BY ChunksFit
    <3>2. Chunk(block(i)) \in Lists
      BY <3>1, ChunkIsList DEF Lists
    <3>3. << >> \in Lists /\ <<Wild>> \in Lists
      BY DEF Lists
    <3>4. t[block(i)] \in Lists
      BY <1>1, <3>1, <3>3
    <3> HIDE DEF block
    <3> QED
      BY <3>2, <3>4 DEF Lists
  <2> QED
    BY <2>1, ChunksFit
<1>4. \A i \in 1 .. Len(c) :
        \/ i \in 1 .. NrChunks /\ c[i] = f[i]
        \/ i = NrChunks + 1 /\ c[i] = <<Wild>>
  <2>1. g = << >> \/ g = <<<<Wild>>>>
    BY <1>1, ChunksFit
  <2> HIDE DEF f, g
  <2>2. CASE g = << >>
    BY <1>3, <2>2, ChunksFit
  <2>3. CASE g = <<<<Wild>>>>
    BY <1>3, <2>3, ChunksFit
  <2> QED
    BY <2>1, <2>2, <2>3
<1> HIDE DEF f, g, block
<1>5. \A i, j \in 1 .. NrChunks : block(i) = block(j) => i = j
  BY ChunksFit DEF block
<1>6. \A a, b \in 1 .. NrChunks, k, l \in 1 .. ChunkSize :
        /\ addr(a, k) # Wild
        /\ addr(a, k) = addr(b, l) => a = b /\ k = l
  <2> SUFFICES ASSUME NEW a \in 1 .. NrChunks, NEW b \in 1 .. NrChunks,
                      NEW k \in 1 .. ChunkSize, NEW l \in 1 .. ChunkSize
               PROVE  /\ addr(a, k) # Wild
                      /\ addr(a, k) = addr(b, l) => a = b /\ k = l
    OBVIOUS
  <2>1. a \in Int /\ b \in Int /\ k \in Int /\ l \in Int /\ ChunkSize \in Int
    BY ChunksFit, MempoolAssumption
  <2>2. a - 1 >= b => (a - 1) * ChunkSize >= b * ChunkSize
    BY <2>1, TimesMonotone
  <2>3. b - 1 >= a => (b - 1) * ChunkSize >= a * ChunkSize
    BY <2>1, TimesMonotone
  <2>4. (a - 1) * ChunkSize >= 0 * ChunkSize
    BY <2>1, ChunksFit, TimesMonotone
  <2>5. /\ (a - 1) * ChunkSize = a * ChunkSize - ChunkSize
        /\ (b - 1) * ChunkSize = b * ChunkSize - ChunkSize
    BY <2>1
  <2> QED
    BY <2>1, <2>2, <2>3, <2>4, <2>5 DEF Wild
<1> HIDE DEF addr
<1>7. \A i, j \in 1 .. NrChunks :
        Spare(f[i], {}) /\ (i # j => Apart(f[i], f[j]))
  <2> TAKE i, j \in 1 .. NrChunks
  <2>1. \A k, l \in 1 .. Len(f[i]) : f[i][k] = f[i][l] /\ f[i][k] # Wild => k = l
    BY <1>2, <1>6, SMTT(30)
  <2>2. ASSUME i # j, NEW k \in 1 .. Len(f[i]), NEW l \in 1 .. Len(f[j]),
               f[i][k] = f[j][l]
        PROVE  f[i][k] = Wild
    <3>1. block(i) \in 1 .. NrChunks /\ block(j) \in 1 .. NrChunks /\ block(i) # block(j)
      BY <1>2, <1>5, <2>2
    <3>2. \/ k \in 1 .. ChunkSize /\ f[i][k] = addr(block(i), k)
          \/ f[i][k] = Wild
      BY <1>2
    <3>3. \/ l \in 1 .. ChunkSize /\ f[j][l] = addr(block(j), l)
          \/ f[j][l] = Wild
      BY <1>2
    <3> QED
      BY <1>6, <2>2, <3>1, <3>2, <3>3
  <2> QED
    BY <2>1, <2>2 DEF Spare, Apart
<1>8. \A i \in 1 .. NrChunks : Apart(f[i], <<Wild>>) /\ Apart(<<Wild>>, f[i])
  BY <1>2, <1>6 DEF Apart
<1>9. Spare(<<Wild>>, {})
  BY DEF Spare
<1>10. \A i, j \in 1 .. Len(c) : Spare(c[i], {}) /\ (i # j => Apart(c[i], c[j]))
  BY <1>4, <1>7, <1>8, <1>9, ChunksFit, Zenon
<1> QED
  BY <1>10, Zenon DEF mempool_init_buf_with_pages, f, g, block

-----------------------------------------------------------------------------
(* The theorems.                                                           *)

\* Before the datastore is set up nothing is anywhere; num_free stays below
\* the chunk size; no element is in two places.
IInv ==
  /\ TypeOK
  /\ ~ds_magic => /\ magic = {} /\ used = {}
                  /\ \A m \in Pools : head[m] = << >> /\ private_chunk[m] = << >>
  /\ ds_magic \/ chunk_size = 0
  /\ NumFreeBound
  /\ NoAlias

LEMMA AliasCreateDatastore ==
  ASSUME IInv, mempool_create_datastore PROVE NoAlias'
<1>1. CASE UNCHANGED chunk_head
  BY <1>1, SMTT(30) DEF mempool_create_datastore, IInv, NoAlias, poolvars
<1>2. CASE \E t \in [0 .. NrChunks -> Tails] :
             chunk_head' = mempool_init_buf_with_pages(t)
  <2>1. /\ UNCHANGED <<head, private_chunk, used>>
        /\ used = {} /\ \A m \in Pools : head[m] = << >> /\ private_chunk[m] = << >>
    BY DEF mempool_create_datastore, IInv, poolvars
  <2>2. \A i, j \in 1 .. Len(chunk_head') :
          Spare(chunk_head'[i], {}) /\ (i # j => Apart(chunk_head'[i], chunk_head'[j]))
    BY <1>2, InitBufApart
  <2>3. \A i \in 1 .. Len(chunk_head') : chunk_head'[i] \in Lists
    BY <1>2, InitBufType DEF Chunks
  <2>4. << >> \in Lists
    BY DEF Lists
  <2> QED
    BY <2>1, <2>2, <2>3, <2>4, NilSpare, NilApart DEF NoAlias
<1> QED
  BY <1>1, <1>2 DEF mempool_create_datastore

LEMMA AliasCreate ==
  ASSUME TypeOK, NoAlias, NEW m \in Pools, mempool_create(m) PROVE NoAlias'
<1>1. /\ \A n \in Pools : /\ head[n] \in Lists /\ private_chunk[n] \in Lists
                          /\ head'[n] = IF n = m THEN << >> ELSE head[n]
      /\ \A i \in 1 .. Len(chunk_head) : chunk_head[i] \in Lists
      /\ UNCHANGED <<private_chunk, chunk_head, used>>
  BY DEF mempool_create, TypeOK, dsvars, Chunks
<1>2. \A n \in Pools : Spare(head'[n], used')
  BY <1>1, NilSpare DEF NoAlias
<1>3. \A n, k \in Pools : /\ Apart(head'[n], private_chunk'[k])
                          /\ n # k => Apart(head'[n], head'[k])
  BY <1>1, NilApart DEF NoAlias
<1>4. \A n \in Pools, i \in 1 .. Len(chunk_head) : Apart(head'[n], chunk_head[i])
  BY <1>1, NilApart DEF NoAlias
<1> QED
  BY <1>1, <1>2, <1>3, <1>4 DEF NoAlias

LEMMA NumFreeStep == IInv /\ Next => NumFreeBound'
<1> SUFFICES ASSUME IInv, Next PROVE NumFreeBound'
  OBVIOUS
<1> USE DEF IInv, TypeOK, NumFreeBound
<1>1. CASE mempool_create_datastore
  BY <1>1, MempoolAssumption DEF mempool_create_datastore, poolvars
<1>2. ASSUME NEW m \in Pools, mempool_create(m) \/ WildAccess(m) PROVE NumFreeBound'
  BY <1>2 DEF mempool_create, WildAccess, dsvars, poolvars
<1>3. ASSUME NEW m \in Pools, mempool_alloc(m) PROVE NumFreeBound'
  BY <1>3, MempoolAssumption DEF mempool_alloc, mempool_alloc_2, AllocHead, AllocPrivate, AllocChunk, dsvars
<1>4. ASSUME NEW m \in Pools, NEW e \in Elems, mempool_free(m, e) PROVE NumFreeBound'
  <2>1. chunk_size \in Int /\ chunk_size' = chunk_size
    BY <1>4, MempoolAssumption DEF mempool_free, mempool_free_2, dsvars
  <2>2. CASE num_free[m] < chunk_size
    <3>1. num_free' = [num_free EXCEPT ![m] = num_free[m] + 1]
      BY <1>4, <2>2 DEF mempool_free
    <3> QED
      BY <2>1, <2>2, <3>1
  <2>3. CASE ~(num_free[m] < chunk_size)
    <3>1. num_free' = num_free
      BY <1>4, <2>3 DEF mempool_free, mempool_free_2
    <3> QED
      BY <2>1, <3>1
  <2> QED
    BY <2>2, <2>3
<1> QED
  BY <1>1, <1>2, <1>3, <1>4 DEF Next

LEMMA IInvStep == IInv /\ [Next]_vars => IInv'
<1> SUFFICES ASSUME IInv, [Next]_vars PROVE IInv'
  OBVIOUS
<1>1. TypeOK /\ TypeOK'
  BY TypeStep DEF IInv
<1>2. NumFreeBound'
  BY NumFreeStep DEF IInv, NumFreeBound, vars, poolvars, dsvars
<1>3. ds_magic' \/ chunk_size' = 0
  BY Zenon DEF IInv, Next, vars, dsvars, mempool_create_datastore, mempool_create, mempool_alloc,
         mempool_alloc_2, AllocHead, AllocPrivate, AllocChunk, mempool_free, mempool_free_2,
         WildAccess
<1>4. ~ds_magic' => UNCHANGED vars
  BY Zenon DEF IInv, Next, vars, dsvars, mempool_create_datastore, mempool_create, mempool_alloc,
         mempool_alloc_2, AllocHead, AllocPrivate, AllocChunk, mempool_free, mempool_free_2,
         WildAccess
<1>5. ~ds_magic' => /\ magic' = {} /\ used' = {}
                    /\ \A m \in Pools : head'[m] = << >> /\ private_chunk'[m] = << >>
  BY <1>4 DEF IInv, vars, dsvars, poolvars
<1>6. NoAlias'
  <2>1. ASSUME NEW m \in Pools, mempool_alloc(m) PROVE NoAlias'
    BY <1>1, <2>1, AliasHead, AliasPrivate, AliasChunk DEF IInv, mempool_alloc, mempool_alloc_2
  <2>2. ASSUME NEW m \in Pools, NEW e \in Elems, mempool_free(m, e) PROVE NoAlias'
    BY <1>1, <2>2, AliasFree, AliasFree2 DEF IInv
  <2>3. ASSUME NEW m \in Pools, WildAccess(m) PROVE NoAlias'
    BY <2>3, SMTT(30) DEF IInv, NoAlias, WildAccess, dsvars, poolvars
  <2>4. CASE UNCHANGED vars
    BY <2>4 DEF IInv, NoAlias, vars, dsvars, poolvars
  <2> QED
    BY <1>1, <2>1, <2>2, <2>3, <2>4, AliasCreateDatastore, AliasCreate DEF Next, IInv
<1> QED
  BY <1>1, <1>2, <1>3, <1>5, <1>6 DEF IInv

LEMMA IInvInit == Init => IInv
<1> SUFFICES ASSUME Init PROVE IInv
  OBVIOUS
<1>1. TypeOK
  BY TypeInit
<1>2. NumFreeBound
  BY DEF Init, NumFreeBound
<1>3. NoAlias
  <2>1. << >> \in Lists
    BY DEF Lists
  <2>2. Len(chunk_head) = 0
    BY DEF Init
  <2> QED
    BY <2>1, <2>2, NilSpare, NilApart DEF Init, NoAlias
<1> QED
  BY <1>1, <1>2, <1>3 DEF Init, IInv

\* Every reachable state is well typed: in particular the elements handed
\* out are elements of the pages.
THEOREM TypeCorrect == Spec => []TypeOK
BY TypeInit, TypeStep, PTL DEF Spec

LEMMA Invariance == Spec => []IInv
BY IInvInit, IInvStep, PTL DEF Spec

\* The BUG_ON of mempool_free_2 never fires, for any number of pools.
THEOREM NumFreeBounded == Spec => []NumFreeBound
<1>1. IInv => NumFreeBound
  BY DEF IInv
<1> QED
  BY <1>1, Invariance, PTL

\* However elements wander between the pools' lists, their private chunks and
\* the datastore, none is ever in two places.
THEOREM NeverAliased == Spec => []NoAlias
<1>1. IInv => NoAlias
  BY DEF IInv
<1> QED
  BY <1>1, Invariance, PTL

-----------------------------------------------------------------------------
(* Refinement.                                                             *)

\* The element a list starts with can be handed out.
LEMMA FirstIsFree ==
  ASSUME NEW s \in Lists, s # << >>, s[1] # Wild, Spare(s, used)
  PROVE  s[1] \in Elems \ used
<1>1. 1 \in 1 .. Len(s) /\ s[1] \in Elems \union {Wild}
  BY DEF Lists
<1> QED
  BY <1>1 DEF Spare

LEMMA StepRefines == IInv /\ [Next]_vars => [Pool!Next]_<<used, held>>
<1> SUFFICES ASSUME IInv, [Next]_vars PROVE [Pool!Next]_<<used, held>>
  OBVIOUS
<1>1. ASSUME NEW m \in Pools, mempool_alloc(m) PROVE Pool!Alloc
  <2>1. PICK s \in Lists : s # << >> /\ Spare(s, used) /\ TakeFrom(m, s)
    <3>1. CASE AllocHead(m)
      BY <3>1 DEF AllocHead, IInv, TypeOK, NoAlias
    <3>2. CASE AllocPrivate(m)
      BY <3>2 DEF AllocPrivate, IInv, TypeOK, NoAlias
    <3>3. CASE AllocChunk(m)
      <4>1. 1 \in 1 .. Len(chunk_head) /\ chunk_head[1] \in Chunks
        BY <3>3 DEF AllocChunk, IInv, TypeOK
      <4>2. chunk_head[1] \in Lists /\ chunk_head[1] # << >>
        BY <4>1 DEF Chunks
      <4> QED
        BY <3>3, <4>1, <4>2, SMTT(30) DEF AllocChunk, IInv, NoAlias
    <3> QED
      BY <1>1, <3>1, <3>2, <3>3 DEF mempool_alloc, mempool_alloc_2
  <2>2. s[1] \in Elems \ used /\ used' = used \union {s[1]} /\ held' = held + 1
    BY <2>1, FirstIsFree DEF TakeFrom
  <2> QED
    BY <2>2 DEF Pool!Alloc
<1>2. ASSUME NEW m \in Pools, NEW e \in Elems, mempool_free(m, e) PROVE Pool!Free
  BY <1>2 DEF mempool_free, Pool!Free
<1>3. ASSUME NEW m \in Pools, mempool_create(m) \/ WildAccess(m) PROVE UNCHANGED <<used, held>>
  BY <1>3 DEF mempool_create, WildAccess
<1>4. mempool_create_datastore => UNCHANGED <<used, held>>
  BY DEF mempool_create_datastore
<1> QED
  BY <1>1, <1>2, <1>3, <1>4 DEF Next, vars, Pool!Next

\* Mempools on a shared datastore implement an allocator: what is handed out
\* was free, and nothing is handed out twice.
THEOREM RefinesAllocator == Spec => ImplementsAllocator
<1>1. Init => Pool!Init
  BY DEF Init, Pool!Init
<1> QED
  BY <1>1, StepRefines, Invariance, PTL DEF Spec, ImplementsAllocator, Pool!Spec
=============================================================================
