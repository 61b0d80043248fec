------------------------------- MODULE Mempool -------------------------------
(***************************************************************************)
(* The memory pools of network/baseline/shinjuku/mempool.c: mempools that  *)
(* share one datastore.  A free list is the sequence of the elements that  *)
(* the next pointers link, << >> being NULL; the datastore's chunk list is *)
(* the sequence of the free lists that the next_chunk pointers link.       *)
(*                                                                         *)
(* A mempool belongs to one core and the datastore's fields are only used  *)
(* under its spin lock, once per call, so a call is one step.              *)
(***************************************************************************)
EXTENDS Integers, Sequences, Functions

CONSTANTS
  Pools,          \* the mempools created on the datastore
  NrElems,        \* how many elements are laid out in the datastore's pages
  ChunkSize,      \* elements per chunk
  ZeroedPages,    \* does alloc_pages, called without __GFP_ZERO, return zeros?
  MaxDrift        \* bound: how far num_free may fall below zero

ASSUME MempoolAssumption ==
  /\ NrElems \in Nat
  /\ ChunkSize \in Nat \ {0}
  /\ ZeroedPages \in BOOLEAN
  /\ MaxDrift \in Nat

VARIABLES
  (* struct mempool_datastore *)
  ds_magic,       \* has mempool_create_datastore got past its checks?
  chunk_size,     \* 0 until the pages are there; mempool_create copies it
  chunk_head,     \* the chunks of the datastore
  free_chunks,    \* their number, as the code counts it
  (* struct mempool *)
  magic,          \* the pools that mempool_create has initialised
  head,           \* free list
  private_chunk,  \* the chunk kept back, << >> if none
  num_free,       \* free elements, as the code counts them
  (* callers *)
  used,           \* the elements that were handed out and not freed
  held,           \* how many allocations were not freed, by the callers' count
  fault           \* has a wild pointer been dereferenced?

dsvars == <<ds_magic, chunk_size, chunk_head, free_chunks>>
poolvars == <<magic, head, private_chunk, num_free>>
vars == <<dsvars, poolvars, used, held, fault>>

Elems == 1 .. NrElems
Wild == 0                   \* an address that is no element of the pages
Lists == Seq(Elems \union {Wild})
Chunks == Lists \ {<< >>}

NrChunks == NrElems \div ChunkSize

\* What the last element of a chunk has in its next field, which
\* mempool_init_buf_with_pages never writes.
Tails == {<< >>} \union (IF ZeroedPages THEN {} ELSE {<<Wild>>})

\* Mutant: the page's first slot is skipped.
Chunk_skips_first(b) == [k \in 1 .. ChunkSize |-> (b - 1) * ChunkSize + k + 2]

\* The elements of the b-th chunk, in address order.
Chunk(b) == [k \in 1 .. ChunkSize |-> (b - 1) * ChunkSize + k]

\* Each finished chunk is pushed on chunk_head, so the last one comes first;
\* the elements that do not fill a chunk are on no list.  t[b] ends chunk b
\* and t[0] ends the list of chunks.
mempool_init_buf_with_pages(t) ==
  [i \in 1 .. NrChunks |-> Chunk(NrChunks + 1 - i) \o t[NrChunks + 1 - i]]
    \o (IF t[0] = << >> THEN << >> ELSE <<t[0]>>)

Init ==
  /\ ds_magic = FALSE /\ chunk_size = 0 /\ chunk_head = << >> /\ free_chunks = 0
  /\ magic = {} /\ used = {} /\ held = 0 /\ fault = FALSE
  /\ head = [m \in Pools |-> << >>]
  /\ private_chunk = [m \in Pools |-> << >>]
  /\ num_free = [m \in Pools |-> 0]

-----------------------------------------------------------------------------
(* Set-up.  When alloc_pages fails the magic number stays behind and the   *)
(* datastore can be used, empty.                                           *)

mempool_create_datastore ==
  /\ ~fault /\ ~ds_magic                              \* BUG_ON(mds->magic != 0)
  /\ ds_magic' = TRUE
  /\ \/ UNCHANGED <<chunk_size, chunk_head, free_chunks>>           \* -ENOMEM
     \/ /\ chunk_size' = ChunkSize
        /\ free_chunks' = NrChunks
        /\ \E t \in [0 .. NrChunks -> Tails] :
             chunk_head' = mempool_init_buf_with_pages(t)
  /\ UNCHANGED <<poolvars, used, held, fault>>

mempool_create(m) ==
  /\ ~fault /\ ds_magic /\ m \notin magic             \* panics otherwise
  /\ magic' = magic \union {m}
  /\ head' = [head EXCEPT ![m] = << >>]
  /\ UNCHANGED <<dsvars, private_chunk, num_free, used, held, fault>>

-----------------------------------------------------------------------------
(* Allocation.                                                             *)

\* The list an allocation looks at: head, else private_chunk, else the first
\* chunk of the datastore; << >> when there is none and NULL is returned.
FirstList(m) ==
  IF head[m] # << >> THEN head[m]
  ELSE IF private_chunk[m] # << >> THEN private_chunk[m]
  ELSE IF chunk_head # << >> THEN chunk_head[1] ELSE << >>

\* h = list; the caller gets h and m->head = h->next.
TakeFrom(m, list) ==
  /\ list[1] # Wild
  /\ head' = [head EXCEPT ![m] = Tail(list)]
  /\ used' = used \union {list[1]}
  /\ held' = held + 1
  /\ UNCHANGED fault

AllocHead(m) ==
  /\ head[m] # << >>
  /\ num_free[m] > -MaxDrift
  /\ TakeFrom(m, head[m])
  /\ num_free' = [num_free EXCEPT ![m] = @ - 1]
  /\ UNCHANGED <<dsvars, magic, private_chunk>>

\* Mutant: the private chunk is not given up.
AllocPrivate_keeps_chunk(m) ==
  /\ head[m] = << >>
  /\ private_chunk[m] # << >>
  /\ TakeFrom(m, private_chunk[m])
  /\ UNCHANGED <<dsvars, magic, private_chunk, num_free>>

\* num_free is left alone although the list grows.
AllocPrivate(m) ==
  /\ head[m] = << >>
  /\ private_chunk[m] # << >>
  /\ TakeFrom(m, private_chunk[m])
  /\ private_chunk' = [private_chunk EXCEPT ![m] = << >>]
  /\ UNCHANGED <<dsvars, magic, num_free>>

\* Mutant: the chunk stays on the datastore's list.
AllocChunk_keeps_chunk(m) ==
  /\ head[m] = << >>
  /\ private_chunk[m] = << >>
  /\ chunk_head # << >>
  /\ TakeFrom(m, chunk_head[1])
  /\ free_chunks' = free_chunks - 1
  /\ UNCHANGED <<ds_magic, chunk_size, chunk_head, magic, private_chunk, num_free>>

AllocChunk(m) ==
  /\ head[m] = << >>
  /\ private_chunk[m] = << >>
  /\ chunk_head # << >>
  /\ TakeFrom(m, chunk_head[1])
  /\ chunk_head' = Tail(chunk_head)
  /\ free_chunks' = free_chunks - 1
  /\ UNCHANGED <<ds_magic, chunk_size, magic, private_chunk, num_free>>

mempool_alloc_2(m) == AllocPrivate(m) \/ AllocChunk(m)  \* else returns NULL

mempool_alloc(m) == ~fault /\ m \in magic /\ (AllocHead(m) \/ mempool_alloc_2(m))

-----------------------------------------------------------------------------
(* Freeing.                                                                *)

\* Mutant: the old private chunk is overwritten, not returned.
mempool_free_2_drops_chunk(m, e) ==
  /\ private_chunk[m] # << >> => private_chunk[m][1] # Wild
  /\ private_chunk' = [private_chunk EXCEPT ![m] = head[m]]
  /\ head' = [head EXCEPT ![m] = <<e>>]
  /\ UNCHANGED <<dsvars, num_free>>

\* Mutant: a chunk is counted although there was none to return.
mempool_free_2_always_counts(m, e) ==
  /\ private_chunk[m] # << >> => private_chunk[m][1] # Wild
  /\ chunk_head' = (IF private_chunk[m] # << >>
                    THEN <<private_chunk[m]>> ELSE << >>) \o chunk_head
  /\ free_chunks' = free_chunks + 1
  /\ private_chunk' = [private_chunk EXCEPT ![m] = head[m]]
  /\ head' = [head EXCEPT ![m] = <<e>>]
  /\ UNCHANGED <<ds_magic, chunk_size, num_free>>

\* The list in head becomes the private chunk, and a private chunk that was
\* there goes to the datastore.
mempool_free_2(m, e) ==
  /\ private_chunk[m] # << >> => private_chunk[m][1] # Wild
  /\ IF private_chunk[m] # << >>
     THEN /\ chunk_head' = <<private_chunk[m]>> \o chunk_head
          /\ free_chunks' = free_chunks + 1
     ELSE UNCHANGED <<chunk_head, free_chunks>>
  /\ private_chunk' = [private_chunk EXCEPT ![m] = head[m]]
  /\ head' = [head EXCEPT ![m] = <<e>>]
  /\ UNCHANGED <<ds_magic, chunk_size, num_free>>

\* Mutant: off by one, the list may hold chunk_size + 1 elements.
mempool_free_off_by_one(m, e) ==
  /\ ~fault /\ m \in magic /\ e \in used
  /\ used' = used \ {e}
  /\ held' = held - 1
  /\ IF num_free[m] <= chunk_size
     THEN /\ num_free' = [num_free EXCEPT ![m] = @ + 1]
          /\ head' = [head EXCEPT ![m] = <<e>> \o @]
          /\ UNCHANGED <<dsvars, private_chunk>>
     ELSE mempool_free_2(m, e)
  /\ UNCHANGED <<magic, fault>>

mempool_free(m, e) ==
  /\ ~fault /\ m \in magic /\ e \in used
  /\ used' = used \ {e}
  /\ held' = held - 1
  /\ IF num_free[m] < chunk_size
     THEN /\ num_free' = [num_free EXCEPT ![m] = @ + 1]
          /\ head' = [head EXCEPT ![m] = <<e>> \o @]
          /\ UNCHANGED <<dsvars, private_chunk>>
     ELSE mempool_free_2(m, e)
  /\ UNCHANGED <<magic, fault>>

-----------------------------------------------------------------------------
\* An allocation reads, or mempool_free_2 writes, a field of the wild pointer
\* that a chunk ended in, which stops the kernel thread that runs it.
WildAccess(m) ==
  /\ ~fault /\ m \in magic
  /\ \/ FirstList(m) # << >> /\ FirstList(m)[1] = Wild
     \/ /\ used # {} /\ num_free[m] >= chunk_size
        /\ private_chunk[m] # << >> /\ private_chunk[m][1] = Wild
  /\ fault' = TRUE
  /\ UNCHANGED <<dsvars, poolvars, used, held>>

Next ==
  \/ mempool_create_datastore
  \/ \E m \in Pools :
       \/ mempool_create(m)
       \/ mempool_alloc(m)
       \/ \E e \in Elems : mempool_free(m, e)
       \/ WildAccess(m)

Spec == Init /\ [][Next]_vars

-----------------------------------------------------------------------------
(* Properties.                                                             *)

TypeOK ==
  /\ ds_magic \in BOOLEAN /\ fault \in BOOLEAN
  /\ chunk_size \in {0, ChunkSize}
  /\ chunk_head \in Seq(Chunks)
  /\ free_chunks \in Int
  /\ magic \subseteq Pools
  /\ head \in [Pools -> Lists]
  /\ private_chunk \in [Pools -> Lists]
  /\ num_free \in [Pools -> Int]
  /\ used \subseteq Elems
  /\ held \in Int

\* mempool_free_2's BUG_ON(m->num_free != m->chunk_size) cannot fire: it is
\* called when num_free is not below chunk_size, and num_free, although it
\* is not what its name says, never gets above.
NumFreeBound == \A m \in Pools : num_free[m] <= chunk_size

\* No element of s is there twice or in U, and none is both in s and in t;
\* the wild pointer is no element.
Spare(s, U) ==
  \A i \in 1 .. Len(s) :
    /\ s[i] \notin U
    /\ \A j \in 1 .. Len(s) : s[i] = s[j] /\ s[i] # Wild => i = j

Apart(s, t) ==
  \A i \in 1 .. Len(s), j \in 1 .. Len(t) : s[i] = t[j] => s[i] = Wild

\* No element is in two places of the free lists of all pools and chunks, or
\* twice in one, and none that is handed out is on a list: so no allocation
\* returns an element that somebody holds.
NoAlias ==
  /\ \A m \in Pools : Spare(head[m], used) /\ Spare(private_chunk[m], used)
  /\ \A m, n \in Pools :
       /\ Apart(head[m], private_chunk[n])
       /\ m # n => /\ Apart(head[m], head[n])
                  /\ Apart(private_chunk[m], private_chunk[n])
  /\ \A i \in 1 .. Len(chunk_head) : Spare(chunk_head[i], used)
  /\ \A i \in 1 .. Len(chunk_head), m \in Pools :
       Apart(head[m], chunk_head[i]) /\ Apart(private_chunk[m], chunk_head[i])
  /\ \A i, j \in 1 .. Len(chunk_head) :
       i # j => Apart(chunk_head[i], chunk_head[j])

\* No element that was laid out in a chunk gets lost, whatever the pools do
\* with their chunks: it is handed out or on a list.
NoLeak ==
  chunk_size # 0 =>
    \A e \in 1 .. NrChunks * ChunkSize :
      \/ e \in used
      \/ \E m \in Pools : e \in Range(head[m]) \union Range(private_chunk[m])
      \/ \E i \in 1 .. Len(chunk_head) : e \in Range(chunk_head[i])

\* free_chunks counts the datastore's chunks (the wild pointer at the end of
\* the list, when there is one, is not counted).
FreeChunksExact ==
  free_chunks = Len(SelectSeq(chunk_head, LAMBDA c : c # <<Wild>>))

\* The pools are an allocator: no element is handed out twice, and freeing
\* makes it available again.
Pool == INSTANCE Allocator
ImplementsAllocator == Pool!Spec
=============================================================================
