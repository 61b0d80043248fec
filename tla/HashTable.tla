----------------------------- MODULE HashTable ------------------------------
(***************************************************************************)
(* The hash table of network/baseline/linux/user_mode (hash.c): buckets    *)
(* with a lock each and one entry at most, which put makes when it finds   *)
(* none and overwrites otherwise, whatever the key.  The operators are the *)
(* steps of put and get; h is the thread that takes them.                  *)
(*                                                                         *)
(* A value is the pair of the put that stored it and its key, so that a    *)
(* value can be compared with the key beside it.                           *)
(*                                                                         *)
(* The steps are those on a table that is there.  After hash_free the same *)
(* code locks a freed mutex and may write through NULL: see UseFreed.      *)
(***************************************************************************)
EXTENDS Integers

CONSTANTS Buckets, Keys, hash, None

ASSUME HashAssumption == hash \in [Keys -> Buckets]

VARIABLES
  lock,        \* the holder of each bucket's lock, or None
  entries,     \* the entry of each bucket, or None
  allocated,   \* history: how many entries put has made for each bucket
  table,       \* "live" or "freed"
  fault        \* has a thread used the table after hash_free?

tablevars == <<lock, entries, allocated, table, fault>>

hash_init ==
  /\ lock = [b \in Buckets |-> None]
  /\ entries = [b \in Buckets |-> None]
  /\ allocated = [b \in Buckets |-> 0]
  /\ table = "live" /\ fault = FALSE

Live == table = "live" /\ UNCHANGED <<table, fault>>

\* A step of put or get after hash_free: what the thread does then is undefined.
UseFreed ==
  /\ table = "freed"
  /\ fault' = TRUE
  /\ UNCHANGED <<lock, entries, allocated, table>>

\* Mutant: the lock is not waited for.
pthread_mutex_lock_always(b, h) ==
  /\ Live
  /\ lock' = [lock EXCEPT ![b] = h]
  /\ UNCHANGED <<entries, allocated>>

pthread_mutex_lock(b, h) ==
  /\ Live
  /\ lock[b] = None
  /\ lock' = [lock EXCEPT ![b] = h]
  /\ UNCHANGED <<entries, allocated>>

pthread_mutex_unlock(b) ==
  /\ Live
  /\ lock' = [lock EXCEPT ![b] = None]
  /\ UNCHANGED <<entries, allocated>>

\* put: is there an entry?
FindEntry(b, found) ==
  /\ Live
  /\ found = (entries[b] # None)
  /\ UNCHANGED <<lock, entries, allocated>>

\* put: the entry that was missing is made.
NewEntry(b) ==
  /\ Live
  /\ entries' = [entries EXCEPT ![b] = [key |-> None, value |-> None]]
  /\ allocated' = [allocated EXCEPT ![b] = @ + 1]
  /\ UNCHANGED lock

\* put: strncpy of the key, then of the value.
WriteKey(b, k) ==
  /\ Live
  /\ entries' = [entries EXCEPT ![b].key = k]
  /\ UNCHANGED <<lock, allocated>>

WriteValue(b, v) ==
  /\ Live
  /\ entries' = [entries EXCEPT ![b].value = v]
  /\ UNCHANGED <<lock, allocated>>

\* Mutant: the early return of get keeps the lock.
get_keeps_lock(b) ==
  /\ Live
  /\ lock' = IF entries[b] = None THEN lock ELSE [lock EXCEPT ![b] = None]
  /\ UNCHANGED <<entries, allocated>>

\* get under the lock: both ways out of it unlock.  The value is copied to a
\* local variable that nobody reads.
get(b) ==
  /\ Live
  /\ lock' = [lock EXCEPT ![b] = None]
  /\ UNCHANGED <<entries, allocated>>

\* The entries are freed and unlinked, and the locks freed.
hash_free ==
  /\ table' = "freed"
  /\ entries' = [b \in Buckets |-> None]
  /\ UNCHANGED <<lock, allocated, fault>>
=============================================================================
