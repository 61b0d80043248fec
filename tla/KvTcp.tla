------------------------------- MODULE KvTcp --------------------------------
(***************************************************************************)
(* The TCP key-value client and server of network/baseline/linux/user_mode *)
(* (client.c, server.c) over the hash table.  The client process starts    *)
(* its threads, which connect, send req_nums random requests and an Exit,  *)
(* waiting for a reply to each, and append their latencies to lat.  The    *)
(* server accepts NUM_SERVERS connections and serves each with a thread;   *)
(* it then joins the threads and frees the table, and does so without      *)
(* joining them if accept fails.                                           *)
(*                                                                         *)
(* A request is smaller than a TCP segment and the client sends one at a   *)
(* time, so that recv returns whole requests.  When a process ends its     *)
(* connections are closed; what is sent to a closed end is lost or kills   *)
(* the sender (SIGPIPE).  Connections may also break, and either process   *)
(* may fail to make a thread.                                              *)
(***************************************************************************)
EXTENDS HashTable, FiniteSets

CONSTANTS
  Clients,       \* the client's threads
  ReqNums,       \* what the command line may ask of each, besides the Exit
  NUM_SERVERS,   \* connections the server accepts, and the places in args
  MAX_REQ_PER_THREAD

\* More threads than NUM_SERVERS would not fit the arrays of the client's main.
ASSUME KvTcpAssumption ==
  /\ IsFiniteSet(Clients) /\ None \notin Clients
  /\ ReqNums \subseteq Nat /\ NUM_SERVERS \in Nat \ {0} /\ MAX_REQ_PER_THREAD \in Nat
  /\ Cardinality(Clients) <= NUM_SERVERS

VARIABLES
  conn,          \* "none", "backlog", "open" or "shut" (by the server's end)
  toServer,      \* the request in each connection, or None
  toClient,      \* is a reply in the connection?
  req_nums,      \* how many requests each client thread makes
  cmain, cpc,    \* where the client's main and threads are
  i,             \* the request each client thread is at
  clientLock,    \* the holder of client.c's lock, or None
  n,             \* the value of numbers each client thread has read
  numbers, lat,  \* the latencies collected: lat[j] is <<thread, request>>
  overrun,       \* has a thread written behind the end of lat?
  smain,         \* where the server's main is
  spc, rpc,      \* where each server thread is, and its request
  acceptFailed

netvars == <<conn, toServer, toClient>>
latvars == <<req_nums, clientLock, n, numbers, lat, overrun>>
clientvars == <<cmain, cpc, i, latvars>>
servervars == <<smain, spc, rpc, acceptFailed>>
vars == <<tablevars, netvars, clientvars, servervars>>

LatSize == NUM_SERVERS * MAX_REQ_PER_THREAD

Init ==
  /\ hash_init
  /\ conn = [c \in Clients |-> "none"]
  /\ toServer = [c \in Clients |-> None] /\ toClient = [c \in Clients |-> FALSE]
  /\ req_nums \in ReqNums
  /\ cmain = "main" /\ cpc = [c \in Clients |-> "none"]
  /\ i = [c \in Clients |-> 0]
  /\ clientLock = None /\ n = [c \in Clients |-> 0]
  /\ numbers = 0 /\ lat = [j \in 0 .. LatSize - 1 |-> None] /\ overrun = FALSE
  /\ smain = "accept" /\ acceptFailed = FALSE
  /\ spc = [c \in Clients |-> "none"] /\ rpc = [c \in Clients |-> None]

ServerUp == smain \notin {"exited", "killed"}
Accepted == {c \in Clients : spc[c] # "none"}
Unserved == {c \in Clients : spc[c] = "unserved"}

-----------------------------------------------------------------------------
(* client.c *)

ToCreate == {c \in Clients : cpc[c] = "none"}

\* main makes the threads; if it cannot, it returns and they end with it.
pthread_create ==
  /\ cmain = "main" /\ ToCreate # {}
  /\ cpc' = [cpc EXCEPT ![CHOOSE c \in ToCreate : TRUE] = "connect"]
  /\ UNCHANGED <<tablevars, netvars, cmain, i, latvars, servervars>>

CreateFails ==
  /\ cmain = "main" /\ ToCreate # {}
  /\ cmain' = "failed"
  /\ UNCHANGED <<tablevars, netvars, cpc, i, latvars, servervars>>

\* A failed connect ends the thread without latencies.
connect(c) ==
  /\ cpc[c] = "connect"
  /\ \/ /\ ServerUp
        /\ conn' = [conn EXCEPT ![c] = "backlog"]
        /\ cpc' = [cpc EXCEPT ![c] = "send"]
     \/ /\ cpc' = [cpc EXCEPT ![c] = "done"]
        /\ UNCHANGED conn
  /\ UNCHANGED <<tablevars, toServer, toClient, cmain, i, latvars, servervars>>

\* The requests that generate_reqs may have made as number i of thread c.
Generated(c) ==
  IF i[c] = req_nums
  THEN {[type |-> "Exit"]}
  ELSE {[type |-> "Get", key |-> k] : k \in Keys}
         \union {[type |-> "Put", key |-> k, value |-> <<c, i[c], k>>] : k \in Keys}

send(c) ==
  /\ cpc[c] = "send"
  /\ \/ /\ conn[c] \in {"backlog", "open"}
        /\ \E r \in Generated(c) : toServer' = [toServer EXCEPT ![c] = r]
        /\ cpc' = [cpc EXCEPT ![c] = "recv"] /\ UNCHANGED cmain
     \/ /\ conn[c] = "shut"
        /\ cpc' = [cpc EXCEPT ![c] = "recv"] /\ UNCHANGED <<toServer, cmain>>
     \/ /\ conn[c] = "shut"
        /\ cmain' = "killed" /\ UNCHANGED <<toServer, cpc>>
  /\ UNCHANGED <<tablevars, conn, toClient, i, latvars, servervars>>

\* The result of recv is not looked at: the end of the connection counts as a
\* reply.  After the last request the socket is closed.
recv(c) ==
  /\ cpc[c] = "recv"
  /\ toClient[c] \/ conn[c] = "shut"
  /\ toClient' = [toClient EXCEPT ![c] = FALSE]
  /\ IF i[c] < req_nums
     THEN i' = [i EXCEPT ![c] = @ + 1] /\ cpc' = [cpc EXCEPT ![c] = "send"]
     ELSE i' = [i EXCEPT ![c] = 0] /\ cpc' = [cpc EXCEPT ![c] = "lock"]
  /\ UNCHANGED <<tablevars, conn, toServer, cmain, latvars, servervars>>

\* Mutant: the lock is not waited for.
LockLat_always(c) ==
  /\ cpc[c] = "lock"
  /\ clientLock' = c
  /\ cpc' = [cpc EXCEPT ![c] = "load"]
  /\ UNCHANGED <<tablevars, netvars, cmain, i, req_nums, n, numbers, lat, overrun,
                 servervars>>

LockLat(c) ==
  /\ cpc[c] = "lock" /\ clientLock = None
  /\ clientLock' = c
  /\ cpc' = [cpc EXCEPT ![c] = "load"]
  /\ UNCHANGED <<tablevars, netvars, cmain, i, req_nums, n, numbers, lat, overrun,
                 servervars>>

\* lat[numbers ++] = latency[i]: numbers is read ...
LoadNumbers(c) ==
  /\ cpc[c] = "load"
  /\ n' = [n EXCEPT ![c] = numbers]
  /\ cpc' = [cpc EXCEPT ![c] = "store"]
  /\ UNCHANGED <<tablevars, netvars, cmain, i, req_nums, clientLock, numbers, lat,
                 overrun, servervars>>

\* ... and written, without a look at the size of lat: what lies behind it is
\* overwritten, which is not followed.  After the last latency the lock is
\* released.
StoreLat(c) ==
  /\ cpc[c] = "store"
  /\ numbers' = n[c] + 1
  /\ \/ n[c] < LatSize /\ lat' = [lat EXCEPT ![n[c]] = <<c, i[c]>>] /\ UNCHANGED overrun
     \/ n[c] >= LatSize /\ overrun' = TRUE /\ UNCHANGED lat
  /\ IF i[c] < req_nums
     THEN /\ i' = [i EXCEPT ![c] = @ + 1] /\ cpc' = [cpc EXCEPT ![c] = "load"]
          /\ UNCHANGED clientLock
     ELSE /\ clientLock' = None /\ cpc' = [cpc EXCEPT ![c] = "done"]
          /\ UNCHANGED i
  /\ UNCHANGED <<tablevars, netvars, cmain, req_nums, n, servervars>>

ClientThread(c) ==
  /\ cmain = "main"
  /\ connect(c) \/ send(c) \/ recv(c) \/ LockLat(c) \/ LoadNumbers(c) \/ StoreLat(c)

\* main joins its threads, sorts and prints.
JoinClients ==
  /\ cmain = "main" /\ \A c \in Clients : cpc[c] = "done"
  /\ cmain' = "exited"
  /\ UNCHANGED <<tablevars, netvars, cpc, i, latvars, servervars>>

ClientMain == pthread_create \/ JoinClients

\* Has the client's end of the connection been closed?
ClientClosed(c) == cmain # "main" \/ cpc[c] \in {"lock", "load", "store", "done"}

-----------------------------------------------------------------------------
(* server.c, main *)

\* A connection is accepted and a thread made for it.  That this failed is not
\* noticed: the connection stays open and nobody serves it.
AcceptAs(c, pc) ==
  /\ smain = "accept" /\ Cardinality(Accepted) < NUM_SERVERS
  /\ conn[c] = "backlog"
  /\ conn' = [conn EXCEPT ![c] = "open"] /\ spc' = [spc EXCEPT ![c] = pc]
  /\ UNCHANGED <<tablevars, toServer, toClient, clientvars, smain, rpc, acceptFailed>>

accept(c) == AcceptAs(c, "recv")
AcceptUnserved(c) == AcceptAs(c, "unserved")

AcceptFails ==
  /\ smain = "accept" /\ Cardinality(Accepted) < NUM_SERVERS
  /\ acceptFailed' = TRUE /\ smain' = "destroy"
  /\ UNCHANGED <<tablevars, netvars, clientvars, spc, rpc>>

\* Mutant: the threads are not waited for.
JoinThreads_not ==
  /\ smain = "accept" /\ Cardinality(Accepted) = NUM_SERVERS
  /\ smain' = "destroy"
  /\ UNCHANGED <<tablevars, netvars, clientvars, spc, rpc, acceptFailed>>

\* The threads are joined one after the other.  For a thread that was not made
\* the argument is an uninitialized pthread_t: join may return.
JoinThreads ==
  /\ smain = "accept" /\ Cardinality(Accepted) = NUM_SERVERS
  /\ \A c \in Accepted : spc[c] \in {"ended", "unserved"}
  /\ smain' = "destroy"
  /\ UNCHANGED <<tablevars, netvars, clientvars, spc, rpc, acceptFailed>>

destroy ==
  /\ smain = "destroy"
  /\ hash_free
  /\ smain' = "exit"
  /\ UNCHANGED <<netvars, clientvars, spc, rpc, acceptFailed>>

\* The end of the server's process, as status: its threads are gone and all
\* connections, accepted or not, are closed.
ServerEnds(status) ==
  /\ smain' = status
  /\ conn' = [c \in Clients |-> IF conn[c] = "none" THEN "none" ELSE "shut"]
  /\ spc' = [c \in Clients |-> IF spc[c] \in {"none", "unserved"} THEN spc[c] ELSE "ended"]

\* ... or it may never return or kill the process.
JoinUninitialized ==
  /\ smain = "accept" /\ Cardinality(Accepted) = NUM_SERVERS /\ Unserved # {}
  /\ \/ smain' = "stuck" /\ UNCHANGED <<conn, spc>>
     \/ ServerEnds("killed")
  /\ UNCHANGED <<tablevars, toServer, toClient, clientvars, rpc, acceptFailed>>

exit ==
  /\ smain = "exit"
  /\ ServerEnds("exited")
  /\ UNCHANGED <<tablevars, toServer, toClient, clientvars, rpc, acceptFailed>>

ServerMain == (\E c \in Clients : accept(c)) \/ JoinThreads \/ destroy \/ exit

-----------------------------------------------------------------------------
(* server.c, the thread that serves connection c *)

Step(c, pc) == spc' = [spc EXCEPT ![c] = pc]
bucket(c) == hash[rpc[c].key]

\* recv returns a request, which handle_rpc looks at, or no more than 0: the
\* connection has ended or is broken.
ServerRecv(c) ==
  /\ spc[c] = "recv"
  /\ \/ /\ toServer[c] # None
        /\ rpc' = [rpc EXCEPT ![c] = toServer[c]]
        /\ toServer' = [toServer EXCEPT ![c] = None]
        /\ Step(c, IF toServer[c].type = "Exit" THEN "reply" ELSE "lock")
     \/ /\ toServer[c] = None /\ ClientClosed(c)
        /\ Step(c, "close") /\ UNCHANGED <<rpc, toServer>>
  /\ UNCHANGED <<tablevars, conn, toClient, clientvars, smain, acceptFailed>>

ConnectionBreaks(c) ==
  /\ spc[c] = "recv"
  /\ Step(c, "close")
  /\ UNCHANGED <<tablevars, netvars, clientvars, smain, rpc, acceptFailed>>

\* put and get of hash.c, step by step.
HashLock(c) ==
  /\ spc[c] = "lock"
  /\ pthread_mutex_lock(bucket(c), c)
  /\ Step(c, IF rpc[c].type = "Get" THEN "get" ELSE "put")

Get(c) == spc[c] = "get" /\ get(bucket(c)) /\ Step(c, "reply")

put(c) ==
  \/ /\ spc[c] = "put"
     /\ \E found \in BOOLEAN :
          FindEntry(bucket(c), found) /\ Step(c, IF found THEN "key" ELSE "new")
  \/ spc[c] = "new" /\ NewEntry(bucket(c)) /\ Step(c, "key")
  \/ spc[c] = "key" /\ WriteKey(bucket(c), rpc[c].key) /\ Step(c, "value")
  \/ spc[c] = "value" /\ WriteValue(bucket(c), rpc[c].value) /\ Step(c, "unlock")
  \/ spc[c] = "unlock" /\ pthread_mutex_unlock(bucket(c)) /\ Step(c, "reply")

HashStep(c) ==
  /\ HashLock(c) \/ Get(c) \/ put(c)
  /\ UNCHANGED <<netvars, clientvars, smain, rpc, acceptFailed>>

InHash == {"lock", "get", "put", "new", "key", "value", "unlock"}

\* The same code on the table that main has freed: the thread never gets the
\* lock, or returns, or the process is killed by a write through NULL.
HashFault(c) ==
  /\ spc[c] \in InHash
  /\ UseFreed
  /\ \/ \E pc \in {"blocked", "reply"} : Step(c, pc) /\ UNCHANGED <<conn, smain>>
     \/ ServerEnds("killed")
  /\ UNCHANGED <<toServer, toClient, clientvars, rpc, acceptFailed>>

\* The reply; after an Exit the loop is left.  A client that is gone makes it
\* lost, or kills the server.
ServerSend(c) ==
  /\ spc[c] = "reply"
  /\ \/ /\ toClient' = [toClient EXCEPT ![c] = TRUE]
        /\ Step(c, IF rpc[c].type = "Exit" THEN "close" ELSE "recv")
        /\ UNCHANGED <<conn, smain>>
     \/ /\ ClientClosed(c)
        /\ ServerEnds("killed") /\ UNCHANGED toClient
  /\ UNCHANGED <<tablevars, toServer, clientvars, rpc, acceptFailed>>

close(c) ==
  /\ spc[c] = "close"
  /\ conn' = [conn EXCEPT ![c] = "shut"]
  /\ Step(c, "ended")
  /\ UNCHANGED <<tablevars, toServer, toClient, clientvars, smain, rpc, acceptFailed>>

ServerThread(c) == ServerRecv(c) \/ HashStep(c) \/ HashFault(c) \/ ServerSend(c) \/ close(c)

-----------------------------------------------------------------------------
\* The client has ended or waits for replies nobody will send, and the server
\* has ended, waits for another connection or hangs.
ClientEnded ==
  cmain # "main" \/ (Unserved # {} /\ \A c \in Clients : cpc[c] = "done" \/ c \in Unserved)

Ended ==
  /\ ClientEnded
  /\ \A c \in Clients : spc[c] \in {"none", "unserved", "ended"}
  /\ ~ServerUp \/ smain \in {"accept", "stuck"}
  /\ UNCHANGED vars

Next ==
  \/ \E c \in Clients :
       ClientThread(c) \/ ServerThread(c) \/ ConnectionBreaks(c) \/ AcceptUnserved(c)
  \/ ClientMain \/ CreateFails \/ ServerMain \/ AcceptFails \/ JoinUninitialized \/ Ended

Spec == Init /\ [][Next]_vars

\* The threads are scheduled by the operating system; nothing forces accept or
\* pthread_create to fail or a connection to break.
FairSpec ==
  /\ Spec
  /\ \A c \in Clients : WF_vars(ClientThread(c)) /\ WF_vars(ServerThread(c))
  /\ WF_vars(ClientMain) /\ WF_vars(ServerMain)

-----------------------------------------------------------------------------
\* The bucket locks of hash.c (lines 49-59 and 66-74): as long as the table is
\* there, whoever finds a bucket unlocked, or reads it under the lock, finds at
\* most one entry made for it, with the key and the value of one put.
EntryWhole ==
  table = "live" => \A b \in Buckets :
    /\ allocated[b] <= 1
    /\ \/ lock[b] = None
       \/ \E c \in Clients : lock[b] = c /\ spc[c] = "get"
       => \/ entries[b] = None
          \/ entries[b].value # None /\ entries[b].key = entries[b].value[3]

\* The table is used only while it is there (server.c lines 91-95), unless
\* accept fails, when main frees it under its threads (lines 81-84).
TableOutlivesThreads == fault => acceptFailed

\* lat and numbers (client.c lines 21 and 111-115): the end of lat is passed
\* only when the connected threads have more latencies than there are places;
\* otherwise, when the client ends by itself, lat holds every latency of every
\* thread that was connected, each once.
LatExact ==
  LET connected == {c \in Clients : conn[c] # "none"}
      collected == {lat[j] : j \in 0 .. numbers - 1}
  IN /\ overrun => Cardinality(connected) * (req_nums + 1) > LatSize
     /\ cmain = "exited" /\ ~overrun =>
          Cardinality(collected) = numbers /\ collected = connected \X (0 .. req_nums)

\* The client ends, also when the server fails or is killed; all that can keep
\* it are threads whose connection was accepted and got no thread (server.c line
\* 87), while the others still end.  Behind the end of lat nothing is claimed.
ClientTerminates == <>(ClientEnded \/ overrun)

\* A server that has accepted all its connections serves them and ends, unless
\* it could not make a thread for one of them.
ServerDrains == Cardinality(Accepted) = NUM_SERVERS ~> ~ServerUp \/ Unserved # {}
=============================================================================
