----------------------------- MODULE CommChannel -----------------------------
(***************************************************************************)
(* The two message queues a client and its browser thread share            *)
(* (CommChannel of browser.h: `in' carries commands to the thread, `out'   *)
(* carries messages back) and the queue operations the two of them call.   *)
(*                                                                         *)
(* A queue operation is split at its mutex: one step takes the mutex, one  *)
(* step does the work and releases it, so that the other side can find the *)
(* mutex taken in between.  What the work does to the linked list is       *)
(* abstracted to a sequence.                                               *)
(***************************************************************************)
EXTENDS Naturals, Sequences

CONSTANT PutMayFail   \* may the malloc of a queue node in queue_put_safe fail?

ASSUME PutMayFailAssumption == PutMayFail \in BOOLEAN

VARIABLES items,      \* the messages of each queue, oldest first
          lock,       \* the thread holding the mutex of each queue
          freed       \* what ActionFinalCleanup has released so far

channelVars == <<items, lock, freed>>

Queues  == {"in", "out"}
Blocks  == Queues \cup {"cc"}
Threads == {"client", "worker"}

SignalMsgs == {"BMSG_JSON", "BMSG_ALLFORNOW", "BMSG_CACHEEXHAUSTED"}

ErrorMsgs == { "BMSG_DBUS_ADDFILTER_ERROR", "BMSG_DBUS_ADDMATCH_ERROR",
               "BMSG_DBUS_SERVICE_BROWSER_ERROR" }

CommandMsgs == {"BMSG_RECONNECT", "BMSG_EXIT", "BMSG_EXIT_CLEAN"}

\* The message types that code pushes.  BMSG_INVALID, BMSG_MALLOC_ERROR and
\* BMSG_DBUS_CONN_ERROR are declared and never pushed; BMSG_INIT_ERROR is made
\* by popMsg without a queue.
Msgs == SignalMsgs \cup ErrorMsgs \cup CommandMsgs
          \cup {"BMSG_DBUS_DISCONNECTED", "BMSG_EXITED", "BMSG_FLUSH_MARKER"}

ChannelInit ==
    /\ items = [q \in Queues |-> <<>>]
    /\ lock = [q \in Queues |-> "none"]
    /\ freed = {}

\* pthread_mutex_lock, and pthread_mutex_trylock when it succeeds.
Lock(q, t) ==
    /\ lock[q] = "none"
    /\ lock' = [lock EXCEPT ![q] = t]

Unlock(q) == lock' = [lock EXCEPT ![q] = "none"]

\* Mutant of Put: no unlock on the path of the failed malloc.
PutKeepsMutex(q, m) ==
    \/ items' = [items EXCEPT ![q] = Append(@, m)] /\ Unlock(q)
    \/ PutMayFail /\ UNCHANGED <<items, lock>>

\* queue_put with the mutex held: queue_put_safe, then the unlock.  The callers
\* (browser_push_msg and browser_push_simple_msg) ignore its return code.
Put(q, m) ==
    /\ \/ items' = [items EXCEPT ![q] = Append(@, m)]
       \/ PutMayFail /\ UNCHANGED items
    /\ Unlock(q)

\* queue_get_nb of thread t after its pthread_mutex_trylock: __queue_get_safe and
\* the unlock, or nothing at all when the mutex was found taken.  What it returns
\* ("NULL" for an empty or a busy queue) ...
Taken(q, t) ==
    IF lock[q] # t \/ items[q] = <<>> THEN "NULL" ELSE Head(items[q])

\* ... and what it does.
Take(q, t) ==
    IF lock[q] # t THEN UNCHANGED <<items, lock>>
    ELSE /\ items' = [items EXCEPT ![q] = IF @ = <<>> THEN @ ELSE Tail(@)]
         /\ Unlock(q)

\* queue_destroy: nobody may hold the mutex it takes around the free.  It destroys the
\* mutex and the condition variable and leaves their blocks allocated; PluginObject counts
\* those ("locks").
Destroy(q) ==
    /\ lock[q] = "none"
    /\ freed' = freed \cup {q}
=============================================================================
