# Formal models of npapi-dbus (project/mdns)

npapi-dbus is a browser plugin that shows a page the mDNS services of the local
network. A worker thread listens to Avahi on the D-Bus system bus and passes
messages to the plugin's object on the host's main thread through a pair of
queues; the page polls them with `popmsg()`. The code is small and almost all of
it is protocol: two threads, two queues, a transition table, and a shutdown in
which the memory both threads use changes hands.

Paths without a directory are in `src/project/mdns/src/`.

## Inventory

| component | state it keeps | operations | talks to |
|---|---|---|---|
| transition table (`browser.cc`) | none (static data) | first-match lookup of `run_fsm` | browser thread |
| browser thread (`browser.cc`) | current state and event, `bp->conn`, the pushes an action has left, FlushQueues' marker count | `event_pump`, the seven actions, the D-Bus filter function | both queues, D-Bus |
| message channel (`browser.h`, `queue.cc`, `browser_msg.cc`) | two lists of messages, a mutex and a condition variable each | put, get, destroy, wait | shared by thread and client |
| client (`mdnsbrowser.cc`) | `cc`, `initState` | `init`, `pushMsg`, `popMsg`, `release` | both queues |
| plugin object and entry points (`npobject_browser.cc`, `plugin.cc`) | `mb`, `npo`, the host's reference count | `popmsg` from the page, `NPP_GetValue`, `NPP_Destroy`, deallocation by the host | client, host |
| test client (`main.cc`) | a cycle counter | `queue_wait_timer`, `queue_get_nb`, exit & clean | channel |
| shared bus connection (libdbus) | filters of all threads of the process | dispatch | browser threads |

What is hard here:

- **Interleaving.** Client and thread meet in both queues. `queue_get_nb` answers
  "nothing" when it finds the mutex taken, so neither side can tell an empty queue
  from a busy one.
- **Hand-over of memory.** `release` gives the channel to the thread, which drains
  and frees it. A message to the client and a marker of the thread's own travel
  through the same queue.
- **Ordering.** The exit sequence pushes `BMSG_EXITED` and a marker behind an
  arbitrary backlog and drains two queues in step, one message of each per round,
  with `event_pump` in between.
- **Failure.** The bus may be absent, any step of the set-up may fail, the
  connection may be lost, a queue node may not be allocated; behind `init` there are
  ten calls that can fail, with three results nobody looks at.
- **Life of the object.** The page, the host's reference count, `NPP_Destroy` and
  the browser thread free instance data, object, client, channel and queues between
  them, through pointers that are tested for NULL and never set to it, and one of them
  through the wrong type; some blocks are freed by nobody.
- **Sharing.** The browser threads of two instances have one D-Bus connection, on
  which every thread dispatches and the first filter answers for all.
- **Liveness.** A command must be read in every state; a release must end in the
  channel freed and the thread gone.

## Modules

| module | what it is |
|---|---|
| `Fsm` | the table row by row, and the lookup of `run_fsm` |
| `CommChannel` | the two queues with their mutexes, what has been freed, and the operations on them split at the mutex |
| `Browser` | the thread: one action per step between two queue operations |
| `MDNSBrowser` | the client |
| `ChannelOwnership` | abstract: whose memory is the channel, and may it be reclaimed |
| `ThreadLife` | abstract: the life of a browser thread, as its client must reckon with it |
| `MdnsSystem` | thread and client around one channel; fairness; the properties |
| `MdnsInvariant` | the inductive invariants `OwnershipInv` and `ShutdownInv` |
| `FsmProofs`, `OwnershipProofs`, `ShutdownProofs` | theorems |
| `Deque` | abstract: a sequence extended at either end, taken from its head |
| `LinkedQueue` | the linked list of `queue.cc`: cells, links, head, tail, counters |
| `QueueCalls` | the functions of `queue.h` as threads call them: mutex, condition variable, early returns |
| `WaitTimer` | the deadline arithmetic of `queue_wait_timer` |
| `QueueProofs`, `WaitTimerProofs` | theorems |
| `ChannelClient` | abstract: when a client may use the queues of a browser thread |
| `Startup` | `browser_init` and `queue_create` when something they call fails: the possible outcomes |
| `PluginObject` | one plugin instance: entry points, scriptable object, its client, and as much of the thread as they depend on |
| `SharedBus` | the browser threads of several instances on one connection |
| `TestClient` | `main.cc` |
| `PluginProofs`, `SharedBusProofs`, `TestClientProofs` | theorems |
| `MCQueue`, `MCWaitTimer` | the sets of functions and of timers for TLC |
| `MCMdns` | the sets of commands the configurations choose from |

`QueueCalls` extends `LinkedQueue` and implements `Deque`, with the queued nodes in the
order of the links as the refinement mapping. `CommChannel` takes what `Deque`
promises (a sequence, extended at the end, and a busy answer) for the two queues
of the thread and the client; the functions it does not use stay in `QueueCalls`.
`MdnsSystem` extends `Browser` and `MDNSBrowser`, which both extend `CommChannel`.
`PluginObject` and `TestClient` extend `Startup` and implement `ChannelClient`: that the
two programs that use a browser thread keep to the note at the head of `browser.cc`
is what `MDNSBrowser` assumes of the client in `MdnsSystem`. In the other direction,
`MdnsSystem` and `PluginObject` both implement `ThreadLife`: the one step of `PluginObject`
for an exit sequence (`Clean`), and its thread that goes deaf, are the life the detailed
thread is shown to live.

### How the model corresponds to the code

*The thread.* `pc` is the place in `run_fsm`. `"pump"` is the head of `event_pump`;
each outcome of `dbus_connection_read_write_dispatch` is an action (`PumpTimeout`,
`PumpMessage`, `PumpDisconnected`, `PumpGone`), and so is the branch that skips it
(`PumpUnconnected`). `"poll"` is its `queue_get_nb`, `"row"` the table lookup,
and the other places are inside the actions of the rows. `state` is `currentState`; the code
assigns it after the action has returned, the model when the row is found, which
nothing can tell: it is a local variable no action reads. `event` is `currentEvent`
or the value the running action is going to return. `todo` holds the
`browser_push_*` calls an action or the filter function has still to make.

*The queues.* A queue is a sequence of message types: the list, its counters and
the text of a message do not matter to the protocol. Every operation is two steps, one that
takes the mutex and one that does the work and releases it, because the other
side's `pthread_mutex_trylock` may come in between. `Put` models `queue_put`,
whose result no caller looks at; with `PutMayFail` a node may not be allocated and
the message is lost. `Taken` and `Take` are `queue_get_nb`, the busy case included.

*The client* keeps to the note at the head of `browser.cc` ("Once the client user of
this class sends an "exit & clean" command msg, the said client shouldn't be using
the message queues either way"), and sends nothing after a plain exit. Its
commands before the release are a constant (`pushMsg` itself refuses nothing: that nothing
follows a closing command is the guard of `PushLockIn`, shown for the two clients in the repository
by `ClientSpec` and `PluginObject`, and assumed of any other): the plugin sends none, the class
offers reconnect and exit.

*The queue library.* `LinkedQueue` keeps a heap of `queue_node`s; the address `malloc`
returns is any cell not in use, and a failed `malloc` leaves the list alone
(`Put` of `QueueCalls`). Its operators are the three functions that run with the
mutex held. In `QueueCalls` a call moves through the places "try", "lock", "in",
"wait", "asleep", "woken" and "awake"; what the code does with the mutex held, the
signal and the unlock included, is one step. `pthread_cond_signal` wakes some
sleeper if there is one; a wait may also end for no reason, at its deadline, or at
once when the deadline is refused. The branch for ETIMEDOUT after the waits without a
deadline (`queue.cc:199`), which would leave with the mutex held, is left out: such a wait does
not return that. `WaitTimer` says when a deadline is refused. Its clock is a
second and a number of microseconds as in `struct timeval`; the product
`usec_timer * 1000` has two outcomes when it leaves the range of an int.

*The bus.* `BusMessages` are the members `__browser_handle_message` tells apart and
one that stands for all it drops. `SetupErrors` lists the four steps of
`__browser_setup_dbus_conn` that can fail, with what each pushes. A lost
connection is the Disconnected signal followed by FALSE at this and every later
dispatch; that libdbus by default ends the process after dispatching the signal is
not modelled: the code installs a state and rows for what follows.

*The plugin instance.* `mem` says of each block what the pointer to it points at:
nothing, a block in use, or one that was freed; `Touch` records what is touched
after it was freed. The host calls on one thread, one call at a time, so each call
is a step; `Invoke` is two, because the browser thread runs between the creation of
the client and `popMsg`. `FirstEvent` and `Clean` are what the thread does to
memory the caller depends on: it leaves ST_START, dropping a release it
finds there, and it frees the channel after the exit sequence (`MdnsSystem` has
the steps between). After a use of freed memory the program goes on to the end of
that call as if the contents were still there, and nothing is claimed
of it from then on (`Defined`). `delete instanceData->npo` in `NPP_Destroy` is undefined
whenever there is an object: it goes through a pointer to the `NPObject` inside an
`NPBrowser`, only the latter has a virtual destructor, and the address given to the allocator
is not that of the block. `TouchAndDelete` has both outcomes: the block is found all the same and
the program goes on, or "npo" joins `wild` and nothing is claimed of the rest. Two entries of
`mem` stand for blocks that no code frees: `bp`, and `locks`, the mutexes and condition variables
of the queues. Three constants describe the surroundings: `Faults`,
the calls that may fail; `PageOutlives`, whether the page may hold the object beyond
`NPP_Destroy`; `HostOwns`, whether the reference `createobject` returns is the page's to
give back, so that the host's count can reach zero. The code leaves both to
the host, and some hosts do either.

*The start.* `Outcomes` is the set of what `browser_init` may leave behind, `LeftBy` what two given
queues lead to. "freed" is the
queue that `queue_create` returns after freeing it; `twice` marks the set-up in which
`browser_init` frees such a queue again because the other one is NULL. `MDNSBrowser::init` adds
the channel itself (`InitResults`).

*The shared connection.* `filters` lists the `bp` each filter was added with, in order;
it only grows, because the code removes none. A dispatch is two steps, the taking
of a message and the call of the first filter, and another thread may do anything but
dispatch in between. Messages are numbered in the order of the bus; "Disconnected" comes
behind them. `refs` counts the references beyond the one libdbus keeps, `link` is
"gone" once the Disconnected signal has been dispatched. The set-up has a step per call
that can fail. `stale` records that a filter has used a channel after it was freed.
A client may reconnect whatever it has read; `MaxBacklog` bounds what failed attempts leave unread.
The exit sequence is coarser than in `Browser`: the pushes of `ActionExit` are one step and
the command queue is the set `released`.

*The test program.* `TestClient` has a place for each statement of `main.cc` that does
something to the queues, and both `continue`s.

## Runs

| run | configuration | question |
|---|---|---|
| `mdns_safety` | `MdnsSafety.cfg` | is the shutdown right, whatever the backlog, on a bus that may go away, and does the thread live the life of `ThreadLife`? |
| `mdns_lossy` | `MdnsLossy.cfg` | when messages are lost: is memory safe, freed whole or not at all, does the system implement `ChannelOwnership`, do the queues only shrink while they are drained? |
| `mdns_liveness` | `MdnsLiveness.cfg` | while the bus stays up, is every command read and does every release complete? |
| `release_at_start` | `ReleaseAtStart.cfg` | finding: `release` in ST_START |
| `deaf_after_disconnect` | `DeafAfterDisconnect.cfg` | finding: commands after a lost connection |
| `queue_safety` | `QueueSafety.cfg` | does the list stay in order, implement `Deque`, and its mutex find its way back, whatever functions two threads mix? |
| `queue_liveness` | `QueueLiveness.cfg` | does every call return that does not wait for a signal without a deadline? |
| `wait_timer` | `WaitTimer.cfg` | is a wait of `queue_wait_timer` ever too short or too long, and when is it refused? |
| `plugin_safety` | `PluginSafety.cfg` | with a host that gives its references back first: is any memory misused but by the wrong `delete`, what is left allocated, are the queues used only while they may be? |
| `plugin_faults` | `PluginFaults.cfg` | under any host, with failing allocations: is every thread released and does it live as `ThreadLife` says, is NULL answered only with a thread behind it, where can a misuse of memory begin? |
| `bus_shared` | `BusShared.cfg` | two instances on one connection: do references balance, do signals come in order, once, and at all, is the first client told of a lost bus, and what does it take to reach a freed channel? |
| `test_client` | `TestClient.cfg` | does `main.cc` use the queues rightly, and does it end, with exit & clean if it had a channel? |

### Properties

- `QueuesDrained`: "queues are empty at this point", the comment in
  `ActionFinalCleanup`. It depends on the order of three pushes, on the two rounds of
  the flush and on what the thread reads between them.
- `NoUseAfterFree`: what a thread is about to touch has not been freed.
- `ExitedIsLast`: after `BMSG_EXITED` only the marker is queued for the client.
- `TrapNotTaken`: no pair of state and event falls to the last row of the table.
- `QuitOwnership`: a thread that has ended freed all of the channel after exit &
  clean and nothing of it after exit.
- `ClientMeetsNoMarker`, `ClientAloneTakes`: until the hand-over the client is the
  only consumer of its queue and never sees a marker.
- `OwnershipSpec`: the system implements `ChannelOwnership` (refinement mapping in
  `MdnsSystem`: the owner is read off `pc`, `freed` and `cpc`).
- `LifeSpec` (of `MdnsSystem`): the system implements `ThreadLife`. Through queues, events and
  table a request to leave that is read is dropped only as the event that ends ST_START (this is
  safety: whether it is read is for `ExitRead`, and finding 2 shows when it is not), the thread leaves
  only on request, and reclaims the channel exactly for exit & clean. A row for the
  wrong event in any state, or a request overtaken in a queue, would break it.
- `LifeSpec` (of `PluginObject`): so does the thread behind the object, under every host and
  fault; the object itself never frees the channel of a thread that serves.
- `WholeOrNothing`: a thread that ended freed the whole channel or nothing of it, and the
  former only for exit & clean, even when it lost messages of its own exit sequence.
- `DrainOnly`: from ST_WMARK1 on nobody adds to a queue, so each round of the flush that
  finds something comes nearer to the end. The thread still pumps between the rounds.
- `ExitRead`, `ReleaseCompletes`, `WaitReadsCommands`: liveness.
- `ListOK`: the links lead from head to tail through every allocated cell exactly once,
  and the counters agree with it. A stale tail after the last get, or a link lost
  by a put, shows up only calls later.
- `DequeSpec`: `QueueCalls` implements `Deque`: each node leaves once, in order.
- `CallsReturn`: liveness of the calls; no path keeps the mutex or waits on.
- `MutexExact`: a thread holds the mutex exactly while its call is between a lock and an unlock,
  on every path of the twelve functions that can be taken (the ETIMEDOUT branches above cannot).
- `NotEarly`, `NotLate`, `RefusedExactly`: a timer whose product with 1000 is an int is
  not cut short; no timer, overflowing ones included, runs longer than meant; a wait is refused
  exactly when the sum of the microseconds is a full second, or two seconds or more.
- `ReleaseCleans`, and `WaitReadsCommands` after a lost connection, state what comments
  promise and the code does not do (below).
- `OnlyTheObject`: no memory is misused before the object was deleted, and then first through it;
  with a host that gives its references back, by the wrong `delete` alone: whatever that
  and the thread free besides is freed once and not touched again.
- `WhatIsLeft`: what nobody frees when instance and thread have gone: the `bp` and the locks of the
  queues, the whole channel if `pthread_create` failed, nothing if there was no channel.
- `ClientSpec`: `PluginObject` and `TestClient` implement `ChannelClient`: the queues are used only
  between a successful `init` and exit & clean.
- `DestroyReleases`: no instance goes away without releasing a thread it has.
- `NullMeansAThread`: a page that is told "no message yet" has a thread that may send one.
- `WildHasCause`: under any host and any fault, memory is misused first through the deleted object, by
  a client whose `init` failed, or through a queue that `queue_create` had already freed; never by
  the thread or a started client through the channel.
- `RefsExact`: references to the shared connection, through every failing set-up,
  reconnect and exit, are those of the threads that use it.
- `InOrderOnce`, `FirstMissesNothing`: which messages of the bus reach a client, the loss of
  the bus included, across threads that dispatch each other's messages and
  filters added more than once.
- `CleanFindsEmpty`, `StaleTakesTwo`: how far the sharing disturbs the end of an instance. A
  thread finds its queue empty at the clean-up unless its filter is the first and another instance
  is about, and then only messages of the bus are lost, never its own; no filter meets a freed channel before a second instance was created.
- `SignalsArrive`: liveness of the dispatch. `Ends`: the test program ends, and with exit & clean
  sent if its start succeeded.

The types of the variables (`TypeOK` of each module) are theorems; TLC evaluates those of
`MdnsSystem` as a part of `ShutdownInv` and `OwnershipInv`.

### Bounds

`MaxOut` stops signals and errors from being added to a longer `out` (3 for safety, 2
or 1 elsewhere), `MaxIn` does so for commands. `BMSG_DBUS_DISCONNECTED`, `BMSG_EXITED`
and the marker are never held back, so every backlog from empty to longer
than the exit sequence meets every point of the shutdown; the flush drains one
message per round, so a backlog of three already has first, middle and last
rounds. The safety theorems remove the bounds: they hold for all
values of the constants.

`QueueSafety.cfg` has two threads, three cells and two values: an empty list, a list
of one, where head and tail coincide, and lists with a middle, with every function
overlapping every other. Cells are symmetric. `MaxPuts` bounds the nodes put in a
behaviour; a put may also fail at any time. `QueueLiveness.cfg` uses one cell and
one value (no symmetry in a liveness run): blocking does not depend on the length
of the list. `ListInOrder` and `QueueImplementsDeque` remove these bounds.

`WaitTimer.cfg` makes a second ten units of ten and an int eight bits wide, which keeps the
order 1 s < 2 s < largest product < 3 s of the real numbers; the timers lie on either side
of each boundary, and some of those that overflow wrap to a short positive time, some to a
negative one. The theorems hold for the real numbers and all others.

`PluginSafety.cfg` and `PluginFaults.cfg` need no bound but two references of the page: one
that is given back while another stays, and the last. They differ in the
assumptions under which their properties hold: `OnlyTheObject`, `WhatIsLeft` and `ClientSpec` for
a host that gives its references back and a process short of channels and threads only (what breaks
them otherwise is listed under "Where the assumptions end"), `DestroyReleases`, `WildHasCause`,
`LifeSpec` and `NullMeansAThread` under any host and with every allocation failing;
`pthread_create` is left out there because `NullMeansAThread` needs it.

`BusShared.cfg` has two threads, two signals and three filters: both threads set up, one two or
three times, one after the other has gone, or one without the other ever starting, with a
signal on either side of each step. A third thread would be one more whose filter is
not the first; the safety theorems hold for any number. `MaxFilters` only makes
`dbus_connection_add_filter` fail, which is a case of its own. `MaxBacklog` is two: a client
reconnects with an unread error, or an unread signal, and not with two. `TestClient.cfg` runs the real
hundred cycles.

### Fairness

`FairSpec` assumes weak fairness of the thread as a whole (it is scheduled, and the
dispatch of `event_pump` has a timeout of 100 ms), strong fairness of its
`pthread_mutex_lock` in `queue_put` (a mutex that is released again and again is
got in the end: the client holds it for a few instructions per call), and weak
fairness of the client completing a call it is in. The client need not make
another call, need not release, and the bus need not send anything.
`queue_get_nb` never blocks and gets no fairness of its own: that it may find the
mutex taken in several rounds is part of the model.

In `QueueCalls` a call that can take its next step takes it (weak fairness of `Run`
for each thread) and `pthread_mutex_lock`, and the return of a wait into the mutex,
succeed in the end for a mutex that is released again and again (strong
fairness). No fairness makes a thread begin a call, wakes a sleeper for no reason, or makes
`pthread_mutex_trylock` find the mutex free.

`SharedBus` gives each thread weak fairness: it is scheduled, and its dispatch returns
after 100 ms. Clients and the bus need not do anything. In `TestClient` the program runs on: its only
waits have a deadline (`queue_wait_timer`, `sleep`), so weak fairness of `Next` is what the
operating system gives.

## Findings

1. `release_at_start`. ST_START has a single row, for any event. A release that
   reaches the thread before its first event is read there and dropped; the thread
   connects and serves for ever, and the channel is never freed, against "The worker
   thread will take care of all cleaning" (`mdnsbrowser.cc:37`).
2. `deaf_after_disconnect`. After a lost connection `event_pump` returns before the
   command queue is read, at every call: ST_WAIT's rows for RECONNECT, EXIT and
   EXIT_CLEAN cannot fire.

### Where the assumptions end

The runs and theorems name what they assume of the host and of the calls that may fail. These
are the places where the code does not do what a comment says once the
assumption is given up. Each is in the model; where a property and constants are named, the
property is violated when the configuration is given those constants.

- *A bus that cannot be had* (`browser.cc:520`). A failing `dbus_bus_get` is the one step of the
  set-up that tells the client nothing (`SetupErrors` has it without a message);
  `BMSG_DBUS_CONN_ERROR` is listed "From Browser to Client" (`browser_msg.h:30`) and never pushed.
- *A node before the wait* (`queue.cc:323`). `queue_wait` ("Waits for a node in the queue",
  `queue.cc:308`) does not look for a node before it waits: one that is already there is
  slept on. `CallsReturn` leaves out "wait".
- *A reader in the way of put_wait* (`queue.cc:196`, `queue.cc:549`). `queue_put_wait` and
  `queue_put_head_wait` answer a busy mutex by taking it and then waiting for a signal. No get
  sends one, so the node may never be put. `CallsReturn` leaves them out. Nothing in the
  repository calls these two, nor `queue_wait`, at present.
- *A full second* (`queue.cc:356`). The carry tests `>` where `>=` is meant: a deadline of exactly
  a full second is refused with EINVAL and the wait ends at once, for `main.cc`'s tenth of a
  second too. The one carry does not reach sums of two seconds and more, which are refused as
  well. `RefusedExactly` says that these are the only such waits.
- *A start that fails* (`mdnsbrowser.cc:28`). `init` frees `cc` when `browser_init` failed and
  leaves it set; nobody looks at its result, and the end of the object pushes exit & clean
  through it. `ClientSpec` of `PluginObject`, and `OnlyTheObject`, with `Faults = {"bp"}`.
- *The wrong delete* (`plugin.cc:122`). Every `NPP_Destroy` with an object deletes an `NPBrowser`
  through a pointer to the `NPObject` inside it, whose type has no virtual destructor: undefined
  behaviour. `OnlyTheObject` says that nothing else is misused; that nothing is misused at
  all (`Defined`) is violated with any constants but `MaxRefs = 0`, which is no object.
- *What is never freed* (`queue.cc:104`, `browser.cc:584`). `queue_destroy` and the error paths of
  `queue_create` and `browser_init` leave the mutexes and condition variables allocated, the thread
  leaves its `bp`, each for good ("The worker thread will take care of all cleaning",
  `mdnsbrowser.cc:37`). `WhatIsLeft` says that this is all.
- *A mutex that cannot be had* (`queue.cc:67`). `queue_create` frees the queue and returns it;
  `init` reports success ("@return TRUE SUCCESS", `mdnsbrowser.h:26`), or frees it again.
  `OnlyTheObject` with `Faults = {"mutex"}`; the last disjunct of `WildHasCause` is this case.
- *A thread that cannot be had* (`browser.cc:197`). `browser_init` ignores the result of
  `pthread_create` and reports success: the channel is never freed, as `WhatIsLeft` says, and
  the page waits for ever. `NullMeansAThread` with `Faults = {"thread"}`.
- *A page that outlives its instance* (`plugin.cc:122`). After `NPP_Destroy` the page may still hold
  the object, which is deleted; `popmsg` then uses queues whose exit & clean has been
  sent. `ClientSpec` with `PageOutlives = TRUE`.
- *A host that counts to zero* (`npobject_browser.cc:37`). `NPP_Destroy` and the host's last release
  both deallocate the object, and release the client twice. `ClientSpec` with
  `HostOwns = TRUE`.
- *Two instances in one process* (`browser.cc:527`, `486`, `670`). Filters are never removed
  from the connection all threads share: the filter of an instance that has gone is called first,
  with a freed channel (`stale`). Another thread's dispatch may push a signal behind the marker
  of a first instance that is draining its queues; "queues are empty at this point"
  (`browser.cc:486`) is then false. The lost bus is told to the client of the first filter
  only, and so is every signal: the page of a later instance stays empty for ever, which is
  the body of `Filter` and needs no property. `CleanFindsEmpty`, `StaleTakesTwo` and
  `FirstMissesNothing` draw the line.

## Proofs

`TypeCorrect`, `QueueTypesHold`, `PluginTypes` and `BusTypes` are type correctness. For the protocol of
`MdnsSystem` the three facts Init => Inv, Inv /\ [Next]_vars => Inv', Inv => property are
proved for two invariants.

`OwnershipInv` (`OwnershipProofs`, no assumption beyond the types of the constants):
types; `LockInv`, a mutex is held only in the middle of an operation of its holder on
that queue; `PlaceInv`, at each place of the code only certain states are possible
(`StatesAt`) and an action has pushes left exactly where it is pushing; `FreeInv`,
the thread learns of a release only after the client has completed it, and frees in
a fixed order. `NoUseAfterFree` alone is not inductive: that a thread in ST_WMARK1
may free the queues follows only from where it came from, so the invariant follows
the release from the queue (`Queued`) through the event into the states of the exit
sequence. From it follow `TypeCorrect`, `NothingFreedIsTouched`,
`NothingSentIsDropped`, `DrainOnlyShrinks` (in the draining states `FreeInv` says that the client is
through and `StatesAt` that nothing is being pushed), `AllOrNothingIsFreed` (the rows into
ST_QUIT start before the first free or after the last) and `OwnershipRefinement`.

`ShutdownInv` (`ShutdownProofs`, for `PutMayFail = FALSE`) adds `ClosingInv`, a closing
command is the last message the client ever sends, and `MarkerInv`, which says where
`BMSG_EXITED` and the two markers are at each stage: queues are `Plain` before
the exit sequence, `Exited` after its first push, `Marked` after its second, and
in ST_WMARK2 the command queue is empty while `out` still ends with its marker.
From it follow `CleanupFindsEmptyQueues`, `TrapUnreachable`, `QuitLeavesOwner`,
`ExitedComesLast` and `ClientNeverMeetsMarker`. Its last part, `LifeInv`, is for the refinement
of `ThreadLife` (`ThreadLives`): a request that was queued is still in the queue while the thread
is in ST_START, and a closing event is at hand only where a row of the table acts on it, or in
ST_START's own row; the mapping `Phase` reads off the two whether the request was lost. With failed allocations these are false: a lost marker lets
E_MARKERS arrive in ST_WMARK1, whose row quits without cleaning.

`FsmProofs` turns the first-match search of the table into lemmas, one per state;
`RowCases` collects them, `TrapOnlyFromMark1` says that ST_WMARK1 is the only state
without a row for any event.

`QueueProofs` proves `ListOK` inductive together with `TypeOK`, and the refinement of
`Deque` from it, for any sets of threads, cells and values. `ListOK` asks for a
listing of the cells; `ListingUnique` (by the least counterexample, with
`WFMin`) says that there is only one, so that the mapping `Queued` is well
defined, and `PutSafeEffect`, `PutHeadSafeEffect` and `GetSafeEffect` give the
listing after each function and what becomes of `Queued`. `CallMoves` covers the
control of the calls. The steps of `QueueStep` then map to a put, a get, an answer
of "nothing", or a stutter.

`MutexHeldExactly` takes `TypeOK` and one lemma, `StepsGuarded`: seen from the mutex, a step of a
call enters the critical places with it, leaves them without it or stays on its side, and a
signal moves no other call across that line.

`WaitTimerProofs` proves `NotEarly`, `NotLate` and `RefusedExactly` for any clock, any
`usec_timer` and any constants with a second of nanoseconds within an int. The
strengthening is `DeadlineExact` (where the product fits, the timespec is the call's time plus
the timer, in one count of nanoseconds; where it does not, it is no later) and
`AsleepAccepted` (whoever sleeps, sleeps on a valid timespec). `CarryKeepsTime` says that the carry moves
a second and changes no time, `ProductBounds` that either outcome of the product is at
most the true one, and equal to it when that is an int; `PassedIsLater`, `Monotone` and
`StrictlyMonotone` carry comparisons from microseconds to nanoseconds.

`PluginProofs` has three layers. `BlocksInv` (any host, any fault) says which blocks can
exist without which others, and that an instance that is destroyed has released the
client it had; `DestroyAlwaysReleases` follows. `ThreadInv` (no failing
`pthread_create`) relates `started` to the thread. `CauseInv` (any host, any fault) says that a
started client has its channel until the thread has cleaned up, that this takes a release, and a
release the deletion of the object; `FirstTouchHasCause` follows. `SafeInv` (a host that keeps its references
in order, `Kept`, and `Faults` within channel and thread) ties `mem`, `sent` and `thread`
together: the channel is freed only by a thread that has read the one exit & clean;
without it, `OnlyTheObject` is not inductive. It holds up to the delete of `NPP_Destroy` and says
that nothing else was misused when that did not find its block (`SafeDestroy`).
`OnlyTheObjectIsMisused` takes its part about any host from `CauseInv`, the other from `SafeInv`;
`WhatIsLeftIsKnown` and the refinement `PluginKeepsItsPromise` follow from `SafeInv`.
`PluginThreadLives` needs only `BlocksInv` and a `LifeInv` of
the module (a thread that is not done has its channel, a deaf or finished one was asked to
leave) and holds for any host and fault. The theorems name their assumptions; each
is needed, as "Where the assumptions end" shows, but for `Kept` in `WhatIsLeftIsKnown`: there TLC finds
no violation under the other hosts either, and only the proof by `SafeInv` asks for it.

`SharedBusProofs` proves, for any finite set of threads, `BusInv` (types, `StageInv`, which says
what each stage implies of the connection and the client, and `RefsExact`; `refs` is a natural
number because it is a cardinality) and `OrderInv`, whose parts `TakenInv` and `FeedInv` bound what
has been pushed by the message dispatched last, except the one being dispatched:
`InOrderOnce` alone does not say that the next message is larger than all before it.
`EndInv` follows a thread through its exit: `DrainInv` says that no marker is in a queue before
the exit sequence, that there is exactly one while it flushes, and that what is behind it, or left
at the clean-up, is of the bus and comes only to a thread that others can disturb (not
`Undisturbed`). `CleanUpFindsEmpty` and `OneInstanceIsSafe` follow.

`TestClientProofs` proves the refinement of `ChannelClient` for any number of cycles.

Only model-checked: the liveness properties (`ExitRead`, `ReleaseCompletes`,
`WaitReadsCommands`, `CallsReturn`, `SignalsArrive`, `Ends`), because temporal reasoning
under fairness is outside what the prover's backends do. Every other property of
the passing runs is a theorem, under the assumptions named above.

## Plan

Done, in this order: the transition table, the thread, the channel and the client with
the shutdown protocol; the queue library; the plugin instance and the failing start;
the shared connection; the test program; theorems for each. What could be added
is a composition of `SharedBus` with the detailed `Browser`, two copies of the thread
stepping between each other's queue operations; the coarser module already shows
what the sharing breaks.

## Not modelled

- Message text: the JSON string, `translateType`, and the copy of an answer into a
  block one byte too short (`npobject_browser.cc:154`). Sequential data handling that
  a test with a memory checker settles.
- Logging and the debug macros: output only.
- The unfinished predecessor in `src/project/plugin`: its `ingress.cc` does not compile and
  neither thread is connected to the plugin's entry points; its `queue.cc` is the one
  modelled here but for two assertions.
- The extension page and the manual scripts in `src/project/tests`: users of the system.
- libdbus itself. `SharedBus` takes its dispatch as serialised; nothing in the repository
  calls `dbus_threads_init`, which versions before 1.7.4 ask for. The shared connection is taken
  to stay open after the last `dbus_connection_unref`, and no new one to be handed
  out after it was lost.
- Timers of `queue_wait_timer` whose product overflows are among the calls of `WaitTimer`; only
  `NotLate` is claimed of them, since such a wait may indeed be cut short.
- Allocations by `new`, which throws, and of `InstanceData`, whose failure makes `NPP_New` report
  an instance that does not exist.
