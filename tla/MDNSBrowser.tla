----------------------------- MODULE MDNSBrowser -----------------------------
(***************************************************************************)
(* The client side of the channel: MDNSBrowser (mdnsbrowser.cc) as the     *)
(* plugin object NPBrowser uses it on the host's main thread.  It keeps to *)
(* the note at the head of browser.cc: having sent "exit & clean" it no    *)
(* longer touches the queues; having sent "exit", which leaves the         *)
(* clean-up to the client, it sends nothing more.                          *)
(*                                                                         *)
(* cpc is the place of the client thread: "new" (no MDNSBrowser yet),      *)
(* "idle" (between calls), "pop" (in popMsg, holding the mutex of `out'),  *)
(* "push" (in pushMsg, holding the mutex of `in'), "done" (released).      *)
(***************************************************************************)
EXTENDS CommChannel

CONSTANTS Commands,     \* commands pushMsg may be called with before release
          MaxIn         \* none of them is added to a longer `in'

ASSUME ClientAssumption ==
    Commands \subseteq {"BMSG_RECONNECT", "BMSG_EXIT"} /\ MaxIn \in Nat

VARIABLES cpc,
          cmd,          \* the command being pushed, or the last one pushed
          got           \* what the last popMsg returned

clientVars == <<cpc, cmd, got>>

ClientInit ==
    /\ cpc = "new"
    /\ cmd = "NULL"
    /\ got = "NULL"

\* MDNSBrowser::init and browser_init: the channel exists, the thread follows.
InitClient ==
    /\ cpc = "new"
    /\ cpc' = "idle"
    /\ UNCHANGED <<cmd, got, channelVars>>

-----------------------------------------------------------------------------
(* popMsg: queue_get_nb on `out'; a busy mutex looks like an empty queue.  *)

PopBusy ==
    /\ cpc = "idle" /\ lock["out"] = "worker"
    /\ got' = "NULL"
    /\ UNCHANGED <<cpc, cmd, channelVars>>

PopLock ==
    /\ cpc = "idle" /\ Lock("out", "client")
    /\ cpc' = "pop"
    /\ UNCHANGED <<cmd, got, items, freed>>

PopTake ==
    /\ cpc = "pop"
    /\ got' = Taken("out", "client")
    /\ Take("out", "client")
    /\ cpc' = "idle"
    /\ UNCHANGED <<cmd, freed>>

-----------------------------------------------------------------------------
(* pushMsg, and release, which is pushMsg(BMSG_EXIT_CLEAN).                *)

Closing == {"BMSG_EXIT", "BMSG_EXIT_CLEAN"}

\* Nothing is pushed after a request to leave: pushMsg does not refuse it, this is the
\* client's part of the note at the head of browser.cc (see ChannelClient), which
\* PluginObject and TestClient keep and any other caller must.
PushLockIn(c) ==
    /\ cpc = "idle" /\ cmd \notin Closing
    /\ Lock("in", "client")
    /\ cpc' = "push"
    /\ cmd' = c
    /\ UNCHANGED <<got, items, freed>>

PushMsg == Len(items["in"]) < MaxIn /\ \E c \in Commands : PushLockIn(c)

Release == PushLockIn("BMSG_EXIT_CLEAN")

PushPutIn ==
    /\ cpc = "push"
    /\ Put("in", cmd)
    /\ cpc' = IF cmd = "BMSG_EXIT_CLEAN" THEN "done" ELSE "idle"
    /\ UNCHANGED <<cmd, got, freed>>

PopMsg == PopBusy \/ PopLock \/ PopTake
Client == PopMsg \/ PushMsg \/ Release \/ PushPutIn
=============================================================================
