-------------------------------- MODULE MCMdns --------------------------------
(***************************************************************************)
(* MdnsSystem and its inductive invariants on small instances.  The        *)
(* configurations bound the backlog of `out' (MaxOut), the commands of the *)
(* client that wait in `in' (MaxIn) and choose the faults.                 *)
(***************************************************************************)
EXTENDS MdnsInvariant

\* A client that only polls and releases, as NPBrowser does, and one that uses
\* the whole command interface of MDNSBrowser.
PollingClient    == {}
CommandingClient == {"BMSG_RECONNECT", "BMSG_EXIT"}
=============================================================================
