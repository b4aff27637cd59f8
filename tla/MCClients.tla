----------------------------- MODULE MCClients -----------------------------
(***************************************************************************)
(* Each front end in turn over one client, with a channel of one message   *)
(* at the daemon and two at the client, so that both can overrun.          *)
(***************************************************************************)
EXTENDS Clients

MCTasks == {"main", "init", "stream", "act", "sse", "http"}
MCBudget == [tui |-> 2, web |-> 2, gui |-> 1]
=============================================================================
