------------------------------ MODULE MCSession -----------------------------
(* Session on a small instance. *)
EXTENDS Session

MCPlan(type, linger, delay_attach, other, msgs, peer, breaks, failures,
       links, disconnects) ==
  [type |-> type, linger |-> linger, delay_attach |-> delay_attach,
   other |-> other, msgs |-> msgs, peerParts |-> peer, breaks |-> breaks,
   links |-> links,
   steady |-> breaks = 0 /\ ~disconnects, failures |-> failures, ivl |-> 2,
   max |-> 3, disconnects |-> disconnects, closes |-> TRUE]

C == {"closed"}
LC == {"lost", "closed"}

\* A connection that lasts; one that breaks while the peer sends, while there
\* are subscriptions, while pipes are attached late, without being noticed;
\* zmq_disconnect.
MCPlans ==
  {MCPlan("DEALER", -1, FALSE, FALSE, 2, 0, 0, 1, C, FALSE),
   MCPlan("DEALER", -1, FALSE, FALSE, 0, 3, 1, 0, C, FALSE),
   MCPlan("SUB", 0, FALSE, TRUE, 2, 0, 1, 0, C, FALSE),
   MCPlan("DEALER", 1, TRUE, FALSE, 0, 0, 1, 0, C, FALSE),
   MCPlan("DEALER", -1, FALSE, FALSE, 2, 0, 1, 0, LC, FALSE),
   MCPlan("DEALER", 1, FALSE, TRUE, 1, 0, 0, 1, C, TRUE)}
=============================================================================
