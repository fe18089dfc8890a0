------------------------------ MODULE MCPubSub ------------------------------
(* PubSub on a small instance. *)
EXTENDS PubSub, TLC

CONSTANTS u1, u2

MCSubs == {u1, u2}
MCPrefixes == {<<>>, <<1>>, <<2>>, <<3>>, <<3, 2>>}
\* Only u2 can lose subscriptions.
MCSubHwm == (u1 :> 0) @@ (u2 :> 2)

Each(x, y) == (u1 :> x) @@ (u2 :> y)
MCPlan(type, verbose, prefixes, ops, connects, msgs, reads) ==
  [type |-> type, verbose |-> verbose, prefixes |-> prefixes, ops |-> ops,
   connects |-> connects, msgs |-> msgs, reads |-> reads]

\* One subscriber with many prefixes; two that share some, the second of which
\* fills its pipe or reconnects; one that connects with more subscriptions
\* than its watermark; messages with few subscriptions.
MCPlans ==
  {MCPlan("XPUB", FALSE, Each(MCPrefixes, {}), Each(4, 0), Each(1, 0), 0, 0),
   MCPlan("XPUB", TRUE, Each({<<3>>}, {<<3>>, <<2>>}), Each(1, 2), Each(1, 2),
          0, 1),
   MCPlan("XPUB", FALSE, Each({<<3>>}, {<<3>>}), Each(1, 4), Each(1, 1), 0, 0),
   MCPlan("XPUB", FALSE, Each({<<3, 2>>, <<>>}, {<<3>>, <<2>>}), Each(2, 2),
          Each(1, 1), 0, 0),
   MCPlan("XPUB", FALSE, Each({}, {<<1>>, <<2>>, <<3>>}), Each(0, 5),
          Each(0, 2), 0, 0),
   MCPlan("PUB", FALSE, Each({<<1>>}, {}), Each(2, 0), Each(1, 0), 2, 0),
   MCPlan("PUB", FALSE, Each({<<1>>}, {<<>>}), Each(1, 1), Each(1, 1), 2, 0)}

MCTopics == {<<1>>, <<3, 2>>}
=============================================================================
