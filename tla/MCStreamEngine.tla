--------------------------- MODULE MCStreamEngine ---------------------------
(* StreamEngine on a small instance: a byte has 4 values, a long length 2    *)
(* bytes.                                                                    *)
EXTENDS StreamEngine, TLC

M(size, more) == [more |-> more, body |-> SubSeq([i \in 1..size |-> i % 4], 1, size)]
Bytes(n) == M(n, FALSE).body

MCPlan(kind, type, ids, max, recv, msgs, closers, breaks) ==
  [kind |-> <<"new", kind>>, type |-> <<type, "SUB">>,
   identity |-> <<Bytes(ids[1]), Bytes(ids[2])>>, maxmsgsize |-> max,
   recv_identity |-> recv, msgs |-> msgs, closers |-> closers,
   breaks |-> breaks, broken |-> FALSE]

NoMax == <<-1, -1>>
TT == <<TRUE, TRUE>>
FT == <<FALSE, TRUE>>
TF == <<TRUE, FALSE>>
FF2 == <<FALSE, FALSE>>
\* Lengths around the boundaries of both framings; long identities; old peers;
\* a limit; an end that closes; a connection that breaks.
MCPlans ==
  {MCPlan("new", "DEALER", <<0, 1>>, NoMax, TT, <<<<M(3, TRUE), M(4, FALSE)>>, <<>>>>, {}, FALSE),
   MCPlan("old", "DEALER", <<0, 2>>, NoMax, TF, <<<<M(1, TRUE), M(2, FALSE)>>, <<M(1, FALSE)>>>>, {}, FALSE),
   MCPlan("old", "PUB", <<2, 0>>, NoMax, FF2, <<<<>>, <<M(2, FALSE)>>>>, {}, FALSE),
   MCPlan("rev0", "DEALER", <<1, 0>>, NoMax, FT, <<<<M(0, FALSE)>>, <<M(2, FALSE)>>>>, {}, FALSE),
   MCPlan("new", "DEALER", <<0, 0>>, <<-1, 2>>, FT, <<<<M(2, FALSE), M(3, FALSE)>>, <<>>>>, {}, FALSE),
   MCPlan("new", "DEALER", <<0, 0>>, NoMax, TT, <<<<M(0, FALSE), M(1, FALSE)>>, <<M(0, FALSE)>>>>, {1}, FALSE),
   MCPlan("new", "DEALER", <<0, 0>>, NoMax, TT, <<<<M(2, FALSE)>>, <<>>>>, {}, TRUE)}
=============================================================================
