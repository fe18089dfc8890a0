------------------------------- MODULE MCPipe -------------------------------
(* End 1 is the session of a SUB socket: it hiccups, lingers and passes on *)
(* messages of several parts.  End 2 is the socket and sends subscriptions.*)
EXTENDS Pipe, TLC

MCWriters   == {1, 2}
MCMultiPart == {1}
MCHiccupers == {1}
MCLinger    == {1}
MCMaxMsgs   == <<1, 3>>
MCDelays    == {<<TRUE, TRUE>>, <<FALSE, FALSE>>}
=============================================================================
