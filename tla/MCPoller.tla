------------------------------ MODULE MCPoller ------------------------------
(* Each poller over three descriptors: four registrations with input only, *)
(* and three with all the events, or two of the events for poll and select *)
(* that look at every event in each pass; and the timers over one of the   *)
(* pollers.                                                                *)
EXTENDS Poller

MCPlan(i, n, events) == [impl |-> i, regs |-> n, sinks |-> 0, events |-> events]

MCPlans ==
  {MCPlan(i, 4, {"in"}) : i \in {"epoll", "kqueue", "poll", "select", "devpoll"}}
    \cup {MCPlan(i, 3, Events) : i \in {"epoll", "kqueue", "devpoll"}}
    \cup {MCPlan(i, 3, {"in", "err"}) : i \in {"poll", "select"}}
    \cup {MCPlan(i, 2, Events) : i \in {"poll", "select"}}
    \cup {[impl |-> "epoll", regs |-> 1, sinks |-> 2, events |-> {"in"}]}
=============================================================================
