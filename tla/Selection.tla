------------------------------ MODULE Selection ------------------------------
(****************************************************************************)
(* What HealthCheck.Select promises its callers while hosts go up and down  *)
(* under it: Select implements it, ServeDNS is built on it.                 *)
(*                                                                          *)
(* A call is two events.  In between, the hosts that have been up and those *)
(* that have been down ever since it began are all that its result is bound *)
(* by: the code takes no snapshot of the counters and holds no lock.        *)
(****************************************************************************)

CONSTANTS
  Callers,  \* request goroutines
  NoHost    \* the nil *UpstreamHost

VARIABLES
  pool,        \* the hosts
  policy,      \* the policy's name
  spray,       \* the spray fallback is configured
  down,        \* what Down() answers, per host
  asking,      \* the callers in a call
  steadyUp,    \* per caller: the hosts up since its call began
  steadyDown,  \* per caller: the hosts down since its call began
  result       \* per caller: what its last call returned

selectionVars ==
  <<pool, policy, spray, down, asking, steadyUp, steadyDown, result>>

\* A call may find no host when none was up all along.  Round robin looks at
\* its candidate twice and may also find none because some host changed.
MayMiss(c) ==
  \/ steadyUp[c] = {}
  \/ policy = "round_robin" /\ steadyUp[c] \cup steadyDown[c] # pool

\* What a call may return: a host that was up at some time during it, ...
Seen(c) == pool \ steadyDown[c]

\* ... or, the spray policy not looking once there is one, any; and having
\* found none, any host to spray to, or nil.
Promised(c) ==
  UNION {Seen(c),
         IF policy = "spray" /\ Seen(c) # {} THEN pool ELSE {},
         IF ~MayMiss(c) THEN {} ELSE IF spray THEN pool ELSE {NoHost}}

SelectionInit ==
  /\ down = [h \in pool |-> FALSE]
  /\ asking = {}
  /\ steadyUp = [c \in Callers |-> {}]
  /\ steadyDown = [c \in Callers |-> {}]
  /\ result = [c \in Callers |-> NoHost]

\* A host goes up or down.
Turn(h) ==
  /\ down' = [down EXCEPT ![h] = ~@]
  /\ steadyUp' = [c \in Callers |-> steadyUp[c] \ {h}]
  /\ steadyDown' = [c \in Callers |-> steadyDown[c] \ {h}]
  /\ UNCHANGED <<pool, policy, spray, asking, result>>

Ask(c) ==
  /\ c \notin asking
  /\ asking' = asking \cup {c}
  /\ steadyUp' = [steadyUp EXCEPT ![c] = {h \in pool : ~down[h]}]
  /\ steadyDown' = [steadyDown EXCEPT ![c] = {h \in pool : down[h]}]
  /\ result' = [result EXCEPT ![c] = NoHost]
  /\ UNCHANGED <<pool, policy, spray, down>>

Tell(c) ==
  /\ c \in asking
  /\ asking' = asking \ {c}
  /\ \E h \in Promised(c) : result' = [result EXCEPT ![c] = h]
  /\ UNCHANGED <<pool, policy, spray, down, steadyUp, steadyDown>>

SelectionNext ==
  \/ \E h \in pool : Turn(h)
  \/ \E c \in Callers : Ask(c) \/ Tell(c)

SelectionSpec == SelectionInit /\ [][SelectionNext]_selectionVars
=============================================================================
