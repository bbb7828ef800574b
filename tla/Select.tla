-------------------------------- MODULE Select -------------------------------
(****************************************************************************)
(* HealthCheck.Select and the policies (healthcheck.go, policy.go).         *)
(* Callers are request goroutines.  Every Down() is one read of a failure   *)
(* counter that health checks and other requests change meanwhile, so each  *)
(* is a step of its own and any host may go up or down between two of them. *)
(****************************************************************************)
EXTENDS Integers, FiniteSets, FiniteSetsExt

CONSTANTS
  Callers,    \* request goroutines
  PoolMax,    \* bound: number of hosts of the upstream
  Policies,   \* policies an upstream may be configured with
  RobinSpan,  \* values of RoundRobin.robin (2^32 in the code, a uint32)
  NoHost      \* the nil *UpstreamHost

SupportedPolicies == {"random", "round_robin", "sequential", "spray"}

ASSUME SelectAssumption ==
  /\ PoolMax \in Nat \ {0}
  /\ RobinSpan \in Nat \ {0}
  /\ Policies \subseteq SupportedPolicies
  /\ NoHost \notin 0..PoolMax - 1

VARIABLES
  poolLen,     \* len(pool)
  policy,      \* hc.policy; nil behaves as "random"
  spray,       \* hc.spray # nil
  down,        \* what Down() answers, per host
  robin,       \* RoundRobin.robin
  pc,          \* where each caller is
  i,           \* loop index
  host,        \* the host at hand: randHost, or the round robin candidate
  first,       \* round robin: the index drawn
  result,      \* what Select returned
  steadyUp,    \* history: hosts that were up all through the call
  steadyDown   \* history: hosts that were down all through the call

config == <<poolLen, policy, spray>>
history == <<steadyUp, steadyDown>>
vars == <<config, down, robin, pc, i, host, first, result, history>>

Hosts == 0..poolLen - 1
PCs == {"idle", "single", "scan", "random", "round_robin", "robin", "final",
        "sequential", "spray", "done"}

SelectInit ==
  /\ poolLen \in 1..PoolMax
  /\ policy \in Policies
  /\ spray \in BOOLEAN
  /\ down = [h \in Hosts |-> FALSE]
  /\ robin = 0
  /\ pc = [c \in Callers |-> "idle"]
  /\ i = [c \in Callers |-> 0]
  /\ host = [c \in Callers |-> NoHost]
  /\ first = [c \in Callers |-> 0]
  /\ result = [c \in Callers |-> NoHost]
  /\ steadyUp = [c \in Callers |-> {}]
  /\ steadyDown = [c \in Callers |-> {}]

\* A host's failure counter crosses max_fails in either direction.
Flip(h) ==
  /\ h \in Hosts
  /\ down' = [down EXCEPT ![h] = ~@]
  /\ steadyUp' = [c \in Callers |-> steadyUp[c] \ {h}]
  /\ steadyDown' = [c \in Callers |-> steadyDown[c] \ {h}]
  /\ UNCHANGED <<config, robin, pc, i, host, first, result>>

-----------------------------------------------------------------------------
\* Select

\* The value of the call.
Returns(c, h) ==
  /\ result' = [result EXCEPT ![c] = h]
  /\ pc' = [pc EXCEPT ![c] = "done"]

\* No host was found: spray to a random one if configured, else nil.
NoneFound(c) ==
  \E h \in IF spray THEN Hosts ELSE {NoHost} : Returns(c, h)

\* The call begins; only a pool of several hosts is scanned.
Call(c) ==
  /\ pc[c] \in {"idle", "done"}
  /\ pc' = [pc EXCEPT ![c] = IF poolLen = 1 THEN "single" ELSE "scan"]
  /\ i' = [i EXCEPT ![c] = 0]
  /\ host' = [host EXCEPT ![c] = NoHost]
  /\ first' = [first EXCEPT ![c] = 0]
  /\ result' = [result EXCEPT ![c] = NoHost]
  /\ steadyUp' = [steadyUp EXCEPT ![c] = {h \in Hosts : ~down[h]}]
  /\ steadyDown' = [steadyDown EXCEPT ![c] = {h \in Hosts : down[h]}]
  /\ UNCHANGED <<config, down, robin>>

\* A pool of one: its host, unless it is down and there is no spray.
Single(c) ==
  /\ pc[c] = "single"
  /\ Returns(c, IF down[0] /\ ~spray THEN NoHost ELSE 0)
  /\ UNCHANGED <<config, down, robin, i, host, first, history>>

\* The first loop: a host that is up sends the caller to the policy ...
ScanUp(c) ==
  /\ pc[c] = "scan"
  /\ ~down[i[c]]
  /\ pc' = [pc EXCEPT ![c] = policy]
  /\ i' = [i EXCEPT ![c] = 0]
  /\ UNCHANGED <<config, down, robin, host, first, result, history>>

\* ... and when the last one is down too, all are taken to be.
ScanDown(c) ==
  /\ pc[c] = "scan"
  /\ down[i[c]]
  /\ IF i[c] + 1 < poolLen
       THEN /\ i' = [i EXCEPT ![c] = @ + 1]
            /\ UNCHANGED <<pc, result>>
       ELSE /\ NoneFound(c)
            /\ UNCHANGED i
  /\ UNCHANGED <<config, down, robin, host, first, history>>

-----------------------------------------------------------------------------
\* The policies' Select methods, with what HealthCheck.Select makes of them

\* Random: the first host up is kept, each later one replaces it or not.
RandomStep(c) ==
  /\ pc[c] = "random"
  /\ i[c] < poolLen
  /\ i' = [i EXCEPT ![c] = @ + 1]
  /\ \E h \in IF down[i[c]] THEN {host[c]}
              ELSE IF host[c] = NoHost THEN {i[c]}
              ELSE {host[c], i[c]} :
       host' = [host EXCEPT ![c] = h]
  /\ UNCHANGED <<config, down, robin, pc, first, result, history>>

RandomEnd(c) ==
  /\ pc[c] = "random"
  /\ i[c] = poolLen
  /\ IF host[c] = NoHost THEN NoneFound(c) ELSE Returns(c, host[c])
  /\ UNCHANGED <<config, down, robin, i, host, first, history>>

\* RoundRobin: AddUint32 and the host it points at.
RobinDraw(c) ==
  /\ pc[c] = "round_robin"
  /\ robin' = (robin + 1) % RobinSpan
  /\ first' = [first EXCEPT ![c] = robin' % poolLen]
  /\ host' = [host EXCEPT ![c] = robin' % poolLen]
  /\ i' = [i EXCEPT ![c] = 1]
  /\ pc' = [pc EXCEPT ![c] = "robin"]
  /\ UNCHANGED <<config, down, result, history>>

\* Upstreams with this policy share one RoundRobin: another one draws from it.
RobinElsewhere ==
  /\ policy = "round_robin"
  /\ robin' = (robin + 1) % RobinSpan
  /\ UNCHANGED <<config, down, pc, i, host, first, result, history>>

\* Variant: a host is skipped.
RobinLoop_SkipsOne(c) ==
  /\ pc[c] = "robin"
  /\ IF down[host[c]] /\ i[c] < poolLen
       THEN /\ host' = [host EXCEPT ![c] = (first[c] + i[c] + 1) % poolLen]
            /\ i' = [i EXCEPT ![c] = @ + 1]
            /\ UNCHANGED pc
       ELSE /\ pc' = [pc EXCEPT ![c] = "final"]
            /\ UNCHANGED <<host, i>>
  /\ UNCHANGED <<config, down, robin, first, result, history>>

\* The loop: `host.Down() && i < poolLen`, in this order.
RobinLoop(c) ==
  /\ pc[c] = "robin"
  /\ IF down[host[c]] /\ i[c] < poolLen
       THEN /\ host' = [host EXCEPT ![c] = (first[c] + i[c]) % poolLen]
            /\ i' = [i EXCEPT ![c] = @ + 1]
            /\ UNCHANGED pc
       ELSE /\ pc' = [pc EXCEPT ![c] = "final"]
            /\ UNCHANGED <<host, i>>
  /\ UNCHANGED <<config, down, robin, first, result, history>>

\* The host the loop ended at is asked once more.
RobinEnd(c) ==
  /\ pc[c] = "final"
  /\ IF down[host[c]] THEN NoneFound(c) ELSE Returns(c, host[c])
  /\ UNCHANGED <<config, down, robin, i, host, first, history>>

\* Variant: the last host is never looked at.
SequentialDown_SkipsLast(c) ==
  /\ pc[c] = "sequential"
  /\ down[i[c]]
  /\ IF i[c] + 2 < poolLen
       THEN /\ i' = [i EXCEPT ![c] = @ + 1]
            /\ UNCHANGED <<pc, result>>
       ELSE /\ NoneFound(c)
            /\ UNCHANGED i
  /\ UNCHANGED <<config, down, robin, host, first, history>>

\* Sequential: the first host that is up.
SequentialUp(c) ==
  /\ pc[c] = "sequential"
  /\ ~down[i[c]]
  /\ Returns(c, i[c])
  /\ UNCHANGED <<config, down, robin, i, host, first, history>>

SequentialDown(c) ==
  /\ pc[c] = "sequential"
  /\ down[i[c]]
  /\ IF i[c] + 1 < poolLen
       THEN /\ i' = [i EXCEPT ![c] = @ + 1]
            /\ UNCHANGED <<pc, result>>
       ELSE /\ NoneFound(c)
            /\ UNCHANGED i
  /\ UNCHANGED <<config, down, robin, host, first, history>>

\* Spray as the policy: any host, up or down.
SprayPick(c) ==
  /\ pc[c] = "spray"
  /\ \E h \in Hosts : Returns(c, h)
  /\ UNCHANGED <<config, down, robin, i, host, first, history>>

CallerStep(c) ==
  \/ Single(c)
  \/ ScanUp(c)
  \/ ScanDown(c)
  \/ RandomStep(c)
  \/ RandomEnd(c)
  \/ RobinDraw(c)
  \/ RobinLoop(c)
  \/ RobinEnd(c)
  \/ SequentialUp(c)
  \/ SequentialDown(c)
  \/ SprayPick(c)

SelectNext ==
  \/ \E c \in Callers : Call(c) \/ CallerStep(c)
  \/ \E h \in 0..PoolMax - 1 : Flip(h)
  \/ RobinElsewhere

SelectSpec == SelectInit /\ [][SelectNext]_vars

\* The callers inside Select.
Asking == {c \in Callers : pc[c] \notin {"idle", "done"}}

Promise == INSTANCE Selection WITH pool <- Hosts, asking <- Asking

-----------------------------------------------------------------------------
\* Properties

\* Every variable stays in its domain; a call returns a host of the pool or nil.
SelectTypeOK ==
  /\ poolLen \in 1..PoolMax
  /\ policy \in Policies
  /\ spray \in BOOLEAN
  /\ down \in [Hosts -> BOOLEAN]
  /\ robin \in 0..RobinSpan - 1
  /\ pc \in [Callers -> PCs]
  /\ i \in [Callers -> 0..poolLen]
  /\ host \in [Callers -> Hosts \cup {NoHost}]
  /\ first \in [Callers -> Hosts]
  /\ result \in [Callers -> Hosts \cup {NoHost}]
  /\ steadyUp \in [Callers -> SUBSET Hosts]
  /\ steadyDown \in [Callers -> SUBSET Hosts]

\* Returned nil, or a host that was down throughout: there was no better one.
Failed(c) == pc[c] = "done" /\ result[c] \in steadyDown[c] \cup {NoHost}

\* However hosts flip meanwhile, nil is returned, or a host that was down all the
\* time, only when no host was up all the time - with any policy that looks at
\* hosts in turn.  Round robin, whose second look can fail, is apart, and so is
\* the spray policy, which never looks.
SteadyHostFound ==
  \A c \in Callers :
    Failed(c) /\ policy \in {"random", "sequential"} => steadyUp[c] = {}

\* However the reads of the scan, of the policy and of the fallbacks fall between
\* the changes of the hosts, every call returns what Selection promises: a host
\* down throughout is returned only by spraying, and nil, or a host sprayed to,
\* only when no host was up throughout or round robin met a change.
ImplementsSelection == Promise!SelectionSpec

\* With spray configured a request always gets a host.
SprayAnswers == \A c \in Callers : pc[c] = "done" /\ spray => result[c] # NoHost

\* Round robin order: the first host that is up at or after the one drawn.
NextUp(up, start) ==
  (start + Min({k \in 0..poolLen - 1 : (start + k) % poolLen \in up})) % poolLen

\* What a call may return when the hosts in `up` are up throughout.
Expected(c, up) ==
  IF up = {}
    THEN IF spray THEN Hosts ELSE {NoHost}
    ELSE CASE policy = "spray"       -> Hosts
           [] policy = "random"      -> up
           [] policy = "sequential"  -> {Min(up)}
           [] policy = "round_robin" -> {NextUp(up, first[c])}

\* When no host flips during a call, the scan, the policy and the fallbacks
\* together return what the policy's definition says.
QuietCallExact ==
  \A c \in Callers :
    pc[c] = "done" /\ steadyUp[c] \cup steadyDown[c] = Hosts
      => result[c] \in Expected(c, steadyUp[c])

=============================================================================
