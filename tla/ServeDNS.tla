------------------------------- MODULE ServeDNS ------------------------------
(****************************************************************************)
(* Requests through Dnsredir.ServeDNS (dnsredir.go), with the parts of the  *)
(* system they meet: the connection cache and the failure counter of every  *)
(* host, the health checks, and the goroutines failed requests leave.       *)
(*                                                                          *)
(* Those parts appear by what they promise.  A cache is a number of idle    *)
(* connections (ConnPool); a call of Select takes time, hosts change under  *)
(* it, and it returns what Selection allows (which Select implements); a    *)
(* health check is one step (HealthCheck has them overlap).                 *)
(****************************************************************************)
EXTENDS Integers, Sequences

CONSTANTS
  Requests,  \* request goroutines
  Hosts,     \* hosts of the upstream the name is routed to
  NoHost,    \* the nil *UpstreamHost
  Policies,  \* policies an upstream may be configured with
  MaxFails,  \* max_fails, when it is not 0
  MaxRetry,  \* max_retry
  MaxCache,  \* bound: idle connections per host
  MaxTimers  \* bound: sleeping goroutines per host

ASSUME ServeAssumption ==
  /\ MaxFails \in Nat \ {0} /\ MaxRetry \in Nat
  /\ MaxCache \in Nat /\ MaxTimers \in Nat \ {0}
  /\ NoHost \notin Hosts

VARIABLES
  maxFails,   \* u.maxFails
  policy,     \* u.policy
  spray,      \* u.spray # nil
  checking,   \* u.checkInterval # 0
  alive,      \* per host: it answers
  fails,      \* per host: uh.fails
  timers,     \* per host: sleeping goroutines of healthCheck
  cache,      \* per host: idle connections
  spotless,   \* history, per host: it has always answered, and no exchange has failed
  pc,         \* per request: where it is
  steadyUp,   \* per request: hosts up since its call of Select began
  steadyDown, \* per request: hosts down since then
  tries,      \* per request: tryCount
  host,       \* per request: the selected host
  cached,     \* per request: its connection came from the cache
  err,        \* per request: upstreamErr # nil
  routed,     \* per request: the reply's addresses are in ipset and pf
  written,    \* per request: the messages passed to WriteMsg
  ret         \* per request: what ServeDNS returned

config == <<maxFails, policy, spray, checking>>
hostVars == <<alive, fails, timers, cache, spotless>>
selectVars == <<steadyUp, steadyDown>>
requestVars == <<pc, tries, host, cached, err, routed, written, ret>>
vars == <<config, hostVars, selectVars, requestVars>>

FailCap == MaxFails + MaxTimers

\* checkDownFunc
Down(h) == fails[h] >= maxFails /\ maxFails > 0

Up == {h \in Hosts : ~Down(h)}

\* HealthCheck.Select
Select ==
  INSTANCE Selection WITH Callers <- Requests,
                          pool <- Hosts,
                          down <- [h \in Hosts |-> Down(h)],
                          asking <- {r \in Requests : pc[r] = "select"},
                          result <- host

\* What the calls of Select under way make of a step that changes counters.
HostsTurn ==
  /\ steadyUp' = [r \in Requests |-> steadyUp[r] \cap Up']
  /\ steadyDown' = [r \in Requests |-> steadyDown[r] \ Up']

ServeInit ==
  /\ maxFails \in {0, MaxFails}
  /\ policy \in Policies
  /\ spray \in BOOLEAN
  /\ checking \in BOOLEAN
  /\ alive \in [Hosts -> BOOLEAN]
  /\ fails = [h \in Hosts |-> 0]
  /\ timers = [h \in Hosts |-> 0]
  /\ cache = [h \in Hosts |-> 0]
  /\ spotless = alive
  /\ steadyUp = [r \in Requests |-> {}]
  /\ steadyDown = [r \in Requests |-> {}]
  /\ pc = [r \in Requests |-> "done"]
  /\ tries = [r \in Requests |-> 0]
  /\ host = [r \in Requests |-> NoHost]
  /\ cached = [r \in Requests |-> FALSE]
  /\ err = [r \in Requests |-> FALSE]
  /\ routed = [r \in Requests |-> FALSE]
  /\ written = [r \in Requests |-> <<>>]
  /\ ret = [r \in Requests |-> "next"]

-----------------------------------------------------------------------------
\* The hosts and their health checks

\* A host stops or starts to answer.
Flip(h) ==
  /\ alive' = [alive EXCEPT ![h] = ~@]
  /\ spotless' = [spotless EXCEPT ![h] = FALSE]
  /\ UNCHANGED <<config, fails, timers, cache, selectVars, requestVars>>

\* Variant: a failed check does not count.
Checked_FailureIgnored(h, n) == IF alive[h] THEN 0 ELSE n

\* What a health check does to the counter.
Checked(h, n) == IF alive[h] THEN 0 ELSE n + 1

\* The worker's check of a host.
Check(h) ==
  /\ checking
  /\ alive[h] \/ fails[h] < FailCap
  /\ fails' = [fails EXCEPT ![h] = Checked(h, @)]
  /\ UNCHANGED <<config, alive, timers, cache, spotless, requestVars>>
  /\ HostsTurn

\* A sleeping goroutine lowers the counter, and checks the host or not.
TimerFire(h) ==
  /\ timers[h] > 0
  /\ timers' = [timers EXCEPT ![h] = @ - 1]
  /\ \/ fails' = [fails EXCEPT ![h] = @ - 1]
     \/ /\ alive[h] \/ fails[h] <= FailCap
        /\ fails' = [fails EXCEPT ![h] = Checked(h, @ - 1)]
  /\ UNCHANGED <<config, alive, cache, spotless, requestVars>>
  /\ HostsTurn

\* connManager drops the idle connections that expired, the oldest ones.
Expire(h) ==
  /\ \E n \in 0 .. cache[h] - 1 : cache' = [cache EXCEPT ![h] = n]
  /\ UNCHANGED <<config, alive, fails, timers, spotless, selectVars,
                 requestVars>>

\* Of the requests beyond the ones followed here: one has its answer and yields its
\* connection, under the requests that find it in the cache.
Refill(h) ==
  /\ alive[h] /\ cache[h] < MaxCache
  /\ cache' = [cache EXCEPT ![h] = @ + 1]
  /\ UNCHANGED <<config, alive, fails, timers, spotless, selectVars,
                 requestVars>>

-----------------------------------------------------------------------------
\* A request

\* ServeDNS returns v, and its local variables are gone.
Return(r, v) ==
  /\ ret' = [ret EXCEPT ![r] = v]
  /\ pc' = [pc EXCEPT ![r] = "done"]
  /\ tries' = [tries EXCEPT ![r] = 0]
  /\ host' = [host EXCEPT ![r] = NoHost]
  /\ cached' = [cached EXCEPT ![r] = FALSE]
  /\ err' = [err EXCEPT ![r] = FALSE]

\* Variant: the error is assigned to a variable of the inner block.
NextIteration_Shadowed(r) ==
  /\ pc' = [pc EXCEPT ![r] = "loop"]
  /\ host' = [host EXCEPT ![r] = NoHost]
  /\ cached' = [cached EXCEPT ![r] = FALSE]
  /\ UNCHANGED err

\* `continue` with upstreamErr set.
NextIteration(r) ==
  /\ pc' = [pc EXCEPT ![r] = "loop"]
  /\ host' = [host EXCEPT ![r] = NoHost]
  /\ cached' = [cached EXCEPT ![r] = FALSE]
  /\ err' = [err EXCEPT ![r] = TRUE]

\* A request whose name is in no name list goes to the next plugin.
Pass(r) ==
  /\ pc[r] = "done"
  /\ routed' = [routed EXCEPT ![r] = FALSE]
  /\ written' = [written EXCEPT ![r] = <<>>]
  /\ Return(r, "next")
  /\ UNCHANGED <<config, hostVars, selectVars>>

\* A request whose name matches.
Receive(r) ==
  /\ pc[r] = "done"
  /\ pc' = [pc EXCEPT ![r] = "loop"]
  /\ routed' = [routed EXCEPT ![r] = FALSE]
  /\ written' = [written EXCEPT ![r] = <<>>]
  /\ ret' = [ret EXCEPT ![r] = "none"]
  /\ UNCHANGED <<config, hostVars, selectVars, tries, host, cached, err>>

\* The head of the loop: the deadline may have passed or not, at any iteration.
\* If not, Select is called.
Try(r) ==
  /\ pc[r] = "loop"
  /\ tries' = [tries EXCEPT ![r] = @ + 1]
  /\ pc' = [pc EXCEPT ![r] = "select"]
  /\ steadyUp' = [steadyUp EXCEPT ![r] = Up]
  /\ steadyDown' = [steadyDown EXCEPT ![r] = Hosts \ Up]
  /\ UNCHANGED <<config, hostVars, host, cached, err, routed, written, ret>>

\* Variant: one try too few.
Selected_OneLess(r) ==
  /\ pc[r] = "select"
  /\ \E h \in Select!Promised(r) :
       IF h = NoHost \/ tries[r] >= MaxRetry
         THEN Return(r, "no_healthy")
         ELSE /\ host' = [host EXCEPT ![r] = h]
              /\ pc' = [pc EXCEPT ![r] = "dial"]
              /\ UNCHANGED <<tries, cached, err, ret>>
  /\ steadyUp' = [steadyUp EXCEPT ![r] = {}]
  /\ steadyDown' = [steadyDown EXCEPT ![r] = {}]
  /\ UNCHANGED <<config, hostVars, routed, written>>

\* Select returns: there is no host, the tries are used up, or one is tried.
Selected(r) ==
  /\ pc[r] = "select"
  /\ \E h \in Select!Promised(r) :
       IF h = NoHost \/ tries[r] > MaxRetry
         THEN Return(r, "no_healthy")
         ELSE /\ host' = [host EXCEPT ![r] = h]
              /\ pc' = [pc EXCEPT ![r] = "dial"]
              /\ UNCHANGED <<tries, cached, err, ret>>
  /\ steadyUp' = [steadyUp EXCEPT ![r] = {}]
  /\ steadyDown' = [steadyDown EXCEPT ![r] = {}]
  /\ UNCHANGED <<config, hostVars, routed, written>>

\* The deadline has passed.
GiveUp(r) ==
  /\ pc[r] = "loop"
  /\ Return(r, IF err[r] THEN "upstream_error" ELSE "panic")
  /\ UNCHANGED <<config, hostVars, selectVars, routed, written>>

\* Exchange gets a connection, from the cache if there is one.
Dial(r) ==
  LET h == host[r] IN
  /\ pc[r] = "dial"
  /\ pc' = [pc EXCEPT ![r] = "exchange"]
  /\ cached' = [cached EXCEPT ![r] = cache[h] > 0]
  /\ cache' = [cache EXCEPT ![h] = IF @ > 0 THEN @ - 1 ELSE 0]
  /\ UNCHANGED <<config, alive, fails, timers, spotless, selectVars,
                 tries, host, err, routed, written, ret>>

\* Variant: the closed connection goes back into the cache.
CachedClosed_Kept(r) ==
  /\ pc[r] = "exchange"
  /\ cached[r]
  /\ pc' = [pc EXCEPT ![r] = "dial"]
  /\ cached' = [cached EXCEPT ![r] = FALSE]
  /\ cache' = [cache EXCEPT ![host[r]] = @ + 1]
  /\ UNCHANGED <<config, alive, fails, timers, spotless, selectVars,
                 tries, host, err, routed, written, ret>>

\* Variant: it counts as a failure of the host.
CachedClosed_Blamed(r) ==
  /\ pc[r] = "exchange"
  /\ cached[r]
  /\ pc' = [pc EXCEPT ![r] = "dial"]
  /\ cached' = [cached EXCEPT ![r] = FALSE]
  /\ fails' = [fails EXCEPT ![host[r]] = IF @ < FailCap THEN @ + 1 ELSE @]
  /\ UNCHANGED <<config, alive, timers, cache, spotless, tries, host,
                 err, routed, written, ret>>
  /\ HostsTurn

\* errCachedConnClosed: the same host is tried again with another connection,
\* neither the deadline nor tryCount being looked at.
CachedClosed(r) ==
  /\ pc[r] = "exchange"
  /\ cached[r]
  /\ pc' = [pc EXCEPT ![r] = "dial"]
  /\ cached' = [cached EXCEPT ![r] = FALSE]
  /\ UNCHANGED <<config, hostVars, selectVars, tries, host, err, routed,
                 written, ret>>

\* Exchange fails otherwise, as it may with a host that answers too (a connection that
\* is reset, a reply under another Id), and its connection is closed: healthCheck
\* raises the counter and leaves a sleeping goroutine, if checking is on.
Fail(r) ==
  LET h == host[r] IN
  /\ pc[r] = "exchange"
  /\ NextIteration(r)
  /\ IF maxFails # 0 /\ checking
       THEN /\ timers[h] < MaxTimers
            /\ fails' = [fails EXCEPT ![h] = @ + 1]
            /\ timers' = [timers EXCEPT ![h] = @ + 1]
       ELSE UNCHANGED <<fails, timers>>
  /\ spotless' = [spotless EXCEPT ![h] = FALSE]
  /\ UNCHANGED <<config, alive, cache, tries, routed, written, ret>>
  /\ HostsTurn

\* The host answers: the connection is yielded, though perhaps not taken, and
\* the reply belongs to the question or not.
Answer(r) ==
  LET h == host[r] IN
  /\ pc[r] = "exchange"
  /\ alive[h]
  /\ err' = [err EXCEPT ![r] = FALSE]
  /\ \E to \in {"matching", "wrong"} : pc' = [pc EXCEPT ![r] = to]
  /\ \E n \in {cache[h], cache[h] + 1} \cap 0..MaxCache :
       cache' = [cache EXCEPT ![h] = n]
  /\ cached' = [cached EXCEPT ![r] = FALSE]
  /\ UNCHANGED <<config, alive, fails, timers, spotless, selectVars,
                 tries, host, routed, written, ret>>

\* Variant: the format error does not end the request.
WrongReply_GoesOn(r) ==
  /\ pc[r] = "wrong"
  /\ written' = [written EXCEPT ![r] = Append(@, "formerr")]
  /\ pc' = [pc EXCEPT ![r] = "matching"]
  /\ UNCHANGED <<config, hostVars, selectVars, tries, host, cached, err,
                 routed, ret>>

\* A reply to another question is answered with a format error.
WrongReply(r) ==
  /\ pc[r] = "wrong"
  /\ written' = [written EXCEPT ![r] = Append(@, "formerr")]
  /\ Return(r, "success")
  /\ UNCHANGED <<config, hostVars, selectVars, routed>>

\* ipsetAddIP and pfAddIP, before the reply is written.
AddIPs(r) ==
  /\ pc[r] = "matching"
  /\ pc' = [pc EXCEPT ![r] = "write"]
  /\ routed' = [routed EXCEPT ![r] = TRUE]
  /\ UNCHANGED <<config, hostVars, selectVars, tries, host, cached, err,
                 written, ret>>

WriteReply(r) ==
  /\ pc[r] = "write"
  /\ written' = [written EXCEPT ![r] = Append(@, "reply")]
  /\ Return(r, "success")
  /\ UNCHANGED <<config, hostVars, selectVars, routed>>

RequestStep(r) ==
  \/ Try(r)
  \/ Selected(r)
  \/ GiveUp(r)
  \/ Dial(r)
  \/ CachedClosed(r)
  \/ Fail(r)
  \/ Answer(r)
  \/ WrongReply(r)
  \/ AddIPs(r)
  \/ WriteReply(r)

ServeNext ==
  \/ \E h \in Hosts : Flip(h) \/ Check(h) \/ TimerFire(h) \/ Expire(h) \/ Refill(h)
  \/ \E r \in Requests : Pass(r) \/ Receive(r) \/ RequestStep(r)

ServeSpec == ServeInit /\ [][ServeNext]_vars

\* Request goroutines run; the ticker keeps firing; sleeping goroutines wake up.
ServeFairness ==
  /\ \A r \in Requests : WF_vars(RequestStep(r))
  /\ \A h \in Hosts : WF_vars(Check(h)) /\ WF_vars(TimerFire(h))

FairServeSpec == ServeSpec /\ ServeFairness

-----------------------------------------------------------------------------
\* Properties

PCs == {"loop", "select", "dial", "exchange", "matching", "wrong", "write", "done"}
Results == {"none", "next", "no_healthy", "upstream_error", "panic", "success"}

\* Every variable stays in its domain; the loop is entered at most one time more
\* than max_retry allows tries.
ServeTypeOK ==
  /\ maxFails \in {0, MaxFails}
  /\ policy \in Policies
  /\ spray \in BOOLEAN
  /\ checking \in BOOLEAN
  /\ alive \in [Hosts -> BOOLEAN]
  /\ fails \in [Hosts -> (-MaxTimers)..(FailCap + MaxTimers)]
  /\ timers \in [Hosts -> 0..MaxTimers]
  /\ cache \in [Hosts -> 0..MaxCache]
  /\ spotless \in [Hosts -> BOOLEAN]
  /\ steadyUp \in [Requests -> SUBSET Hosts]
  /\ steadyDown \in [Requests -> SUBSET Hosts]
  /\ pc \in [Requests -> PCs]
  /\ tries \in [Requests -> 0..MaxRetry + 1]
  /\ host \in [Requests -> Hosts \cup {NoHost}]
  /\ cached \in [Requests -> BOOLEAN]
  /\ err \in [Requests -> BOOLEAN]
  /\ routed \in [Requests -> BOOLEAN]
  /\ written \in [Requests -> {<<>>, <<"formerr">>, <<"reply">>}]
  /\ ret \in [Requests -> Results]

\* ServeDNS writes one message when it returns RcodeSuccess and none otherwise
\* (the server answers a SERVFAIL itself), after any number of failed tries,
\* closed connections and lost deadlines.
OneAnswer ==
  \A r \in Requests :
    pc[r] = "done" => (Len(written[r]) = IF ret[r] = "success" THEN 1 ELSE 0)

\* "Add resolved IPs to ipset/pf before write response to DNS resolver": a
\* client that has the reply finds its addresses routed.
RoutedFirst ==
  \A r \in Requests : written[r] = <<"reply">> => routed[r]

\* The panic "Why upstreamErr is nil?!" is out of reach of a request that got to
\* try a host, however its tries ended.
PanicOnlyUntried ==
  [][\A r \in Requests :
       pc[r] # "done" /\ pc'[r] = "done" /\ ret'[r] = "panic"
         => tries[r] = 0]_vars

\* A host that has always answered, and with which no exchange has failed otherwise,
\* is never marked down, although its idle connections are closed under requests:
\* errCachedConnClosed is not held against it. (Only an io.EOF becomes that error,
\* src/healthcheck.go:441-453; a reset connection counts as a failure.)
SpotlessUp == \A h \in Hosts : spotless[h] => ~Down(h)

\* A request is refused with "no healthy upstream host" only after max_retry
\* failed tries, or, without spray, when no host was up all through the call of
\* Select - hence none that has always answered - or round robin met a host that
\* changed during it.
RefusedForCause ==
  [][\A r \in Requests :
       pc[r] # "done" /\ pc'[r] = "done" /\ ret'[r] = "no_healthy"
         => \/ tries[r] = MaxRetry + 1 /\ (err[r] \/ MaxRetry = 0)
            \/ ~spray /\ steadyUp[r] = {} /\ \A h \in Hosts : ~spotless[h]
            \/ /\ ~spray /\ policy = "round_robin"
               /\ steadyUp[r] \cup steadyDown[r] # Hosts]_vars

\* While a request drains the cache of its host, another one adds to it.
Refilled(r) ==
  /\ pc[r] \in {"dial", "exchange"} /\ pc'[r] = pc[r]
  /\ cache'[host[r]] > cache[host[r]]

\* Every request ends, though the inner loop (src/dnsredir.go:92-103) looks at neither the
\* deadline nor the number of tries: each turn of it takes a connection out of the cache
\* for good. The one exception the code leaves is a request that finds, turn after
\* turn, a connection that others have yielded since and the peer has closed.
ServeReturns ==
  \A r \in Requests : <>[][~Refilled(r)]_vars => []<>(pc[r] = "done")

\* Some host answers, checking is on, and neither does a host change nor an exchange with
\* one that answers fail.
Settled ==
  /\ checking /\ maxFails # 0 /\ policy # "spray"
  /\ alive' = alive /\ \E h \in Hosts : alive[h]
  /\ \A r \in Requests : pc[r] = "exchange" /\ pc'[r] = "loop" => ~alive[host[r]]

\* Health checks, counters, selection and retries together: once no host changes
\* any more, checking is on and some host answers, a time comes from which on no
\* request is refused or ends with an upstream error.
FailoverWorks ==
  <>[][Settled]_vars
    => <>[][\A r \in Requests :
              pc[r] # "done" /\ pc'[r] = "done"
                => ret'[r] \notin {"no_healthy", "upstream_error"}]_vars
=============================================================================
