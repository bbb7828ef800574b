----------------------------- MODULE Lifecycle ------------------------------
(****************************************************************************)
(* Start and stop of the plugin: OnStartup and OnShutdown over the          *)
(* upstreams (src/dnsredir.go:46-62), Start and Stop of one upstream        *)
(* (src/upstream.go:68-91) with the calls they make in order, and the       *)
(* goroutines and handles these leave behind.                               *)
(****************************************************************************)
EXTENDS Integers, Sequences

VARIABLES
  ups,     \* the upstreams, with the settings Start and Stop look at
  phase,   \* setup, starting, startfailed, serving, stopping, stopped, stopfailed, crashed
  at,      \* <<i, step>>: the upstream being started or stopped, and its next step
  running, \* goroutines of each upstream: path, url, worker, manager
  told,    \* goroutines of each upstream whose stop channel is closed
  handles  \* kernel handles each upstream holds open: ipset, pf

lifeVars == <<ups, phase, at, running, told, handles>>

-----------------------------------------------------------------------------
\* Goroutines that periodicUpdate and HealthCheck.Start launch for an upstream;
\* "manager" stands for the connection managers of its hosts.
Reloaders(up) == {g \in {"path", "url"} : up[g]}
Checkers(up) == {"manager"} \cup {g \in {"worker"} : up[g]}
Goroutines(up) == Reloaders(up) \cup Checkers(up)
Devices(up) == {h \in {"ipset", "pf"} : up[h]}

i0 == at[1]
Doing(p, step) == phase = p /\ at[2] = step
Go(step) == at' = <<i0, step>> /\ UNCHANGED phase
Return(p) == phase' = p /\ UNCHANGED at

\* The loops of OnStartup and OnShutdown: on to the next upstream, or the end.
NextUpstream(done) ==
  IF i0 < Len(ups) THEN at' = <<i0 + 1, "lists">> /\ UNCHANGED phase
                   ELSE Return(done)

-----------------------------------------------------------------------------
\* Start of one upstream.
StartLists ==
  /\ Doing("starting", "lists")
  /\ running' = [running EXCEPT ![i0] = @ \cup Reloaders(ups[i0])]
  /\ Go("check")
  /\ UNCHANGED <<ups, told, handles>>

StartCheck_NoManagers ==
  /\ Doing("starting", "check")
  /\ running' = [running EXCEPT ![i0] = @ \cup (Checkers(ups[i0]) \ {"manager"})]
  /\ Go("ipset")
  /\ UNCHANGED <<ups, told, handles>>

StartCheck ==
  /\ Doing("starting", "check")
  /\ running' = [running EXCEPT ![i0] = @ \cup Checkers(ups[i0])]
  /\ Go("ipset")
  /\ UNCHANGED <<ups, told, handles>>

\* Without the early return of OnStartup and Start a failed step is not noticed.
ipsetSetup_GoesOn ==
  /\ Doing("starting", "ipset")
  /\ \/ ups[i0].ipset /\ handles' = [handles EXCEPT ![i0] = @ \cup {"ipset"}]
     \/ UNCHANGED handles
  /\ Go("pf")
  /\ UNCHANGED <<ups, running, told>>

ipsetSetup ==
  /\ Doing("starting", "ipset")
  /\ \/ ~ups[i0].ipset /\ Go("pf") /\ UNCHANGED handles
     \/ ups[i0].ipset /\ Go("pf") /\ handles' = [handles EXCEPT ![i0] = @ \cup {"ipset"}]
     \/ ups[i0].ipset /\ Return("startfailed") /\ UNCHANGED handles
  /\ UNCHANGED <<ups, running, told>>

\* pfSetup opens the device first, then creates the tables that ask for it.
pfOpen ==
  /\ Doing("starting", "pf")
  /\ \/ ~ups[i0].pf /\ Go("tables") /\ UNCHANGED handles
     \/ ups[i0].pf /\ Go("tables") /\ handles' = [handles EXCEPT ![i0] = @ \cup {"pf"}]
     \/ ups[i0].pf /\ Return("startfailed") /\ UNCHANGED handles
  /\ UNCHANGED <<ups, running, told>>

pfCreateTables ==
  /\ Doing("starting", "tables")
  /\ \/ NextUpstream("serving")
     \/ ups[i0].create /\ Return("startfailed")
  /\ UNCHANGED <<ups, running, told, handles>>

-----------------------------------------------------------------------------
\* Variant: one of the two reload channels is forgotten.
StopLists_PathOnly ==
  /\ Doing("stopping", "lists")
  /\ told' = [told EXCEPT ![i0] = @ \cup {"path"}]
  /\ Go("check")
  /\ UNCHANGED <<ups, running, handles>>

\* Stop of one upstream. close() of the two reload channels.
StopLists ==
  /\ Doing("stopping", "lists")
  /\ told' = [told EXCEPT ![i0] = @ \cup {"path", "url"}]
  /\ Go("check")
  /\ UNCHANGED <<ups, running, handles>>

StopCheck_NotTold ==
  /\ Doing("stopping", "check")
  /\ Go("wait")
  /\ UNCHANGED <<ups, running, told, handles>>

StopCheck ==
  /\ Doing("stopping", "check")
  /\ told' = [told EXCEPT ![i0] = @ \cup {"worker"}]
  /\ Go("wait")
  /\ UNCHANGED <<ups, running, handles>>

\* HealthCheck.Stop waits for the worker and only then stops the transports.
StopTransports ==
  /\ Doing("stopping", "wait") /\ "worker" \notin running[i0]
  /\ told' = [told EXCEPT ![i0] = @ \cup {"manager"}]
  /\ Go("ipset")
  /\ UNCHANGED <<ups, running, handles>>

ipsetShutdown ==
  /\ Doing("stopping", "ipset")
  /\ \/ Go("pf") /\ handles' = [handles EXCEPT ![i0] = @ \ {"ipset"}]
     \/ ups[i0].ipset /\ Return("stopfailed") /\ UNCHANGED handles
  /\ UNCHANGED <<ups, running, told>>

pfShutdown ==
  /\ Doing("stopping", "pf")
  /\ \/ NextUpstream("stopped") /\ handles' = [handles EXCEPT ![i0] = @ \ {"pf"}]
     \/ ups[i0].pf /\ Return("stopfailed") /\ UNCHANGED handles
  /\ UNCHANGED <<ups, running, told>>

\* Variant: the goroutine that reloads pages has no case for its stop channel.
Exit_NotUrl(i, g) ==
  /\ phase # "crashed"
  /\ g \in (running[i] \cap told[i]) \ {"url"}
  /\ running' = [running EXCEPT ![i] = @ \ {g}]
  /\ UNCHANGED <<ups, phase, at, told, handles>>

\* A goroutine sees its stop channel closed and returns.
Exit(i, g) ==
  /\ phase # "crashed"
  /\ g \in running[i] \cap told[i]
  /\ running' = [running EXCEPT ![i] = @ \ {g}]
  /\ UNCHANGED <<ups, phase, at, told, handles>>

\* connManager passes the expire interval to time.NewTicker, which panics on zero.
TickerPanics(i) ==
  /\ phase # "crashed"
  /\ "manager" \in running[i] /\ ups[i].expire = 0
  /\ Return("crashed")
  /\ UNCHANGED <<ups, running, told, handles>>

\* The server asks for the shutdown once the plugin has started.
OnShutdown ==
  /\ phase = "serving"
  /\ phase' = "stopping" /\ at' = <<1, "lists">>
  /\ UNCHANGED <<ups, running, told, handles>>

StartStep == StartLists \/ StartCheck \/ ipsetSetup \/ pfOpen \/ pfCreateTables
StopStep == StopLists \/ StopCheck \/ StopTransports \/ ipsetShutdown \/ pfShutdown

LifeInit ==
  /\ ups = <<>> /\ phase = "setup" /\ at = <<1, "lists">>
  /\ running = <<>> /\ told = <<>> /\ handles = <<>>

LifeNext ==
  \/ StartStep \/ OnShutdown \/ StopStep
  \/ \E i \in DOMAIN ups : TickerPanics(i) \/ \E g \in running[i] : Exit(i, g)

-----------------------------------------------------------------------------
\* Stop closes only what Start opened, and each of it once: while the plugin serves,
\* every upstream has the handles it needs, and the shutdown finds those of the upstreams
\* it has not reached untouched. Otherwise ipsetShutdown would call Close on a nil
\* connection and pfShutdown close the descriptor -1 (src/ipset_linux.go:65, src/pf_darwin.go:128).
HandlesOpen ==
  \A i \in DOMAIN ups :
    /\ phase = "serving" => handles[i] = Devices(ups[i])
    /\ phase = "stopping" =>
         /\ i < i0 => handles[i] = {}
         /\ i > i0 => handles[i] = Devices(ups[i])
         /\ i = i0 => handles[i] = Devices(ups[i]) \ {h \in {"ipset"} : at[2] = "pf"}

\* When OnStartup returns an error, the goroutines of the failing upstream and of all
\* before it are running, nobody has told them to stop, and nothing of the upstreams
\* after it was started (src/dnsredir.go:46-53, src/upstream.go:68-78).
PartialStart ==
  phase = "startfailed" =>
    \A i \in DOMAIN ups :
      /\ running[i] = IF i <= i0 THEN Goroutines(ups[i]) ELSE {}
      /\ told[i] = {}
      /\ i < i0 => handles[i] = Devices(ups[i])
      /\ i > i0 => handles[i] = {}

\* The goroutines of an upstream have been told to stop, and its worker has.
AllTold(i) == Goroutines(ups[i]) \subseteq told[i] /\ "worker" \notin running[i]

\* How far a shutdown has come: the upstreams before its place are released, all of them
\* when OnShutdown returns without error; those after it go on running as if there were
\* none, and stay so when OnShutdown returns an error, with the goroutines of the failing
\* one told to stop. Stop waits for a worker only after telling it, so that the wait can
\* end (src/dnsredir.go:55-62, src/healthcheck.go:584-591).
PartialStop ==
  \A i \in DOMAIN ups :
    /\ phase = "stopped" \/ (phase \in {"stopping", "stopfailed"} /\ i < i0) =>
         AllTold(i) /\ handles[i] = {}
    /\ phase \in {"stopping", "stopfailed"} /\ i > i0 =>
         told[i] = {} /\ running[i] = Goroutines(ups[i]) /\ handles[i] = Devices(ups[i])
    /\ phase = "stopfailed" /\ i = i0 => AllTold(i)
    /\ Doing("stopping", "wait") /\ i = i0 => "worker" \in told[i]

\* A zero duration disables a feature, it does not end the process (README: "zero
\* time(i.e. `0`) duration to disable corresponding feature unless it's explicitly
\* stated otherwise"), said of `expire`, which stands there without exception.
ZeroDisables == (\E i \in DOMAIN ups : ups[i].expire = 0) => phase # "crashed"

\* OnShutdown comes back: the wait for the health check worker in HealthCheck.Stop
\* ends, with every upstream stopped or with the error of one (src/healthcheck.go:584-591).
ShutdownEnds == phase = "stopping" ~> phase \in {"stopped", "stopfailed", "crashed"}

\* After a shutdown without error nothing of the plugin is left: every reloader, worker
\* and connection manager of every upstream returns and every handle is closed (unless
\* a connection manager that was not scheduled before meets the zero interval).
AllReleased ==
  phase = "stopped" ~>
    \/ phase = "crashed"
    \/ phase = "stopped" /\ \A i \in DOMAIN ups : running[i] = {} /\ handles[i] = {}

=============================================================================
