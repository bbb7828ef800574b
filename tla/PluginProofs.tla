---------------------------- MODULE PluginProofs -----------------------------
(****************************************************************************)
(* Proofs about Plugin and its parts, for any lines, tables of words and    *)
(* number of upstreams: an accepted block means what its lines say, its     *)
(* hosts inherit its settings and its list can be used, and what a start or *)
(* a shutdown that ends with an error leaves behind.                        *)
(****************************************************************************)
EXTENDS Plugin, ConfigProofs

\* The goroutines, phases and steps of Lifecycle.
Threads == {"path", "url", "worker", "manager"}
Phases == {"starting", "startfailed", "serving", "stopping", "stopped", "stopfailed", "crashed"}
StepNames == {"lists", "check", "ipset", "pf", "tables", "wait"}

UpstreamParts ==
  [path : BOOLEAN, url : BOOLEAN, worker : BOOLEAN, expire : Int,
   ipset : BOOLEAN, pf : BOOLEAN, create : BOOLEAN]

LifeTypeOK ==
  /\ ups \in Seq(UpstreamParts)
  /\ phase \in Phases
  /\ at \in (1 .. Len(ups)) \X StepNames
  /\ running \in [1 .. Len(ups) -> SUBSET Threads]
  /\ told \in [1 .. Len(ups) -> SUBSET Threads]
  /\ handles \in [1 .. Len(ups) -> SUBSET {"ipset", "pf"}]

\* An upstream that was not started, one that is up, and one that was stopped.
Untouched(i) == running[i] = {} /\ told[i] = {} /\ handles[i] = {}
Running(i) == running[i] = Goroutines(ups[i]) /\ told[i] = {} /\ handles[i] = Devices(ups[i])
Stopped(i) == told[i] = Threads /\ "worker" \notin running[i] /\ handles[i] = {}

\* The upstream being started, and the one being stopped, before each of their steps.
HalfStarted(i) ==
  /\ at[2] \in {"lists", "check", "ipset", "pf", "tables"}
  /\ told[i] = {}
  /\ at[2] = "lists" => running[i] = {}
  /\ at[2] = "check" => running[i] = Reloaders(ups[i])
  /\ at[2] \in {"ipset", "pf", "tables"} => running[i] = Goroutines(ups[i])
  /\ at[2] \in {"lists", "check", "ipset"} => handles[i] = {}
  /\ at[2] = "pf" => handles[i] = Devices(ups[i]) \ {"pf"}
  /\ at[2] = "tables" => handles[i] = Devices(ups[i])

HalfStopped(i) ==
  /\ at[2] \in {"lists", "check", "wait", "ipset", "pf"}
  /\ at[2] # "lists" => {"path", "url"} \subseteq told[i]
  /\ at[2] \in {"wait", "ipset", "pf"} => "worker" \in told[i]
  /\ at[2] \in {"ipset", "pf"} => "manager" \in told[i] /\ "worker" \notin running[i]
  /\ at[2] # "pf" => handles[i] = Devices(ups[i])
  /\ at[2] = "pf" => handles[i] = Devices(ups[i]) \ {"ipset"}

Starting ==
  /\ HalfStarted(i0)
  /\ \A i \in 1 .. Len(ups) : (i < i0 => Running(i)) /\ (i > i0 => Untouched(i))

Stopping ==
  /\ HalfStopped(i0)
  /\ \A i \in 1 .. Len(ups) : (i < i0 => Stopped(i)) /\ (i > i0 => Running(i))

StopFailed ==
  \A i \in 1 .. Len(ups) :
    /\ i <= i0 => told[i] = Threads /\ "worker" \notin running[i]
    /\ i < i0 => handles[i] = {}
    /\ i > i0 => Running(i)

\* OnStartup is called on upstreams that have been set up.
LifeStarts ==
  /\ ups \in Seq(UpstreamParts) /\ ups # <<>>
  /\ phase = "starting" /\ at = <<1, "lists">>
  /\ running = [i \in DOMAIN ups |-> {}]
  /\ told = [i \in DOMAIN ups |-> {}]
  /\ handles = [i \in DOMAIN ups |-> {}]

\* The inductive invariant: what each upstream has, by the phase and the place in the loops.
LifeInv ==
  /\ LifeTypeOK
  /\ phase = "starting" => Starting
  /\ phase = "serving" => \A i \in 1 .. Len(ups) : Running(i)
  /\ phase = "stopping" => Stopping
  /\ PartialStart
  /\ phase = "stopfailed" => StopFailed
  /\ phase = "stopped" => \A i \in 1 .. Len(ups) : Stopped(i)

-----------------------------------------------------------------------------
\* The handles and goroutines of an upstream, by its settings.
LEMMA PartsFacts ==
  ASSUME NEW up \in UpstreamParts
  PROVE  /\ Devices(up) \subseteq {"ipset", "pf"}
         /\ "ipset" \in Devices(up) <=> up.ipset
         /\ "pf" \in Devices(up) <=> up.pf
         /\ Reloaders(up) \subseteq Threads
         /\ Goroutines(up) \subseteq Threads
         /\ Goroutines(up) = Reloaders(up) \cup Checkers(up)
BY DEF UpstreamParts, Devices, Reloaders, Checkers, Goroutines, Threads

\* The plugin begins with the invariant.
LEMMA LifeInvInit == LifeStarts => LifeInv
<1> SUFFICES ASSUME LifeStarts PROVE LifeInv
  OBVIOUS
<1>1. DOMAIN ups = 1 .. Len(ups) /\ Len(ups) \in Nat \ {0}
  BY DEF LifeStarts
<1>2. i0 = 1 /\ at[2] = "lists"
  BY DEF LifeStarts, i0
<1>3. LifeTypeOK
  BY <1>1 DEF LifeStarts, LifeTypeOK, Phases, StepNames, Threads
<1>4. Starting
  BY <1>1, <1>2 DEF LifeStarts, Starting, HalfStarted, Untouched
<1> QED
  BY <1>3, <1>4 DEF LifeStarts, LifeInv, PartialStart

\* Only the upstream whose turn it is changes in a step of OnStartup or OnShutdown.
LEMMA StartStepInv ==
  ASSUME LifeInv, StartStep
  PROVE  LifeInv'
<1> USE DEF Phases, StepNames
<1>1. /\ phase = "starting" /\ Starting /\ LifeTypeOK /\ ups' = ups /\ told' = told
      /\ DOMAIN ups = 1 .. Len(ups) /\ Len(ups) \in Nat /\ i0 \in 1 .. Len(ups)
      /\ at = <<i0, at[2]>> /\ ups[i0] \in UpstreamParts
  BY DEF LifeInv, LifeTypeOK, StartStep, StartLists, StartCheck, ipsetSetup, pfOpen,
         pfCreateTables, Doing, i0
<1>t. i0 \in Int /\ Len(ups) \in Int /\ i0 <= Len(ups)
  BY <1>1
<1>2. CASE StartLists
  <2>1. /\ at[2] = "lists" /\ i0' = i0 /\ at'[2] = "check" /\ phase' = "starting" /\ handles' = handles
        /\ at' = <<i0, "check">>
        /\ running' = [running EXCEPT ![i0] = @ \cup Reloaders(ups[i0])]
    BY <1>1, <1>2 DEF StartLists, Doing, Go, i0
  <2>2. LifeTypeOK'
    BY <1>1, <2>1, PartsFacts DEF LifeTypeOK
  <2>3. Starting'
    BY <1>1, <2>1 DEF Starting, HalfStarted, Running, Untouched, LifeTypeOK
  <2> QED
    BY <2>1, <2>2, <2>3 DEF LifeInv, PartialStart
<1>3. CASE StartCheck
  <2>1. /\ at[2] = "check" /\ i0' = i0 /\ at'[2] = "ipset" /\ phase' = "starting" /\ handles' = handles
        /\ at' = <<i0, "ipset">>
        /\ running' = [running EXCEPT ![i0] = @ \cup Checkers(ups[i0])]
    BY <1>1, <1>3 DEF StartCheck, Doing, Go, i0
  <2>2. running[i0] \cup Checkers(ups[i0]) = Goroutines(ups[i0])
    BY <1>1, <2>1 DEF Starting, HalfStarted, Goroutines
  <2>3. LifeTypeOK'
    BY <1>1, <2>1, <2>2, PartsFacts DEF LifeTypeOK
  <2>4. Starting'
    BY <1>1, <2>1, <2>2 DEF Starting, HalfStarted, Running, Untouched, LifeTypeOK
  <2> QED
    BY <2>1, <2>3, <2>4 DEF LifeInv, PartialStart
<1>4. ASSUME phase' = "startfailed", at' = at, running' = running,
             handles' = handles, at[2] \in {"ipset", "pf", "tables"}
      PROVE  LifeInv'
  <2>1. i0' = i0
    BY <1>4 DEF i0
  <2>2. LifeTypeOK'
    BY <1>1, <1>4 DEF LifeTypeOK
  <2>3. ASSUME NEW i \in 1 .. Len(ups)
        PROVE  /\ running[i] = IF i <= i0 THEN Goroutines(ups[i]) ELSE {}
               /\ told[i] = {}
               /\ i < i0 => handles[i] = Devices(ups[i])
               /\ i > i0 => handles[i] = {}
    <3>1. CASE i < i0
      BY <1>1, <3>1 DEF Starting, Running
    <3>2. CASE i = i0
      BY <1>1, <1>4, <3>2 DEF Starting, HalfStarted
    <3>3. CASE i > i0
      <4>1. Untouched(i) /\ ~(i <= i0) /\ ~(i < i0)
        BY <1>1, <1>t, <3>3 DEF Starting
      <4> QED
        BY <4>1 DEF Untouched
    <3> QED
      BY <1>1, <3>1, <3>2, <3>3
  <2>4. PartialStart'
    BY <1>1, <1>4, <2>1, <2>3 DEF PartialStart
  <2> QED
    BY <1>4, <2>2, <2>4 DEF LifeInv
<1>5. ASSUME NEW h \in {"ipset", "pf"}, at[2] = h, phase' = phase, running' = running,
             at' = <<i0, IF h = "ipset" THEN "pf" ELSE "tables">>,
             \/ h \notin Devices(ups[i0]) /\ handles' = handles
             \/ /\ h \in Devices(ups[i0])
                /\ handles' = [handles EXCEPT ![i0] = @ \cup {h}]
      PROVE  LifeInv'
  <2>1. i0' = i0 /\ at'[2] = (IF h = "ipset" THEN "pf" ELSE "tables")
    BY <1>5 DEF i0
  <2>2. handles \in [1 .. Len(ups) -> SUBSET {"ipset", "pf"}]
    BY <1>1 DEF LifeTypeOK
  <2>3. \A i \in 1 .. Len(ups) : i # i0 => handles'[i] = handles[i]
    BY <1>1, <1>5, <2>2
  <2>4. handles'[i0] = handles[i0] \cup (Devices(ups[i0]) \cap {h})
    BY <1>1, <1>5, <2>2
  <2>5. handles'[i0] = IF h = "ipset" THEN Devices(ups[i0]) \ {"pf"} ELSE Devices(ups[i0])
    <3>1. Devices(ups[i0]) \subseteq {"ipset", "pf"}
      BY <1>1, PartsFacts
    <3> QED
      BY <1>1, <1>5, <2>4, <3>1 DEF Starting, HalfStarted
  <2>6. LifeTypeOK'
    <3>1. handles' \in [1 .. Len(ups) -> SUBSET {"ipset", "pf"}]
      BY <1>1, <1>5, <2>2
    <3> QED
      BY <1>1, <1>5, <3>1 DEF LifeTypeOK
  <2>7. HalfStarted(i0)'
    BY <1>1, <1>5, <2>1, <2>5 DEF Starting, HalfStarted
  <2>8. Starting'
    BY <1>1, <1>5, <2>1, <2>3, <2>7 DEF Starting, Running, Untouched
  <2> QED
    BY <1>1, <1>5, <2>6, <2>8 DEF LifeInv, PartialStart
<1>6. CASE ipsetSetup
  <2>1. "ipset" \in Devices(ups[i0]) <=> ups[i0].ipset
    BY <1>1, PartsFacts
  <2> QED
    BY <1>4, <1>5, <1>6, <2>1 DEF ipsetSetup, Doing, Go, Return
<1>7. CASE pfOpen
  <2>1. "pf" \in Devices(ups[i0]) <=> ups[i0].pf
    BY <1>1, PartsFacts
  <2> QED
    BY <1>4, <1>5, <1>7, <2>1 DEF pfOpen, Doing, Go, Return
<1>8. CASE pfCreateTables
  <2>1. at[2] = "tables" /\ running' = running /\ handles' = handles
    BY <1>8 DEF pfCreateTables, Doing
  <2>2. Running(i0)
    BY <1>1, <2>1 DEF Starting, HalfStarted, Running
  <2>3. CASE i0 < Len(ups) /\ at' = <<i0 + 1, "lists">> /\ phase' = phase
    <3>1. i0' = i0 + 1 /\ at'[2] = "lists"
      BY <2>3 DEF i0
    <3>2. LifeTypeOK'
      BY <1>1, <2>1, <2>3 DEF LifeTypeOK
    <3>3. Untouched(i0 + 1)
      BY <1>1, <2>3 DEF Starting
    <3>4. HalfStarted(i0)'
      BY <1>1, <2>1, <3>1, <3>3 DEF HalfStarted, Untouched
    <3>5. \A i \in 1 .. Len(ups) : (i < i0 + 1 => Running(i)) /\ (i > i0 + 1 => Untouched(i))
      BY <1>1, <2>2 DEF Starting
    <3>6. Starting'
      BY <1>1, <2>1, <3>1, <3>4, <3>5 DEF Starting, Running, Untouched
    <3> QED
      BY <1>1, <2>3, <3>2, <3>6 DEF LifeInv, PartialStart
  <2>4. CASE i0 = Len(ups) /\ phase' = "serving" /\ at' = at
    <3>1. LifeTypeOK'
      BY <1>1, <2>1, <2>4 DEF LifeTypeOK
    <3>2. \A i \in 1 .. Len(ups) : Running(i)
      BY <1>1, <2>2, <2>4 DEF Starting
    <3> QED
      BY <1>1, <2>1, <2>4, <3>1, <3>2 DEF LifeInv, PartialStart, Running
  <2>5. CASE phase' = "startfailed" /\ at' = at
    BY <1>4, <2>1, <2>5
  <2>6. \/ i0 < Len(ups) /\ at' = <<i0 + 1, "lists">> /\ phase' = phase
        \/ i0 = Len(ups) /\ phase' = "serving" /\ at' = at
        \/ phase' = "startfailed" /\ at' = at
    <3>1. CASE NextUpstream("serving") /\ i0 < Len(ups)
      BY <3>1 DEF NextUpstream
    <3>2. CASE NextUpstream("serving") /\ ~(i0 < Len(ups))
      <4>1. i0 = Len(ups)
        BY <1>t, <3>2
      <4> QED
        BY <3>2, <4>1 DEF NextUpstream, Return
    <3>3. CASE Return("startfailed")
      BY <3>3 DEF Return
    <3> QED
      BY <1>8, <3>1, <3>2, <3>3 DEF pfCreateTables
  <2> QED
    BY <2>3, <2>4, <2>5, <2>6
<1> QED
  BY <1>2, <1>3, <1>6, <1>7, <1>8 DEF StartStep

\* Every step of a shutdown keeps the invariant.
LEMMA StopStepInv ==
  ASSUME LifeInv, StopStep
  PROVE  LifeInv'
<1> USE DEF Phases, StepNames
<1>1. /\ phase = "stopping" /\ Stopping /\ LifeTypeOK /\ ups' = ups /\ running' = running
      /\ DOMAIN ups = 1 .. Len(ups) /\ Len(ups) \in Nat /\ i0 \in 1 .. Len(ups)
      /\ at = <<i0, at[2]>> /\ ups[i0] \in UpstreamParts
  BY DEF LifeInv, LifeTypeOK, StopStep, StopLists, StopCheck, StopTransports, ipsetShutdown,
         pfShutdown, Doing, i0
<1>t. i0 \in Int /\ Len(ups) \in Int /\ i0 <= Len(ups)
  BY <1>1
\* Closing channels: one upstream is told more.
<1>2. ASSUME NEW more \in SUBSET Threads, NEW next \in {"check", "wait", "ipset"},
             told' = [told EXCEPT ![i0] = @ \cup more], phase' = phase, handles' = handles,
             at' = <<i0, next>>, HalfStopped(i0)'
      PROVE  LifeInv'
  <2>1. i0' = i0
    BY <1>2 DEF i0
  <2>2. told \in [1 .. Len(ups) -> SUBSET Threads]
    BY <1>1 DEF LifeTypeOK
  <2>3. told' \in [1 .. Len(ups) -> SUBSET Threads]
    BY <1>1, <1>2, <2>2
  <2>4. LifeTypeOK'
    BY <1>1, <1>2, <2>3 DEF LifeTypeOK
  <2>5. \A i \in 1 .. Len(ups) : i # i0 => told'[i] = told[i]
    BY <1>1, <1>2, <2>2
  <2>6. Stopping'
    BY <1>1, <1>2, <2>1, <2>5 DEF Stopping, Stopped, Running
  <2> QED
    BY <1>1, <1>2, <2>4, <2>6 DEF LifeInv, PartialStart
<1>3. told \in [1 .. Len(ups) -> SUBSET Threads] /\ HalfStopped(i0)
  BY <1>1 DEF LifeTypeOK, Stopping
<1>4. CASE StopLists
  <2>1. /\ at[2] = "lists" /\ told' = [told EXCEPT ![i0] = @ \cup {"path", "url"}]
        /\ at' = <<i0, "check">> /\ phase' = phase /\ handles' = handles
    BY <1>4 DEF StopLists, Doing, Go
  <2>2. i0' = i0 /\ at'[2] = "check"
    BY <2>1 DEF i0
  <2>3. HalfStopped(i0)'
    BY <1>1, <1>3, <2>1, <2>2 DEF HalfStopped
  <2>4. {"path", "url"} \in SUBSET Threads
    BY DEF Threads
  <2> QED
    BY <1>2, <2>1, <2>3, <2>4, Zenon
<1>5. CASE StopCheck
  <2>1. /\ at[2] = "check" /\ told' = [told EXCEPT ![i0] = @ \cup {"worker"}]
        /\ at' = <<i0, "wait">> /\ phase' = phase /\ handles' = handles
    BY <1>5 DEF StopCheck, Doing, Go
  <2>2. i0' = i0 /\ at'[2] = "wait"
    BY <2>1 DEF i0
  <2>3. HalfStopped(i0)'
    BY <1>1, <1>3, <2>1, <2>2 DEF HalfStopped
  <2>4. {"worker"} \in SUBSET Threads
    BY DEF Threads
  <2> QED
    BY <1>2, <2>1, <2>3, <2>4, Zenon
<1>6. CASE StopTransports
  <2>1. /\ at[2] = "wait" /\ told' = [told EXCEPT ![i0] = @ \cup {"manager"}]
        /\ at' = <<i0, "ipset">> /\ phase' = phase /\ handles' = handles
        /\ "worker" \notin running[i0]
    BY <1>6 DEF StopTransports, Doing, Go
  <2>2. i0' = i0 /\ at'[2] = "ipset"
    BY <2>1 DEF i0
  <2>3. HalfStopped(i0)'
    BY <1>1, <1>3, <2>1, <2>2 DEF HalfStopped
  <2>4. {"manager"} \in SUBSET Threads
    BY DEF Threads
  <2> QED
    BY <1>2, <2>1, <2>3, <2>4, Zenon
\* The two ways out of the last steps.
<1>7. at[2] \in {"ipset", "pf"} => told[i0] = Threads /\ "worker" \notin running[i0]
  BY <1>1, <1>3 DEF HalfStopped, Threads
<1>8. ASSUME at[2] \in {"ipset", "pf"}, phase' = "stopfailed", at' = at,
             told' = told, handles' = handles
      PROVE  LifeInv'
  <2>1. i0' = i0
    BY <1>8 DEF i0
  <2>2. LifeTypeOK'
    BY <1>1, <1>8 DEF LifeTypeOK
  <2>3. ASSUME NEW i \in 1 .. Len(ups)
        PROVE  /\ i <= i0 => told[i] = Threads /\ "worker" \notin running[i]
               /\ i < i0 => handles[i] = {}
               /\ i > i0 => Running(i)
    <3>1. CASE i < i0
      BY <1>1, <1>t, <3>1 DEF Stopping, Stopped
    <3>2. CASE i = i0
      BY <1>7, <1>8, <1>t, <3>2
    <3>3. CASE i > i0
      BY <1>1, <1>t, <3>3 DEF Stopping
    <3> QED
      BY <1>t, <3>1, <3>2, <3>3
  <2>4. StopFailed'
    BY <1>1, <1>8, <2>1, <2>3 DEF StopFailed, Running
  <2> QED
    BY <1>8, <2>2, <2>4 DEF LifeInv, PartialStart
<1>9. handles \in [1 .. Len(ups) -> SUBSET {"ipset", "pf"}]
  BY <1>1 DEF LifeTypeOK
<1>10. CASE ipsetShutdown
  <2>1. at[2] = "ipset" /\ told' = told
    BY <1>10 DEF ipsetShutdown, Doing
  <2>2. CASE Go("pf") /\ handles' = [handles EXCEPT ![i0] = @ \ {"ipset"}]
    <3>1. i0' = i0 /\ at'[2] = "pf" /\ at' = <<i0, "pf">> /\ phase' = phase
      BY <2>2 DEF i0, Go
    <3>2. handles' \in [1 .. Len(ups) -> SUBSET {"ipset", "pf"}]
      BY <1>1, <1>9, <2>2
    <3>3. LifeTypeOK'
      BY <1>1, <2>1, <3>1, <3>2 DEF LifeTypeOK
    <3>4. HalfStopped(i0)'
      BY <1>1, <1>3, <1>9, <2>1, <2>2, <3>1 DEF HalfStopped
    <3>5. \A i \in 1 .. Len(ups) : i # i0 => handles'[i] = handles[i]
      BY <1>1, <1>9, <2>2
    <3>6. Stopping'
      BY <1>1, <2>1, <3>1, <3>4, <3>5 DEF Stopping, Stopped, Running
    <3> QED
      BY <1>1, <3>1, <3>3, <3>6 DEF LifeInv, PartialStart
  <2> QED
    BY <1>8, <1>10, <2>1, <2>2 DEF ipsetShutdown, Return
<1>11. CASE pfShutdown
  <2>1. at[2] = "pf" /\ told' = told
    BY <1>11 DEF pfShutdown, Doing
  <2>2. CASE NextUpstream("stopped") /\ handles' = [handles EXCEPT ![i0] = @ \ {"pf"}]
    <3>1. handles' \in [1 .. Len(ups) -> SUBSET {"ipset", "pf"}]
      BY <1>1, <1>9, <2>2
    <3>2. \A i \in 1 .. Len(ups) : i # i0 => handles'[i] = handles[i]
      BY <1>1, <1>9, <2>2
    <3>3. handles'[i0] = {}
      <4>1. Devices(ups[i0]) \subseteq {"ipset", "pf"}
        BY <1>1, PartsFacts
      <4> QED
        BY <1>1, <1>3, <1>9, <2>1, <2>2, <4>1 DEF HalfStopped
    <3>4. CASE i0 < Len(ups)
      <4>1. at' = <<i0 + 1, "lists">> /\ i0' = i0 + 1 /\ at'[2] = "lists" /\ phase' = phase
        BY <2>2, <3>4 DEF NextUpstream, i0
      <4>2. LifeTypeOK'
        BY <1>1, <1>t, <2>1, <3>1, <3>4, <4>1 DEF LifeTypeOK
      <4>3. Running(i0 + 1)
        BY <1>1, <1>t, <3>4 DEF Stopping
      <4>4. handles'[i0 + 1] = handles[i0 + 1]
        BY <1>t, <1>1, <3>2, <3>4
      <4>5. HalfStopped(i0)'
        BY <1>1, <2>1, <4>1, <4>3, <4>4 DEF HalfStopped, Running
      <4>6. ASSUME NEW i \in 1 .. Len(ups)
            PROVE  (i < i0 + 1 => Stopped(i)') /\ (i > i0 + 1 => Running(i)')
        <5>1. CASE i < i0
          BY <1>1, <1>t, <2>1, <3>2, <5>1 DEF Stopping, Stopped
        <5>2. CASE i = i0
          BY <1>1, <1>7, <1>t, <2>1, <3>3, <5>2 DEF Stopped
        <5>3. CASE i > i0
          BY <1>1, <1>t, <2>1, <3>2, <5>3 DEF Stopping, Running
        <5> QED
          BY <1>t, <5>1, <5>2, <5>3
      <4>7. Stopping'
        BY <1>1, <4>1, <4>5, <4>6 DEF Stopping
      <4> QED
        BY <1>1, <4>1, <4>2, <4>7 DEF LifeInv, PartialStart
    <3>5. CASE ~(i0 < Len(ups))
      <4>1. phase' = "stopped" /\ at' = at
        BY <2>2, <3>5 DEF NextUpstream, Return
      <4>2. LifeTypeOK'
        BY <1>1, <2>1, <3>1, <4>1 DEF LifeTypeOK
      <4>3. ASSUME NEW i \in 1 .. Len(ups) PROVE Stopped(i)'
        <5>1. CASE i < i0
          BY <1>1, <1>t, <2>1, <3>2, <5>1 DEF Stopping, Stopped
        <5>2. CASE i = i0
          BY <1>1, <1>7, <1>t, <2>1, <3>3, <5>2 DEF Stopped
        <5> QED
          BY <1>t, <3>5, <5>1, <5>2
      <4> QED
        BY <1>1, <4>1, <4>2, <4>3 DEF LifeInv, PartialStart
    <3> QED
      BY <3>4, <3>5
  <2> QED
    BY <1>8, <1>11, <2>1, <2>2 DEF pfShutdown, Return
<1> QED
  BY <1>4, <1>5, <1>6, <1>10, <1>11 DEF StopStep

\* Beginning a shutdown keeps the invariant.
LEMMA ShutdownInv ==
  ASSUME LifeInv, OnShutdown
  PROVE  LifeInv'
<1>1. /\ phase' = "stopping" /\ at' = <<1, "lists">> /\ UNCHANGED <<ups, running, told, handles>>
      /\ \A i \in 1 .. Len(ups) : Running(i)
  BY DEF OnShutdown, LifeInv
<1>2. i0' = 1 /\ at'[2] = "lists"
  BY <1>1 DEF i0
<1>3. Len(ups) \in Nat /\ 1 \in 1 .. Len(ups)
  BY DEF LifeInv, LifeTypeOK
<1>4. LifeTypeOK'
  BY <1>1, <1>3 DEF LifeInv, LifeTypeOK, Phases, StepNames
<1>5. HalfStopped(i0)'
  BY <1>1, <1>2, <1>3 DEF HalfStopped, Running
<1>6. Stopping'
  BY <1>1, <1>2, <1>5 DEF Stopping, Running
<1> QED
  BY <1>1, <1>4, <1>6 DEF LifeInv, PartialStart

\* A goroutine returns only where it has been told to, and only workers matter to the
\* upstreams that were.
LEMMA ExitInv ==
  ASSUME LifeInv, NEW j \in DOMAIN ups, NEW g \in running[j], Exit(j, g)
  PROVE  LifeInv'
<1>1. /\ g \in told[j] /\ running' = [running EXCEPT ![j] = @ \ {g}]
      /\ UNCHANGED <<ups, phase, at, told, handles>>
      /\ LifeTypeOK /\ j \in 1 .. Len(ups) /\ Len(ups) \in Nat
      /\ i0 \in 1 .. Len(ups) /\ DOMAIN ups = 1 .. Len(ups)
  BY DEF Exit, LifeInv, LifeTypeOK, i0
<1>2. i0' = i0
  BY <1>1 DEF i0
<1>3. running \in [1 .. Len(ups) -> SUBSET Threads]
  BY <1>1 DEF LifeTypeOK
<1>4. running' \in [1 .. Len(ups) -> SUBSET Threads]
  BY <1>1, <1>3
<1>5. LifeTypeOK'
  BY <1>1, <1>4 DEF LifeTypeOK
<1>6. /\ \A i \in 1 .. Len(ups) : "worker" \notin running[i] => "worker" \notin running'[i]
      /\ \A i \in 1 .. Len(ups) : told[i] = {} => running'[i] = running[i]
  BY <1>1, <1>3
<1>t. i0 \in Int /\ Len(ups) \in Int
  BY <1>1
<1>7. phase \notin {"starting", "serving", "startfailed"}
  <2>1. phase = "starting" => told[j] = {}
    BY <1>1, <1>t DEF LifeInv, Starting, HalfStarted, Running, Untouched
  <2>2. phase = "serving" => told[j] = {}
    BY <1>1 DEF LifeInv, Running
  <2>3. phase = "startfailed" => told[j] = {}
    BY <1>1 DEF LifeInv, PartialStart
  <2> QED
    BY <1>1, <2>1, <2>2, <2>3
<1>8. ASSUME phase = "stopping" PROVE Stopping'
  <2>1. Stopping
    BY <1>8 DEF LifeInv
  <2>2. HalfStopped(i0)'
    BY <1>1, <1>2, <1>6, <2>1 DEF Stopping, HalfStopped
  <2> QED
    BY <1>1, <1>2, <1>6, <2>1, <2>2 DEF Stopping, Stopped, Running
<1>9. ASSUME phase = "stopfailed" PROVE StopFailed'
  BY <1>1, <1>2, <1>6, <1>9 DEF LifeInv, StopFailed, Running
<1>10. ASSUME phase = "stopped" PROVE \A i \in 1 .. Len(ups) : Stopped(i)'
  BY <1>1, <1>6, <1>10 DEF LifeInv, Stopped
<1> QED
  BY <1>1, <1>5, <1>7, <1>8, <1>9, <1>10 DEF LifeInv, PartialStart

\* Every step keeps the invariant.
LEMMA LifeInvStep == LifeInv /\ [LifeNext]_lifeVars => LifeInv'
<1> SUFFICES ASSUME LifeInv, [LifeNext]_lifeVars PROVE LifeInv'
  OBVIOUS
<1>1. CASE UNCHANGED lifeVars
  <2>1. UNCHANGED <<ups, phase, at, running, told, handles>> /\ i0' = i0
    BY <1>1 DEF lifeVars, i0
  <2>2. LifeTypeOK'
    BY <2>1 DEF LifeInv, LifeTypeOK
  <2>3. phase = "starting" => Starting'
    BY <2>1, Zenon DEF LifeInv, Starting, HalfStarted, Running, Untouched
  <2>4. phase = "serving" => \A i \in 1 .. Len(ups) : Running(i)'
    BY <2>1 DEF LifeInv, Running
  <2>5. phase = "stopping" => Stopping'
    BY <2>1 DEF LifeInv, Stopping, HalfStopped, Running, Stopped
  <2>6. PartialStart'
    BY <2>1 DEF LifeInv, PartialStart
  <2>7. phase = "stopfailed" => StopFailed'
    BY <2>1 DEF LifeInv, StopFailed, Running
  <2>8. phase = "stopped" => \A i \in 1 .. Len(ups) : Stopped(i)'
    BY <2>1 DEF LifeInv, Stopped
  <2> QED
    BY <2>1, <2>2, <2>3, <2>4, <2>5, <2>6, <2>7, <2>8 DEF LifeInv
<1>2. ASSUME NEW i \in DOMAIN ups, TickerPanics(i) PROVE LifeInv'
  <2>1. phase' = "crashed" /\ UNCHANGED <<ups, at, running, told, handles>>
    BY <1>2 DEF TickerPanics, Return
  <2>2. LifeTypeOK'
    BY <2>1 DEF LifeInv, LifeTypeOK, Phases
  <2> QED
    BY <2>1, <2>2 DEF LifeInv, PartialStart
<1> QED
  BY <1>1, <1>2, StartStepInv, StopStepInv, ShutdownInv, ExitInv DEF LifeNext

-----------------------------------------------------------------------------
\* The plugin, from the first block to the end of its shutdown

\* Until OnStartup nothing of the upstreams is running.
SetUp ==
  /\ ups \in Seq(UpstreamParts) /\ at = <<1, "lists">>
  /\ running = [i \in DOMAIN ups |-> {}]
  /\ told = [i \in DOMAIN ups |-> {}]
  /\ handles = [i \in DOMAIN ups |-> {}]

\* The inductive invariant of the plugin.
PluginInv ==
  /\ BlockInv
  /\ phase = "setup" => SetUp
  /\ phase # "setup" => LifeInv

\* The settings of an accepted block tell Start and Stop all they look at.
LEMMA PartsType ==
  ASSUME ReadOK
  PROVE  Parts(u) \in UpstreamParts
<1>1. u.expire \in Int
  BY DEF ReadOK
<1>2. PICK p : p = Parts(u)
  OBVIOUS
<1>3. /\ p = [path |-> p.path, url |-> p.url, worker |-> p.worker, expire |-> p.expire,
              ipset |-> p.ipset, pf |-> p.pf, create |-> p.create]
      /\ p.expire = u.expire
  BY <1>2 DEF Parts
<1>4. p.path \in BOOLEAN /\ p.url \in BOOLEAN /\ p.worker \in BOOLEAN
  BY <1>2 DEF Parts
<1>5. p.ipset \in BOOLEAN /\ p.pf \in BOOLEAN /\ p.create \in BOOLEAN
  BY <1>2 DEF Parts
<1> QED
  BY <1>1, <1>2, <1>3, <1>4, <1>5 DEF UpstreamParts

\* LifeInvInit, of the next state.
LEMMA StartsNext == LifeStarts' => LifeInv'
BY LifeInvInit, PTL

\* A block that stays as it is.
LEMMA SameBlock ==
  ASSUME BlockInv, UNCHANGED <<os, stage, u, wrote>>
  PROVE  BlockInv'
<1>1. u' = u /\ wrote' = wrote /\ stage' = stage /\ os' = os
  OBVIOUS
<1>2. ReadOK => ReadOK'
  BY <1>1, KeepsRead DEF ReadOK, Shape
<1>3. Places' = Places /\ \A p : HostAt(p)' = HostAt(p)
  BY <1>1, SameText
<1>4. ASSUME NEW place, InOrder(place) PROVE InOrder(place)'
  BY <1>3, <1>4 DEF InOrder
<1>5. OpenOK => OpenOK'
  <2>1. Reloads => Reloads'
    BY <1>1, SameText DEF Reloads
  <2>2. Copied => Copied'
    BY <1>1, <1>3, <1>4 DEF Copied
  <2> QED
    BY <1>1, <2>1, <2>2 DEF OpenOK
<1>6. AsWritten'
  BY <1>1, <1>2, SameText DEF BlockInv, AsWritten, ReadOK
<1>7. HostsInherit'
  <2>1. CertsSaid' = CertsSaid /\ ServerNameSaid' = ServerNameSaid
    BY <1>1, SameText
  <2>2. SUFFICES ASSUME stage = "accepted", HostsInherit PROVE HostsInherit'
    BY <1>1 DEF BlockInv, HostsInherit
  <2>3. PICK place \in [DOMAIN u.hosts -> Places] :
          /\ InOrder(place)
          /\ \A n \in DOMAIN u.hosts :
               LET w == HostAt(place[n]) IN
               LET h == u.hosts[n] IN
               /\ h.trans = w.trans
               /\ h.expire = u.expire
               /\ h.recursionDesired = u.recursionDesired
               /\ h.certs = IF w.trans = "tls" THEN CertsSaid ELSE <<>>
               /\ h.serverName = IF w.trans # "tls" THEN NoName
                                 ELSE IF w.tls # NoName THEN w.tls
                                 ELSE IF w.host = "ip" THEN ServerNameSaid ELSE NoName
    BY <2>2 DEF HostsInherit
  <2>4. place \in [DOMAIN u'.hosts -> Places'] /\ InOrder(place)' /\ u'.hosts # <<>>
    BY <1>1, <1>3, <1>4, <2>2, <2>3 DEF HostsInherit
  <2>5. \A n : HostAt(place[n])' = HostAt(place[n])
    BY <1>3
  <2>6. ASSUME NEW n \in DOMAIN u'.hosts
        PROVE  LET w == HostAt(place[n])' IN
               LET h == u'.hosts[n] IN
               /\ h.trans = w.trans
               /\ h.expire = u'.expire
               /\ h.recursionDesired = u'.recursionDesired
               /\ h.certs = IF w.trans = "tls" THEN CertsSaid' ELSE <<>>
               /\ h.serverName = IF w.trans # "tls" THEN NoName
                                 ELSE IF w.tls # NoName THEN w.tls
                                 ELSE IF w.host = "ip" THEN ServerNameSaid' ELSE NoName
    <3>1. PICK w, h : w = HostAt(place[n]) /\ h = u.hosts[n]
      OBVIOUS
    <3>2. w = HostAt(place[n])' /\ h = u'.hosts[n] /\ n \in DOMAIN u.hosts
      BY <1>1, <2>5, <3>1
    <3>3. /\ h.trans = w.trans
          /\ h.expire = u.expire
          /\ h.recursionDesired = u.recursionDesired
          /\ h.certs = IF w.trans = "tls" THEN CertsSaid ELSE <<>>
          /\ h.serverName = IF w.trans # "tls" THEN NoName
                            ELSE IF w.tls # NoName THEN w.tls
                            ELSE IF w.host = "ip" THEN ServerNameSaid ELSE NoName
      BY <2>3, <3>1, <3>2, Zenon
    <3> QED
      BY <1>1, <2>1, <3>2, <3>3
  <2> QED
    BY <2>4, <2>6 DEF HostsInherit
<1>8. BlockUsable'
  BY <1>1, SameText DEF BlockInv, BlockUsable
<1> QED
  BY <1>1, <1>2, <1>5, <1>6, <1>7, <1>8 DEF BlockInv

\* The next block starts from the defaults, whatever the last one said.
LEMMA NextBlockInv ==
  ASSUME NextBlock
  PROVE  BlockInv'
<1>1. stage' = "from" /\ Fresh'
  BY DEF NextBlock, Fresh
<1>2. ReadOK' /\ OpenOK'
  BY <1>1, FreshNext
<1> QED
  BY <1>1, <1>2 DEF BlockInv, Fresh, AsWritten, HostsInherit, BlockUsable

\* An accepted block becomes an upstream with nothing running.
LEMMA AddUpstreamInv ==
  ASSUME PluginInv, AddUpstream
  PROVE  PluginInv'
<1>1. /\ phase = "setup" /\ phase' = "setup" /\ at' = at /\ stage = "accepted"
      /\ ups' = Append(ups, Parts(u))
      /\ running' = Append(running, {}) /\ told' = Append(told, {}) /\ handles' = Append(handles, {})
  BY DEF AddUpstream, NextBlock
<1>2. BlockInv'
  BY NextBlockInv DEF AddUpstream
<1>3. SetUp /\ ReadOK
  BY <1>1 DEF PluginInv, BlockInv
<1>4. Parts(u) \in UpstreamParts
  BY <1>3, PartsType
<1>5. ups' \in Seq(UpstreamParts) /\ DOMAIN ups' = 1 .. Len(ups) + 1 /\ DOMAIN ups = 1 .. Len(ups)
  BY <1>1, <1>3, <1>4 DEF SetUp
<1>6. ASSUME NEW v, v = [i \in DOMAIN ups |-> {}]
      PROVE  Append(v, {}) = [i \in DOMAIN ups' |-> {}]
  <2>1. Len(ups) \in Nat
    BY <1>3 DEF SetUp
  <2>2. v = [i \in 1 .. Len(ups) |-> {}] /\ v \in Seq({{}}) /\ Len(v) = Len(ups)
    BY <1>5, <1>6, <2>1
  <2>3. Append(v, {}) = [i \in 1 .. Len(ups) + 1 |-> {}]
    BY <2>1, <2>2
  <2> QED
    BY <1>5, <2>3
<1>7. SetUp'
  BY <1>1, <1>3, <1>5, <1>6 DEF SetUp
<1> QED
  BY <1>1, <1>2, <1>7 DEF PluginInv

\* PluginInv holds at the start.
LEMMA PluginInvInit == PluginInit => PluginInv
<1> SUFFICES ASSUME PluginInit PROVE PluginInv
  OBVIOUS
<1>1. Fresh /\ stage = "from"
  BY DEF PluginInit, ConfigInit, Fresh
<1>2. BlockInv
  BY <1>1, FreshOK DEF BlockInv, Fresh, AsWritten, HostsInherit, BlockUsable
<1>3. phase = "setup" /\ SetUp
  BY DEF PluginInit, LifeInit, SetUp
<1> QED
  BY <1>2, <1>3 DEF PluginInv

\* Every step of the parsing, of the start and of the shutdown keeps it.
LEMMA PluginInvStep == PluginInv /\ [PluginNext]_pluginVars => PluginInv'
<1> SUFFICES ASSUME PluginInv, [PluginNext]_pluginVars PROVE PluginInv'
  OBVIOUS
<1>1. CASE ParseStep
  <2>1. BlockInv'
    BY <1>1, ParseFromInv, ParseBlockInv, EndBlockInv DEF ParseStep, ConfigNext, PluginInv
  <2>2. phase = "setup" /\ phase' = phase /\ SetUp'
    BY <1>1 DEF ParseStep, lifeVars, PluginInv, SetUp
  <2> QED
    BY <2>1, <2>2 DEF PluginInv
<1>2. CASE AddUpstream
  BY <1>2, AddUpstreamInv
<1>3. CASE OnStartup
  <2>1. BlockInv'
    BY <1>3, SameBlock DEF OnStartup, PluginInv
  <2>2. phase' = "starting" /\ LifeStarts'
    BY <1>3 DEF OnStartup, PluginInv, SetUp, LifeStarts
  <2>3. LifeInv'
    BY <2>2, StartsNext
  <2> QED
    BY <2>1, <2>2, <2>3 DEF PluginInv
<1>4. CASE LifeStep
  <2>1. BlockInv'
    BY <1>4, SameBlock DEF LifeStep, configVars, PluginInv
  <2>2. phase # "setup"
    <3> SUFFICES ASSUME phase = "setup" PROVE FALSE
      OBVIOUS
    <3>1. ~StartStep /\ ~StopStep /\ ~OnShutdown
      BY DEF StartStep, StartLists, StartCheck, ipsetSetup, pfOpen, pfCreateTables, StopStep,
         StopLists,
             StopCheck, StopTransports, ipsetShutdown, pfShutdown, OnShutdown, Doing
    <3>2. \A i \in DOMAIN ups : running[i] = {}
      BY DEF PluginInv, SetUp
    <3> QED
      BY <1>4, <3>1, <3>2 DEF LifeStep, LifeNext, TickerPanics
  <2>3. LifeInv'
    BY <1>4, <2>2, LifeInvStep DEF LifeStep, PluginInv
  <2>4. phase' # "setup"
    BY <2>3 DEF LifeInv, LifeTypeOK, Phases
  <2> QED
    BY <2>1, <2>3, <2>4 DEF PluginInv
<1>5. CASE UNCHANGED pluginVars
  <2>1. BlockInv'
    BY <1>5, SameBlock DEF pluginVars, configVars, PluginInv
  <2>2. UNCHANGED lifeVars /\ phase' = phase
    BY <1>5 DEF pluginVars, lifeVars
  <2>3. SetUp => SetUp'
    BY <2>2 DEF SetUp, lifeVars
  <2>4. LifeInv => LifeInv'
    BY <2>2, LifeInvStep
  <2> QED
    BY <2>1, <2>2, <2>3, <2>4 DEF PluginInv
<1> QED
  BY <1>1, <1>2, <1>3, <1>4, <1>5 DEF PluginNext

\* So it always holds, for any Corefile and any number of upstreams.
LEMMA PluginInvAlways == PluginSpec => []PluginInv
BY PluginInvInit, PluginInvStep, PTL DEF PluginSpec

\* For any Corefile: an accepted block means what its lines say, in whatever order they
\* stand, within the limits of the code (parseBlock, src/upstream.go:294-460).
THEOREM AsWrittenAlways == PluginSpec => []AsWritten
<1>1. PluginInv => AsWritten
  BY DEF PluginInv, BlockInv
<1> QED
  BY <1>1, PluginInvAlways, PTL

\* For any Corefile: the hosts of an accepted block are those of its `to` lines, in their
\* order, with the settings of the whole block (src/upstream.go:156-183, 408-431).
THEOREM HostsInheritAlways == PluginSpec => []HostsInherit
<1>1. PluginInv => HostsInherit
  BY DEF PluginInv, BlockInv
<1> QED
  BY <1>1, PluginInvAlways, PTL

\* For any Corefile: the list of an accepted block can be walked, is reloaded only where it
\* has something to reload, and does not contradict itself (src/upstream.go:186-240).
THEOREM BlockUsableAlways == PluginSpec => []BlockUsable
<1>1. PluginInv => BlockUsable
  BY DEF PluginInv, BlockInv
<1> QED
  BY <1>1, PluginInvAlways, PTL

\* Serving upstreams have the handles they need, and OnShutdown finds each handle open that
\* it closes, for any number of upstreams (src/upstream.go:68-91).
THEOREM HandlesOpenAlways == PluginSpec => []HandlesOpen
<1>1. LifeInv => HandlesOpen
  <2> SUFFICES ASSUME LifeInv, NEW i \in DOMAIN ups
               PROVE  /\ phase = "serving" => handles[i] = Devices(ups[i])
                      /\ phase = "stopping" =>
                           /\ i < i0 => handles[i] = {}
                           /\ i > i0 => handles[i] = Devices(ups[i])
                           /\ i = i0 => handles[i] = Devices(ups[i]) \ {h \in {"ipset"} : at[2] = "pf"}
    BY DEF HandlesOpen
  <2>0. i \in 1 .. Len(ups)
    BY DEF LifeInv, LifeTypeOK
  <2>1. phase = "serving" => handles[i] = Devices(ups[i])
    BY <2>0 DEF LifeInv, Running
  <2>2. ASSUME phase = "stopping", i < i0 PROVE handles[i] = {}
    BY <2>0, <2>2 DEF LifeInv, Stopping, Stopped
  <2>3. ASSUME phase = "stopping", i > i0 PROVE handles[i] = Devices(ups[i])
    BY <2>0, <2>3 DEF LifeInv, Stopping, Running
  <2>4. ASSUME phase = "stopping", i = i0
        PROVE  handles[i] = Devices(ups[i]) \ {h \in {"ipset"} : at[2] = "pf"}
    BY <2>0, <2>4 DEF LifeInv, Stopping, HalfStopped
  <2> QED
    BY <2>1, <2>2, <2>3, <2>4
<1>2. PluginInv => HandlesOpen
  BY <1>1 DEF PluginInv, HandlesOpen
<1> QED
  BY <1>2, PluginInvAlways, PTL

\* A start that fails leaves the goroutines of all upstreams up to the failing one running
\* and untold, and the ones after it untouched (src/dnsredir.go:46-53).
THEOREM PartialStartAlways == PluginSpec => []PartialStart
<1>1. PluginInv => PartialStart
  BY DEF PluginInv, LifeInv, PartialStart
<1> QED
  BY <1>1, PluginInvAlways, PTL

\* A shutdown has released the upstreams before its place, has not touched those after it,
\* waits only for a worker it has told, and ends with all of them released or with an
\* error (src/dnsredir.go:55-62, src/healthcheck.go:584-591).
THEOREM PartialStopAlways == PluginSpec => []PartialStop
<1>1. ASSUME LifeInv, NEW i \in 1 .. Len(ups)
      PROVE  /\ phase = "stopped" \/ (phase \in {"stopping", "stopfailed"} /\ i < i0) =>
                  AllTold(i) /\ handles[i] = {}
             /\ phase \in {"stopping", "stopfailed"} /\ i > i0 => Running(i)
             /\ phase = "stopfailed" /\ i = i0 => AllTold(i)
             /\ Doing("stopping", "wait") /\ i = i0 => "worker" \in told[i]
  <2>1. Goroutines(ups[i]) \subseteq Threads
    <3>1. ups[i] \in UpstreamParts
      BY <1>1 DEF LifeInv, LifeTypeOK
    <3> QED
      BY <3>1, PartsFacts
  <2>t. i0 \in Int /\ i \in Int
    BY <1>1 DEF LifeInv, LifeTypeOK, i0
  <2>2. Stopped(i) => AllTold(i) /\ handles[i] = {}
    BY <2>1 DEF Stopped, AllTold
  <2>3. CASE phase = "stopped"
    BY <1>1, <2>2, <2>3 DEF LifeInv, Doing
  <2>4. CASE phase = "stopping"
    BY <1>1, <2>2, <2>4 DEF LifeInv, Stopping, HalfStopped, Doing
  <2>5. CASE phase = "stopfailed"
    BY <1>1, <2>1, <2>t, <2>5 DEF LifeInv, StopFailed, AllTold, Doing
  <2> QED
    BY <2>3, <2>4, <2>5 DEF Doing
<1>2. LifeInv => PartialStop
  <2> SUFFICES ASSUME LifeInv PROVE PartialStop
    OBVIOUS
  <2>1. DOMAIN ups = 1 .. Len(ups)
    BY DEF LifeInv, LifeTypeOK
  <2> QED
    BY <1>1, <2>1 DEF PartialStop, Running
<1>3. PluginInv => PartialStop
  BY <1>2 DEF PluginInv, PartialStop, Doing
<1> QED
  BY <1>3, PluginInvAlways, PTL

=============================================================================
