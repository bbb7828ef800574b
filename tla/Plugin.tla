------------------------------- MODULE Plugin -------------------------------
(****************************************************************************)
(* setup (src/setup.go): the blocks of the Corefile are parsed into         *)
(* upstreams, which OnStartup then starts and OnShutdown stops.             *)
(****************************************************************************)
EXTENDS Config, Lifecycle

pluginVars == <<configVars, lifeVars>>

\* What Start and Stop look at of an upstream.
Parts(up) ==
  [path |-> up.pathReload > 0, url |-> up.urlReload > 0, worker |-> up.checkInterval # 0,
   expire |-> up.expire, ipset |-> up.ipset # {}, pf |-> DOMAIN up.pf # {},
   create |-> \E t \in DOMAIN up.pf : "+create" \in up.pf[t]]

\* NewReloadableUpstreams appends an accepted block and goes on with the next.
AddUpstream ==
  /\ phase = "setup" /\ NextBlock
  /\ ups' = Append(ups, Parts(u))
  /\ running' = Append(running, {})
  /\ told' = Append(told, {})
  /\ handles' = Append(handles, {})
  /\ UNCHANGED <<phase, at>>

ParseStep ==
  /\ phase = "setup" /\ Len(ups) < MaxBlocks
  /\ ConfigNext
  /\ UNCHANGED lifeVars

\* The Corefile ends after a block; the server starts the plugin.
OnStartup ==
  /\ phase = "setup" /\ stage = "from" /\ ups # <<>>
  /\ phase' = "starting" /\ left' = [to |-> 0, other |-> 0]
  /\ UNCHANGED <<os, stage, u, wrote, ups, at, running, told, handles>>

LifeStep == LifeNext /\ UNCHANGED configVars

PluginInit == ConfigInit /\ LifeInit

PluginNext == ParseStep \/ AddUpstream \/ OnStartup \/ LifeStep

\* Calls of OnStartup and OnShutdown go on to their end, and goroutines are scheduled.
PluginFairness ==
  /\ WF_pluginVars(StartStep /\ UNCHANGED configVars)
  /\ WF_pluginVars(StopStep /\ UNCHANGED configVars)
  /\ \A i \in 1 .. MaxBlocks, g \in {"path", "url", "worker", "manager"} :
       WF_pluginVars(i \in DOMAIN ups /\ Exit(i, g) /\ UNCHANGED configVars)

PluginSpec == PluginInit /\ [][PluginNext]_pluginVars /\ PluginFairness

=============================================================================
