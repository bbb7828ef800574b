------------------------------- MODULE Config -------------------------------
(****************************************************************************)
(* Parsing of the dnsredir blocks of a Corefile (src/upstream.go:93-292 and *)
(* 294-593, src/parse.go): the FROM arguments, the lines of a block one by  *)
(* one, and what newReloadableUpstream does once a block is complete.       *)
(*                                                                          *)
(* A line is a word and its arguments. What a word says as a duration, a    *)
(* number or a host is given by the tables Duration, Number and HostOf, so  *)
(* that the text itself stays abstract.                                     *)
(****************************************************************************)
EXTENDS Integers, Sequences, FiniteSetsExt

CONSTANTS
  Forms,     \* FROM argument lists, sequences over "." , "file", "unreadable", "https", "http", "ftp"
  Lines,     \* the lines a block may have: [dir, args]
  MaxTo,     \* bound: `to` lines of all blocks of the Corefile together
  MaxOther,  \* bound: other lines of all blocks together
  MaxBlocks, \* bound: blocks of the Corefile
  Duration,  \* milliseconds a word stands for; negative, or -1 for no duration at all
  Number,    \* the number a word stands for; -1 for none, or one outside of int32
  HostOf,    \* a TO argument: [trans, host, port, tls]
  Below      \* pairs <<a, b>>: domain b is a or a subdomain of a

VARIABLES
  os,        \* the platform the plugin was built for
  stage,     \* of the block being read: from, block, accepted, refused, crashed
  u,         \* the reloadableUpstream under construction
  wrote,     \* lines of the block read so far
  left       \* `to` lines and other lines that may still be read, a bound

configVars == <<os, stage, u, wrote, left>>

ASSUME ConfigAssumption ==
  /\ MaxTo \in Nat /\ MaxOther \in Nat /\ MaxBlocks \in Nat
  /\ \A d \in Lines : d.dir \in STRING /\ d.args \in Seq(STRING)
  /\ \A w \in DOMAIN Duration : Duration[w] \in Int
  /\ \A d \in Lines : d.dir = "expire" /\ d.args # <<>> => d.args[1] \in DOMAIN Duration

-----------------------------------------------------------------------------
\* Limits and defaults, in milliseconds (src/upstream.go:595-614).
minPathReloadInterval == 1000
minUrlReloadInterval == 15000
minUrlReadTimeout == 3000
minHcInterval == 1000
minExpireInterval == 1000
NoName == ""

\* The read timeout of the source; src/README.md:119 says "Default is `30s`", which no line
\* of the code makes true.
defaultUrlReadTimeout == 15000

\* Policies a `policy` line may name. src/README.md documents the first three; "spray" is
\* registered as well (src/policy.go:17) and accepted like them.
SupportedPolicyNames == {"random", "round_robin", "sequential", "spray"}

\* The upstream newReloadableUpstream starts from.
newUpstream ==
  [matchAny |-> FALSE, items |-> <<>>,
   pathReload |-> 2000, urlReload |-> 1800000, urlReadTimeout |-> defaultUrlReadTimeout,
   ignored |-> {}, inline |-> {}, spray |-> FALSE, policy |-> "random",
   maxFails |-> 3, maxRetry |-> 10, checkInterval |-> 2000, recursionDesired |-> TRUE,
   hosts |-> <<>>, expire |-> 15000, certs |-> <<>>, serverName |-> NoName,
   bootstrap |-> <<>>, ipset |-> {}, pf |-> <<>>, noIPv6 |-> FALSE]

\* Setup returns an error, or panics, and the upstream under construction is lost.
Abandon(how) == stage' = how /\ u' = newUpstream

\* A line is applied when it is well formed, otherwise setup ends with an error.
Apply(ok, new) == IF ok THEN u' = new /\ UNCHANGED stage ELSE Abandon("refused")

\* A non-negative duration that is zero or not below the minimum.
Interval(arg, min) == Duration[arg] >= min \/ Duration[arg] = 0

parseInt32(a) == Len(a) = 1 /\ Number[a[1]] >= 0

-----------------------------------------------------------------------------
\* The lines of a block, one operator for each case of parseBlock.
PathReload(a) ==
  Apply(Len(a) = 1 /\ Interval(a[1], minPathReloadInterval),
        [u EXCEPT !.pathReload = Duration[a[1]]])

UrlReload(a) ==
  Apply(/\ Len(a) \in 1 .. 2
        /\ Interval(a[1], minUrlReloadInterval)
        /\ Len(a) = 2 => Duration[a[2]] >= minUrlReadTimeout,
        [u EXCEPT !.urlReload = Duration[a[1]],
                  !.urlReadTimeout = IF Len(a) = 2 THEN Duration[a[2]] ELSE @])

\* A name that is no domain only earns a warning.
Except(a) == Apply(a # <<>>, [u EXCEPT !.ignored = @ \cup (Range(a) \ {"notadomain"})])

Spray(a) == Apply(a = <<>>, [u EXCEPT !.spray = TRUE])

SelectPolicy(a) ==
  Apply(Len(a) = 1 /\ a[1] \in SupportedPolicyNames, [u EXCEPT !.policy = a[1]])

MaxFailsLine(a) == Apply(parseInt32(a), [u EXCEPT !.maxFails = Number[a[1]]])

MaxRetryLine(a) == Apply(parseInt32(a), [u EXCEPT !.maxRetry = Number[a[1]]])

HealthCheckLine(a) ==
  Apply(/\ Len(a) \in 1 .. 2
        /\ Interval(a[1], minHcInterval)
        /\ Len(a) = 2 => a[2] = "no_rec",
        [u EXCEPT !.checkInterval = Duration[a[1]], !.recursionDesired = Len(a) = 1])

ExpireLine(a) ==
  Apply(Len(a) = 1 /\ Interval(a[1], minExpireInterval),
        [u EXCEPT !.expire = Duration[a[1]]])

\* The new certificates replace the old ones, the server name stays.
Tls_NameLost(a) ==
  Apply(Len(a) <= 3 /\ "nofile" \notin Range(a), [u EXCEPT !.certs = a, !.serverName = NoName])

Tls(a) == Apply(Len(a) <= 3 /\ "nofile" \notin Range(a), [u EXCEPT !.certs = a])

TlsServername(a) ==
  Apply(Len(a) = 1 /\ a[1] # "notadomain", [u EXCEPT !.serverName = a[1]])

\* HostPort (src/parse.go:46-92): without a port the whole rest must be a domain,
\* or an address before the @; with one, the server name hides behind the port.
HostPort(h) ==
  \/ h.port /\ h.host \in {"ip", "domain"}
  \/ ~h.port /\ h.trans \in {"json-doh", "ietf-doh", "doh"} /\ h.host # "neither"
  \/ ~h.port /\ h.host = "ip"
  \/ ~h.port /\ h.host = "domain" /\ h.tls = NoName

To(a) ==
  Apply(a # <<>> /\ \A i \in DOMAIN a : HostPort(HostOf[a[i]]),
        [u EXCEPT !.hosts = @ \o [i \in DOMAIN a |-> HostOf[a[i]]]])

Bootstrap(a) ==
  Apply(a # <<>> /\ "noaddress" \notin Range(a), [u EXCEPT !.bootstrap = @ \o a])

\* ipset has an effect on Linux only; elsewhere the line is read and ignored.
Ipset(a) ==
  IF os = "linux" THEN Apply(a # <<>>, [u EXCEPT !.ipset = @ \cup Range(a)])
                  ELSE UNCHANGED <<u, stage>>

\* parseFlags: the options before the first table, of which v4_only and v6_only exclude each other.
IsOption(arg) == arg \in {"+create", "+v4_only", "+v6_only", "+bogus"}
FirstTable(a) == LET T == {i \in DOMAIN a : ~IsOption(a[i])} IN IF T = {} THEN 0 ELSE Min(T)
parseFlags(a) == {a[i] : i \in 1 .. FirstTable(a) - 1}
FlagsValid(f) == "+bogus" \notin f /\ ~({"+v4_only", "+v6_only"} \subseteq f)

\* TableSet.Add keeps the flags of a table that is already there.
AddTables_Overwrite(set, tables, f) ==
  [t \in DOMAIN set \cup tables |-> IF t \in tables THEN f ELSE set[t]]

AddTables(set, tables, f) ==
  [t \in DOMAIN set \cup tables |-> IF t \in DOMAIN set THEN set[t] ELSE f]

\* What TableSet.Add refuses: a table without a name, or with a name or an anchor too long.
NameFits(table) == table \notin {":anchor", "longname", "t:longanchor"}

Pf(a) ==
  LET tables == Range(SubSeq(a, FirstTable(a), Len(a))) IN
  IF os = "darwin"
    THEN Apply(/\ FirstTable(a) > 0 /\ FlagsValid(parseFlags(a))
               /\ \A t \in tables : NameFits(t),
               [u EXCEPT !.pf = AddTables(@, tables, parseFlags(a))])
    ELSE UNCHANGED <<u, stage>>

NoIPv6(a) == Apply(a = <<>>, [u EXCEPT !.noIPv6 = TRUE])

\* Any other word on its own is an INLINE domain, which must come before except.
Inline(dir, a) ==
  Apply(a = <<>> /\ dir # "notadomain" /\ u.ignored = {}, [u EXCEPT !.inline = @ \cup {dir}])

Kind(d) == IF d.dir = "to" THEN "to" ELSE "other"

parseBlock(d) ==
  /\ stage = "block" /\ left[Kind(d)] > 0
  /\ left' = [left EXCEPT ![Kind(d)] = @ - 1]
  /\ UNCHANGED os
  /\ CASE d.dir = "path_reload"    -> PathReload(d.args)
       [] d.dir = "url_reload"     -> UrlReload(d.args)
       [] d.dir = "except"         -> Except(d.args)
       [] d.dir = "spray"          -> Spray(d.args)
       [] d.dir = "policy"         -> SelectPolicy(d.args)
       [] d.dir = "max_fails"      -> MaxFailsLine(d.args)
       [] d.dir = "max_retry"      -> MaxRetryLine(d.args)
       [] d.dir = "health_check"   -> HealthCheckLine(d.args)
       [] d.dir = "to"             -> To(d.args)
       [] d.dir = "expire"         -> ExpireLine(d.args)
       [] d.dir = "tls"            -> Tls(d.args)
       [] d.dir = "tls_servername" -> TlsServername(d.args)
       [] d.dir = "bootstrap"      -> Bootstrap(d.args)
       [] d.dir = "ipset"          -> Ipset(d.args)
       [] d.dir = "pf"             -> Pf(d.args)
       [] d.dir = "no_ipv6"        -> NoIPv6(d.args)
       [] OTHER                    -> Inline(d.dir, d.args)
  /\ wrote' = IF stage' = "refused" THEN <<>> ELSE Append(wrote, d)

-----------------------------------------------------------------------------
\* parseFrom and NewNameItemsWithForms: an http URL leaves a nil entry in the list.
ItemOf(form) == CASE form = "https" -> "url" [] form = "http" -> "nil" [] OTHER -> "path"

parseFrom(forms) ==
  /\ stage = "from"
  /\ IF forms = <<>> \/ {"unreadable", "ftp"} \cap Range(forms) # {}
       THEN Abandon("refused")
       ELSE /\ stage' = "block"
            /\ u' = IF forms = <<".">>
                      THEN [u EXCEPT !.matchAny = TRUE]
                      ELSE [u EXCEPT !.items = [i \in DOMAIN forms |-> ItemOf(forms[i])]]
  /\ UNCHANGED <<os, wrote, left>>

\* The transport of a host: settings of the block, and for TLS the server name
\* of the block unless the host has its own or is a domain name itself.
HostTransport(h) ==
  [trans |-> h.trans, expire |-> u.expire, recursionDesired |-> u.recursionDesired,
   certs |-> IF h.trans = "tls" THEN u.certs ELSE <<>>,
   serverName |-> IF h.trans # "tls" THEN NoName
                  ELSE IF h.tls # NoName THEN h.tls
                  ELSE IF h.host = "ip" THEN u.serverName ELSE NoName]

\* except takes precedence: an INLINE domain must not be excepted, nor be below one that is.
Conflict == \E name \in u.inline, e \in u.ignored : <<e, name>> \in Below

\* Reloading is switched off for kinds of items the list does not have.
Settle_StillReloads(up) == [up EXCEPT !.hosts = [i \in DOMAIN @ |-> HostTransport(@[i])]]

Settle(up) ==
  [up EXCEPT
     !.hosts = [i \in DOMAIN @ |-> HostTransport(@[i])],
     !.pathReload = IF ~up.matchAny /\ "path" \in Range(up.items) THEN @ ELSE 0,
     !.urlReload = IF ~up.matchAny /\ "url" \in Range(up.items) THEN @ ELSE 0]

\* The end of the block: the rest of newReloadableUpstream after its parsing loop.
\* The nil entry of an http URL is dereferenced while the list is looked through.
EndBlock ==
  LET bad == \/ u.hosts = <<>>
             \/ \E i \in DOMAIN u.hosts : u.hosts[i].trans = "tls" /\ u.hosts[i].tls = "notadomain"
             \/ Conflict
             \/ u.matchAny /\ u.inline # {}
      nil == "nil" \in Range(u.items)
  IN /\ stage = "block"
     /\ \/ bad /\ Abandon("refused")
        \/ ~bad /\ nil /\ Abandon("crashed")
        \/ ~bad /\ ~nil /\ stage' = "accepted" /\ u' = Settle(u)
     /\ wrote' = IF stage' = "accepted" THEN wrote ELSE <<>>
     /\ UNCHANGED <<os, left>>

\* The next block of the Corefile starts from the defaults again.
NextBlock ==
  /\ stage = "accepted"
  /\ stage' = "from" /\ u' = newUpstream /\ wrote' = <<>>
  /\ UNCHANGED <<os, left>>

ConfigInit ==
  /\ os \in {"linux", "darwin"}
  /\ stage = "from" /\ u = newUpstream /\ wrote = <<>> /\ left = [to |-> MaxTo, other |-> MaxOther]

ConfigNext ==
  \/ \E forms \in Forms : parseFrom(forms)
  \/ \E d \in Lines : parseBlock(d)
  \/ EndBlock

-----------------------------------------------------------------------------
\* What the lines of a block say, read off the text alone: the last of the lines that set
\* one value counts, other lines add up.
At(dir) == {i \in DOMAIN wrote : wrote[i].dir = dir}
LastOf(dir) == wrote[Max(At(dir))].args
Words(dir) == UNION {Range(wrote[i].args) : i \in At(dir)}

PathReloadSaid == IF At("path_reload") = {} THEN 2000 ELSE Duration[LastOf("path_reload")[1]]
UrlReloadSaid == IF At("url_reload") = {} THEN 1800000 ELSE Duration[LastOf("url_reload")[1]]
CertsSaid == IF At("tls") = {} THEN <<>> ELSE LastOf("tls")
ServerNameSaid == IF At("tls_servername") = {} THEN NoName ELSE LastOf("tls_servername")[1]

\* The read timeout is only in url_reload lines with two arguments.
Timed == {i \in At("url_reload") : Len(wrote[i].args) = 2}
LastTimed == wrote[Max(Timed)].args

\* A pf line: options, then tables.
Options(a) == {a[k] : k \in {k \in DOMAIN a : \A j \in 1 .. k : IsOption(a[j])}}
Tables(a) == {a[k] : k \in {k \in DOMAIN a : \E j \in 1 .. k : ~IsOption(a[j])}}

LastCounts ==
  /\ u.expire = IF At("expire") = {} THEN 15000 ELSE Duration[LastOf("expire")[1]]
  /\ u.checkInterval = IF At("health_check") = {} THEN 2000 ELSE Duration[LastOf("health_check")[1]]
  /\ u.recursionDesired = (At("health_check") = {} \/ Len(LastOf("health_check")) = 1)
  /\ u.maxFails = IF At("max_fails") = {} THEN 3 ELSE Number[LastOf("max_fails")[1]]
  /\ u.maxRetry = IF At("max_retry") = {} THEN 10 ELSE Number[LastOf("max_retry")[1]]
  /\ u.policy = IF At("policy") = {} THEN "random" ELSE LastOf("policy")[1]
  /\ u.certs = CertsSaid
  /\ u.serverName = ServerNameSaid
  /\ u.urlReadTimeout = IF Timed = {} THEN defaultUrlReadTimeout ELSE Duration[LastTimed[2]]

WithinLimits ==
  /\ u.expire = 0 \/ u.expire >= minExpireInterval
  /\ u.checkInterval = 0 \/ u.checkInterval >= minHcInterval
  /\ u.urlReadTimeout >= minUrlReadTimeout

AddsUp ==
  /\ u.ignored = Words("except") \ {"notadomain"}
  /\ u.ipset = IF os = "linux" THEN Words("ipset") ELSE {}
  /\ DOMAIN u.pf = IF os = "darwin" THEN UNION {Tables(wrote[i].args) : i \in At("pf")} ELSE {}
  /\ \A t \in DOMAIN u.pf :
       \E i \in At("pf") :
         /\ t \in Tables(wrote[i].args) /\ u.pf[t] = Options(wrote[i].args)
         /\ \A j \in At("pf") : j < i => t \notin Tables(wrote[j].args)

\* A block means what its lines say, in whatever order they stand: of lines that
\* set one value the last one counts (parseBlock, src/upstream.go:294-460), also for
\* a read timeout that a later url_reload leaves out, and a list is reloaded as they say if
\* it has an item of the kind; except and ipset add up (README: "some of the properties are
\* cumulative"), and a pf table keeps the options of the line that named it first
\* (pf/table.go:83-85). And what the lines say is within the limits of the code, however
\* they combine. What no line sets has the default of the source, which for the read timeout
\* is not the one src/README.md:119 gives (see defaultUrlReadTimeout).
AsWritten ==
  stage = "accepted" =>
    /\ LastCounts /\ WithinLimits /\ AddsUp
    /\ u.pathReload = IF "path" \in Range(u.items) THEN PathReloadSaid ELSE 0
    /\ u.urlReload = IF "url" \in Range(u.items) THEN UrlReloadSaid ELSE 0

\* The arguments of the `to` lines, by line and place in the line, and the order of the text.
Places == UNION {{i} \X DOMAIN wrote[i].args : i \in At("to")}
Before(p, q) == p[1] < q[1] \/ (p[1] = q[1] /\ p[2] < q[2])
HostAt(p) == HostOf[wrote[p[1]].args[p[2]]]

\* The hosts stand for the arguments, one for each, in the order of the text.
InOrder(place) ==
  /\ \A p \in Places : \E n \in DOMAIN place : place[n] = p
  /\ \A m, n \in DOMAIN place : m < n => Before(place[m], place[n])

\* There is a host for every argument of the `to` lines, in the order of the text, and each
\* gets the settings of its whole block, also those written after its `to` line, and a TLS
\* host the right server name: its own @name, else for an address the block's
\* tls_servername, which a `tls` line before or after it leaves alone; a host written as a
\* domain has none set (src/upstream.go:156-183, 408-431).
HostsInherit ==
  stage = "accepted" =>
    /\ u.hosts # <<>>
    /\ \E place \in [DOMAIN u.hosts -> Places] :
         /\ InOrder(place)
         /\ \A n \in DOMAIN u.hosts :
              LET w == HostAt(place[n]) IN
              LET h == u.hosts[n] IN
              /\ h.trans = w.trans
              /\ h.expire = u.expire
              /\ h.recursionDesired = u.recursionDesired
              /\ h.certs = IF w.trans = "tls" THEN CertsSaid ELSE <<>>
              /\ h.serverName = IF w.trans # "tls" THEN NoName
                                ELSE IF w.tls # NoName THEN w.tls
                                ELSE IF w.host = "ip" THEN ServerNameSaid ELSE NoName

\* The list of an accepted block can be walked: it has no nil entry, on which every
\* lookup would fault (NameList.Match, src/namelist.go:196), and a reloader runs only
\* where there is an item of its kind (src/upstream.go:221-240). Nor does the block
\* contradict itself: no domain it embeds is excepted, directly or through a parent, or
\* stands beside a FROM that matches everything (README, Bugs: "`except` and `INLINE`
\* share some same domain names", "`.` is matched yet `INLINE` also embedded").
BlockUsable ==
  stage = "accepted" =>
    /\ "nil" \notin Range(u.items)
    /\ u.pathReload # 0 => "path" \in Range(u.items)
    /\ u.urlReload # 0 => "url" \in Range(u.items)
    /\ \A name \in u.inline : \A e \in Words("except") \ {"notadomain"} : <<e, name>> \notin Below
    /\ u.matchAny => u.inline = {}

=============================================================================
