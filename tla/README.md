# A TLA+ model of dnsredir

dnsredir is a CoreDNS plugin. It routes a query to an upstream by a list of
domain names, picks one of the upstream's hosts by a policy and their health,
exchanges the query over a cached or a new connection or over HTTPS, retries,
adds the addresses of the reply to ipset sets or pf tables, and answers. The Go
code is under `src/`. This directory holds TLA+ modules translated from it, the
TLC configurations that check them on small instances, and proofs that TLAPS
checks for every instance.

## The system and its parts

| part | code | modules | status |
|---|---|---|---|
| connection cache of a host: `connManager`, `cleanup`, `Yield`, `Dial`, the connection handling of `Exchange` | `healthcheck.go` 24-161, 335-366, 419-469, `type.go` | `Transport`, `ConnPool` | modelled |
| dial timeout average | `healthcheck.go` 260-285, 335-366 | `DialTimeout` | modelled |
| failure counter of a host: worker, `Check`, `healthCheck`, `Down`, `Stop` | `healthcheck.go` 471-612, `dnsredir.go` 145-162, `checkdown.go` | `HealthCheck` | modelled |
| choosing a host: `Select` and the policies | `healthcheck.go` 614-660, `policy.go` | `Select`, `Selection` | modelled |
| serving a request: `ServeDNS` | `dnsredir.go` 64-162 | `ServeDNS` | modelled |
| DNS over HTTPS | `doh-ietf.go`, `doh-json.go`, `healthcheck.go` 368-417 | `Doh`, `Exchange` | modelled |
| adding addresses to ipset and pf | `ipset_linux.go`, `pf_darwin.go`, `pf/` | `AddIP`, `Exchange` (setup and shutdown in `Lifecycle`, parsing in `Config`) | ipset modelled, pf partly |
| loading and reloading lists | `namelist.go` 139-418, `utils.go` 129-195 | `NameList` | modelled |
| matching and routing: `domainSet`, `parse`, `Match`, `match` | `namelist.go` 17-131, 302-336, `upstream.go` 44-66, `dnsredir.go` 166-191, `utils.go` 61-107 | `DomainSet`, `Route` | modelled |
| configuration | `upstream.go` 94-614, `parse.go`, `setup.go` | `Config`, `Plugin` | modelled |
| start and stop over all upstreams | `dnsredir.go` 46-62, `upstream.go` 68-91 | `Lifecycle`, `Plugin` | modelled |
| default route lookup (not used by the plugin), metrics | `route/`, `metrics.go` | - | not modelled |

How they interact. A Corefile is parsed block by block into upstreams, which are
then started one after the other and stopped in the same order. Every request is
a goroutine in `ServeDNS`. It shares with the others: the lists, which two kinds
of goroutines reload; the failure counter of each host, which health checks,
failed requests and the goroutines those leave behind all change; the round robin
counter, which all upstreams share; the dial timeout average of each host; and
its connection cache, which one manager goroutine owns and serves over unbuffered
channels.

## Modules

Every module starts with a comment on what it takes from the code and what it
leaves out. Operators whose names end in `_Something`, introduced as variants,
are deliberately wrong forms of the definition after them, used to confirm that
the properties can fail; no specification uses them.

**`Transport`** models one host's connection manager, its clients and the
goroutines that close connections. `conns` is `Transport.conns`, per type a stack
whose end was used last; `age` and `kind` belong to a connection; `offer` is a
value being sent on `ret`; `closing` are connections handed to `closeConns`;
`held` and `pc` are a client's. Each case of the manager's `select` is an action
(`DialHit`, `DialExpired`, `DialEmpty`, `YieldSend`, `CleanupTick`, `StopRecv`).
The send on `ret` is a step of its own, because the manager blocks in it. `Yield`
stamps a connection (age 0 in `ReadMsg`) before it competes for the channel
(`YieldSend`, or `YieldTimeout` after 25ms). Time is `Tick`, which ages every
stamped connection up to `Expire`, at which it has expired.

**`ConnPool`** is what the cache promises: each connection is unused, lent to one
client, idle or retired, and moves between those only in the permitted ways; a
retired one never comes back. `ImplementsPool` is the refinement.

**`DialTimeout`** models `limitDialTimeout` and `updateDialTimeout` as requests
that dial one host at the same time run them: a timeout computed from the average
(`BeginDial`), the dial (`Answered`, `TimedOut`), and the adjustment, whose load
and whose add are separate atomic operations (`LoadAvg`, `AddAvg`). Division
rounds towards zero, as in Go. `Change` lets the host become slower or faster, or
stop accepting. `most` is history: how many requests were ever between the load and
the add at the same time.

**`HealthCheck`** models one host's counter `fails`. `WorkerTick` starts a check
without waiting for earlier ones, `CheckOk` and `CheckFail` apply results in any
order, `ExchangeFail` raises the counter and leaves a goroutine that lowers it
(`TimerFire`) and, on every third failure, checks as well (`TimerFireCheck`).
`streak` and `debt` are history.

**`Select`** models `HealthCheck.Select` one `Down()` read at a time, for pools
of one to `PoolMax` hosts, every policy, with and without spray, while hosts go up
and down between the reads. The round robin counter belongs to no upstream:
`RobinElsewhere` is a draw by another one. **`Selection`** is what it promises: a
call is a question and an answer, and the answer is bound only by the hosts that
were up, and those that were down, from the one to the other.

**`ServeDNS`** models a request from its match to its return over what the other
modules promise: a number of idle connections per host (`ConnPool`), calls of
`Select` that last while hosts change and answer as `Selection` says (`Try`,
`Selected`), and one-step health checks. The requests followed are not the only ones:
`Refill` is another request that has its answer and yields its connection, at any
time, also under a request that drains the cache, and `Expire` is a cleanup that drops
any number of connections. An exchange may fail (`Fail`) with a host that answers, by a
timeout or a reply under another Id. Time is not counted: the deadline may
have passed whenever the head of the loop looks, also before the first try, so
what is shown to end ends by the number of tries alone.

**`Doh`** models one DNS over HTTPS exchange: the choice of format, the checks and
the Id of the request, which the wire format sets to 0 while it packs, and what
the response's status, type and body make of it. **`AddIP`** has the loops of
`ipsetAddIP` and `pfAddIP` over records and tables, each kernel call of which may
fail; what was added or refused is kept by the position of the record in the answer,
since two addresses of one type are two calls. **`Exchange`** composes them: a request tried on hosts of any kind in any
order, its reply matched, added to the tables and written.

**`NameList`** models the loading of a file and of a page. The file can be
rewritten in place, replaced or removed between `Stat`, parse and store; the page
can change and the server come and go between fetch, comparison and store; the
initial update with its two retries overlaps with the reloading goroutine. A list
is identified with the version of the content it was parsed from.

**`DomainSet`** has the pure functions of matching, on strings as sequences of
characters; the loop of `Match` is the set of places it looks up (`Starts`), since
only whether one of them is found matters. **`Route`** loads lines, INLINE names and exceptions into upstreams
and compares where every name is routed with a definition by suffixes.

**`Config`** models the parsing of a block: FROM, each directive of `parseBlock`
with its limits and errors, and the end of the block, where hosts get their
settings and conflicts are refused. A word is a model string; what it says as a
duration, a number or a host is a table (`Duration`, `Number`, `HostOf`).
**`Lifecycle`** models `OnStartup` and `OnShutdown`: which goroutines of which
upstream run, which have been told to stop, which handles are open, with every
ipset and pf call able to fail and the ticker that panics on a zero interval.
**`Plugin`** composes the two: the upstreams that parsing accepts are started and
stopped.

## Runs

| run | instance | shows |
|---|---|---|
| `transport_safety` | 2 clients, 3 connections, udp and tcp, expiry 2, symmetric | no connection in two places (`SinglePlace`); a client exchanges on an open connection of its type (`LentUsable`); a reply on the shared channel is for the client waiting for it (`ReplyPaired`); cleanup of a sorted stack is exact (`CleanupExact`); a running manager drops only expired connections from a sorted stack (`OnlyExpiredEvicted`) |
| `transport_pool` | 2 clients, 2 connections, udp, expiry 1 | refinement of `ConnPool`; the inductive invariant `TransportInv`, type invariant included; dials are served while the manager runs and `Yield` returns (`ClientsServed`), expired connections leave, stop drains |
| `dial` | 3 requests, a frame of 1 to 5, hosts that need 0 to 6 | how far stale adjustments take the average, by the number of requests that overlapped in them (`AvgBounded`); a host that settles is soon given enough time (`SettledServed`) |
| `health` | max_fails 3, 2 checks of each outcome, 3 sleeping goroutines, 2 failing exchanges, 7 failures in a row | what the counter is worth (`Accounting`) and when it takes the host down (`DownAfterDebt`); a dead host ends up down, a live one not |
| `select` | up to 3 hosts, 4 policies, a round robin counter of 4 values that others draw from | calls return what `Selection` promises (`ImplementsSelection`); an undisturbed call is exact (`QuietCallExact`) |
| `serve` | 1 request at a time, repeated for ever, 2 hosts, max_fails 2, max_retry 2, round robin | one answer or none, no panic after a try, no refusal without cause, closed idle connections not held against a host, requests end unless others refill the cache they drain for ever (`ServeReturns`), failover once hosts settle (`FailoverWorks`) |
| `exchange` | hosts of all four kinds in any order, 3 contents, ipset sets or pf tables of each family or none, answers with two addresses of a type, other records and an address record without an address | the client's Id comes back but for two exceptions the code leaves (`AnsweredAsAsked`); a record misses a table only if the call for that record and that table failed (`RoutedOrRefused`) |
| `names` | 2 contents, 2 stamps | a stored hash or stamp that matches the source comes with its names (`MarksTellNames`); file and page lists catch up; goroutines end |
| `route` | 2 upstreams, up to 3 lines or arguments out of 20, labels of up to 2 characters, 11 queried names | routing agrees with its definition, both ways |
| `plugin` | Corefiles of up to 2 blocks, each with up to 2 `to` lines and 2 others out of 46 lines, on Linux and on Darwin; any kernel call failing | a block means what its lines say, in any order (`AsWritten`); hosts get the settings of the whole block (`HostsInherit`); no conflict and no unusable item is accepted (`BlockUsable`); handles are open when closed and once only (`HandlesOpen`); what an error of start leaves behind (`PartialStart`), how far a shutdown has come at each step and when it ends (`PartialStop`); a shutdown ends and leaves nothing |

Expected violations, each of one statement of the documentation or of a comment:

| run | statement | what the code does |
|---|---|---|
| `transport_dial_after_stop` | `Dial` returns a connection or an error (`healthcheck.go:335`) | a request blocked on `dial` when the manager stops is never served |
| `plugin_expire_zero` | a zero duration disables a feature (`README.md:109`) | `expire 0` is accepted and the manager's ticker panics on it |

Other places where the code does less than its text says are inside properties
that hold, as the condition or the exception each of them states:

- the comment "connections in stack are sorted by "used"" (`healthcheck.go:127`)
  is not always so: `Yield` stamps, then competes for the channel, and two clients
  can push in the other order. `CleanupExact` and `OnlyExpiredEvicted` speak of
  sorted stacks;
- `max_fails` failures in a row (`README.md:145`) do not always take a host down:
  goroutines of requests that failed before a success lower the counter after it.
  `DownAfterDebt` says how many more are needed;
- round robin returns nil not only when "All hosts are down" (`policy.go:75`): it
  asks the host it found once more. `Selection` allows that policy to miss when
  some host changed during the call, and `RefusedForCause` to refuse a request;
- "Text after `#` character will be treated as comment" (`README.md:42`), but the
  blank before the `#` stays and the entry never matches. `RoutedToFirst` promises
  only the names that are surely listed. The same goes for a page with CRLF line ends,
  whose carriage returns stay, unlike those of a file;
- "When all hosts are unhealthy ... each policy will *randomly* return a host from the
  pool" (`policy.go:20-22`) is what a block with `spray` does. Without it the policies
  return nil, as the comment three lines further on (`policy.go:25`) and `README.md:129`
  say. `QuietCallExact` and `Selection` follow the code;
- the default read timeout of a URL is 15s (`upstream.go:601`), where `README.md:119`
  says "Default is `30s`". `AsWritten` takes the defaults of the source, this one from
  `defaultUrlReadTimeout`; the other defaults it
  asserts are the README's where the README gives them;
- `policy spray` is accepted (`policy.go:17`), a policy the README does not list;
- the inner loop of `ServeDNS` (`dnsredir.go:92-103`) looks at neither the deadline nor
  the number of tries. As long as other requests put connections into the cache and the
  peer closes each of them before it is used, the request goes on. `ServeReturns` is
  stated for requests that are not refilled under for ever, which TLC confirms to be
  needed;
- where `Pack` fails, the Id of the client's message stays 0 (`doh-ietf.go:26-30`).
  `AnsweredAsAsked` speaks of requests that pack.

Three properties say what the code leaves behind rather than that it leaves nothing:
`PartialStart` (an upstream whose start fails is not stopped), `PathFresh` (a parse that
was cut short is not repeated) and `SpotlessUp` (only the error `io.EOF` on a cached
connection is not held against the host). `AllReleased` is about shutdowns of a process
that has not crashed, and `BlockUsable` about lists that reach a lookup: an `http://` FROM
makes setup panic, which is a step of the model. `MarksTellNames` and `PathFresh`
assume that a change of a file changes its time stamp or size, as the code does.

### Bounds

A second client and a second connection are what the races on the channels, the
stamps and the stack need; the third connection lets one be cached while two are
in use. Expiry 2 gives the ages fresh, about to expire and expired. In
`transport_pool` one transport type and two connections suffice for what the
liveness properties and the refinement tell apart. `dial` keeps the proportion of
the code's 1s and 5s; its times fall before, inside, at the end of and beyond the
frame. Rounding hides most of an overshoot on so small a scale: it takes the three
requests to leave the range of sequential dials, which they do. In `health` the
bound on failures in a row exceeds max_fails plus the sleeping goroutines
(assumption `StreakLongEnough`), so that a dead host can be found out from any
counter value. A pool of three is the smallest in which round
robin can skip a host, and a counter of four values wraps within a run; one caller
is enough, since what others do to the counter is `RobinElsewhere`. `serve` allows
two tries, one idle connection and one sleeping goroutine per host: enough for a
closed connection, a change of host and an exhausted retry limit in one request;
`Refill` makes the one idle connection a new one as often as a request uses it up.
Its policy is round robin, whose promise allows all that random and sequential may
do; `FailoverWorks` does not hold of the spray policy, which asks dead hosts too.
`exchange` does not bound the tries. In `names` one change of the file can fall
before, between or after each step. In `plugin` two lines are what the order of
lines needs, two `to` lines what hosts added before and after them need, and two
blocks what an error in the middle of a loop needs. Bounds act as guards; each is
a named constant.

`names`, `route`, `exchange` and `plugin` do not check for deadlock: after Stop, a
crash, the last line, an answer or a refused Corefile nothing need happen.

### Fairness

Goroutines that can run do (weak fairness of each step of a client, a
request, an updater, a start or a shutdown under way, a goroutine told to stop).
The manager's `select` chooses among ready cases at random, and so do the
reloading loops: a case that is ready again and again is taken in the end (strong
fairness of the manager's cases and of `PathExit`, `UrlExit`). Tickers keep firing
(`CleanupTick`; weak fairness of `WorkerTick` and `Check`), and sleeping goroutines
wake up: strong fairness of `TimerFireCheck` only says that the bound on checks in
flight does not hold one up for ever. `SettledServed` needs no fairness. Nothing is assumed of hosts, servers
and files: properties about them name the steadiness they need.

## Proofs

Each `...Proofs` module extends the modules it is about. The theorems hold for any
number of clients, connections, hosts, requests, upstreams, tables and contents
and for any bounds, under the named assumptions of those modules only.

**`TransportProofs`** and **`PoolProofs`** (`TransportAssumption`).
- `TransportTypeCorrect`, `ReplyPairedAlways`, `LentUsableAlways`,
  `SinglePlaceAlways`, from `TransportInvariant`. None of them is inductive alone.
  That a reply is for the client that waits rests on the manager serving nobody
  else while it offers; that a lent connection is open rests on closing ones being
  disjoint from everything reachable; that rests on no connection being twice in
  the stacks, held or offered. `TransportInv` joins these: where a client is
  determines what it holds (`HeldWhileExchanging`), an offer has exactly one waiter
  (`OfferForWaiter`), what is within reach is open and of the right type
  (`ReachableOpen`), and the places are disjoint (`Disjoint`).
- `ImplementsPoolAlways`, the refinement of `ConnPool`. By the invariant every
  connection is in at most one place (`Placed`), in none before it is dialled and
  after it is dropped or closed; every step then moves one
  connection (`OneMoves`), none (`AllStay`), or the cut off ends of the stacks from
  idle to retired (`Evicted`).
- `OnlyExpiredEvictedAlways` and `CleanupExactAlways`: in a sorted stack everything
  below an expired connection has expired (`ExpiredBelow`), and the place where
  `cleanup` cuts is the one between the last expired and the first fresh connection
  (`CleanupFacts`, `CutExact`).

**`HostProofs`** (`HealthAssumption`, `DialAssumption`, `DohAssumption`) is about one
upstream host and the exchange with it.
- `HealthTypeCorrect`, `AccountingAlways`, `DownAfterDebtAlways`. The strengthening
  bounds sleeping goroutines, and failures in a row together with failing checks in
  flight; the rest is linear arithmetic on `fails = streak + sleeping - debt`.
- `TimeoutInFrameAlways` and `AvgBoundedAlways`, for any number of requests. While at
  most k of them were between load and add at once, k up to the weight 4, the average A
  keeps -(k - 1) L <= (5 - k) A <= 4 L, L being the longest dial. With k = 1 that is
  0 <= A <= L. More than four at once may take it anywhere, and nothing is claimed. The
  bound is not inductive: an adjustment under way can be added to an average that others
  have moved. `Budgets(k)` says that the average keeps its bounds even if only those of
  the pending adjustments that go up, or only those that go down, are made. At most four
  requests have one pending, so it is stated for every choice of four requests, and no
  sum over a set is needed (`FewMembers`, `BudgetsByRequest`); `OverlapInv` ties the
  history variable to the requests that are there.
- `AnsweredAsAskedAlways` from `IdInv` (the request has its own Id again wherever an
  exchange ends), and `RoutedOrRefusedAlways` from `AddInv`, the loop invariant of
  `AddIPs`: a record that is wanted in a table is added, refused or still to come, by its
  position.

**`SelectProofs`** (`SelectAssumption`): `SelectTypeCorrect`, `SprayAnswersAlways`,
`SteadyHostFoundAlways`, `QuietCallExactAlways`, and `ImplementsSelectionAlways`, the
refinement of `Selection`. A host a loop has passed was down
when the loop looked, so one that counts as steadily up is ahead of the loop
(`Ahead`). For a call during which nothing changes, `QuietInv` adds what the round
robin loop has passed since its draw (`RobinOK`), and that a policy is asked only
while some host is up (`SomeUp`); the host a loop stops at is then the first one up.
The same facts make every return a `Tell` of `Selection`: a loop that ends without a
host has no steady one ahead (`NoneAhead`), round robin's second look fails in a call
without changes only if no host is up (`RobinMiss`), and a candidate was seen up
(`SeenPromised`). `ServeDNS` rests on `Selection`, so what is proved of requests holds
over the code's unlocked reads.

**`ServeProofs`** (`ServeAssumption`, `NameListAssumption`).
- `ServeTypeCorrect`, `OneAnswerAlways`, `RoutedFirstAlways`,
  `PanicOnlyUntriedAlways`, `SpotlessUpAlways`, `RefusedForCauseAlways`, from
  `ServeInv`: what a request has written, tried and routed by where it is
  (`RequestOK`), and what a host's counter is worth (`HostOK`). The panic is out of
  reach after a try because every way back to the loop leaves an error behind. A
  refusal is traced to its cause with `SteadyInv`: a host that has always answered
  counts as up all through every call of `Select`.
- `NamesTypeCorrect`, `MarksTellNamesAlways`, where the assumption makes hashes of
  different contents different. Needed beside it: what an updater is about to store
  is a content that was fetched (`FetchedOK`), and what was read from a file under a
  stamp that is still the file's is its content (`SeenOK`). It is the safe half of
  `PathFresh` and `UrlFresh`: a reload that finds nothing to do has nothing to do.

**`PluginProofs`** (`ConfigAssumption`), for the composition of parsing, start and
shutdown, any lines, any table of words and any number of upstreams. What it needs of
parsing alone is in **`ConfigProofs`**, lemmas about the actions of `Config`.
- `AsWrittenAlways`, `HostsInheritAlways`, `BlockUsableAlways`. `BlockInv` says, while
  a block is read, that each setting is what the last line about it says
  (`LastCounts`), within its limits, that sets and tables are what all lines about
  them add up to (`AddsUp`), and that the hosts are those of the `to` lines in their
  order (`Copied`); at its end, that the hosts have the block's settings. `LineEffect`
  is what one line does, by its directive; the other lemmas carry one conjunct each
  over one more line. That the hosts keep the order of all words of all `to` lines is
  stated by places, line and word, instead of by a concatenation of unknown length
  (`Orders`, `OrderExtends`), so that no induction is needed.
- `HandlesOpenAlways`, `PartialStartAlways`, `PartialStopAlways`. `LifeInv` describes
  the upstreams before, at and after the one whose turn it is, in every phase;
  `PluginInv` joins it to the upstreams that parsing has accepted. `PartialStop` is the
  safe half of `ShutdownEnds` and `AllReleased`: the only wait of a shutdown is for a
  worker that has been told to stop, and at its end every goroutine has been.

**`RouteProofs`** (`RouteAssumption`): `RouteInvariant`, `RoutedToFirstAlways`,
`RoutedWithReasonAlways`, for strings over any characters. `RouteInv` says that a
domain set holds exactly what was made of the strings written for it, each in the
bucket of its own first characters (`Stores`). From it, a name below a stored domain is
found: the part of the name that is the domain starts after a dot, so the loop of
`Match` looks it up, in the bucket it was put into (`MatchFinds`). And what is found was
written: whatever a bucket holds was made of a string, which is the part that was
looked up, or a parent of it, up to case and final dot (`MatchWritten`). `NameAbout`
shows that `parse` takes from a line what the line is about. The assumption says of
the names asked for what the comment on `Match` says, lower case and no trailing dot,
and that no label is empty as text; a name with a label that ends in an escaped dot
is therefore not covered.

Only model-checked: the liveness properties, whose fairness and ENABLED are out of the
prover's reach (`ClientsServed`, `ExpiredEvicted`, `StopDrains`, `SettledServed`,
`DeadDetected`, `AliveRestored`, `ServeReturns`, `FailoverWorks`, `PathFresh`,
`UrlFresh`, `ReloadersExit`, `ShutdownEnds`, `AllReleased`). Every other property of
the passing runs is also proved.

Only proved, since a proof for every instance leaves a run nothing to show: the type
invariants, `TimeoutInFrame`, `SprayAnswers`, `SteadyHostFound` and `RoutedFirst`.

## Not modelled

- The encoding of DNS messages, HTTP and TLS: a reply is its origin, Id, success
  and records, each with its type and whether it holds an address; the HTTP client's own dialling is library code.
- Logging and metrics, which nothing in the plugin reads back.
- The netlink calls of ipset and the ioctl calls of pf (`pf/pf_darwin_cgo.go`):
  calls that succeed or fail.
- `route/`, the lookup of the default route: netlink I/O that the plugin does not use.
- Internationalised names in `domainSet`.
- A `Stat` that fails on a file just opened (`namelist.go:297`) is a step of
  `NameList` that ends the process; no property is about it.
- A request that is answered over HTTPS appears in `ServeDNS` as one without idle
  connections; its exchange is in `Exchange`.
