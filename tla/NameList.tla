------------------------------- MODULE NameList ------------------------------
(****************************************************************************)
(* Loading and reloading the name lists of an upstream (namelist.go): one   *)
(* item read from a file, one fetched from a URL.                           *)
(*                                                                          *)
(* The file's item is updated by Start and then by one goroutine.  The      *)
(* URL's is updated by two: the one Start leaves behind, which retries, and *)
(* the one that reloads.  What is read at one time is stored at another;    *)
(* meanwhile the file and the page change.                                  *)
(*                                                                          *)
(* A list is known by the version of the content it was parsed from.        *)
(****************************************************************************)
EXTENDS Integers

CONSTANTS
  Versions,  \* contents of the file and of the page
  NoNames,   \* the nil domainSet: nothing loaded yet
  Torn,      \* a list whose input ended early
  Hash,      \* stringHash, per version
  MaxStamp   \* bound: modification stamps of the file

\* A 64-bit FNV-1a: different contents are taken to have different hashes, none
\* of them 0, the hash of an item not loaded yet.
ASSUME NameListAssumption ==
  /\ \A v, w \in Versions : Hash[v] = Hash[w] => v = w
  /\ \A v \in Versions : Hash[v] \in Nat \ {0}
  /\ MaxStamp \in Nat \ {0}
  /\ {NoNames, Torn} \cap Versions = {} /\ NoNames # Torn

Updaters == {"initial", "reload"}
MaxRetries == 2  \* len(retryIntervals)

VARIABLES
  file,       \* the file: content and (mtime, size); content NoNames: missing
  pathNames,  \* item.names of the path
  pathStamp,  \* item.mtime and item.size
  pathPc,     \* updateItemFromPath: "closed", "opened", "parsed"
  fd,         \* the open file: its content, and whether it is still the file
  stat,       \* what Stat returned: a stamp, or -1 for nil with an error
  read,       \* names parsed from it
  pathLoop,   \* "start" (in Start), "loop", "gone"
  page,       \* what the server has to offer
  reachable,  \* whether it offers it
  urlNames,   \* item.names of the URL
  urlHash,    \* item.contentHash
  urlPc,      \* per updater: "idle", "fetched", "parsed", "gone"
  got,        \* per updater: the content fetched
  retries,    \* of the initial update: i
  stopped,    \* both stop channels are closed
  crashed     \* a goroutine panicked

pathVars == <<pathNames, pathStamp, pathPc, fd, stat, read, pathLoop>>
urlVars == <<urlNames, urlHash, urlPc, got, retries>>
env == <<file, page, reachable>>
namesVars == <<env, pathVars, urlVars, stopped, crashed>>

stringHash(content) == Hash[content]
Contents == Versions \cup {NoNames}
NoFd == [content |-> NoNames, same |-> FALSE]

NamesInit ==
  /\ file \in [content : Contents, stamp : {1}]
  /\ pathNames = NoNames
  /\ pathStamp = 0
  /\ pathPc = "closed"
  /\ fd = NoFd
  /\ stat = 0
  /\ read = NoNames
  /\ pathLoop = "start"
  /\ page \in Versions
  /\ reachable \in BOOLEAN
  /\ urlNames = NoNames
  /\ urlHash = 0
  /\ \E reload \in {"idle", "gone"} :
       urlPc = [u \in Updaters |-> IF u = "reload" THEN reload ELSE "idle"]
  /\ got = [u \in Updaters |-> NoNames]
  /\ retries = 0
  /\ stopped = FALSE
  /\ crashed = FALSE

-----------------------------------------------------------------------------
\* The outside

\* The file is rewritten in place: whoever has it open sees the new content. Every change
\* gives the file another stamp, of modification time and size.
Rewrite(v) ==
  /\ file.content # NoNames
  /\ file.stamp < MaxStamp
  /\ file' = [content |-> v, stamp |-> file.stamp + 1]
  /\ fd' = IF fd.same THEN [fd EXCEPT !.content = v] ELSE fd
  /\ UNCHANGED <<page, reachable, pathNames, pathStamp, pathPc, stat, read,
                 pathLoop, urlVars, stopped, crashed>>

\* The file is created, replaced by another one, or removed.
Replace(v) ==
  /\ file.stamp < MaxStamp
  /\ file' = [content |-> v, stamp |-> file.stamp + 1]
  /\ fd' = [fd EXCEPT !.same = FALSE]
  /\ UNCHANGED <<page, reachable, pathNames, pathStamp, pathPc, stat, read,
                 pathLoop, urlVars, stopped, crashed>>

\* The page changes, or the server comes and goes.
Publish(v) ==
  /\ page' = v
  /\ UNCHANGED <<file, reachable, pathVars, urlVars, stopped, crashed>>

Connectivity ==
  /\ reachable' = ~reachable
  /\ UNCHANGED <<file, page, pathVars, urlVars, stopped, crashed>>

-----------------------------------------------------------------------------
\* updateItemFromPath

\* Start has updated the item; the goroutine takes over, if path_reload is on.
AfterUpdate ==
  pathLoop' \in IF pathLoop = "start" THEN {"loop", "gone"} ELSE {pathLoop}

MayUpdate == ~crashed /\ pathLoop # "gone" /\ pathPc = "closed"

\* The file cannot be opened, or is the one read last: nothing to do.
PathSkip ==
  /\ MayUpdate
  /\ file.content = NoNames \/ file.stamp = pathStamp
  /\ AfterUpdate
  /\ UNCHANGED <<env, pathNames, pathStamp, pathPc, fd, stat, read, urlVars,
                 stopped, crashed>>

\* It is open and differs from what was read last.
PathOpen ==
  /\ MayUpdate
  /\ file.content # NoNames
  /\ file.stamp # pathStamp
  /\ pathPc' = "opened"
  /\ fd' = [content |-> file.content, same |-> TRUE]
  /\ stat' = file.stamp
  /\ UNCHANGED <<env, pathNames, pathStamp, read, pathLoop, urlVars, stopped,
                 crashed>>

\* It is open, and Stat fails: "Proceed parsing anyway".
PathOpenNoStat ==
  /\ MayUpdate
  /\ file.content # NoNames
  /\ pathPc' = "opened"
  /\ fd' = [content |-> file.content, same |-> TRUE]
  /\ stat' = -1
  /\ UNCHANGED <<env, pathNames, pathStamp, read, pathLoop, urlVars, stopped,
                 crashed>>

\* parse: the scanner may stop early, at a read error or an overlong line, and
\* nobody asks it.
PathParse ==
  /\ ~crashed
  /\ pathPc = "opened"
  /\ pathPc' = "parsed"
  /\ read' \in {fd.content, Torn}
  /\ fd' = NoFd
  /\ UNCHANGED <<env, pathNames, pathStamp, stat, pathLoop, urlVars, stopped,
                 crashed>>

\* Variant: the stamp is taken anew instead of from before the parse.
PathStore_LateStat ==
  /\ ~crashed
  /\ pathPc = "parsed"
  /\ stat # -1
  /\ pathNames' = read
  /\ pathStamp' = file.stamp
  /\ pathPc' = "closed"
  /\ stat' = 0
  /\ read' = NoNames
  /\ AfterUpdate
  /\ UNCHANGED <<env, fd, urlVars, stopped, crashed>>

\* The names and the stamp from before the parse are stored.
PathStore ==
  /\ ~crashed
  /\ pathPc = "parsed"
  /\ stat # -1
  /\ pathNames' = read
  /\ pathStamp' = stat
  /\ pathPc' = "closed"
  /\ stat' = 0
  /\ read' = NoNames
  /\ AfterUpdate
  /\ UNCHANGED <<env, fd, urlVars, stopped, crashed>>

\* Without a stamp, the names are stored and stat.ModTime() panics.
PathStoreNoStat ==
  /\ ~crashed
  /\ pathPc = "parsed"
  /\ stat = -1
  /\ pathNames' = read
  /\ crashed' = TRUE
  /\ UNCHANGED <<env, pathStamp, pathPc, fd, stat, read, pathLoop, urlVars,
                 stopped>>

\* The goroutine sees that stopPathReload is closed.
PathExit ==
  /\ ~crashed
  /\ pathLoop = "loop"
  /\ pathPc = "closed"
  /\ stopped
  /\ pathLoop' = "gone"
  /\ UNCHANGED <<env, pathNames, pathStamp, pathPc, fd, stat, read, urlVars,
                 stopped, crashed>>

-----------------------------------------------------------------------------
\* updateItemFromUrl, called by initialUpdateFromUrl and by the ticker's loop

\* The ticker's goroutine exists once Start has gone through the items.
MayFetch(u) ==
  /\ ~crashed
  /\ urlPc[u] = "idle"
  /\ u = "reload" => pathLoop # "start"

\* The updater has done its work: the initial one is gone, the other waits.
Finished(u) ==
  /\ urlPc' = [urlPc EXCEPT ![u] = IF u = "initial" THEN "gone" ELSE "idle"]
  /\ got' = [got EXCEPT ![u] = NoNames]

UrlFetch(u) ==
  /\ MayFetch(u)
  /\ reachable
  /\ urlPc' = [urlPc EXCEPT ![u] = "fetched"]
  /\ got' = [got EXCEPT ![u] = page]
  /\ UNCHANGED <<env, pathVars, urlNames, urlHash, retries, stopped, crashed>>

\* A failed fetch leaves the list alone; the initial update tries again, as
\* often as there are retryIntervals.
UrlFetchFail(u) ==
  /\ MayFetch(u)
  /\ ~reachable
  /\ IF u = "initial" /\ retries < MaxRetries
       THEN /\ retries' = retries + 1
            /\ UNCHANGED <<urlPc, got>>
       ELSE /\ Finished(u)
            /\ UNCHANGED retries
  /\ UNCHANGED <<env, pathVars, urlNames, urlHash, stopped, crashed>>

\* The content is the one stored last.
UrlSame(u) ==
  /\ ~crashed
  /\ urlPc[u] = "fetched"
  /\ stringHash(got[u]) = urlHash
  /\ Finished(u)
  /\ UNCHANGED <<env, pathVars, urlNames, urlHash, retries, stopped, crashed>>

\* It is another one, and is parsed.
UrlParse(u) ==
  /\ ~crashed
  /\ urlPc[u] = "fetched"
  /\ stringHash(got[u]) # urlHash
  /\ urlPc' = [urlPc EXCEPT ![u] = "parsed"]
  /\ UNCHANGED <<env, pathVars, urlNames, urlHash, got, retries, stopped,
                 crashed>>

\* Variant: the hash is not stored.
UrlStore_NoHash(u) ==
  /\ ~crashed
  /\ urlPc[u] = "parsed"
  /\ urlNames' = got[u]
  /\ Finished(u)
  /\ UNCHANGED <<env, pathVars, urlHash, retries, stopped, crashed>>

\* Variant: the initial update does not store it.
UrlStore_InitialNoHash(u) ==
  /\ ~crashed
  /\ urlPc[u] = "parsed"
  /\ urlNames' = got[u]
  /\ urlHash' = IF u = "initial" THEN urlHash ELSE stringHash(got[u])
  /\ Finished(u)
  /\ UNCHANGED <<env, pathVars, retries, stopped, crashed>>

\* Names and hash are stored together, over whatever is there by now.
UrlStore(u) ==
  /\ ~crashed
  /\ urlPc[u] = "parsed"
  /\ urlNames' = got[u]
  /\ urlHash' = stringHash(got[u])
  /\ Finished(u)
  /\ UNCHANGED <<env, pathVars, retries, stopped, crashed>>

\* Variant: the loop has no case for stopUrlReload.
UrlExit_Never == FALSE

\* The goroutine sees that stopUrlReload is closed.
UrlExit ==
  /\ ~crashed
  /\ urlPc["reload"] = "idle"
  /\ pathLoop # "start"
  /\ stopped
  /\ urlPc' = [urlPc EXCEPT !["reload"] = "gone"]
  /\ UNCHANGED <<env, pathVars, urlNames, urlHash, got, retries, stopped,
                 crashed>>

\* reloadableUpstream.Stop closes both channels.
Stop ==
  /\ ~crashed
  /\ pathLoop # "start"
  /\ ~stopped
  /\ stopped' = TRUE
  /\ UNCHANGED <<env, pathVars, urlVars, crashed>>

PathStep == PathSkip \/ PathOpen \/ PathParse \/ PathStore \/ PathStoreNoStat
UrlStep(u) == UrlFetch(u) \/ UrlFetchFail(u) \/ UrlSame(u) \/ UrlParse(u)
                \/ UrlStore(u)

NamesNext ==
  \/ \E v \in Versions : Rewrite(v) \/ Publish(v)
  \/ \E v \in Contents : Replace(v)
  \/ Connectivity
  \/ PathStep
  \/ PathOpenNoStat
  \/ PathExit
  \/ \E u \in Updaters : UrlStep(u)
  \/ UrlExit
  \/ Stop

NamesSpec == NamesInit /\ [][NamesNext]_namesVars

\* Goroutines run and tickers fire, but Stat need not fail.  A loop with both its ticker and its stop
\* channel ready chooses at random: it does not choose the ticker for ever.
NamesFairness ==
  /\ WF_namesVars(PathStep)
  /\ SF_namesVars(PathExit)
  /\ \A u \in Updaters : WF_namesVars(UrlStep(u))
  /\ SF_namesVars(UrlExit)

FairNamesSpec == NamesSpec /\ NamesFairness

-----------------------------------------------------------------------------
\* Properties

\* Every variable stays in its domain; the initial update tries at most once
\* more than there are retry intervals.
NamesTypeOK ==
  /\ file \in [content : Contents, stamp : 1..MaxStamp]
  /\ pathNames \in Contents \cup {Torn}
  /\ pathStamp \in 0..MaxStamp
  /\ pathPc \in {"closed", "opened", "parsed"}
  /\ fd \in [content : Contents, same : BOOLEAN]
  /\ stat \in -1..MaxStamp
  /\ read \in Contents \cup {Torn}
  /\ pathLoop \in {"start", "loop", "gone"}
  /\ page \in Versions
  /\ reachable \in BOOLEAN
  /\ urlNames \in Contents
  /\ urlHash \in {Hash[v] : v \in Versions} \cup {0}
  /\ urlPc \in [Updaters -> {"idle", "fetched", "parsed", "gone"}]
  /\ got \in [Updaters -> Contents]
  /\ retries \in 0..MaxRetries
  /\ stopped \in BOOLEAN
  /\ crashed \in BOOLEAN

\* The stored hash is that of the content the stored names came from, although
\* two goroutines compare and store without excluding each other: a reload that
\* finds its hash stored may rely on the names.
HashTellsNames ==
  urlHash = IF urlNames = NoNames THEN 0 ELSE Hash[urlNames]

\* What decides that a reload has nothing to do can be trusted, whatever changed between
\* open, Stat, parse and store: besides the hash, the stamp. When the stored modification
\* time and size are those of the file, the stored names are its names, or were cut short
\* by a failing read (src/namelist.go:273-300).
MarksTellNames ==
  /\ HashTellsNames
  /\ pathStamp = file.stamp => pathNames \in {file.content, Torn}

\* Once the page stays as it is and can be fetched, the reloading goroutine gets
\* its names in, and no late initial update puts an older list back for good.
UrlFresh ==
  (/\ <>[](reachable /\ urlPc["reload"] # "gone" /\ ~crashed)
   /\ <>[][page' = page]_namesVars)
    => <>[](urlNames = page)

\* Once the file stays as it is, its names get in, in spite of changes between
\* Stat, parse and store - unless a parse was cut short, which leaves a stamp
\* as good as a full one's, or Stat failed. As the code does, it takes a file whose
\* time and size are the ones seen before for unchanged.
PathFresh ==
  (/\ <>[](file.content # NoNames /\ pathLoop = "loop" /\ ~crashed)
   /\ <>[][file' = file]_namesVars)
    => <>[](pathNames \in {file.content, Torn})

\* The goroutines end after Stop, unless the process did.
ReloadersExit ==
  stopped ~> crashed \/ (pathLoop = "gone" /\ \A u \in Updaters : urlPc[u] = "gone")
=============================================================================
