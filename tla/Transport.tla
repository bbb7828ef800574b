------------------------------ MODULE Transport ------------------------------
(****************************************************************************)
(* The connection cache of one upstream host (healthcheck.go, Transport).   *)
(* One goroutine, connManager, owns the cache `conns`; request goroutines   *)
(* (Clients) talk to it over the unbuffered channels dial, ret and yield,   *)
(* and goroutines started by the manager close the evicted connections.     *)
(*                                                                          *)
(* A send on an unbuffered channel and its receive are one step.  Time is   *)
(* kept as the age of each connection's `used` stamp, saturating at Expire: *)
(* the code compares `used` with nothing but now - expire.  The dial        *)
(* timeout, which the same handlers update, is a matter of its own: here a  *)
(* dial may always fail.                                                    *)
(****************************************************************************)
EXTENDS Integers, Sequences, Functions

CONSTANTS
  Clients,    \* request goroutines that use this host
  Conns,      \* identities of connections; an unreferenced one may be reused
  Types,      \* transport types: the buckets of the cache
  NoConn,     \* the nil *persistConn
  Expire      \* t.expire, in ticks

ASSUME TransportAssumption ==
  /\ Expire \in Nat \ {0}
  /\ NoConn \notin Conns
  /\ Types # {}

VARIABLES
  conns,      \* t.conns: per type, a stack of cached connections
  age,        \* ticks since the connection's `used` stamp, at most Expire
  kind,       \* the transport type a connection was dialled with
  open,       \* connections whose socket is open
  closing,    \* connections handed to closeConns goroutines, not closed yet
  mgr,        \* connManager: "select", "ret" (sending on t.ret), "stopped"
  offer,      \* the value the manager is sending on t.ret
  stopping,   \* t.stop is closed
  pc,         \* where each client is
  want,       \* the transport type the client asks for
  held,       \* the connection the client exchanges on
  cached      \* Dial returned a cached connection

mgrVars    == <<conns, closing, mgr, offer, stopping>>
sockVars   == <<age, kind, open>>
clientVars == <<pc, want, held, cached>>
vars       == <<mgrVars, sockVars, clientVars>>

\* Client program counters: dial (blocked on t.dial), await (blocked on t.ret),
\* net (dialling), write and read (Exchange), yield (in Yield's select).
PCs     == {"idle", "dial", "await", "net", "write", "read", "yield"}
Holding == {"write", "read", "yield"}

InPool(k) == \E t \in Types : k \in Range(conns[t])

\* A connection nobody can reach any more: dialling makes a new one.
Unreachable(k) ==
  /\ ~InPool(k)
  /\ k # offer
  /\ k \notin closing
  /\ \A c \in Clients : held[c] # k

Fresh(k) == age[k] < Expire

\* The end of a stack connections are taken from, and what is left of it.
Top(stack) == stack[Len(stack)]
Pop(stack) == SubSeq(stack, 1, Len(stack) - 1)

\* The type is read off the dynamic type of the connection.
transportTypeFromConn(k) == kind[k]

AnyType == CHOOSE t \in Types : TRUE

TransportInit ==
  /\ conns = [t \in Types |-> <<>>]
  /\ age = [k \in Conns |-> Expire]
  /\ kind = [k \in Conns |-> AnyType]
  /\ open = {}
  /\ closing = {}
  /\ mgr = "select"
  /\ offer = NoConn
  /\ stopping = FALSE
  /\ pc = [c \in Clients |-> "idle"]
  /\ want = [c \in Clients |-> AnyType]
  /\ held = [c \in Clients |-> NoConn]
  /\ cached = [c \in Clients |-> FALSE]

-----------------------------------------------------------------------------
\* Clients: Dial, Exchange and Yield

\* Exchange calls Dial, which blocks on t.dial.
Request(c, t) ==
  /\ pc[c] = "idle"
  /\ pc' = [pc EXCEPT ![c] = "dial"]
  /\ want' = [want EXCEPT ![c] = t]
  /\ UNCHANGED <<mgrVars, sockVars, held, cached>>

\* Variant: the connection lent out is left in the cache.
DialHit_LeavesCached(c) ==
  LET t == want[c] IN
  /\ mgr = "select"
  /\ pc[c] = "dial"
  /\ conns[t] # <<>>
  /\ Fresh(Top(conns[t]))
  /\ offer' = Top(conns[t])
  /\ mgr' = "ret"
  /\ pc' = [pc EXCEPT ![c] = "await"]
  /\ UNCHANGED <<conns, closing, stopping, sockVars, want, held, cached>>

\* The manager's dial case, a cached connection found: the last one is taken
\* off the stack and will be sent on t.ret.
DialHit(c) ==
  LET t == want[c] IN
  /\ mgr = "select"
  /\ pc[c] = "dial"
  /\ conns[t] # <<>>
  /\ Fresh(Top(conns[t]))
  /\ conns' = [conns EXCEPT ![t] = Pop(conns[t])]
  /\ offer' = Top(conns[t])
  /\ mgr' = "ret"
  /\ pc' = [pc EXCEPT ![c] = "await"]
  /\ UNCHANGED <<closing, stopping, sockVars, want, held, cached>>

\* Variant: the oldest connection decides whether the stack is dropped.
DialExpired_ByOldest(c) ==
  LET t == want[c] IN
  /\ mgr = "select"
  /\ pc[c] = "dial"
  /\ conns[t] # <<>>
  /\ ~Fresh(conns[t][1])
  /\ conns' = [conns EXCEPT ![t] = <<>>]
  /\ closing' = closing \cup Range(conns[t])
  /\ offer' = NoConn
  /\ mgr' = "ret"
  /\ pc' = [pc EXCEPT ![c] = "await"]
  /\ UNCHANGED <<stopping, sockVars, want, held, cached>>

\* The dial case, the last connection expired: the whole stack is dropped and
\* closed by a goroutine, and nil will be sent.
DialExpired(c) ==
  LET t == want[c] IN
  /\ mgr = "select"
  /\ pc[c] = "dial"
  /\ conns[t] # <<>>
  /\ ~Fresh(Top(conns[t]))
  /\ conns' = [conns EXCEPT ![t] = <<>>]
  /\ closing' = closing \cup Range(conns[t])
  /\ offer' = NoConn
  /\ mgr' = "ret"
  /\ pc' = [pc EXCEPT ![c] = "await"]
  /\ UNCHANGED <<stopping, sockVars, want, held, cached>>

\* Variant: no nil is sent when nothing is cached.
DialEmpty_NoReply(c) ==
  /\ mgr = "select"
  /\ pc[c] = "dial"
  /\ conns[want[c]] = <<>>
  /\ pc' = [pc EXCEPT ![c] = "await"]
  /\ UNCHANGED <<mgrVars, sockVars, want, held, cached>>

\* The dial case, nothing cached: nil will be sent.
DialEmpty(c) ==
  /\ mgr = "select"
  /\ pc[c] = "dial"
  /\ conns[want[c]] = <<>>
  /\ offer' = NoConn
  /\ mgr' = "ret"
  /\ pc' = [pc EXCEPT ![c] = "await"]
  /\ UNCHANGED <<conns, closing, stopping, sockVars, want, held, cached>>

\* Variant: without the `continue`, a nil follows the cached connection.
RetRecv_NilFollows(c) ==
  /\ pc[c] = "await"
  /\ mgr \in {"ret", "stopped"}
  /\ mgr' = IF mgr = "ret" /\ offer = NoConn THEN "select" ELSE mgr
  /\ offer' = NoConn
  /\ held' = [held EXCEPT ![c] = offer]
  /\ cached' = [cached EXCEPT ![c] = offer # NoConn]
  /\ pc' = [pc EXCEPT ![c] = IF offer # NoConn THEN "write" ELSE "net"]
  /\ UNCHANGED <<conns, closing, stopping, sockVars, want>>

\* `pc := <-t.ret`: any client blocked there may take the value being sent; a
\* closed t.ret yields nil.  A connection is used as it is, nil means dial.
RetRecv(c) ==
  /\ pc[c] = "await"
  /\ mgr \in {"ret", "stopped"}
  /\ mgr' = IF mgr = "ret" THEN "select" ELSE mgr
  /\ offer' = NoConn
  /\ held' = [held EXCEPT ![c] = offer]
  /\ cached' = [cached EXCEPT ![c] = offer # NoConn]
  /\ pc' = [pc EXCEPT ![c] = IF offer # NoConn THEN "write" ELSE "net"]
  /\ UNCHANGED <<conns, closing, stopping, sockVars, want>>

\* A new connection: a persistConn whose `used` is the zero time.
NetDial(c, k) ==
  /\ pc[c] = "net"
  /\ Unreachable(k)
  /\ open' = open \cup {k}
  /\ kind' = [kind EXCEPT ![k] = want[c]]
  /\ age' = [age EXCEPT ![k] = Expire]
  /\ held' = [held EXCEPT ![c] = k]
  /\ pc' = [pc EXCEPT ![c] = "write"]
  /\ UNCHANGED <<mgrVars, want, cached>>

\* Dialling failed: Exchange returns the error.
NetDialFail(c) ==
  /\ pc[c] = "net"
  /\ pc' = [pc EXCEPT ![c] = "idle"]
  /\ UNCHANGED <<mgrVars, sockVars, want, held, cached>>

\* WriteMsg went through.
WriteMsg(c) ==
  /\ pc[c] = "write"
  /\ pc' = [pc EXCEPT ![c] = "read"]
  /\ UNCHANGED <<mgrVars, sockVars, want, held, cached>>

\* Variant: Exchange does not return after closing the connection.
ExchangeFail_FallsThrough(c, eof) ==
  /\ pc[c] \in {"write", "read"}
  /\ open' = open \ {held[c]}
  /\ age' = [age EXCEPT ![held[c]] = 0]
  /\ pc' = [pc EXCEPT ![c] = "yield"]
  /\ UNCHANGED <<mgrVars, kind, want, held, cached>>

\* WriteMsg or ReadMsg failed, or the reply has another Id: the connection is
\* closed.  An EOF on a cached connection is errCachedConnClosed, and ServeDNS
\* calls Exchange on the same host again at once.
ExchangeFail(c, eof) ==
  /\ pc[c] \in {"write", "read"}
  /\ open' = open \ {held[c]}
  /\ held' = [held EXCEPT ![c] = NoConn]
  /\ pc' = [pc EXCEPT ![c] = IF eof /\ cached[c] THEN "dial" ELSE "idle"]
  /\ UNCHANGED <<mgrVars, age, kind, want, cached>>

\* The reply arrived: Yield stamps the connection and offers it on t.yield.
ReadMsg(c) ==
  /\ pc[c] = "read"
  /\ age' = [age EXCEPT ![held[c]] = 0]
  /\ pc' = [pc EXCEPT ![c] = "yield"]
  /\ UNCHANGED <<mgrVars, kind, open, want, held, cached>>

\* The manager's yield case: the connection is pushed on its type's stack.
YieldSend(c) ==
  LET t == transportTypeFromConn(held[c]) IN
  /\ mgr = "select"
  /\ pc[c] = "yield"
  /\ conns' = [conns EXCEPT ![t] = Append(@, held[c])]
  /\ held' = [held EXCEPT ![c] = NoConn]
  /\ pc' = [pc EXCEPT ![c] = "idle"]
  /\ UNCHANGED <<closing, mgr, offer, stopping, sockVars, want, cached>>

\* yieldTimeout passed: the connection is dropped, open and unreferenced.
YieldTimeout(c) ==
  /\ pc[c] = "yield"
  /\ held' = [held EXCEPT ![c] = NoConn]
  /\ pc' = [pc EXCEPT ![c] = "idle"]
  /\ UNCHANGED <<mgrVars, sockVars, want, cached>>

-----------------------------------------------------------------------------
\* connManager: ticker and stop; the closeConns goroutines; time

\* Results of sort.Search for the first fresh connection: binary search on any
\* stack ends at a fresh entry (or the end) preceded by an expired one (or
\* nothing).  On a stack sorted by `used` there is exactly one such place.
FirstGood(stack) ==
  {n \in 0..Len(stack) : /\ n > 0 => ~Fresh(stack[n])
                         /\ n < Len(stack) => Fresh(stack[n + 1])}

\* Variant: the newest connection decides whether anything is cleaned up.
Cuts_ByNewest(stack) ==
  IF stack = <<>> \/ Fresh(Top(stack)) THEN {0} ELSE FirstGood(stack)

\* How many connections cleanup takes off the front of a stack: none when the
\* stack is empty or its first connection is still valid.
Cuts(stack) ==
  IF stack = <<>> \/ Fresh(stack[1]) THEN {0} ELSE FirstGood(stack)

\* Variant: the expired connections are closed but stay in the cache.
CleanupTick_LeavesCached ==
  /\ mgr = "select"
  /\ \E cut \in [Types -> UNION {Cuts(conns[t]) : t \in Types}] :
       /\ \A t \in Types : cut[t] \in Cuts(conns[t])
       /\ closing' = closing \cup
            UNION {Range(SubSeq(conns[t], 1, cut[t])) : t \in Types}
  /\ UNCHANGED <<conns, mgr, offer, stopping, sockVars, clientVars>>

\* The ticker case, cleanup(false): in every bucket the expired prefix goes to
\* a closing goroutine.
CleanupTick ==
  /\ mgr = "select"
  /\ \E cut \in [Types -> UNION {Cuts(conns[t]) : t \in Types}] :
       /\ \A t \in Types : cut[t] \in Cuts(conns[t])
       /\ conns' = [t \in Types |->
                      SubSeq(conns[t], cut[t] + 1, Len(conns[t]))]
       /\ closing' = closing \cup
            UNION {Range(SubSeq(conns[t], 1, cut[t])) : t \in Types}
  /\ UNCHANGED <<mgr, offer, stopping, sockVars, clientVars>>

\* Stop closes t.stop.
Stop ==
  /\ ~stopping
  /\ stopping' = TRUE
  /\ UNCHANGED <<conns, closing, mgr, offer, sockVars, clientVars>>

\* Variant: stopping cleans up the expired connections only.
StopRecv_ExpiredOnly ==
  /\ mgr = "select"
  /\ stopping
  /\ conns' = [t \in Types |-> SelectSeq(conns[t], Fresh)]
  /\ closing' = closing \cup
       {k \in UNION {Range(conns[t]) : t \in Types} : ~Fresh(k)}
  /\ mgr' = "stopped"
  /\ UNCHANGED <<offer, stopping, sockVars, clientVars>>

\* Variant: stopping closes the connections but leaves them in the cache.
StopRecv_LeavesCached ==
  /\ mgr = "select"
  /\ stopping
  /\ closing' = closing \cup UNION {Range(conns[t]) : t \in Types}
  /\ mgr' = "stopped"
  /\ UNCHANGED <<conns, offer, stopping, sockVars, clientVars>>

\* The stop case: cleanup(true), close(t.ret), and the manager is gone.
StopRecv ==
  /\ mgr = "select"
  /\ stopping
  /\ conns' = [t \in Types |-> <<>>]
  /\ closing' = closing \cup UNION {Range(conns[t]) : t \in Types}
  /\ mgr' = "stopped"
  /\ UNCHANGED <<offer, stopping, sockVars, clientVars>>

\* A closeConns goroutine closes its next connection.
CloseConn(k) ==
  /\ k \in closing
  /\ closing' = closing \ {k}
  /\ open' = open \ {k}
  /\ UNCHANGED <<conns, mgr, offer, stopping, age, kind, clientVars>>

\* time.Now advances.
Tick ==
  /\ age' = [k \in Conns |-> IF age[k] < Expire THEN age[k] + 1 ELSE Expire]
  /\ UNCHANGED <<mgrVars, kind, open, clientVars>>

DialServe(c) == DialHit(c) \/ DialExpired(c) \/ DialEmpty(c)

NetStep(c) ==
  \/ NetDialFail(c)
  \/ \E k \in Conns : NetDial(c, k)

ExchangeStep(c) ==
  \/ WriteMsg(c)
  \/ ReadMsg(c)
  \/ \E eof \in BOOLEAN : ExchangeFail(c, eof)

ClientStep(c) ==
  \/ \E t \in Types : Request(c, t)
  \/ DialServe(c)
  \/ RetRecv(c)
  \/ NetStep(c)
  \/ ExchangeStep(c)
  \/ YieldSend(c)
  \/ YieldTimeout(c)

TransportNext ==
  \/ \E c \in Clients : ClientStep(c)
  \/ CleanupTick
  \/ Stop
  \/ StopRecv
  \/ \E k \in Conns : CloseConn(k)
  \/ Tick

TransportSpec == TransportInit /\ [][TransportNext]_vars

\* Fairness.  A client that runs takes its next step.  The manager's select
\* picks among its ready cases at random and Go queues the senders blocked on a
\* channel in arrival order, so no case that is ready again and again is passed
\* over for ever: strong fairness.  Whether anybody asks or stops is open.
TransportFairness ==
  /\ \A c \in Clients :
       /\ SF_vars(DialServe(c))
       /\ WF_vars(RetRecv(c))
       /\ WF_vars(NetStep(c))
       /\ WF_vars(ExchangeStep(c))
       /\ WF_vars(YieldTimeout(c))
  /\ SF_vars(CleanupTick)
  /\ SF_vars(StopRecv)
  /\ \A k \in Conns : WF_vars(CloseConn(k))
  /\ WF_vars(Tick)

FairTransportSpec == TransportSpec /\ TransportFairness

-----------------------------------------------------------------------------
\* Properties

\* Every variable stays in its domain; in particular a client never holds
\* anything but a connection or nil (Dial returns no connection with an error).
TransportTypeOK ==
  /\ conns \in [Types -> Seq(Conns)]
  /\ age \in [Conns -> 0..Expire]
  /\ kind \in [Conns -> Types]
  /\ open \in SUBSET Conns
  /\ closing \in SUBSET Conns
  /\ mgr \in {"select", "ret", "stopped"}
  /\ offer \in Conns \cup {NoConn}
  /\ stopping \in BOOLEAN
  /\ pc \in [Clients -> PCs]
  /\ want \in [Clients -> Types]
  /\ held \in [Clients -> Conns \cup {NoConn}]
  /\ cached \in [Clients -> BOOLEAN]

\* The places a connection is in: with clients, in the cache, in the manager's
\* hand, with a closing goroutine.
PlacesOf(k) ==
  {c \in Clients : held[c] = k}
    \cup {p \in {"pool"} : InPool(k)}
    \cup {p \in {"manager"} : offer = k}
    \cup {p \in {"closer"} : k \in closing}

\* "Not reachable from transport methods anymore. So, it's safe to close them"
\* (cleanup): a connection is never in two places, and never twice in the cache.
SinglePlace ==
  /\ \A k \in Conns : \A p, q \in PlacesOf(k) : p = q
  /\ \A t, u \in Types : \A i \in DOMAIN conns[t], j \in DOMAIN conns[u] :
       conns[t][i] = conns[u][j] => t = u /\ i = j

\* A client exchanges on an open connection of the transport type it asked for,
\* though replies on t.ret carry no addressee and closing is asynchronous.
LentUsable ==
  \A c \in Clients :
    pc[c] \in {"write", "read"} => /\ held[c] \in open
                                   /\ kind[held[c]] = want[c]

\* A value on t.ret reaches the client whose request it answers: the manager is
\* sending exactly when one client waits, and no client waits on a closed t.ret.
ReplyPaired ==
  /\ mgr = "ret" <=> \E c \in Clients : pc[c] = "await"
  /\ \A c, d \in Clients : pc[c] = "await" /\ pc[d] = "await" => c = d

\* The strengthening that makes the three above inductive: who holds what is
\* determined by the program counters, everything within reach is open and of
\* the right type, and the holders are pairwise disjoint.
HeldWhileExchanging ==
  \A c \in Clients : held[c] # NoConn <=> pc[c] \in Holding

OfferForWaiter ==
  /\ mgr # "ret" => offer = NoConn
  /\ offer # NoConn => /\ offer \in open
                       /\ \A c \in Clients :
                            pc[c] = "await" => kind[offer] = want[c]

ReachableOpen ==
  /\ closing \subseteq open
  /\ \A t \in Types : \A i \in 1..Len(conns[t]) :
       conns[t][i] \in open /\ kind[conns[t][i]] = t
  /\ \A c \in Clients :
       held[c] # NoConn => held[c] \in open /\ kind[held[c]] = want[c]

Disjoint ==
  /\ \A c, d \in Clients : held[c] = held[d] /\ held[c] # NoConn => c = d
  /\ \A c \in Clients :
       held[c] # NoConn => held[c] # offer /\ held[c] \notin closing
  /\ offer \notin closing
  /\ \A t \in Types : \A i \in 1..Len(conns[t]) :
       /\ conns[t][i] # offer
       /\ conns[t][i] \notin closing
       /\ \A c \in Clients : held[c] # conns[t][i]
       /\ \A j \in 1..Len(conns[t]) : conns[t][i] = conns[t][j] => i = j

TransportInv ==
  /\ TransportTypeOK
  /\ HeldWhileExchanging
  /\ ReplyPaired
  /\ OfferForWaiter
  /\ ReachableOpen
  /\ Disjoint

\* Stacks are ordered by `used`, the oldest stamp first.
Sorted(stack) ==
  \A i, j \in DOMAIN stack : i < j => age[stack[i]] >= age[stack[j]]

\* On stacks that are sorted, cleanup keeps exactly the connections that have
\* not expired, in order: the early exit on the first entry, the search and the
\* two slices find the one place n below which everything has expired.
CleanupExact ==
  [][CleanupTick => \A t \in Types : Sorted(conns[t]) =>
       \E n \in 0..Len(conns[t]) :
         /\ \A i \in 1..Len(conns[t]) : Fresh(conns[t][i]) <=> i > n
         /\ conns'[t] = SubSeq(conns[t], n + 1, Len(conns[t]))]_vars

\* While the transport runs, no connection that could still be reused is closed
\* from a sorted stack: neither by the ticker nor by a request that finds the
\* last connection expired.
OnlyExpiredEvicted ==
  [][mgr' # "stopped" => \A t \in Types : Sorted(conns[t]) =>
       \A k \in Range(conns[t]) \cap closing' : ~Fresh(k)]_vars

\* The cache implements the abstract pool.
Pool == INSTANCE ConnPool WITH places <- [k \in Conns |-> PlacesOf(k)]
ImplementsPool == Pool!PoolSpec

\* No request is stuck at the manager's channels, whatever other requests do: one that
\* enters Dial gets its answer unless the transport is being stopped, and one in Yield
\* returns with the manager busy or gone ("the import thing is to no block forever").
ClientsServed ==
  \A c \in Clients :
    /\ pc[c] \in {"dial", "await"} ~> (pc[c] \notin {"dial", "await"} \/ stopping)
    /\ pc[c] = "yield" ~> pc[c] # "yield"

\* Dial always returns: "#0 Persistent connection ... #2 error(if any)".
DialReturns == \A c \in Clients : pc[c] = "dial" ~> pc[c] # "dial"

\* An expired connection does not stay in the cache, sorted or not.
ExpiredEvicted ==
  \A k \in Conns : (InPool(k) /\ ~Fresh(k)) ~> ~InPool(k)

\* After Stop the cache is emptied for good and all it held is closed.
StopDrains ==
  stopping ~> [](closing = {} /\ \A k \in Conns : ~InPool(k))
=============================================================================
