------------------------------ MODULE ConnPool -------------------------------
(****************************************************************************)
(* What a connection cache promises: a connection is in one place at a time *)
(* and moves only along the legal routes.  A place is a client, the cache   *)
(* ("pool"), the manager's hand ("manager") or a closing goroutine          *)
(* ("closer").  `places` gives the set of places a connection is in, so     *)
(* that being in two places at once can be expressed - and is ruled out.    *)
(****************************************************************************)
CONSTANTS Clients, Conns

VARIABLE places

Places == Clients \cup {"pool", "manager", "closer"}

PoolInit == places = [k \in Conns |-> {}]

\* Connection k leaves exactly the place p for the place q.
Move(k, p, q) ==
  /\ places[k] = {p}
  /\ places' = [places EXCEPT ![k] = {q}]

\* A client dials a connection nobody has.
DialNew(k) ==
  /\ places[k] = {}
  /\ \E c \in Clients : places' = [places EXCEPT ![k] = {c}]

\* A cached connection goes to one client, by way of the manager.
Lend(k) == Move(k, "pool", "manager")
Accept(k) == \E c \in Clients : Move(k, "manager", c)

\* A client gives its connection back to the cache.
Return(k) == \E c \in Clients : Move(k, c, "pool")

\* A client closes its connection, or drops it.
Discard(k) ==
  \E c \in Clients : /\ places[k] = {c}
                     /\ places' = [places EXCEPT ![k] = {}]

\* Idle connections, and no others, are handed over for closing.
Evict(E) ==
  /\ \A k \in E : places[k] = {"pool"}
  /\ places' = [k \in Conns |-> IF k \in E THEN {"closer"} ELSE places[k]]

Closed(k) ==
  /\ places[k] = {"closer"}
  /\ places' = [places EXCEPT ![k] = {}]

PoolNext ==
  \/ \E k \in Conns : \/ DialNew(k)
                      \/ Lend(k)
                      \/ Accept(k)
                      \/ Return(k)
                      \/ Discard(k)
                      \/ Closed(k)
  \/ \E E \in SUBSET Conns : Evict(E)

PoolSpec == PoolInit /\ [][PoolNext]_places
=============================================================================
