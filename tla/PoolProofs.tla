----------------------------- MODULE PoolProofs ------------------------------
(****************************************************************************)
(* Transport implements ConnPool, and what it takes from its stacks to be   *)
(* closed has expired, for any number of clients, connections and transport *)
(* types and any expiry.                                                    *)
(****************************************************************************)
EXTENDS TransportProofs

-----------------------------------------------------------------------------
\* The cache implements the pool

Placement == [k \in Conns |-> PlacesOf(k)]

\* A stack holds connections, as a sequence and as a set.
LEMMA CacheFacts ==
  ASSUME TransportTypeOK, NEW t \in Types
  PROVE  /\ conns[t] \in Seq(Conns) /\ Len(conns[t]) \in Nat
         /\ DOMAIN conns[t] = 1..Len(conns[t])
         /\ Range(conns[t]) = {conns[t][i] : i \in 1..Len(conns[t])}
         /\ Range(conns[t]) \subseteq Conns
<1>1. conns[t] \in Seq(Conns)
  BY DEF TransportTypeOK
<1> QED BY <1>1, StackFacts, LenProperties

\* A connection is in the cache exactly when a stack has it.
Indexed ==
  \A k : InPool(k) <=> \E t \in Types : \E i \in 1..Len(conns[t]) : conns[t][i] = k

\* InPool, which looks at the stacks as sets, in terms of their positions.
LEMMA PoolIndexed == TransportInv => Indexed
<1> SUFFICES ASSUME TransportInv, NEW k
             PROVE  InPool(k) <=> \E t \in Types : \E i \in 1..Len(conns[t]) : conns[t][i] = k
  BY DEF Indexed
<1>1. TransportTypeOK
  BY DEF TransportInv
<1>2. \A t \in Types : Range(conns[t]) = {conns[t][i] : i \in 1..Len(conns[t])}
  BY <1>1, CacheFacts, Zenon
<1> QED BY <1>2, Zenon DEF InPool

\* Each connection has the one place its holder gives it.
PlacedOnce(k) ==
  /\ InPool(k) => PlacesOf(k) = {"pool"}
  /\ offer = k => PlacesOf(k) = {"manager"}
  /\ k \in closing => PlacesOf(k) = {"closer"}
  /\ \A c \in Clients : held[c] = k => PlacesOf(k) = {c}
  /\ Unreachable(k) => PlacesOf(k) = {}

AllPlaced == \A k \in Conns : PlacedOnce(k)

\* No connection is in two places: not in two stacks, with two clients, or both idle
\* and lent.
LEMMA Placed == TransportInv => AllPlaced
<1> SUFFICES ASSUME TransportInv, NEW k \in Conns PROVE PlacedOnce(k)
  BY DEF AllPlaced
<1>1. k # NoConn
  BY TransportAssumption
<1>2. InPool(k) => offer # k /\ k \notin closing /\ \A c \in Clients : held[c] # k
  BY PoolIndexed DEF Indexed, TransportInv, Disjoint
<1>3. offer = k => k \notin closing /\ \A c \in Clients : held[c] # k
  BY <1>1 DEF TransportInv, Disjoint
<1>4. \A c, d \in Clients : held[c] = k /\ held[d] = k => c = d
  BY <1>1 DEF TransportInv, Disjoint
<1>5. \A c \in Clients : held[c] = k => k \notin closing
  BY <1>1 DEF TransportInv, Disjoint
<1>6. InPool(k) => PlacesOf(k) = {"pool"}
  BY <1>2 DEF PlacesOf
<1>7. offer = k => PlacesOf(k) = {"manager"}
  BY <1>2, <1>3 DEF PlacesOf
<1>8. k \in closing => PlacesOf(k) = {"closer"}
  BY <1>2, <1>3, <1>5 DEF PlacesOf
<1>9. ASSUME NEW c \in Clients, held[c] = k PROVE PlacesOf(k) = {c}
  BY <1>2, <1>3, <1>4, <1>5, <1>9 DEF PlacesOf
<1>10. Unreachable(k) => PlacesOf(k) = {}
  BY DEF PlacesOf, Unreachable
<1> QED BY <1>6, <1>7, <1>8, <1>9, <1>10 DEF PlacedOnce

\* A step that does not touch k.
Stays(k) ==
  /\ InPool(k)' <=> InPool(k)
  /\ offer' = k <=> offer = k
  /\ k \in closing' <=> k \in closing
  /\ \A c \in Clients : held'[c] = k <=> held[c] = k

\* A connection nobody moves keeps its place.
LEMMA StaysPut ==
  ASSUME NEW k, Stays(k)
  PROVE  PlacesOf(k)' = PlacesOf(k)
BY DEF Stays, PlacesOf

\* Nothing moves when no connection does.
LEMMA AllStay ==
  ASSUME \A k \in Conns : Stays(k)
  PROVE  Placement' = Placement
BY StaysPut DEF Placement

\* When all others stay the placement changes at one connection.
LEMMA OneMoves ==
  ASSUME NEW k \in Conns, NEW P, PlacesOf(k)' = P, \A j \in Conns \ {k} : Stays(j)
  PROVE  Placement[k] = PlacesOf(k) /\ Placement' = [Placement EXCEPT ![k] = P]
<1>1. \A j \in Conns \ {k} : PlacesOf(j)' = PlacesOf(j)
  BY StaysPut
<1> QED BY <1>1, Zenon DEF Placement

\* Idle connections are handed over for closing.
LEMMA Evicted ==
  ASSUME AllPlaced, AllPlaced', NEW E \in SUBSET Conns,
         \A k \in E : InPool(k) /\ k \in closing',
         \A k \in Conns \ E : Stays(k)
  PROVE  Pool!PoolNext
<1>1. \A k \in E : PlacesOf(k) = {"pool"}
  BY DEF AllPlaced, PlacedOnce
<1>2. \A k \in E : PlacesOf(k)' = {"closer"}
  BY DEF AllPlaced, PlacedOnce
<1>3. \A k \in Conns \ E : PlacesOf(k)' = PlacesOf(k)
  BY StaysPut
<1>4. Pool!Evict(E)
  BY <1>1, <1>2, <1>3 DEF Pool!Evict
<1> QED BY <1>4 DEF Pool!PoolNext

\* What a stack has is in the cache and nowhere else.
LEMMA PoolApart ==
  ASSUME TransportInv
  PROVE  /\ \A t \in Types : \A i \in 1..Len(conns[t]) : InPool(conns[t][i])
         /\ \A k \in Conns : InPool(k) => k # offer /\ k \notin closing
         /\ \A k \in Conns : InPool(k) => \A d \in Clients : held[d] # k
<1>1. \A t \in Types : \A i \in 1..Len(conns[t]) : InPool(conns[t][i])
  BY PoolIndexed DEF Indexed
<1>2. ASSUME NEW k \in Conns, InPool(k)
      PROVE  k # offer /\ k \notin closing /\ \A d \in Clients : held[d] # k
  <2>1. PICK t \in Types : \E i \in 1..Len(conns[t]) : conns[t][i] = k
    BY PoolIndexed, <1>2 DEF Indexed
  <2>2. PICK i \in 1..Len(conns[t]) : conns[t][i] = k
    BY <2>1
  <2> QED BY <2>2 DEF TransportInv, Disjoint
<1> QED BY <1>1, <1>2

\* The cache is what the stacks have.
LEMMA PoolKept ==
  UNCHANGED conns => \A k : InPool(k)' <=> InPool(k)
BY DEF InPool

\* A step that leaves the stacks, the offer, the closing and the held connections alone.
LEMMA NothingMoves ==
  ASSUME TransportInv, Indexed', AllPlaced', UNCHANGED <<conns, closing, offer, held>>
  PROVE  Pool!PoolNext \/ Placement' = Placement
BY PoolKept, AllStay DEF Stays

\* DialHit lends the newest connection.
LEMMA LentMove ==
  ASSUME TransportInv, Indexed', AllPlaced', NEW c \in Clients, DialHit(c)
  PROVE  Pool!PoolNext \/ Placement' = Placement
<1>1. PICK t \in Types : t = want[c] /\ conns[t] \in Seq(Conns) /\ conns[t] # <<>>
  BY DEF DialHit, TransportInv, TransportTypeOK
<1>2. /\ Len(conns[t]) \in Nat \ {0} /\ Top(conns[t]) = conns[t][Len(conns[t])]
      /\ Top(conns[t]) \in Conns
      /\ Len(Pop(conns[t])) = Len(conns[t]) - 1
      /\ \A i \in 1..Len(Pop(conns[t])) : Pop(conns[t])[i] = conns[t][i]
  BY <1>1, PopFacts, Zenon
<1>3. PICK last \in Conns : last = Top(conns[t])
  BY <1>2
<1>4. /\ conns'[t] = Pop(conns[t]) /\ \A u \in Types \ {t} : conns'[u] = conns[u]
      /\ offer' = last /\ offer = NoConn /\ UNCHANGED <<closing, held>>
  BY <1>1, <1>3 DEF DialHit, TransportInv, TransportTypeOK, OfferForWaiter
<1>5. InPool(last)
  <2>1. Len(conns[t]) \in 1..Len(conns[t])
    BY <1>2
  <2> QED BY PoolApart, <1>2, <1>3, <2>1
<1>6. ASSUME NEW k \in Conns, k # last PROVE InPool(k)' <=> InPool(k)
  <2>0. /\ Len(conns[t]) \in Nat \ {0} /\ Len(conns'[t]) = Len(conns[t]) - 1
        /\ \A i \in 1..Len(conns'[t]) : conns'[t][i] = conns[t][i]
        /\ conns[t][Len(conns[t])] # k
    BY <1>2, <1>3, <1>4, <1>6
  <2>1. ASSUME NEW u \in Types, NEW i \in 1..Len(conns[u]), conns[u][i] = k
        PROVE  i \in 1..Len(conns'[u]) /\ conns'[u][i] = k
    <3>1. CASE u = t
      BY <2>0, <2>1, <3>1
    <3>2. CASE u # t
      BY <1>4, <2>1, <3>2
    <3> QED BY <3>1, <3>2
  <2>2. ASSUME NEW u \in Types, NEW i \in 1..Len(conns'[u]), conns'[u][i] = k
        PROVE  i \in 1..Len(conns[u]) /\ conns[u][i] = k
    <3>1. CASE u = t
      BY <2>0, <2>2, <3>1
    <3>2. CASE u # t
      BY <1>4, <2>2, <3>2
    <3> QED BY <3>1, <3>2
  <2>3. InPool(k)' => InPool(k)
    BY PoolIndexed, <2>2 DEF Indexed
  <2>4. InPool(k) => InPool(k)'
    BY PoolIndexed, <2>1 DEF Indexed
  <2> QED BY <2>3, <2>4
<1>7. \A k \in Conns \ {last} : Stays(k)
  BY <1>4, <1>6, TransportAssumption DEF Stays
<1>8. PlacesOf(last) = {"pool"} /\ PlacesOf(last)' = {"manager"}
  BY Placed, <1>4, <1>5 DEF AllPlaced, PlacedOnce
<1>9. Placement[last] = {"pool"} /\ Placement' = [Placement EXCEPT ![last] = {"manager"}]
  BY <1>7, <1>8, OneMoves
<1>10. Pool!Lend(last)
  BY <1>9 DEF Pool!Lend, Pool!Move, Placement
<1> QED BY <1>10 DEF Pool!PoolNext

\* DialExpired retires a stack.
LEMMA ExpiredMove ==
  ASSUME TransportInv, Indexed', AllPlaced', NEW c \in Clients, DialExpired(c)
  PROVE  Pool!PoolNext \/ Placement' = Placement
<1>1. PICK t \in Types : t = want[c] /\ conns[t] \in Seq(Conns)
  BY DEF TransportInv, TransportTypeOK
<1>2. PICK E \in SUBSET Conns : /\ E = {conns[t][i] : i \in 1..Len(conns[t])}
                                /\ E = Range(conns[t])
  BY <1>1, StackFacts
<1>3. /\ conns'[t] = <<>> /\ \A u \in Types \ {t} : conns'[u] = conns[u]
      /\ offer' = offer /\ closing' = closing \cup E /\ UNCHANGED held
  BY <1>1, <1>2, Zenon DEF DialExpired, TransportInv, TransportTypeOK, OfferForWaiter
<1>4. \A k \in E : InPool(k) /\ k \in closing'
  BY PoolApart, <1>2, <1>3
<1>5. ASSUME NEW k \in Conns \ E PROVE InPool(k)' <=> InPool(k)
  <2>1. \A u \in Types : k \in Range(conns'[u]) <=> k \in Range(conns[u])
    <3>1. Range(<<>>) = {}
      BY DEF Range
    <3> QED BY <1>2, <1>3, <1>5, <3>1
  <2> QED BY <2>1 DEF InPool
<1>6. \A k \in Conns \ E : Stays(k)
  BY <1>3, <1>5 DEF Stays
<1> QED BY <1>4, <1>6, Placed, Evicted

\* RetRecv hands the offer to its client.
LEMMA AcceptMove ==
  ASSUME TransportInv, Indexed', AllPlaced', NEW c \in Clients, RetRecv(c)
  PROVE  Pool!PoolNext \/ Placement' = Placement
<1>1. /\ UNCHANGED <<conns, closing>> /\ offer' = NoConn
      /\ held[c] = NoConn /\ \A d \in Clients : held'[d] = IF d = c THEN offer ELSE held[d]
  BY Zenon DEF RetRecv, TransportInv, TransportTypeOK, HeldWhileExchanging, Holding
<1>2. \A k \in Conns \ {offer} : Stays(k)
  BY PoolKept, <1>1, TransportAssumption DEF Stays
<1>3. CASE offer = NoConn
  BY <1>2, <1>3, AllStay, TransportAssumption
<1>4. CASE offer # NoConn
  <2>1. offer \in Conns /\ PlacesOf(offer) = {"manager"}
    BY Placed, <1>4 DEF AllPlaced, PlacedOnce, TransportInv, TransportTypeOK
  <2>2. ASSUME NEW k \in Conns, k = offer PROVE PlacesOf(k)' = {c}
    BY Placed, <1>1, <2>2 DEF AllPlaced, PlacedOnce
  <2>3. PICK k \in Conns : k = offer
    BY <2>1
  <2>4. Placement[k] = {"manager"} /\ Placement' = [Placement EXCEPT ![k] = {c}]
    BY <1>2, <2>1, <2>2, <2>3, OneMoves
  <2>5. Pool!Accept(k)
    BY <2>4, Zenon DEF Pool!Accept, Pool!Move, Placement
  <2> QED BY <2>5 DEF Pool!PoolNext
<1> QED BY <1>3, <1>4

\* NetDial takes an unused connection.
LEMMA DialMove ==
  ASSUME TransportInv, Indexed', AllPlaced', NEW c \in Clients, NEW k \in Conns, NetDial(c, k)
  PROVE  Pool!PoolNext \/ Placement' = Placement
<1>1. /\ UNCHANGED <<conns, closing, offer>> /\ Unreachable(k)
      /\ held[c] = NoConn /\ \A d \in Clients : held'[d] = IF d = c THEN k ELSE held[d]
  BY Zenon DEF NetDial, mgrVars, TransportInv, TransportTypeOK, HeldWhileExchanging, Holding
<1>2. \A j \in Conns \ {k} : Stays(j)
  <2>1. ASSUME NEW j \in Conns \ {k}, NEW d \in Clients PROVE held'[d] = j <=> held[d] = j
    BY <1>1, TransportAssumption
  <2> QED
    BY PoolKept, <1>1, <2>1 DEF Stays
<1>3. PlacesOf(k) = {} /\ PlacesOf(k)' = {c}
  BY Placed, <1>1 DEF AllPlaced, PlacedOnce
<1>4. Placement[k] = {} /\ Placement' = [Placement EXCEPT ![k] = {c}]
  BY <1>2, <1>3, OneMoves
<1>5. Pool!DialNew(k)
  BY <1>4, Zenon DEF Pool!DialNew, Placement
<1> QED BY <1>5 DEF Pool!PoolNext

\* A client lets go of its connection (ExchangeFail, YieldTimeout).
LEMMA DropMove ==
  ASSUME TransportInv, Indexed', AllPlaced', NEW c \in Clients, pc[c] \in Holding,
         UNCHANGED <<conns, closing, offer>>, held' = [held EXCEPT ![c] = NoConn]
  PROVE  Pool!PoolNext \/ Placement' = Placement
<1>1. PICK k \in Conns : k = held[c]
  BY DEF TransportInv, TransportTypeOK, HeldWhileExchanging
<1>2. \A d \in Clients : held'[d] = IF d = c THEN NoConn ELSE held[d]
  BY DEF TransportInv, TransportTypeOK
<1>3. \A j \in Conns \ {k} : Stays(j)
  BY PoolKept, <1>1, <1>2, TransportAssumption DEF Stays
<1>4. PlacesOf(k) = {c}
  BY Placed, <1>1 DEF AllPlaced, PlacedOnce
<1>5. Unreachable(k)'
  <2>0. k # NoConn
    BY TransportAssumption
  <2>1. ~InPool(k) /\ k # offer /\ k \notin closing
    BY PoolApart, <1>1, <2>0 DEF TransportInv, Disjoint
  <2>2. ASSUME NEW d \in Clients PROVE held'[d] # k
    <3>1. CASE d = c
      BY <1>2, <2>0, <3>1
    <3>2. CASE d # c
      BY <1>1, <1>2, <2>0, <3>2 DEF TransportInv, Disjoint
    <3> QED BY <3>1, <3>2
  <2> QED BY PoolKept, <2>1, <2>2 DEF Unreachable
<1>6. PlacesOf(k)' = {}
  BY Placed, <1>5 DEF AllPlaced, PlacedOnce
<1>7. Placement[k] = {c} /\ Placement' = [Placement EXCEPT ![k] = {}]
  BY <1>3, <1>4, <1>6, OneMoves
<1>8. Pool!Discard(k)
  BY <1>7, Zenon DEF Pool!Discard, Placement
<1> QED BY <1>8 DEF Pool!PoolNext

\* YieldSend puts a connection back.
LEMMA ReturnMove ==
  ASSUME TransportInv, Indexed', AllPlaced', NEW c \in Clients, YieldSend(c)
  PROVE  Pool!PoolNext \/ Placement' = Placement
<1>1. PICK k \in Conns : k = held[c]
  BY DEF YieldSend, TransportInv, TransportTypeOK, HeldWhileExchanging, Holding
<1>2. PICK t \in Types : t = kind[k] /\ conns[t] \in Seq(Conns)
  BY DEF TransportInv, TransportTypeOK
<1>3. /\ conns' = [conns EXCEPT ![t] = Append(conns[t], k)]
      /\ UNCHANGED <<closing, offer>>
      /\ held' = [held EXCEPT ![c] = NoConn]
  BY <1>1, <1>2 DEF YieldSend, transportTypeFromConn
<1>4. /\ conns'[t] = Append(conns[t], k) /\ \A u \in Types \ {t} : conns'[u] = conns[u]
      /\ \A d \in Clients : held'[d] = IF d = c THEN NoConn ELSE held[d]
  BY <1>2, <1>3 DEF TransportInv, TransportTypeOK
<1>5. /\ Len(conns'[t]) = Len(conns[t]) + 1 /\ Len(conns[t]) \in Nat
      /\ \A i \in 1..Len(conns[t]) : conns'[t][i] = conns[t][i]
      /\ conns'[t][Len(conns[t]) + 1] = k
  <2>1. Len(conns[t]) \in Nat
    BY CacheFacts DEF TransportInv
  <2>2. /\ Len(Append(conns[t], k)) = Len(conns[t]) + 1
        /\ \A i \in 1..Len(conns[t]) : Append(conns[t], k)[i] = conns[t][i]
        /\ Append(conns[t], k)[Len(conns[t]) + 1] = k
    BY <1>2, PushFacts
  <2> QED BY <1>4, <2>1, <2>2
<1>6. InPool(k)'
  <2>1. Len(conns[t]) + 1 \in 1..Len(conns'[t])
    BY <1>5
  <2> QED BY PoolIndexed, <1>5, <2>1 DEF Indexed
<1>7. ASSUME NEW j \in Conns, j # k PROVE InPool(j)' <=> InPool(j)
  <2>1. ASSUME NEW u \in Types, NEW i \in 1..Len(conns'[u]), conns'[u][i] = j
        PROVE  i \in 1..Len(conns[u]) /\ conns[u][i] = j
    <3>1. CASE u = t
      BY <1>5, <1>7, <2>1, <3>1
    <3>2. CASE u # t
      BY <1>4, <2>1, <3>2
    <3> QED BY <3>1, <3>2
  <2>2. ASSUME NEW u \in Types, NEW i \in 1..Len(conns[u])
        PROVE  i \in 1..Len(conns'[u]) /\ conns'[u][i] = conns[u][i]
    <3>1. CASE u = t
      BY <1>5, <2>2, <3>1
    <3>2. CASE u # t
      BY <1>4, <2>2, <3>2
    <3> QED BY <3>1, <3>2
  <2>3. InPool(j)' => InPool(j)
    BY PoolIndexed, <2>1 DEF Indexed
  <2>4. InPool(j) => InPool(j)'
    BY PoolIndexed, <2>2 DEF Indexed
  <2> QED BY <2>3, <2>4
<1>8. \A j \in Conns \ {k} : Stays(j)
  BY <1>1, <1>3, <1>4, <1>7, TransportAssumption DEF Stays
<1>9. PlacesOf(k) = {c} /\ PlacesOf(k)' = {"pool"}
  BY Placed, <1>1, <1>6 DEF AllPlaced, PlacedOnce
<1>10. Placement[k] = {c} /\ Placement' = [Placement EXCEPT ![k] = {"pool"}]
  BY <1>8, <1>9, OneMoves
<1>11. Pool!Return(k)
  BY <1>10, Zenon DEF Pool!Return, Pool!Move, Placement
<1> QED BY <1>11 DEF Pool!PoolNext

\* CleanupTick retires the ends of the stacks.
LEMMA CleanupMove ==
  ASSUME TransportInv, Indexed', AllPlaced', CleanupTick
  PROVE  Pool!PoolNext \/ Placement' = Placement
<1>1. PICK cut \in [Types -> Nat] :
        /\ \A t \in Types :
             /\ cut[t] \in 0..Len(conns[t])
             /\ Len(conns'[t]) = Len(conns[t]) - cut[t]
             /\ \A i \in 1..Len(conns'[t]) : conns'[t][i] = conns[t][cut[t] + i]
             /\ \A i \in 1..cut[t] : conns[t][i] \in closing'
        /\ closing' \subseteq Conns
        /\ closing \subseteq closing'
        /\ \A k \in closing' \ closing : \E t \in Types : \E i \in 1..cut[t] : k = conns[t][i]
  <2>1. TransportTypeOK
    BY DEF TransportInv
  <2> QED BY <2>1, CleanupFacts
<1>2. PICK E \in SUBSET Conns : E = closing' \ closing
  BY <1>1, Zenon
<1>3. \A t \in Types : Len(conns[t]) \in Nat
  BY StackFacts DEF TransportInv, TransportTypeOK
<1>4. ASSUME NEW k \in E PROVE InPool(k) /\ k \in closing'
  <2>1. PICK t \in Types : \E i \in 1..cut[t] : k = conns[t][i]
    BY <1>1, <1>2
  <2>2. PICK i \in 1..cut[t] : k = conns[t][i]
    BY <2>1
  <2>3. i \in 1..Len(conns[t])
    <3>1. cut[t] \in 0..Len(conns[t]) /\ Len(conns[t]) \in Nat
      BY <1>1, <1>3
    <3> QED BY <3>1
  <2> QED BY PoolApart, <1>2, <2>2, <2>3
<1>5. ASSUME NEW k \in Conns \ E PROVE InPool(k)' <=> InPool(k)
  <2>1. ASSUME NEW t \in Types, NEW i \in 1..Len(conns'[t]), conns'[t][i] = k PROVE InPool(k)
    <3>1. cut[t] + i \in 1..Len(conns[t]) /\ conns[t][cut[t] + i] = k
      BY <1>1, <1>3, <2>1
    <3> QED BY PoolIndexed, <3>1 DEF Indexed
  <2>2. ASSUME NEW t \in Types, NEW i \in 1..Len(conns[t]), conns[t][i] = k PROVE InPool(k)'
    <3>1. k \notin closing
      BY <2>2 DEF TransportInv, Disjoint
    <3>2. ~(i \in 1..cut[t])
      BY <1>1, <1>2, <1>5, <2>2, <3>1
    <3>3. i - cut[t] \in 1..Len(conns'[t]) /\ cut[t] + (i - cut[t]) = i
      BY <1>1, <1>3, <3>2
    <3>4. conns'[t][i - cut[t]] = k
      BY <1>1, <2>2, <3>3
    <3> QED BY PoolIndexed, <3>3, <3>4 DEF Indexed
  <2> QED BY PoolIndexed, <2>1, <2>2 DEF Indexed
<1>6. \A k \in Conns \ E : Stays(k)
  BY <1>1, <1>2, <1>5 DEF Stays, CleanupTick, clientVars
<1> QED BY <1>4, <1>6, Placed, Evicted

\* StopRecv retires all that is idle.
LEMMA StopMove ==
  ASSUME TransportInv, Indexed', AllPlaced', StopRecv
  PROVE  Pool!PoolNext \/ Placement' = Placement
<1>1. \A t \in Types : Range(conns[t]) \subseteq Conns
  BY CacheFacts DEF TransportInv
<1>2. PICK E \in SUBSET Conns : E = UNION {Range(conns[t]) : t \in Types}
  BY <1>1, Zenon
<1>3. /\ closing' = closing \cup E /\ UNCHANGED <<offer, held>>
      /\ \A t \in Types : conns'[t] = <<>>
  BY <1>2 DEF StopRecv, clientVars
<1>4. \A k : InPool(k) <=> k \in E
  BY <1>2 DEF InPool
<1>5. \A k : ~InPool(k)'
  <2>1. \A t \in Types : 1..Len(conns'[t]) = {}
    BY <1>3
  <2> QED BY PoolIndexed, <2>1 DEF Indexed
<1>6. \A k \in Conns \ E : Stays(k)
  BY <1>3, <1>4, <1>5 DEF Stays
<1> QED BY <1>3, <1>4, <1>6, Placed, Evicted

\* A retired connection is closed.
LEMMA CloseMove ==
  ASSUME TransportInv, Indexed', AllPlaced', NEW k \in Conns, CloseConn(k)
  PROVE  Pool!PoolNext \/ Placement' = Placement
<1>1. UNCHANGED <<conns, offer, held>> /\ k \in closing /\ closing' = closing \ {k}
  BY DEF CloseConn, clientVars
<1>2. \A j \in Conns \ {k} : Stays(j)
  BY PoolKept, <1>1 DEF Stays
<1>3. PlacesOf(k) = {"closer"}
  BY Placed, <1>1 DEF AllPlaced, PlacedOnce
<1>4. Unreachable(k)'
  <2>1. ~InPool(k) /\ k # offer
    BY PoolApart, <1>1, Zenon DEF TransportInv, Disjoint
  <2>2. \A d \in Clients : held[d] # NoConn => held[d] \notin closing
    BY DEF TransportInv, Disjoint
  <2>3. \A d \in Clients : held[d] # k
    BY <1>1, <2>2, TransportAssumption
  <2> QED BY PoolKept, <1>1, <2>1, <2>3 DEF Unreachable
<1>5. PlacesOf(k)' = {}
  BY Placed, <1>4 DEF AllPlaced, PlacedOnce
<1>6. Placement[k] = {"closer"} /\ Placement' = [Placement EXCEPT ![k] = {}]
  BY <1>2, <1>3, <1>5, OneMoves
<1>7. Pool!Closed(k)
  BY <1>6 DEF Pool!Closed, Placement
<1> QED BY <1>7 DEF Pool!PoolNext

\* The clients' and the manager's steps as moves of the pool.
LEMMA PoolStep ==
  ASSUME TransportInv, TransportInv', [TransportNext]_vars
  PROVE  Pool!PoolNext \/ Placement' = Placement
<1>0. Indexed' /\ AllPlaced'
  <2>1. (TransportInv => Indexed /\ AllPlaced)'
    BY PoolIndexed, Placed, PTL
  <2> QED BY <2>1
<1> DEFINE Goal == Pool!PoolNext \/ Placement' = Placement
<1>5. ASSUME NEW c \in Clients, DialHit(c) PROVE Goal
  BY <1>0, <1>5, LentMove
<1>6. ASSUME NEW c \in Clients, DialExpired(c) PROVE Goal
  BY <1>0, <1>6, ExpiredMove
<1>7. ASSUME NEW c \in Clients, DialEmpty(c) PROVE Goal
  BY <1>0, NothingMoves, <1>7 DEF DialEmpty, TransportInv, OfferForWaiter
<1>8. ASSUME NEW c \in Clients, RetRecv(c) PROVE Goal
  BY <1>0, <1>8, AcceptMove
<1>9. ASSUME NEW c \in Clients, NEW k \in Conns, NetDial(c, k) PROVE Goal
  BY <1>0, <1>9, DialMove
<1>11. ASSUME NEW c \in Clients, NEW eof \in BOOLEAN, ExchangeFail(c, eof) PROVE Goal
  BY <1>0, DropMove, <1>11, Zenon DEF ExchangeFail, mgrVars, Holding
<1>12. ASSUME NEW c \in Clients, YieldTimeout(c) PROVE Goal
  BY <1>0, DropMove, <1>12, Zenon DEF YieldTimeout, mgrVars, Holding
<1>13. ASSUME NEW c \in Clients, YieldSend(c) PROVE Goal
  BY <1>0, <1>13, ReturnMove
<1>14. CASE CleanupTick
  BY <1>0, <1>14, CleanupMove
<1>15. CASE StopRecv
  BY <1>0, <1>15, StopMove
<1>16. ASSUME NEW k \in Conns, CloseConn(k) PROVE Goal
  BY <1>0, <1>16, CloseMove
<1>17. ASSUME NEW c \in Clients,
              \/ NetDialFail(c) \/ WriteMsg(c) \/ ReadMsg(c) \/ \E t \in Types : Request(c, t)
       PROVE  Goal
  BY <1>0, NothingMoves, <1>17 DEF NetDialFail, WriteMsg, ReadMsg, Request, mgrVars
<1>18. CASE Stop \/ Tick \/ UNCHANGED vars
  BY <1>0, NothingMoves, <1>18 DEF Stop, Tick, vars, mgrVars, clientVars
<1> QED
  BY <1>5, <1>6, <1>7, <1>8, <1>9, <1>11, <1>12, <1>13, <1>14, <1>15, <1>16, <1>17, <1>18
  DEF TransportNext, ClientStep, DialServe, NetStep, ExchangeStep

\* The connection cache implements the abstract pool: a connection is in one place at a
\* time and moves only as ConnPool allows (src/healthcheck.go, connManager and Exchange).
THEOREM ImplementsPoolAlways == TransportSpec => ImplementsPool
<1>1. TransportInit => Pool!PoolInit
  <2> SUFFICES ASSUME TransportInit PROVE Pool!PoolInit
    OBVIOUS
  <2>1. \A t \in Types : Range(conns[t]) = {}
    <3>1. \A t \in Types : conns[t] = <<>>
      BY DEF TransportInit
    <3>2. Range(<<>>) = {}
      BY DEF Range
    <3> QED BY <3>1, <3>2
  <2>2. ASSUME NEW k \in Conns PROVE PlacesOf(k) = {}
    BY <2>1, TransportAssumption DEF TransportInit, PlacesOf, InPool
  <2> QED BY <2>2 DEF Pool!PoolInit
<1>2. TransportInv /\ TransportInv' /\ [TransportNext]_vars
        => [Pool!PoolNext]_([k \in Conns |-> PlacesOf(k)])
  BY PoolStep DEF Placement
<1> QED BY <1>1, <1>2, TransportInvariant, PTL DEF TransportSpec, ImplementsPool, Pool!PoolSpec

-----------------------------------------------------------------------------
\* Ages and the expiry are numbers.
LEMMA AgeFacts ==
  ASSUME TransportTypeOK, NEW k \in Conns
  PROVE  age[k] \in Int /\ Expire \in Int
<1>1. age[k] \in 0..Expire
  BY DEF TransportTypeOK
<1> QED BY <1>1, TransportAssumption

\* In a sorted stack everything below an expired connection has expired.
LEMMA ExpiredBelow ==
  ASSUME TransportTypeOK, NEW t \in Types, Sorted(conns[t]),
         NEW i \in 1..Len(conns[t]), NEW n \in 1..Len(conns[t]), i <= n, ~Fresh(conns[t][n])
  PROVE  ~Fresh(conns[t][i])
<1>1. DOMAIN conns[t] = 1..Len(conns[t]) /\ Len(conns[t]) \in Nat
  BY CacheFacts
<1>2. i \in Int /\ n \in Int
  BY <1>1
<1>3. PICK k \in Conns : k = conns[t][i]
  BY CacheFacts, StackFacts
<1>4. PICK m \in Conns : m = conns[t][n]
  BY CacheFacts, StackFacts
<1>5. age[k] \in Int /\ age[m] \in Int /\ Expire \in Int
  BY AgeFacts
<1>6. i < n => age[k] >= age[m]
  BY <1>1, <1>3, <1>4 DEF Sorted
<1>7. i = n => k = m
  BY <1>3, <1>4
<1>8. ~(age[m] < Expire)
  BY <1>4 DEF Fresh
<1>9. ~(age[k] < Expire)
  BY <1>2, <1>5, <1>6, <1>7, <1>8
<1> QED BY <1>3, <1>9 DEF Fresh

\* A manager that runs on takes only expired connections off a sorted stack
\* (src/healthcheck.go, the dial case of connManager and cleanup).
THEOREM OnlyExpiredEvictedAlways == TransportSpec => OnlyExpiredEvicted
<1>1. TransportInv /\ [TransportNext]_vars =>
        [mgr' # "stopped" => \A t \in Types : Sorted(conns[t]) =>
           \A k \in Range(conns[t]) \cap closing' : ~Fresh(k)]_vars
  <2> SUFFICES ASSUME TransportInv, [TransportNext]_vars, mgr' # "stopped", NEW t \in Types,
                      Sorted(conns[t]), NEW k \in Range(conns[t]), k \in closing'
               PROVE  ~Fresh(k)
    OBVIOUS
  <2>1. \A u \in Types : /\ Range(conns[u]) = {conns[u][j] : j \in 1..Len(conns[u])}
                         /\ conns[u] \in Seq(Conns) /\ Len(conns[u]) \in Nat
    BY CacheFacts, Zenon DEF TransportInv
  <2>2. PICK i \in 1..Len(conns[t]) : k = conns[t][i]
    BY <2>1, Zenon
  <2>3. k \notin closing
    BY <2>2 DEF TransportInv, Disjoint
  <2>4. ASSUME NEW u \in Types, NEW j \in 1..Len(conns[u]), k = conns[u][j] PROVE u = t /\ i = j
    <3>1. kind[conns[t][i]] = t /\ kind[conns[u][j]] = u
      BY DEF TransportInv, ReachableOpen
    <3>2. u = t
      BY <2>2, <2>4, <3>1
    <3> QED BY <2>2, <2>4, <3>2, Zenon DEF TransportInv, Disjoint
  <2>5. ASSUME NEW c \in Clients, DialExpired(c) PROVE ~Fresh(k)
    <3>1. PICK u \in Types : u = want[c]
      BY DEF TransportInv, TransportTypeOK
    <3>2. k \in Range(conns[u]) /\ conns[u] # <<>> /\ ~Fresh(Top(conns[u]))
      BY <2>3, <2>5, <3>1 DEF DialExpired
    <3>3. u = t
      <4>1. PICK j \in 1..Len(conns[u]) : k = conns[u][j]
        BY <2>1, <3>2, Zenon
      <4> QED BY <2>4, <4>1
    <3>4. Len(conns[t]) \in 1..Len(conns[t]) /\ i <= Len(conns[t]) /\ ~Fresh(conns[t][Len(conns[t])])
      <4>1. Len(conns[t]) \in Nat \ {0} /\ Top(conns[t]) = conns[t][Len(conns[t])]
        BY <2>1, <3>2, <3>3, PopFacts, Zenon
      <4>2. ~Fresh(conns[t][Len(conns[t])])
        BY <3>2, <3>3, <4>1
      <4>3. Len(conns[t]) \in 1..Len(conns[t]) /\ i <= Len(conns[t])
        BY <4>1
      <4> QED BY <4>2, <4>3
    <3> QED BY <2>2, <3>4, ExpiredBelow DEF TransportInv
  <2>6. CASE CleanupTick
    <3>1. PICK cut \in [Types -> Nat] :
            /\ \A u \in Types : /\ cut[u] \in 0..Len(conns[u])
                                /\ cut[u] > 0 => ~Fresh(conns[u][cut[u]])
            /\ \A l \in closing' \ closing :
                 \E u \in Types : \E j \in 1..cut[u] : l = conns[u][j]
      <4>1. TransportTypeOK
        BY DEF TransportInv
      <4> QED BY <2>6, <4>1, CleanupFacts
    <3>2. PICK u \in Types : \E j \in 1..cut[u] : k = conns[u][j]
      BY <2>3, <3>1
    <3>3. PICK j \in 1..cut[u] : k = conns[u][j]
      BY <3>2
    <3>4. j \in 1..Len(conns[u]) /\ cut[u] \in 1..Len(conns[u]) /\ cut[u] > 0 /\ j <= cut[u]
      <4>1. cut[u] \in 0..Len(conns[u]) /\ Len(conns[u]) \in Nat
        BY <2>1, <3>1
      <4> QED BY <4>1
    <3>5. u = t /\ i = j
      BY <2>4, <3>3, <3>4
    <3> QED BY <2>2, <3>1, <3>4, <3>5, ExpiredBelow DEF TransportInv
  <2>7. ASSUME ~CleanupTick, \A c \in Clients : ~DialExpired(c) PROVE closing' \subseteq closing
    <3>1. ASSUME NEW c \in Clients, ClientStep(c) PROVE closing' = closing
      <4>1. CASE DialServe(c) \/ RetRecv(c) \/ YieldSend(c) \/ YieldTimeout(c)
        BY <2>7, <4>1 DEF DialServe, DialHit, DialEmpty, RetRecv, YieldSend, YieldTimeout, mgrVars
      <4>2. CASE NetStep(c) \/ ExchangeStep(c) \/ \E u \in Types : Request(c, u)
        BY <4>2, Zenon DEF NetStep, NetDialFail, NetDial, ExchangeStep, WriteMsg, ReadMsg, ExchangeFail,
             Request, mgrVars
      <4> QED BY <3>1, <4>1, <4>2 DEF ClientStep
    <3>2. ~StopRecv
      BY DEF StopRecv
    <3>3. CASE Stop \/ Tick \/ UNCHANGED vars
      BY <3>3 DEF Stop, Tick, vars, mgrVars
    <3>4. ASSUME NEW l \in Conns, CloseConn(l) PROVE closing' \subseteq closing
      BY <3>4 DEF CloseConn
    <3> QED BY <2>7, <3>1, <3>2, <3>3, <3>4 DEF TransportNext
  <2> QED BY <2>3, <2>5, <2>6, <2>7
<1> QED BY <1>1, TransportInvariant, PTL DEF TransportSpec, OnlyExpiredEvicted

\* The place cleanup cuts a sorted stack at: below it all have expired, above it none has.
LEMMA CutExact ==
  ASSUME TransportTypeOK, NEW t \in Types, Sorted(conns[t]), NEW n \in Cuts(conns[t])
  PROVE  n \in 0..Len(conns[t]) /\ \A i \in 1..Len(conns[t]) : Fresh(conns[t][i]) <=> i > n
<1> DEFINE s == conns[t]
<1>1. s \in Seq(Conns) /\ Len(s) \in Nat /\ (s = <<>> <=> Len(s) = 0)
  BY CacheFacts, EmptySeq
<1>2. \A i, m \in 1..Len(s) : i <= m /\ ~Fresh(s[m]) => ~Fresh(s[i])
  BY ExpiredBelow
<1>3. \/ n = 0 /\ (s = <<>> \/ Fresh(s[1]))
      \/ /\ n \in 0..Len(s) /\ s # <<>> /\ ~Fresh(s[1])
         /\ n > 0 => ~Fresh(s[n])
         /\ n < Len(s) => Fresh(s[n + 1])
  BY DEF Cuts, FirstGood
<1> HIDE DEF s
<1>4. n \in 0..Len(s)
  BY <1>1, <1>3
<1>5. ASSUME NEW i \in 1..Len(s) PROVE Fresh(s[i]) <=> i > n
  <2>1. Len(s) > 0 /\ 1 \in 1..Len(s)
    BY <1>1
  <2>2. CASE i > n
    <3>1. n + 1 \in 1..Len(s) /\ n + 1 <= i
      BY <1>1, <1>4, <2>2
    <3>2. Fresh(s[n + 1])
      BY <1>1, <1>3, <1>4, <2>1, <3>1
    <3> QED BY <1>2, <2>2, <3>1, <3>2
  <2>3. CASE ~(i > n)
    <3>1. n \in 1..Len(s) /\ i <= n
      BY <1>1, <1>4, <2>3
    <3>2. ~Fresh(s[n])
      BY <1>3, <3>1
    <3> QED BY <1>2, <2>3, <3>1, <3>2
  <2> QED BY <2>2, <2>3
<1> QED BY <1>4, <1>5 DEF s

\* The ticker's cleanup keeps of a sorted stack exactly what has not expired, in order
\* (src/healthcheck.go, cleanup: the early exit, sort.Search and the two slices).
THEOREM CleanupExactAlways == TransportSpec => CleanupExact
<1>1. TransportInv /\ [TransportNext]_vars =>
        [CleanupTick => \A t \in Types : Sorted(conns[t]) =>
           \E n \in 0..Len(conns[t]) :
             /\ \A i \in 1..Len(conns[t]) : Fresh(conns[t][i]) <=> i > n
             /\ conns'[t] = SubSeq(conns[t], n + 1, Len(conns[t]))]_vars
  <2> SUFFICES ASSUME TransportInv, CleanupTick, NEW t \in Types, Sorted(conns[t])
               PROVE  \E n \in 0..Len(conns[t]) :
                        /\ \A i \in 1..Len(conns[t]) : Fresh(conns[t][i]) <=> i > n
                        /\ conns'[t] = SubSeq(conns[t], n + 1, Len(conns[t]))
    BY Zenon
  <2>1. PICK cut \in [Types -> UNION {Cuts(conns[u]) : u \in Types}] :
          /\ \A u \in Types : cut[u] \in Cuts(conns[u])
          /\ conns' = [u \in Types |-> SubSeq(conns[u], cut[u] + 1, Len(conns[u]))]
    BY Zenon DEF CleanupTick
  <2>2. PICK n \in Cuts(conns[t]) : conns'[t] = SubSeq(conns[t], n + 1, Len(conns[t]))
    BY <2>1, Zenon
  <2>3. n \in 0..Len(conns[t]) /\ \A i \in 1..Len(conns[t]) : Fresh(conns[t][i]) <=> i > n
    BY CutExact, Zenon DEF TransportInv
  <2> QED BY <2>2, <2>3, Zenon
<1> QED BY <1>1, TransportInvariant, PTL DEF TransportSpec, CleanupExact
=============================================================================
