--------------------------- MODULE TransportProofs ---------------------------
(****************************************************************************)
(* Proofs about Transport, for any number of clients, connections and       *)
(* transport types and any expiry.                                          *)
(****************************************************************************)
EXTENDS Transport, SequenceTheorems, TLAPS

\* What Range, Top, Pop, SubSeq and Append give on the stacks of the cache.
LEMMA StackFacts ==
  ASSUME NEW S, NEW s \in Seq(S)
  PROVE  /\ Len(s) \in Nat
         /\ \A i \in 1..Len(s) : s[i] \in S
         /\ Range(s) = {s[i] : i \in 1..Len(s)}
         /\ Range(s) \subseteq S
         /\ <<>> \in Seq(S) /\ Len(<<>>) = 0
BY DEF Range

\* The first n elements of a stack.
LEMMA PrefixFacts ==
  ASSUME NEW S, NEW s \in Seq(S), NEW n \in 0..Len(s)
  PROVE  /\ SubSeq(s, 1, n) \in Seq(S)
         /\ Len(SubSeq(s, 1, n)) = n
         /\ \A i \in 1..n : SubSeq(s, 1, n)[i] = s[i]
         /\ Range(SubSeq(s, 1, n)) = {s[i] : i \in 1..n}
<1>1. /\ SubSeq(s, 1, n) \in Seq(S)
      /\ Len(SubSeq(s, 1, n)) = n
      /\ \A i \in 1..n : SubSeq(s, 1, n)[i] = s[i]
  OBVIOUS
<1>2. DOMAIN SubSeq(s, 1, n) = 1..n
  BY <1>1, LenProperties
<1>3. {SubSeq(s, 1, n)[i] : i \in 1..n} = {s[i] : i \in 1..n}
  BY <1>1
<1> QED BY <1>1, <1>2, <1>3, Zenon DEF Range

\* A stack without its top.
LEMMA PopFacts ==
  ASSUME NEW S, NEW s \in Seq(S), s # <<>>
  PROVE  /\ Len(s) \in Nat \ {0}
         /\ Top(s) = s[Len(s)]
         /\ Top(s) \in S
         /\ Pop(s) \in Seq(S)
         /\ Len(Pop(s)) = Len(s) - 1
         /\ \A i \in 1..Len(Pop(s)) : Pop(s)[i] = s[i]
<1>1. Len(s) \in Nat \ {0}
  BY EmptySeq
<1> DEFINE n == Len(s) - 1
<1>2. n \in 0..Len(s)
  BY <1>1
<1>3. /\ Pop(s) \in Seq(S)
      /\ Len(Pop(s)) = n
      /\ \A i \in 1..n : Pop(s)[i] = s[i]
  <2> HIDE DEF n
  <2>1. /\ SubSeq(s, 1, n) \in Seq(S)
        /\ Len(SubSeq(s, 1, n)) = n
        /\ \A i \in 1..n : SubSeq(s, 1, n)[i] = s[i]
    BY <1>2, PrefixFacts
  <2> QED BY <2>1 DEF Pop, n
<1> QED BY <1>1, <1>3 DEF Top

\* A stack without its first n elements.
LEMMA SliceFacts ==
  ASSUME NEW S, NEW s \in Seq(S), NEW n \in 0..Len(s)
  PROVE  /\ SubSeq(s, n + 1, Len(s)) \in Seq(S)
         /\ Len(SubSeq(s, n + 1, Len(s))) = Len(s) - n
         /\ \A i \in 1..(Len(s) - n) : SubSeq(s, n + 1, Len(s))[i] = s[n + i]
OBVIOUS

\* A stack with one more on top.
LEMMA PushFacts ==
  ASSUME NEW S, NEW s \in Seq(S), NEW e \in S
  PROVE  /\ Append(s, e) \in Seq(S)
         /\ Len(Append(s, e)) = Len(s) + 1
         /\ \A i \in 1..Len(s) : Append(s, e)[i] = s[i]
         /\ Append(s, e)[Len(s) + 1] = e
OBVIOUS

\* A cleanup takes a prefix off each stack and hands exactly that prefix over.
LEMMA CleanupFacts ==
  ASSUME TransportTypeOK, CleanupTick
  PROVE  \E cut \in [Types -> Nat] :
           /\ conns' \in [Types -> Seq(Conns)]
           /\ \A t \in Types :
                /\ cut[t] \in 0..Len(conns[t])
                /\ Len(conns'[t]) = Len(conns[t]) - cut[t]
                /\ \A i \in 1..Len(conns'[t]) : conns'[t][i] = conns[t][cut[t] + i]
                /\ \A i \in 1..cut[t] : conns[t][i] \in closing'
                /\ cut[t] > 0 => ~Fresh(conns[t][cut[t]])
           /\ closing' \subseteq Conns
           /\ closing \subseteq closing'
           /\ \A k \in closing' \ closing :
                \E t \in Types : \E i \in 1..cut[t] : k = conns[t][i]
<1>1. PICK cut \in [Types -> UNION {Cuts(conns[t]) : t \in Types}] :
        /\ \A t \in Types : cut[t] \in Cuts(conns[t])
        /\ conns' = [t \in Types |->
                       SubSeq(conns[t], cut[t] + 1, Len(conns[t]))]
        /\ closing' = closing \cup
             UNION {Range(SubSeq(conns[t], 1, cut[t])) : t \in Types}
  BY Zenon DEF CleanupTick
<1>2. ASSUME NEW t \in Types
      PROVE  /\ conns[t] \in Seq(Conns) /\ cut[t] \in 0..Len(conns[t])
             /\ cut[t] > 0 => ~Fresh(conns[t][cut[t]])
  <2>1. conns[t] \in Seq(Conns) /\ cut[t] \in Cuts(conns[t])
    BY <1>1 DEF TransportTypeOK
  <2>2. ASSUME NEW s \in Seq(Conns), NEW n \in Cuts(s)
        PROVE  n \in 0..Len(s) /\ (n > 0 => ~Fresh(s[n]))
    BY <2>2, StackFacts DEF Cuts, FirstGood
  <2> QED BY <2>1, <2>2
<1>3. ASSUME NEW t \in Types
      PROVE  /\ conns'[t] \in Seq(Conns)
             /\ Len(conns'[t]) = Len(conns[t]) - cut[t]
             /\ \A i \in 1..Len(conns'[t]) : conns'[t][i] = conns[t][cut[t] + i]
             /\ Range(SubSeq(conns[t], 1, cut[t])) = {conns[t][i] : i \in 1..cut[t]}
             /\ \A i \in 1..cut[t] : conns[t][i] \in Conns
  <2>1. conns'[t] = SubSeq(conns[t], cut[t] + 1, Len(conns[t]))
    BY <1>1, Zenon
  <2>2. Range(SubSeq(conns[t], 1, cut[t])) = {conns[t][i] : i \in 1..cut[t]}
    BY <1>2, PrefixFacts, Zenon
  <2>3. \A i \in 1..cut[t] : conns[t][i] \in Conns
    BY <1>2, StackFacts
  <2>4. /\ SubSeq(conns[t], cut[t] + 1, Len(conns[t])) \in Seq(Conns)
        /\ Len(SubSeq(conns[t], cut[t] + 1, Len(conns[t]))) = Len(conns[t]) - cut[t]
        /\ \A i \in 1..(Len(conns[t]) - cut[t]) :
             SubSeq(conns[t], cut[t] + 1, Len(conns[t]))[i] = conns[t][cut[t] + i]
    BY <1>2, SliceFacts, Zenon
  <2> QED BY <2>1, <2>2, <2>3, <2>4
<1>4. cut \in [Types -> Nat]
  BY <1>2
<1>5. conns' \in [Types -> Seq(Conns)]
  BY <1>1, <1>3
<1>6. closing \subseteq closing'
  BY <1>1
<1>7. ASSUME NEW k \in closing', k \notin closing
      PROVE  k \in Conns /\ \E t \in Types : \E i \in 1..cut[t] : k = conns[t][i]
  <2>1. PICK t \in Types : k \in Range(SubSeq(conns[t], 1, cut[t]))
    BY <1>1, <1>7
  <2>2. k \in {conns[t][i] : i \in 1..cut[t]}
    BY <1>3, <2>1, Zenon
  <2>3. PICK i \in 1..cut[t] : k = conns[t][i]
    BY <2>2
  <2>4. k \in Conns
    BY <1>3, <2>3
  <2> QED BY <2>3, <2>4
<1>8. closing' \subseteq Conns
  <2>1. closing \subseteq Conns
    BY DEF TransportTypeOK
  <2> QED BY <1>7, <2>1
<1>9. ASSUME NEW t \in Types, NEW i \in 1..cut[t] PROVE conns[t][i] \in closing'
  <2>1. conns[t][i] \in Range(SubSeq(conns[t], 1, cut[t]))
    BY <1>3, Zenon
  <2> QED BY <1>1, <2>1
<1> QED BY <1>2, <1>3, <1>4, <1>5, <1>6, <1>7, <1>8, <1>9, Zenon

-----------------------------------------------------------------------------
\* Type correctness, with the fact it needs: held is nil outside Exchange.
LEMMA TypeInit ==
  TransportInit => TransportTypeOK /\ HeldWhileExchanging
<1> SUFFICES ASSUME TransportInit
             PROVE  TransportTypeOK /\ HeldWhileExchanging
  OBVIOUS
<1>1. AnyType \in Types
  BY TransportAssumption DEF AnyType
<1>2. TransportTypeOK
  <2>1. <<>> \in Seq(Conns) /\ Expire \in 0..Expire
    BY StackFacts, TransportAssumption
  <2> QED BY <1>1, <2>1, Zenon DEF TransportInit, TransportTypeOK, PCs
<1>3. HeldWhileExchanging
  BY DEF TransportInit, HeldWhileExchanging, Holding
<1> QED BY <1>2, <1>3

\* Every step keeps the types.
LEMMA TypeStep ==
  TransportTypeOK /\ HeldWhileExchanging /\ [TransportNext]_vars
    => TransportTypeOK' /\ HeldWhileExchanging'
<1> SUFFICES ASSUME TransportTypeOK, HeldWhileExchanging, [TransportNext]_vars
             PROVE  TransportTypeOK' /\ HeldWhileExchanging'
  OBVIOUS
<1> USE TransportAssumption
<1>1. ASSUME NEW c \in Clients, NEW t \in Types, Request(c, t)
      PROVE  TransportTypeOK' /\ HeldWhileExchanging'
  BY <1>1 DEF Request, TransportTypeOK, HeldWhileExchanging, PCs, Holding,
              mgrVars, sockVars
<1>2. ASSUME NEW c \in Clients, DialHit(c)
      PROVE  TransportTypeOK' /\ HeldWhileExchanging'
  <2>1. want[c] \in Types /\ conns[want[c]] \in Seq(Conns)
    BY DEF TransportTypeOK
  <2>2. Top(conns[want[c]]) \in Conns /\ Pop(conns[want[c]]) \in Seq(Conns)
    BY <1>2, <2>1, PopFacts DEF DialHit
  <2> QED BY <1>2, <2>1, <2>2 DEF DialHit, TransportTypeOK,
            HeldWhileExchanging, PCs, Holding, sockVars
<1>3. ASSUME NEW c \in Clients, DialExpired(c)
      PROVE  TransportTypeOK' /\ HeldWhileExchanging'
  <2>1. want[c] \in Types /\ conns[want[c]] \in Seq(Conns)
    BY DEF TransportTypeOK
  <2>2. Range(conns[want[c]]) \subseteq Conns /\ <<>> \in Seq(Conns)
    BY <2>1, StackFacts
  <2> QED BY <1>3, <2>1, <2>2 DEF DialExpired, TransportTypeOK,
            HeldWhileExchanging, PCs, Holding, sockVars
<1>4. ASSUME NEW c \in Clients, DialEmpty(c)
      PROVE  TransportTypeOK' /\ HeldWhileExchanging'
  BY <1>4 DEF DialEmpty, TransportTypeOK, HeldWhileExchanging, PCs, Holding,
              sockVars
<1>5. ASSUME NEW c \in Clients, RetRecv(c)
      PROVE  TransportTypeOK' /\ HeldWhileExchanging'
  BY <1>5 DEF RetRecv, TransportTypeOK, HeldWhileExchanging, PCs, Holding,
              sockVars
<1>6. ASSUME NEW c \in Clients, NEW k \in Conns, NetDial(c, k)
      PROVE  TransportTypeOK' /\ HeldWhileExchanging'
  BY <1>6 DEF NetDial, TransportTypeOK, HeldWhileExchanging, PCs, Holding,
              mgrVars
<1>7. ASSUME NEW c \in Clients, NetDialFail(c) \/ WriteMsg(c)
      PROVE  TransportTypeOK' /\ HeldWhileExchanging'
  BY <1>7, Zenon DEF NetDialFail, WriteMsg, TransportTypeOK, HeldWhileExchanging,
              PCs, Holding, mgrVars, sockVars
<1>8. ASSUME NEW c \in Clients, NEW eof \in BOOLEAN, ExchangeFail(c, eof)
      PROVE  TransportTypeOK' /\ HeldWhileExchanging'
  BY <1>8 DEF ExchangeFail, TransportTypeOK, HeldWhileExchanging, PCs,
              Holding, mgrVars
<1>9. ASSUME NEW c \in Clients, ReadMsg(c)
      PROVE  TransportTypeOK' /\ HeldWhileExchanging'
  BY <1>9 DEF ReadMsg, TransportTypeOK, HeldWhileExchanging, PCs, Holding,
              mgrVars
<1>10. ASSUME NEW c \in Clients, YieldSend(c)
       PROVE  TransportTypeOK' /\ HeldWhileExchanging'
  <2>1. held[c] \in Conns /\ kind[held[c]] \in Types
    BY <1>10 DEF YieldSend, TransportTypeOK, HeldWhileExchanging, Holding
  <2>2. Append(conns[kind[held[c]]], held[c]) \in Seq(Conns)
    BY <2>1, PushFacts DEF TransportTypeOK
  <2> QED BY <1>10, <2>1, <2>2 DEF YieldSend, transportTypeFromConn,
            TransportTypeOK, HeldWhileExchanging, PCs, Holding, sockVars
<1>11. ASSUME NEW c \in Clients, YieldTimeout(c)
       PROVE  TransportTypeOK' /\ HeldWhileExchanging'
  BY <1>11 DEF YieldTimeout, TransportTypeOK, HeldWhileExchanging, PCs,
               Holding, mgrVars, sockVars
<1>12. CASE CleanupTick
  <2>1. conns' \in [Types -> Seq(Conns)] /\ closing' \subseteq Conns
    BY <1>12, CleanupFacts, Zenon
  <2> QED BY <1>12, <2>1, Zenon DEF CleanupTick, TransportTypeOK,
            HeldWhileExchanging, clientVars, sockVars
<1>13. CASE Stop
  BY <1>13 DEF Stop, TransportTypeOK, HeldWhileExchanging, clientVars, sockVars
<1>14. CASE StopRecv
  <2>1. ASSUME NEW t \in Types
        PROVE  Range(conns[t]) \subseteq Conns
    <3>1. conns[t] \in Seq(Conns)
      BY DEF TransportTypeOK
    <3> QED BY <3>1, StackFacts
  <2>2. <<>> \in Seq(Conns)
    BY StackFacts
  <2> QED BY <1>14, <2>1, <2>2 DEF StopRecv, TransportTypeOK,
            HeldWhileExchanging, clientVars, sockVars
<1>15. ASSUME NEW k \in Conns, CloseConn(k)
       PROVE  TransportTypeOK' /\ HeldWhileExchanging'
  BY <1>15 DEF CloseConn, TransportTypeOK, HeldWhileExchanging, clientVars
<1>16. CASE Tick
  BY <1>16 DEF Tick, TransportTypeOK, HeldWhileExchanging, clientVars, mgrVars
<1>17. CASE UNCHANGED vars
  BY <1>17 DEF vars, mgrVars, sockVars, clientVars, TransportTypeOK,
               HeldWhileExchanging
<1> QED
  BY <1>1, <1>2, <1>3, <1>4, <1>5, <1>6, <1>7, <1>8, <1>9, <1>10, <1>11,
     <1>12, <1>13, <1>14, <1>15, <1>16, <1>17
  DEF TransportNext, ClientStep, DialServe, NetStep, ExchangeStep

-----------------------------------------------------------------------------
\* The rendezvous on t.dial and t.ret.
LEMMA PairedStep ==
  TransportTypeOK /\ ReplyPaired /\ [TransportNext]_vars => ReplyPaired'
<1> SUFFICES ASSUME TransportTypeOK, ReplyPaired, [TransportNext]_vars
             PROVE  ReplyPaired'
  OBVIOUS
<1>0. pc \in [Clients -> PCs] /\ mgr \in {"select", "ret", "stopped"}
  BY DEF TransportTypeOK
<1> USE <1>0 DEF ReplyPaired
<1>1. ASSUME NEW c \in Clients, NEW t \in Types, Request(c, t)
      PROVE  ReplyPaired'
  BY <1>1 DEF Request, mgrVars
<1>2. ASSUME NEW c \in Clients, DialServe(c)
      PROVE  ReplyPaired'
  BY <1>2 DEF DialServe, DialHit, DialExpired, DialEmpty
<1>3. ASSUME NEW c \in Clients, RetRecv(c)
      PROVE  ReplyPaired'
  BY <1>3 DEF RetRecv
<1>4. ASSUME NEW c \in Clients, NetStep(c)
      PROVE  ReplyPaired'
  <2>1. CASE NetDialFail(c)
    BY <2>1 DEF NetDialFail, mgrVars
  <2>2. ASSUME NEW k \in Conns, NetDial(c, k)
        PROVE  ReplyPaired'
    BY <2>2 DEF NetDial, mgrVars
  <2> QED BY <1>4, <2>1, <2>2 DEF NetStep
<1>5. ASSUME NEW c \in Clients, ExchangeStep(c)
      PROVE  ReplyPaired'
  <2>1. CASE WriteMsg(c)
    BY <2>1 DEF WriteMsg, mgrVars
  <2>2. CASE ReadMsg(c)
    BY <2>2 DEF ReadMsg, mgrVars
  <2>3. ASSUME NEW eof \in BOOLEAN, ExchangeFail(c, eof)
        PROVE  ReplyPaired'
    BY <2>3 DEF ExchangeFail, mgrVars
  <2> QED BY <1>5, <2>1, <2>2, <2>3 DEF ExchangeStep
<1>6. ASSUME NEW c \in Clients, YieldSend(c) \/ YieldTimeout(c)
      PROVE  ReplyPaired'
  <2>1. CASE YieldSend(c)
    BY <2>1 DEF YieldSend
  <2>2. CASE YieldTimeout(c)
    BY <2>2 DEF YieldTimeout, mgrVars
  <2> QED BY <1>6, <2>1, <2>2
<1>7. CASE CleanupTick
  BY <1>7 DEF CleanupTick, clientVars
<1>8. CASE StopRecv
  BY <1>8 DEF StopRecv, clientVars
<1>9. ASSUME NEW k \in Conns, CloseConn(k)
      PROVE  ReplyPaired'
  BY <1>9 DEF CloseConn, clientVars
<1>10. CASE Stop \/ Tick \/ UNCHANGED vars
  BY <1>10 DEF Stop, Tick, vars, mgrVars, clientVars
<1> QED
  BY <1>1, <1>2, <1>3, <1>4, <1>5, <1>6, <1>7, <1>8, <1>9, <1>10
  DEF TransportNext, ClientStep

-----------------------------------------------------------------------------
\* Ownership: one step per action.
\* NoConn is in no stack and is never closed.
LEMMA NeverNil ==
  ASSUME TransportTypeOK
  PROVE  /\ NoConn \notin closing
         /\ \A t \in Types : \A i \in 1..Len(conns[t]) : conns[t][i] # NoConn
<1>1. \A t \in Types : conns[t] \in Seq(Conns)
  BY DEF TransportTypeOK
<1>2. NoConn \notin closing
  BY TransportAssumption DEF TransportTypeOK
<1> QED BY <1>1, <1>2, StackFacts, TransportAssumption

Owned == OfferForWaiter /\ ReachableOpen /\ Disjoint

\* A client that starts a request.
LEMMA OwnedRequest ==
  ASSUME TransportInv, NEW c \in Clients, NEW t \in Types, Request(c, t)
  PROVE  Owned'
<1> USE TransportAssumption
<1>1. held[c] = NoConn
  BY DEF Request, TransportInv, HeldWhileExchanging, Holding
<1>2. /\ UNCHANGED <<conns, closing, mgr, offer, open, kind, held>>
      /\ \A d \in Clients : /\ pc'[d] = "await" => pc[d] = "await" /\ d # c
                            /\ d # c => want'[d] = want[d]
  BY DEF Request, TransportInv, TransportTypeOK, mgrVars, sockVars
<1>3. OfferForWaiter'
  BY <1>2 DEF TransportInv, OfferForWaiter
<1>4. ReachableOpen'
  BY <1>1, <1>2 DEF TransportInv, ReachableOpen
<1>5. Disjoint'
  BY <1>2 DEF TransportInv, Disjoint
<1> QED BY <1>3, <1>4, <1>5 DEF Owned

\* The manager takes the newest connection from the stack.
LEMMA OwnedDialHit ==
  ASSUME TransportInv, NEW c \in Clients, DialHit(c)
  PROVE  Owned'
<1> USE TransportAssumption
<1> DEFINE t == want[c]
           last == Top(conns[t])
<1>1. t \in Types /\ conns[t] \in Seq(Conns) /\ conns[t] # <<>>
  BY DEF DialHit, TransportInv, TransportTypeOK
<1>2. /\ Len(conns[t]) \in Nat \ {0}
      /\ last = conns[t][Len(conns[t])]
      /\ Len(Pop(conns[t])) = Len(conns[t]) - 1
      /\ \A i \in 1..Len(Pop(conns[t])) : Pop(conns[t])[i] = conns[t][i]
  BY <1>1, PopFacts
<1>3. /\ last \in Conns /\ last \in open /\ kind[last] = t
      /\ last \notin closing
      /\ \A d \in Clients : held[d] # last
  BY <1>1, <1>2, PopFacts DEF TransportInv, ReachableOpen, Disjoint
<1>4. ASSUME NEW u \in Types, NEW i \in 1..Len(conns'[u])
      PROVE  /\ i \in 1..Len(conns[u])
             /\ conns'[u][i] = conns[u][i]
             /\ conns'[u][i] # last
  <2>1. CASE u = t
    <3>1. conns'[t] = Pop(conns[t])
      BY <1>1 DEF DialHit, TransportInv, TransportTypeOK
    <3>2. i \in 1..Len(conns[t]) /\ conns'[u][i] = conns[t][i] /\ i # Len(conns[t])
      BY <1>2, <1>4, <2>1, <3>1
    <3>3. Len(conns[t]) \in 1..Len(conns[t])
      BY <1>2
    <3>4. conns[t][i] # conns[t][Len(conns[t])]
      BY <1>1, <3>2, <3>3 DEF TransportInv, Disjoint
    <3> QED BY <1>2, <2>1, <3>2, <3>4
  <2>2. CASE u # t
    <3>1. conns'[u] = conns[u]
      BY <2>2 DEF DialHit, TransportInv, TransportTypeOK
    <3>2. kind[conns[u][i]] = u
      BY <3>1 DEF TransportInv, ReachableOpen
    <3> QED BY <1>3, <2>2, <3>1, <3>2
  <2> QED BY <2>1, <2>2
<1>5. /\ offer' = last /\ mgr' = "ret" /\ last # NoConn
      /\ pc' = [pc EXCEPT ![c] = "await"]
      /\ UNCHANGED <<closing, open, kind, want, held>>
  BY <1>3 DEF DialHit, sockVars
<1>6. \A d \in Clients : pc'[d] = "await" => d = c
  BY <1>5 DEF DialHit, TransportInv, TransportTypeOK, ReplyPaired
<1> HIDE DEF t, last
<1>7. OfferForWaiter'
  BY <1>3, <1>5, <1>6 DEF OfferForWaiter, t
<1>8. ReachableOpen'
  BY <1>4, <1>5 DEF TransportInv, ReachableOpen
<1>9. Disjoint'
  BY <1>3, <1>4, <1>5 DEF TransportInv, Disjoint
<1> QED BY <1>7, <1>8, <1>9 DEF Owned

\* The manager drops a stack whose newest connection has expired.
LEMMA OwnedDialExpired ==
  ASSUME TransportInv, NEW c \in Clients, DialExpired(c)
  PROVE  Owned'
<1> USE TransportAssumption
<1> DEFINE t == want[c]
<1>1. t \in Types /\ conns[t] \in Seq(Conns)
  BY DEF TransportInv, TransportTypeOK
<1>2. /\ closing' = closing \cup {conns[t][i] : i \in 1..Len(conns[t])}
      /\ offer' = NoConn
      /\ UNCHANGED <<open, kind, want, held>>
  BY <1>1, StackFacts DEF DialExpired, sockVars
<1>3. ASSUME NEW u \in Types, NEW i \in 1..Len(conns'[u])
      PROVE  /\ u # t
             /\ conns'[u] = conns[u]
             /\ conns[u][i] \in Conns
             /\ conns[u][i] \notin closing'
  <2>1. u # t /\ conns'[u] = conns[u]
    <3>1. u = t => conns'[u] = <<>>
      BY <1>1 DEF DialExpired, TransportInv, TransportTypeOK
    <3>2. u # t => conns'[u] = conns[u]
      BY <1>1 DEF DialExpired, TransportInv, TransportTypeOK
    <3> QED BY <1>3, <3>1, <3>2
  <2>2. conns[u][i] \in Conns
    BY <2>1, StackFacts DEF TransportInv, TransportTypeOK
  <2>3. \A j \in 1..Len(conns[t]) : conns[t][j] # conns[u][i]
    BY <1>1, <2>1 DEF TransportInv, ReachableOpen
  <2>4. conns[u][i] \notin closing
    BY <2>1 DEF TransportInv, Disjoint
  <2> QED BY <1>2, <2>1, <2>2, <2>3, <2>4
<1>4. \A j \in 1..Len(conns[t]) :
        /\ conns[t][j] \in open
        /\ conns[t][j] \in Conns
        /\ \A d \in Clients : held[d] # conns[t][j]
  BY <1>1, StackFacts DEF TransportInv, ReachableOpen, Disjoint
<1> HIDE DEF t
<1>5. OfferForWaiter'
  BY <1>2 DEF OfferForWaiter
<1>6. ReachableOpen'
  BY <1>2, <1>3, <1>4 DEF TransportInv, ReachableOpen
<1>7. NoConn \notin closing'
  BY <1>2, <1>4 DEF TransportInv, TransportTypeOK
<1>8. ASSUME NEW u \in Types, NEW i \in 1..Len(conns'[u])
      PROVE  /\ conns'[u][i] # offer' /\ conns'[u][i] \notin closing'
             /\ \A d \in Clients : held'[d] # conns'[u][i]
             /\ \A j \in 1..Len(conns'[u]) :
                  conns'[u][i] = conns'[u][j] => i = j
  <2>1. /\ conns'[u] = conns[u] /\ i \in 1..Len(conns[u])
        /\ conns[u][i] \in Conns /\ conns[u][i] \notin closing'
    BY <1>3
  <2>2. /\ \A d \in Clients : held[d] # conns[u][i]
        /\ \A j \in 1..Len(conns[u]) : conns[u][i] = conns[u][j] => i = j
    BY <2>1 DEF TransportInv, Disjoint
  <2>3. conns[u][i] # NoConn
    BY <2>1, TransportAssumption
  <2> QED BY <1>2, <2>1, <2>2, <2>3
<1>9. ASSUME NEW d \in Clients, held'[d] # NoConn
      PROVE  held'[d] \notin closing'
  <2>1. held[d] \notin closing
    BY <1>2, <1>9 DEF TransportInv, Disjoint
  <2> QED BY <1>2, <1>4, <2>1
<1>10. Disjoint'
  <2>1. \A d, e \in Clients : held'[d] = held'[e] /\ held'[d] # NoConn => d = e
    BY <1>2 DEF TransportInv, Disjoint
  <2>2. \A d \in Clients : held'[d] # NoConn => held'[d] # offer' /\ held'[d] \notin closing'
    BY <1>2, <1>9
  <2>3. offer' \notin closing'
    BY <1>2, <1>7
  <2> QED BY <1>8, <2>1, <2>2, <2>3 DEF Disjoint
<1> QED BY <1>5, <1>6, <1>10 DEF Owned

\* The manager offers nothing.
LEMMA OwnedDialEmpty ==
  ASSUME TransportInv, NEW c \in Clients, DialEmpty(c)
  PROVE  Owned'
<1> USE TransportAssumption
<1>1. /\ UNCHANGED <<conns, closing, want, held, kind, open>>
      /\ offer' = NoConn
  BY DEF DialEmpty, sockVars
<1>2. NoConn \notin closing /\ \A t \in Types : \A i \in 1..Len(conns[t]) :
                                 conns[t][i] # NoConn
  BY NeverNil DEF TransportInv
<1>3. OfferForWaiter'
  BY <1>1 DEF OfferForWaiter
<1>4. ReachableOpen'
  BY <1>1 DEF TransportInv, ReachableOpen
<1>5. Disjoint'
  BY <1>1, <1>2 DEF TransportInv, Disjoint
<1> QED BY <1>3, <1>4, <1>5 DEF Owned

\* The client takes the offer.
LEMMA OwnedRetRecv ==
  ASSUME TransportInv, NEW c \in Clients, RetRecv(c)
  PROVE  Owned'
<1> USE TransportAssumption
<1>1. /\ UNCHANGED <<conns, closing, want, kind, open>>
      /\ offer' = NoConn
      /\ \A d \in Clients : held'[d] = IF d = c THEN offer ELSE held[d]
      /\ pc[c] = "await"
  BY DEF RetRecv, TransportInv, TransportTypeOK, sockVars
<1>2. NoConn \notin closing /\ \A t \in Types : \A i \in 1..Len(conns[t]) :
                                 conns[t][i] # NoConn
  BY NeverNil DEF TransportInv
<1>3. OfferForWaiter'
  BY <1>1 DEF OfferForWaiter
<1>4. ReachableOpen'
  BY <1>1 DEF TransportInv, ReachableOpen, OfferForWaiter
<1>5. Disjoint'
  BY <1>1, <1>2 DEF TransportInv, Disjoint
<1> QED BY <1>3, <1>4, <1>5 DEF Owned

\* A client dials a connection of its own.
LEMMA OwnedNetDial ==
  ASSUME TransportInv, NEW c \in Clients, NEW k \in Conns, NetDial(c, k)
  PROVE  Owned'
<1> USE TransportAssumption
<1>1. /\ k # offer /\ k \notin closing /\ k # NoConn
      /\ \A d \in Clients : held[d] # k
  BY DEF NetDial, Unreachable
<1>2. ASSUME NEW t \in Types, NEW i \in 1..Len(conns[t])
      PROVE  conns[t][i] # k
  <2>1. conns[t] \in Seq(Conns) /\ k \notin Range(conns[t])
    BY DEF NetDial, Unreachable, InPool, TransportInv, TransportTypeOK
  <2> QED BY <2>1, StackFacts
<1>3. /\ UNCHANGED <<conns, closing, mgr, offer, want>>
      /\ open' = open \cup {k}
      /\ \A d \in Clients : /\ held'[d] = IF d = c THEN k ELSE held[d]
                            /\ pc'[d] = "await" => pc[d] = "await"
      /\ \A j \in Conns : kind'[j] = IF j = k THEN want[c] ELSE kind[j]
  BY DEF NetDial, TransportInv, TransportTypeOK, mgrVars
<1>4. /\ offer \in Conns \cup {NoConn}
      /\ \A d \in Clients : held[d] \in Conns \cup {NoConn}
      /\ \A t \in Types : \A i \in 1..Len(conns[t]) : conns[t][i] \in Conns
  BY StackFacts DEF TransportInv, TransportTypeOK
<1>5. OfferForWaiter'
  BY <1>1, <1>3, <1>4 DEF TransportInv, OfferForWaiter
<1>6. ReachableOpen'
  BY <1>1, <1>2, <1>3, <1>4 DEF TransportInv, ReachableOpen
<1>7. Disjoint'
  BY <1>1, <1>2, <1>3 DEF TransportInv, Disjoint
<1> QED BY <1>5, <1>6, <1>7 DEF Owned

\* A client fails to dial, or writes.
LEMMA OwnedWrite ==
  ASSUME TransportInv, NEW c \in Clients, NetDialFail(c) \/ WriteMsg(c)
  PROVE  Owned'
<1> USE TransportAssumption
<1>1. /\ UNCHANGED <<conns, closing, mgr, offer, open, kind, want, held>>
      /\ \A d \in Clients : pc'[d] = "await" => pc[d] = "await"
  BY DEF NetDialFail, WriteMsg, TransportInv, TransportTypeOK, mgrVars,
              sockVars
<1>2. OfferForWaiter'
  BY <1>1 DEF TransportInv, OfferForWaiter
<1>3. ReachableOpen'
  BY <1>1 DEF TransportInv, ReachableOpen
<1>4. Disjoint'
  BY <1>1 DEF TransportInv, Disjoint
<1> QED BY <1>2, <1>3, <1>4 DEF Owned

\* An exchange fails and its connection is closed.
LEMMA OwnedExchangeFail ==
  ASSUME TransportInv, NEW c \in Clients, NEW eof \in BOOLEAN, ExchangeFail(c, eof)
  PROVE  Owned'
<1> USE TransportAssumption
<1>1. held[c] # NoConn
  BY DEF ExchangeFail, TransportInv, HeldWhileExchanging, Holding
<1>2. /\ UNCHANGED <<conns, closing, mgr, offer, want, kind>>
      /\ open' = open \ {held[c]}
      /\ \A d \in Clients : /\ held'[d] = IF d = c THEN NoConn ELSE held[d]
                            /\ pc'[d] = "await" => pc[d] = "await"
  BY DEF ExchangeFail, TransportInv, TransportTypeOK, mgrVars
<1>3. OfferForWaiter'
  BY <1>1, <1>2 DEF TransportInv, OfferForWaiter, Disjoint
<1>4. ReachableOpen'
  BY <1>1, <1>2 DEF TransportInv, ReachableOpen, Disjoint
<1>5. Disjoint'
  <2>1. \A t \in Types : \A i \in 1..Len(conns[t]) : conns[t][i] # NoConn
    BY NeverNil DEF TransportInv
  <2> QED BY <1>2, <2>1 DEF TransportInv, Disjoint
<1> QED BY <1>3, <1>4, <1>5 DEF Owned

\* A client reads its answer.
LEMMA OwnedReadMsg ==
  ASSUME TransportInv, NEW c \in Clients, ReadMsg(c)
  PROVE  Owned'
<1> USE TransportAssumption
<1>1. /\ UNCHANGED <<conns, closing, mgr, offer, open, kind, want, held>>
      /\ \A d \in Clients : pc'[d] = "await" => pc[d] = "await"
  BY DEF ReadMsg, TransportInv, TransportTypeOK, mgrVars
<1>2. OfferForWaiter'
  BY <1>1 DEF TransportInv, OfferForWaiter
<1>3. ReachableOpen'
  BY <1>1 DEF TransportInv, ReachableOpen
<1>4. Disjoint'
  BY <1>1 DEF TransportInv, Disjoint
<1> QED BY <1>2, <1>3, <1>4 DEF Owned

\* A connection is pushed on its stack.
LEMMA OwnedYieldSend ==
  ASSUME TransportInv, NEW c \in Clients, YieldSend(c)
  PROVE  Owned'
<1> USE TransportAssumption
<1> DEFINE k == held[c]
           t == kind[k]
<1>1. /\ k \in Conns /\ k # NoConn /\ k \in open /\ t \in Types
      /\ k # offer /\ k \notin closing
      /\ conns[t] \in Seq(Conns)
  BY DEF YieldSend, TransportInv, TransportTypeOK, ReachableOpen,
               HeldWhileExchanging, Holding, Disjoint
<1>2. /\ UNCHANGED <<closing, mgr, offer, want, kind, open>>
      /\ \A d \in Clients : /\ held'[d] = IF d = c THEN NoConn ELSE held[d]
                            /\ pc'[d] = "await" => pc[d] = "await"
  BY DEF YieldSend, TransportInv, TransportTypeOK, sockVars
<1>3. /\ Len(conns[t]) \in Nat
      /\ conns'[t] = Append(conns[t], k)
      /\ Len(conns'[t]) = Len(conns[t]) + 1
      /\ \A i \in 1..Len(conns[t]) : conns'[t][i] = conns[t][i]
      /\ conns'[t][Len(conns[t]) + 1] = k
  <2>1. conns'[t] = Append(conns[t], k)
    BY <1>1 DEF YieldSend, transportTypeFromConn, TransportInv,
                       TransportTypeOK
  <2> HIDE DEF k, t
  <2>2. Len(conns[t]) \in Nat
    BY <1>1, StackFacts
  <2>3. /\ Len(Append(conns[t], k)) = Len(conns[t]) + 1
        /\ \A i \in 1..Len(conns[t]) : Append(conns[t], k)[i] = conns[t][i]
        /\ Append(conns[t], k)[Len(conns[t]) + 1] = k
    BY <1>1, PushFacts
  <2> QED BY <2>1, <2>2, <2>3
<1>4. ASSUME NEW u \in Types, u # t
      PROVE  conns'[u] = conns[u]
  BY <1>4 DEF YieldSend, transportTypeFromConn, TransportInv,
                     TransportTypeOK
<1>5. ASSUME NEW u \in Types, NEW i \in 1..Len(conns'[u])
      PROVE  \/ i \in 1..Len(conns[u]) /\ conns'[u][i] = conns[u][i]
             \/ u = t /\ i = Len(conns[t]) + 1 /\ conns'[u][i] = k
  <2> HIDE DEF k, t
  <2>1. CASE u # t
    BY <1>4, <2>1
  <2>2. CASE u = t
    <3>1. i \in 1..(Len(conns[t]) + 1)
      BY <1>3, <2>2
    <3>2. i \in 1..Len(conns[t]) \/ i = Len(conns[t]) + 1
      BY <1>3, <3>1
    <3> QED BY <1>3, <2>2, <3>2
  <2> QED BY <2>1, <2>2
<1>6. \A u \in Types : \A i \in 1..Len(conns[u]) :
        conns[u][i] # k /\ conns[u][i] # NoConn
  <2>1. \A u \in Types : \A i \in 1..Len(conns[u]) : conns[u][i] \in Conns
    BY StackFacts DEF TransportInv, TransportTypeOK
  <2> QED BY <2>1 DEF TransportInv, Disjoint
<1>7. \A d \in Clients : d # c => held[d] # k
  BY <1>1 DEF TransportInv, Disjoint
<1> HIDE DEF k, t
<1>8. OfferForWaiter'
  BY <1>2 DEF TransportInv, OfferForWaiter
<1>9. ReachableOpen'
  <2>1. k \in open /\ kind[k] = t
    BY <1>1 DEF TransportInv, ReachableOpen, t
  <2>2. ASSUME NEW u \in Types, NEW i \in 1..Len(conns'[u])
        PROVE  conns'[u][i] \in open /\ kind[conns'[u][i]] = u
    <3>1. CASE i \in 1..Len(conns[u]) /\ conns'[u][i] = conns[u][i]
      BY <3>1 DEF TransportInv, ReachableOpen
    <3>2. CASE u = t /\ conns'[u][i] = k
      BY <2>1, <3>2
    <3> QED BY <1>5, <3>1, <3>2
  <2>3. ASSUME NEW d \in Clients, held'[d] # NoConn
        PROVE  held'[d] \in open /\ kind[held'[d]] = want[d]
    BY <1>2, <2>3 DEF TransportInv, ReachableOpen
  <2>4. closing \subseteq open
    BY DEF TransportInv, ReachableOpen
  <2> QED BY <1>2, <2>2, <2>3, <2>4 DEF ReachableOpen
<1>10. ASSUME NEW u \in Types, NEW i \in 1..Len(conns'[u])
       PROVE  /\ conns'[u][i] # offer
              /\ conns'[u][i] \notin closing
              /\ \A d \in Clients : held'[d] # conns'[u][i]
              /\ \A j \in 1..Len(conns'[u]) : conns'[u][i] = conns'[u][j] => i = j
  <2>1. CASE i \in 1..Len(conns[u]) /\ conns'[u][i] = conns[u][i]
    <3>1. /\ conns[u][i] # offer
          /\ conns[u][i] \notin closing
          /\ \A d \in Clients : held[d] # conns[u][i]
          /\ \A j \in 1..Len(conns[u]) : conns[u][i] = conns[u][j] => i = j
          /\ conns[u][i] # k /\ conns[u][i] # NoConn
      BY <1>6, <2>1 DEF TransportInv, Disjoint
    <3> QED BY <1>2, <1>5, <2>1, <3>1
  <2>2. CASE u = t /\ i = Len(conns[t]) + 1 /\ conns'[u][i] = k
    <3>1. k # offer /\ k \notin closing /\ \A d \in Clients : held'[d] # k
      BY <1>1, <1>2, <1>7
    <3>2. ASSUME NEW j \in 1..Len(conns'[u]), k = conns'[u][j]
          PROVE  i = j
      BY <1>5, <1>6, <2>2, <3>2
    <3> QED BY <2>2, <3>1, <3>2
  <2> QED BY <1>5, <2>1, <2>2
<1>11. Disjoint'
  BY <1>2, <1>10 DEF TransportInv, Disjoint
<1> QED BY <1>8, <1>9, <1>11 DEF Owned

\* A connection is dropped by Yield.
LEMMA OwnedYieldTimeout ==
  ASSUME TransportInv, NEW c \in Clients, YieldTimeout(c)
  PROVE  Owned'
<1> USE TransportAssumption
<1>1. /\ UNCHANGED <<conns, closing, mgr, offer, open, kind, want>>
      /\ \A d \in Clients : /\ held'[d] = IF d = c THEN NoConn ELSE held[d]
                            /\ pc'[d] = "await" => pc[d] = "await"
  BY DEF YieldTimeout, TransportInv, TransportTypeOK, mgrVars, sockVars
<1>2. \A t \in Types : \A i \in 1..Len(conns[t]) : conns[t][i] # NoConn
  BY NeverNil DEF TransportInv
<1>3. OfferForWaiter'
  BY <1>1 DEF TransportInv, OfferForWaiter
<1>4. ReachableOpen'
  BY <1>1 DEF TransportInv, ReachableOpen
<1>5. Disjoint'
  BY <1>1, <1>2 DEF TransportInv, Disjoint
<1> QED BY <1>3, <1>4, <1>5 DEF Owned

\* The ends of the stacks are cut off.
LEMMA OwnedCleanupTick ==
  ASSUME TransportInv, CleanupTick
  PROVE  Owned'
<1> USE TransportAssumption
<1>0. PICK cut \in [Types -> Nat] :
        /\ conns' \in [Types -> Seq(Conns)]
        /\ \A t \in Types :
             /\ cut[t] \in 0..Len(conns[t])
             /\ Len(conns'[t]) = Len(conns[t]) - cut[t]
             /\ \A i \in 1..Len(conns'[t]) : conns'[t][i] = conns[t][cut[t] + i]
             /\ \A i \in 1..cut[t] : conns[t][i] \in closing'
             /\ cut[t] > 0 => ~Fresh(conns[t][cut[t]])
        /\ closing' \subseteq Conns
        /\ closing \subseteq closing'
        /\ \A k \in closing' \ closing :
             \E t \in Types : \E i \in 1..cut[t] : k = conns[t][i]
  <2>1. TransportTypeOK
    BY DEF TransportInv
  <2> QED BY <2>1, CleanupFacts, Zenon
<1>1. /\ \A t \in Types :
           /\ cut[t] \in 0..Len(conns[t])
           /\ Len(conns'[t]) = Len(conns[t]) - cut[t]
           /\ \A i \in 1..Len(conns'[t]) : conns'[t][i] = conns[t][cut[t] + i]
      /\ \A k \in closing' \ closing :
           \E t \in Types : \E i \in 1..cut[t] : k = conns[t][i]
  BY <1>0, Zenon
<1>2. UNCHANGED <<mgr, offer, pc, want, held, kind, open>>
  BY DEF CleanupTick, sockVars, clientVars
<1>3. \A t \in Types : Len(conns[t]) \in Nat
  BY StackFacts DEF TransportInv, TransportTypeOK
<1>4. ASSUME NEW t \in Types, NEW i \in 1..Len(conns'[t])
      PROVE  /\ cut[t] + i \in 1..Len(conns[t])
             /\ conns'[t][i] = conns[t][cut[t] + i]
  <2>1. /\ Len(conns[t]) \in Nat
        /\ cut[t] \in 0..Len(conns[t])
        /\ Len(conns'[t]) = Len(conns[t]) - cut[t]
        /\ conns'[t][i] = conns[t][cut[t] + i]
    BY <1>1, <1>3
  <2> QED BY <2>1
<1>5. ASSUME NEW k \in closing' \ closing
      PROVE  /\ k \in open /\ k # offer
             /\ \A d \in Clients : held[d] # k
             /\ \A t \in Types : \A i \in 1..Len(conns'[t]) : conns'[t][i] # k
  <2>0. PICK u \in Types : \E j \in 1..cut[u] : k = conns[u][j]
    BY <1>1
  <2>1. PICK j \in 1..cut[u] : k = conns[u][j]
    BY <2>0
  <2>2. j \in 1..Len(conns[u])
    BY <1>1, <1>3
  <2>3. k \in open /\ k # offer /\ kind[k] = u /\ \A d \in Clients : held[d] # k
    BY <2>1, <2>2 DEF TransportInv, ReachableOpen, Disjoint
  <2>4. ASSUME NEW t \in Types, NEW i \in 1..Len(conns'[t])
        PROVE  conns'[t][i] # k
    <3>1. CASE t # u
      <4>1. cut[t] + i \in 1..Len(conns[t]) /\ conns'[t][i] = conns[t][cut[t] + i]
        BY <1>4
      <4>2. kind[conns'[t][i]] = t
        BY <4>1 DEF TransportInv, ReachableOpen
      <4> QED BY <2>3, <3>1, <4>2
    <3>2. CASE t = u
      <4>1. cut[u] + i # j
        BY <1>1, <1>3, <3>2
      <4>2. cut[u] + i \in 1..Len(conns[u]) /\ conns'[t][i] = conns[u][cut[u] + i]
        BY <1>4, <3>2
      <4>3. \A m, n \in 1..Len(conns[u]) : conns[u][m] = conns[u][n] => m = n
        BY DEF TransportInv, Disjoint
      <4> QED BY <2>1, <2>2, <4>1, <4>2, <4>3
    <3> QED BY <3>1, <3>2
  <2> QED BY <2>3, <2>4
<1>6. OfferForWaiter'
  BY <1>2 DEF TransportInv, OfferForWaiter
<1>7. ReachableOpen'
  BY <1>2, <1>4, <1>5 DEF TransportInv, ReachableOpen
<1>8. \A t \in Types : \A i, j \in 1..Len(conns'[t]) :
        conns'[t][i] = conns'[t][j] => i = j
  <2> SUFFICES ASSUME NEW t \in Types, NEW i \in 1..Len(conns'[t]),
                      NEW j \in 1..Len(conns'[t]), conns'[t][i] = conns'[t][j]
               PROVE  i = j
    OBVIOUS
  <2>1. /\ cut[t] + i \in 1..Len(conns[t])
        /\ cut[t] + j \in 1..Len(conns[t])
        /\ conns[t][cut[t] + i] = conns[t][cut[t] + j]
    BY <1>4
  <2>2. cut[t] + i = cut[t] + j
    BY <2>1 DEF TransportInv, Disjoint
  <2>3. cut[t] \in Nat /\ i \in Int /\ j \in Int
    BY <1>1, <1>3
  <2> QED BY <2>2, <2>3
<1>9. Disjoint'
  <2>1. ASSUME NEW t \in Types, NEW i \in 1..Len(conns'[t])
        PROVE  /\ conns'[t][i] # offer
               /\ conns'[t][i] \notin closing'
               /\ \A d \in Clients : held[d] # conns'[t][i]
    <3>1. /\ conns'[t][i] # offer
          /\ conns'[t][i] \notin closing
          /\ \A d \in Clients : held[d] # conns'[t][i]
      <4> DEFINE j == cut[t] + i
      <4>1. j \in 1..Len(conns[t]) /\ conns'[t][i] = conns[t][j]
        BY <1>4
      <4> HIDE DEF j
      <4> QED BY <4>1 DEF TransportInv, Disjoint
    <3> QED BY <1>5, <3>1
  <2>2. /\ offer \notin closing'
        /\ \A d \in Clients : held[d] # NoConn => held[d] \notin closing'
    BY <1>5 DEF TransportInv, Disjoint
  <2> QED BY <1>2, <1>8, <2>1, <2>2 DEF TransportInv, Disjoint
<1> QED BY <1>6, <1>7, <1>9 DEF Owned

\* Stop is called, or time passes.
LEMMA OwnedTime ==
  ASSUME TransportInv, Stop \/ Tick \/ UNCHANGED vars
  PROVE  Owned'
<1> USE TransportAssumption
<1>1. UNCHANGED <<conns, closing, mgr, offer, open, kind, pc, want, held>>
  BY DEF Stop, Tick, vars, mgrVars, sockVars, clientVars
<1>2. OfferForWaiter'
  BY <1>1 DEF TransportInv, OfferForWaiter
<1>3. ReachableOpen'
  BY <1>1 DEF TransportInv, ReachableOpen
<1>4. Disjoint'
  BY <1>1 DEF TransportInv, Disjoint
<1> QED BY <1>2, <1>3, <1>4 DEF Owned

\* The manager stops and hands over all it has.
LEMMA OwnedStopRecv ==
  ASSUME TransportInv, StopRecv
  PROVE  Owned'
<1> USE TransportAssumption
<1>1. /\ UNCHANGED <<offer, pc, want, held, kind, open>>
      /\ offer = NoConn
      /\ \A t \in Types : conns'[t] = <<>>
      /\ \A k \in closing' \ closing : \E t \in Types : k \in Range(conns[t])
  BY DEF StopRecv, sockVars, clientVars, TransportInv, OfferForWaiter
<1>2. ASSUME NEW k \in closing' \ closing
      PROVE  k \in Conns /\ k \in open /\ \A d \in Clients : held[d] # k
  <2>1. PICK t \in Types : k \in Range(conns[t])
    BY <1>1
  <2>2. conns[t] \in Seq(Conns)
    BY DEF TransportInv, TransportTypeOK
  <2>3. PICK i \in 1..Len(conns[t]) : k = conns[t][i]
    BY <2>1, <2>2, StackFacts
  <2> QED BY <2>2, <2>3, StackFacts DEF TransportInv, ReachableOpen, Disjoint
<1>3. OfferForWaiter'
  BY <1>1 DEF OfferForWaiter
<1>4. ReachableOpen'
  BY <1>1, <1>2 DEF TransportInv, ReachableOpen
<1>5. Disjoint'
  <2>1. \A t \in Types : 1..Len(conns'[t]) = {}
    BY <1>1
  <2>2. NoConn \notin closing'
    BY <1>2, TransportAssumption DEF TransportInv, TransportTypeOK
  <2>3. \A d \in Clients : held[d] # NoConn => held[d] \notin closing'
    BY <1>2 DEF TransportInv, Disjoint
  <2> QED BY <1>1, <2>1, <2>2, <2>3 DEF TransportInv, Disjoint
<1> QED BY <1>3, <1>4, <1>5 DEF Owned

\* A connection is closed in the background.
LEMMA OwnedCloseConn ==
  ASSUME TransportInv, NEW k \in Conns, CloseConn(k)
  PROVE  Owned'
<1> USE TransportAssumption
<1>1. /\ UNCHANGED <<conns, mgr, offer, kind, pc, want, held>>
      /\ k \in closing
      /\ closing' = closing \ {k}
      /\ open' = open \ {k}
  BY DEF CloseConn, clientVars
<1>2. OfferForWaiter'
  BY <1>1 DEF TransportInv, OfferForWaiter, Disjoint
<1>3. ReachableOpen'
  <2>1. /\ \A u \in Types : \A i \in 1..Len(conns[u]) : conns[u][i] # k
        /\ \A d \in Clients : held[d] # NoConn => held[d] # k
    BY <1>1 DEF TransportInv, Disjoint
  <2> QED BY <1>1, <2>1 DEF TransportInv, ReachableOpen
<1>4. Disjoint'
  BY <1>1 DEF TransportInv, Disjoint
<1> QED BY <1>2, <1>3, <1>4 DEF Owned

\* Every step preserves Owned.
LEMMA OwnedStep ==
  TransportInv /\ [TransportNext]_vars => Owned'
<1> SUFFICES ASSUME TransportInv, [TransportNext]_vars
             PROVE  Owned'
  OBVIOUS
<1>1. ASSUME NEW c \in Clients, NEW t \in Types, Request(c, t)
      PROVE  Owned'
  BY <1>1, OwnedRequest
<1>2. ASSUME NEW c \in Clients, DialHit(c)
      PROVE  Owned'
  BY <1>2, OwnedDialHit
<1>3. ASSUME NEW c \in Clients, DialExpired(c)
      PROVE  Owned'
  BY <1>3, OwnedDialExpired
<1>4. ASSUME NEW c \in Clients, DialEmpty(c)
      PROVE  Owned'
  BY <1>4, OwnedDialEmpty
<1>5. ASSUME NEW c \in Clients, RetRecv(c)
      PROVE  Owned'
  BY <1>5, OwnedRetRecv
<1>6. ASSUME NEW c \in Clients, NEW k \in Conns, NetDial(c, k)
      PROVE  Owned'
  BY <1>6, OwnedNetDial
<1>7. ASSUME NEW c \in Clients, NetDialFail(c) \/ WriteMsg(c)
      PROVE  Owned'
  BY <1>7, OwnedWrite
<1>8. ASSUME NEW c \in Clients, NEW eof \in BOOLEAN, ExchangeFail(c, eof)
      PROVE  Owned'
  BY <1>8, OwnedExchangeFail
<1>9. ASSUME NEW c \in Clients, ReadMsg(c)
      PROVE  Owned'
  BY <1>9, OwnedReadMsg
<1>10. ASSUME NEW c \in Clients, YieldSend(c)
       PROVE  Owned'
  BY <1>10, OwnedYieldSend
<1>11. ASSUME NEW c \in Clients, YieldTimeout(c)
       PROVE  Owned'
  BY <1>11, OwnedYieldTimeout
<1>12. CASE CleanupTick
  BY <1>12, OwnedCleanupTick
<1>13. CASE Stop \/ Tick \/ UNCHANGED vars
  BY <1>13, OwnedTime
<1>14. CASE StopRecv
  BY <1>14, OwnedStopRecv
<1>15. ASSUME NEW k \in Conns, CloseConn(k)
       PROVE  Owned'
  BY <1>15, OwnedCloseConn
<1> QED
  BY <1>1, <1>2, <1>3, <1>4, <1>5, <1>6, <1>7, <1>8, <1>9, <1>10, <1>11,
     <1>12, <1>13, <1>14, <1>15
  DEF TransportNext, ClientStep, DialServe, NetStep, ExchangeStep

-----------------------------------------------------------------------------
\* TransportInv is an invariant of the transport: it holds initially and every
\* step of the manager, a client, a closing goroutine or time preserves it.
THEOREM TransportInvariant == TransportSpec => []TransportInv
<1>1. TransportInit => TransportInv
  <2> SUFFICES ASSUME TransportInit PROVE TransportInv
    OBVIOUS
  <2>1. TransportTypeOK /\ HeldWhileExchanging
    BY TypeInit
  <2>2. \A t \in Types : conns[t] = <<>> /\ Len(conns[t]) = 0
    BY StackFacts DEF TransportInit
  <2>3. ReplyPaired /\ OfferForWaiter
    BY DEF TransportInit, ReplyPaired, OfferForWaiter
  <2>4. ReachableOpen /\ Disjoint
    BY <2>2 DEF TransportInit, ReachableOpen, Disjoint
  <2> QED BY <2>1, <2>3, <2>4 DEF TransportInv
<1>2. TransportInv /\ [TransportNext]_vars => TransportInv'
  <2> SUFFICES ASSUME TransportInv, [TransportNext]_vars PROVE TransportInv'
    OBVIOUS
  <2>1. TransportTypeOK' /\ HeldWhileExchanging'
    BY TypeStep DEF TransportInv
  <2>2. ReplyPaired'
    BY PairedStep DEF TransportInv
  <2>3. Owned'
    BY OwnedStep
  <2> QED BY <2>1, <2>2, <2>3 DEF TransportInv, Owned
<1> QED BY <1>1, <1>2, PTL DEF TransportSpec

\* Type correctness of the connection manager and its clients.
THEOREM TransportTypeCorrect == TransportSpec => []TransportTypeOK
<1>1. TransportInv => TransportTypeOK
  BY DEF TransportInv
<1> QED BY <1>1, TransportInvariant, PTL

\* Replies on the shared channel t.ret reach the client that asked.
THEOREM ReplyPairedAlways == TransportSpec => []ReplyPaired
<1>1. TransportInv => ReplyPaired
  BY DEF TransportInv
<1> QED BY <1>1, TransportInvariant, PTL

\* A client in Exchange has an open connection of the type it asked for.
THEOREM LentUsableAlways == TransportSpec => []LentUsable
<1>1. TransportInv => LentUsable
  BY DEF TransportInv, LentUsable, HeldWhileExchanging, Holding, ReachableOpen
<1> QED BY <1>1, TransportInvariant, PTL

\* No connection is ever in two places: closing in the background is safe.
THEOREM SinglePlaceAlways == TransportSpec => []SinglePlace
<1>1. TransportInv => SinglePlace
  <2> SUFFICES ASSUME TransportInv PROVE SinglePlace
    OBVIOUS
  <2>1. ASSUME NEW t \in Types
        PROVE  /\ conns[t] \in Seq(Conns)
               /\ DOMAIN conns[t] = 1..Len(conns[t])
               /\ \A k : k \in Range(conns[t]) => \E i \in 1..Len(conns[t]) : k = conns[t][i]
    <3>1. conns[t] \in Seq(Conns)
      BY DEF TransportInv, TransportTypeOK
    <3> QED BY <3>1, StackFacts, LenProperties
  <2>2. ASSUME NEW k \in Conns
        PROVE  \A p, q \in PlacesOf(k) : p = q
    <3>1. k # NoConn
      BY TransportAssumption
    <3>2. InPool(k) => /\ offer # k
                       /\ k \notin closing
                       /\ \A c \in Clients : held[c] # k
      <4> SUFFICES ASSUME InPool(k)
                   PROVE  offer # k /\ k \notin closing /\ \A c \in Clients : held[c] # k
        OBVIOUS
      <4>1. PICK t \in Types : k \in Range(conns[t])
        BY DEF InPool
      <4>2. PICK i \in 1..Len(conns[t]) : k = conns[t][i]
        BY <2>1, <4>1, Zenon
      <4> QED BY <4>2 DEF TransportInv, Disjoint
    <3>3. offer = k => k \notin closing /\ \A c \in Clients : held[c] # k
      BY <3>1 DEF TransportInv, Disjoint
    <3>4. \A c, d \in Clients : held[c] = k /\ held[d] = k => c = d
      BY <3>1 DEF TransportInv, Disjoint
    <3>5. \A c \in Clients : held[c] = k => k \notin closing
      BY <3>1 DEF TransportInv, Disjoint
    <3> QED BY <3>2, <3>3, <3>4, <3>5 DEF PlacesOf
  <2>3. ASSUME NEW t \in Types, NEW u \in Types,
               NEW i \in DOMAIN conns[t], NEW j \in DOMAIN conns[u],
               conns[t][i] = conns[u][j]
        PROVE  t = u /\ i = j
    <3>1. i \in 1..Len(conns[t]) /\ j \in 1..Len(conns[u])
      BY <2>1
    <3>2. t = u
      BY <2>3, <3>1 DEF TransportInv, ReachableOpen
    <3> QED BY <2>3, <3>1, <3>2 DEF TransportInv, Disjoint
  <2> QED BY <2>2, <2>3 DEF SinglePlace
<1> QED BY <1>1, TransportInvariant, PTL

=============================================================================
