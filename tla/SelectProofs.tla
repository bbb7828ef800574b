----------------------------- MODULE SelectProofs ----------------------------
(****************************************************************************)
(* Proofs about Select, for any number of callers and hosts: type           *)
(* correctness, that spray always answers, that a host which was up all the *)
(* time is found by the policies that look at the hosts in turn, and that a *)
(* call during which no host flips returns what its policy says.            *)
(*                                                                          *)
(* What makes the third one inductive: a host a loop has passed was down    *)
(* when the loop looked at it, so a host still counted as steadily up is    *)
(* ahead of the loop, however hosts flip behind it.  The last one adds where*)
(* the round robin loop stands on its way around the pool.                  *)
(****************************************************************************)
EXTENDS Select, TLAPS

\* The steady hosts are as their name says.
HistoryOK(c) ==
  /\ \A h \in steadyUp[c] : ~down[h]
  /\ \A h \in steadyDown[c] : down[h]

\* Where the caller is agrees with the configuration, and its index with the pool.
PlaceOK(c) ==
  /\ pc[c] = "single" => poolLen = 1
  /\ pc[c] \in SupportedPolicies => policy = pc[c]
  /\ pc[c] \in {"robin", "final"} => policy = "round_robin" /\ host[c] \in Hosts
  /\ pc[c] \in {"scan", "sequential"} => i[c] < poolLen
  /\ pc[c] = "scan" => host[c] = NoHost

\* The hosts a loop has passed are not steadily up; its candidate is not steadily down.
Ahead(c) == \A h \in steadyUp[c] : i[c] <= h
LoopOK(c) ==
  /\ pc[c] \in {"scan", "sequential"} => Ahead(c)
  /\ pc[c] = "random" => IF host[c] = NoHost THEN Ahead(c) ELSE host[c] \notin steadyDown[c]

\* What a call may have returned.
DoneOK(c) ==
  pc[c] = "done" =>
    /\ spray => result[c] # NoHost
    /\ Failed(c) /\ policy \in {"random", "sequential"} => steadyUp[c] = {}

CallerOK(c) == HistoryOK(c) /\ PlaceOK(c) /\ LoopOK(c) /\ DoneOK(c)
SelectInv == SelectTypeOK /\ \A c \in Callers : CallerOK(c)

\* The hosts are numbers, none of them NoHost.
LEMMA HostsFact ==
  ASSUME SelectTypeOK
  PROVE  /\ poolLen \in Nat \ {0}
         /\ Hosts \subseteq 0..PoolMax - 1
         /\ \A h \in Hosts : h \in Int /\ 0 <= h /\ h < poolLen
         /\ NoHost \notin Hosts
BY SelectAssumption DEF SelectTypeOK, Hosts

\* Select begins with the invariant.
LEMMA SelectInvInit == SelectInit => SelectInv
<1> SUFFICES ASSUME SelectInit PROVE SelectInv
  OBVIOUS
<1>1. SelectTypeOK
  BY SelectAssumption DEF SelectInit, SelectTypeOK, Hosts, PCs
<1>2. ASSUME NEW c \in Callers PROVE CallerOK(c)
  BY DEF SelectInit, CallerOK, HistoryOK, PlaceOK, LoopOK, DoneOK, SupportedPolicies
<1> QED
  BY <1>1, <1>2 DEF SelectInv

-----------------------------------------------------------------------------
\* A host flips: it is no longer steady for anybody.
LEMMA FlipInv ==
  ASSUME SelectInv, NEW f \in 0..PoolMax - 1, Flip(f)
  PROVE  SelectInv'
<1>1. SelectTypeOK'
  BY DEF SelectInv, SelectTypeOK, Flip, config, Hosts
<1>2. ASSUME NEW c \in Callers PROVE CallerOK(c)'
  <2>1. /\ steadyUp'[c] = steadyUp[c] \ {f} /\ steadyDown'[c] = steadyDown[c] \ {f}
        /\ \A h \in Hosts \ {f} : down'[h] = down[h]
        /\ UNCHANGED <<poolLen, policy, spray, pc, i, host, result>>
    BY <1>2 DEF SelectInv, SelectTypeOK, Flip, config
  <2>2. HistoryOK(c)'
    BY <1>2, <2>1 DEF SelectInv, SelectTypeOK, CallerOK, HistoryOK
  <2>3. PlaceOK(c)'
    BY <1>2, <2>1 DEF SelectInv, CallerOK, PlaceOK, Hosts
  <2>4. LoopOK(c)'
    BY <1>2, <2>1 DEF SelectInv, CallerOK, LoopOK, Ahead
  <2>5. DoneOK(c)'
    BY <1>2, <2>1 DEF SelectInv, CallerOK, DoneOK, Failed
  <2> QED
    BY <2>2, <2>3, <2>4, <2>5 DEF CallerOK
<1> QED
  BY <1>1, <1>2 DEF SelectInv

-----------------------------------------------------------------------------
\* The steps of a caller

CallerAction(c) == Call(c) \/ CallerStep(c)

\* What a step of c leaves alone.
Elsewhere(c) ==
  /\ UNCHANGED <<config, down>>
  /\ \A d \in Callers \ {c} :
       /\ pc'[d] = pc[d] /\ i'[d] = i[d] /\ host'[d] = host[d] /\ first'[d] = first[d]
       /\ result'[d] = result[d] /\ steadyUp'[d] = steadyUp[d] /\ steadyDown'[d] = steadyDown[d]

\* The step keeps the types and c's part of the invariant.
Keeps(c) == Elsewhere(c) /\ SelectTypeOK' /\ CallerOK(c)'

\* A step of one caller keeps the other callers' part of the invariant.
LEMMA OthersKeep ==
  ASSUME SelectInv, NEW c \in Callers, Elsewhere(c), NEW d \in Callers, d # c
  PROVE  CallerOK(d)'
<1>1. /\ pc'[d] = pc[d] /\ i'[d] = i[d] /\ host'[d] = host[d] /\ result'[d] = result[d]
      /\ steadyUp'[d] = steadyUp[d] /\ steadyDown'[d] = steadyDown[d]
      /\ UNCHANGED <<poolLen, policy, spray, down>>
  BY DEF Elsewhere, config
<1>2. HistoryOK(d)' /\ LoopOK(d)'
  BY <1>1 DEF SelectInv, CallerOK, HistoryOK, LoopOK, Ahead
<1>3. PlaceOK(d)' /\ DoneOK(d)'
  BY <1>1 DEF SelectInv, CallerOK, PlaceOK, DoneOK, Failed, Hosts
<1> QED
  BY <1>2, <1>3 DEF CallerOK

\* Returning h is right when h is a host up now, or a host or nil and no host is steadily up.
LEMMA ReturnsRight ==
  ASSUME SelectInv, NEW c \in Callers, NEW h \in Hosts \cup {NoHost}, Returns(c, h),
         UNCHANGED <<config, down, robin, i, host, first, history>>,
         spray => h # NoHost,
         policy \in {"random", "sequential"} /\ h \in steadyDown[c] \cup {NoHost} => steadyUp[c] = {}
  PROVE  Keeps(c)
<1>1. /\ pc' \in [Callers -> PCs] /\ result' \in [Callers -> Hosts \cup {NoHost}]
      /\ pc'[c] = "done" /\ result'[c] = h
  BY DEF SelectInv, SelectTypeOK, Returns, PCs
<1>2. Elsewhere(c)
  BY DEF SelectInv, SelectTypeOK, Returns, Elsewhere, history
<1>3. SelectTypeOK'
  BY <1>1 DEF SelectInv, SelectTypeOK, config, history, Hosts
<1>4. CallerOK(c)'
  <2>1. HistoryOK(c)'
    BY DEF SelectInv, CallerOK, HistoryOK, history
  <2>2. PlaceOK(c)' /\ LoopOK(c)'
    BY <1>1 DEF PlaceOK, LoopOK, SupportedPolicies
  <2>3. DoneOK(c)'
    BY <1>1 DEF DoneOK, Failed, history, config
  <2> QED
    BY <2>1, <2>2, <2>3 DEF CallerOK
<1> QED
  BY <1>2, <1>3, <1>4 DEF Keeps

\* Giving up, with spray or without, is right when no host was up throughout.
LEMMA NoneFoundRight ==
  ASSUME SelectInv, NEW c \in Callers, NoneFound(c),
         UNCHANGED <<config, down, robin, i, host, first, history>>,
         policy \in {"random", "sequential"} => steadyUp[c] = {}
  PROVE  Keeps(c)
<1>1. PICK h \in IF spray THEN Hosts ELSE {NoHost} : Returns(c, h)
  BY DEF NoneFound
<1>2. h \in Hosts \cup {NoHost} /\ (spray => h # NoHost)
  BY HostsFact DEF SelectInv
<1> QED
  BY <1>1, <1>2, ReturnsRight

\* A loop that has come to the last host, and finds it down, has no steady host ahead.
LEMMA NoneAhead ==
  ASSUME SelectInv, NEW c \in Callers, i[c] \in Int, Ahead(c),
         i[c] >= poolLen \/ (i[c] + 1 = poolLen /\ down[i[c]])
  PROVE  steadyUp[c] = {}
<1> SUFFICES ASSUME NEW h \in steadyUp[c] PROVE FALSE
  OBVIOUS
<1>1. h \in Hosts /\ ~down[h] /\ i[c] <= h
  BY DEF SelectInv, SelectTypeOK, CallerOK, HistoryOK, Ahead
<1>2. h \in Int /\ h < poolLen /\ poolLen \in Int
  BY <1>1, HostsFact DEF SelectInv
<1> QED
  BY <1>1, <1>2

\* A loop that passes a host it found down still has the steady ones ahead.
LEMMA StaysAhead ==
  ASSUME SelectInv, NEW c \in Callers, i[c] \in Int, Ahead(c), down[i[c]]
  PROVE  \A h \in steadyUp[c] : i[c] + 1 <= h
<1> SUFFICES ASSUME NEW h \in steadyUp[c] PROVE i[c] + 1 <= h
  OBVIOUS
<1>1. h \in Hosts /\ ~down[h] /\ i[c] <= h
  BY DEF SelectInv, SelectTypeOK, CallerOK, HistoryOK, Ahead
<1>2. h \in Int
  BY <1>1, HostsFact DEF SelectInv
<1> QED
  BY <1>1, <1>2

\* A call begins with every host ahead of its loop.
LEMMA CallInv ==
  ASSUME SelectInv, NEW c \in Callers, Call(c)
  PROVE  Keeps(c)
<1>1. poolLen \in Nat \ {0} /\ 0 \in Hosts
  BY HostsFact DEF SelectInv, Hosts
<1>2. Elsewhere(c)
  BY DEF SelectInv, SelectTypeOK, Call, Elsewhere
<1>3. SelectTypeOK'
  BY <1>1 DEF SelectInv, SelectTypeOK, Call, PCs, config, Hosts
<1>4. /\ pc'[c] = (IF poolLen = 1 THEN "single" ELSE "scan") /\ i'[c] = 0
      /\ host'[c] = NoHost
      /\ steadyUp'[c] = {h \in Hosts : ~down[h]} /\ steadyDown'[c] = {h \in Hosts : down[h]}
      /\ UNCHANGED <<poolLen, policy, spray, down>>
  BY DEF SelectInv, SelectTypeOK, Call, config
<1>5. HistoryOK(c)'
  BY <1>4 DEF HistoryOK
<1>6. PlaceOK(c)' /\ DoneOK(c)'
  BY <1>1, <1>4 DEF PlaceOK, DoneOK, SupportedPolicies
<1>7. LoopOK(c)'
  BY <1>4, HostsFact DEF SelectInv, LoopOK, Ahead
<1> QED
  BY <1>2, <1>3, <1>5, <1>6, <1>7 DEF Keeps, CallerOK

\* The shortcut for a pool of one host.
LEMMA SingleInv ==
  ASSUME SelectInv, NEW c \in Callers, Single(c)
  PROVE  Keeps(c)
<1> DEFINE h == IF down[0] /\ ~spray THEN NoHost ELSE 0
<1>1. poolLen = 1 /\ Hosts = {0}
  BY DEF SelectInv, CallerOK, PlaceOK, Single, Hosts
<1>2. h \in Hosts \cup {NoHost} /\ (spray => h # NoHost)
  BY <1>1, HostsFact DEF SelectInv
<1>3. ASSUME h \in steadyDown[c] \cup {NoHost} PROVE steadyUp[c] = {}
  <2>1. down[0]
    BY <1>1, <1>3, HostsFact DEF SelectInv, CallerOK, HistoryOK
  <2> QED
    BY <1>1, <2>1 DEF SelectInv, SelectTypeOK, CallerOK, HistoryOK
<1>4. Returns(c, h) /\ UNCHANGED <<config, down, robin, i, host, first, history>>
  BY DEF Single
<1> HIDE DEF h
<1> QED
  BY <1>2, <1>3, <1>4, ReturnsRight


\* Select's first loop and Sequential's only one go on past a host that is down.
LEMMA DownInv ==
  ASSUME SelectInv, NEW c \in Callers, ScanDown(c) \/ SequentialDown(c)
  PROVE  Keeps(c)
<1>1. i[c] \in Int /\ i[c] >= 0 /\ poolLen \in Nat \ {0}
  BY HostsFact DEF SelectInv, SelectTypeOK
<1>2. /\ pc[c] \in {"scan", "sequential"} /\ down[i[c]]
      /\ UNCHANGED <<config, down, robin, host, first, history>>
      /\ IF i[c] + 1 < poolLen
           THEN i' = [i EXCEPT ![c] = @ + 1] /\ UNCHANGED <<pc, result>>
           ELSE NoneFound(c) /\ UNCHANGED i
  BY DEF ScanDown, SequentialDown
<1>3. i[c] < poolLen /\ Ahead(c)
  BY <1>2 DEF SelectInv, CallerOK, PlaceOK, LoopOK
<1>4. CASE i[c] + 1 < poolLen
  <2>1. i' = [i EXCEPT ![c] = @ + 1] /\ UNCHANGED <<pc, result>>
    BY <1>2, <1>4
  <2>2. i' \in [Callers -> 0..poolLen] /\ i'[c] = i[c] + 1
    BY <1>1, <1>4, <2>1 DEF SelectInv, SelectTypeOK
  <2>3. Elsewhere(c)
    BY <1>2, <2>1 DEF SelectInv, SelectTypeOK, Elsewhere, history
  <2>4. SelectTypeOK'
    BY <1>2, <2>1, <2>2 DEF SelectInv, SelectTypeOK, config, history, Hosts
  <2>5. HistoryOK(c)'
    BY <1>2 DEF SelectInv, CallerOK, HistoryOK, history
  <2>6. PlaceOK(c)' /\ DoneOK(c)'
    BY <1>2, <1>4, <2>1, <2>2 DEF SelectInv, CallerOK, PlaceOK, DoneOK, config, Hosts
  <2>7. LoopOK(c)'
    <3>1. \A h \in steadyUp[c] : i[c] + 1 <= h
      BY <1>1, <1>2, <1>3, StaysAhead
    <3> QED
      BY <1>2, <2>1, <2>2, <3>1 DEF LoopOK, Ahead, history
  <2> QED
    BY <2>3, <2>4, <2>5, <2>6, <2>7 DEF Keeps, CallerOK
<1>5. CASE ~(i[c] + 1 < poolLen)
  <2>1. steadyUp[c] = {}
    BY <1>1, <1>2, <1>3, <1>5, NoneAhead
  <2> QED
    BY <1>2, <1>5, <2>1, NoneFoundRight
<1> QED
  BY <1>4, <1>5

\* A host that is up sends the caller from the first loop to its policy.
LEMMA ScanUpInv ==
  ASSUME SelectInv, NEW c \in Callers, ScanUp(c)
  PROVE  Keeps(c)
<1>1. poolLen \in Nat \ {0} /\ host[c] = NoHost
  BY HostsFact DEF SelectInv, CallerOK, PlaceOK, ScanUp
<1>2. policy \in SupportedPolicies /\ policy \in PCs
  BY SelectAssumption DEF SelectInv, SelectTypeOK, SupportedPolicies, PCs
<1>3. Elsewhere(c)
  BY DEF SelectInv, SelectTypeOK, ScanUp, Elsewhere, history
<1>4. SelectTypeOK'
  BY <1>1, <1>2 DEF SelectInv, SelectTypeOK, ScanUp, config, history, Hosts
<1>5. /\ pc'[c] = policy /\ i'[c] = 0
      /\ UNCHANGED <<poolLen, policy, spray, down, host, steadyUp, steadyDown>>
  BY DEF SelectInv, SelectTypeOK, ScanUp, config, history
<1>6. HistoryOK(c)'
  BY <1>5 DEF SelectInv, CallerOK, HistoryOK
<1>7. PlaceOK(c)' /\ DoneOK(c)'
  BY <1>1, <1>2, <1>5 DEF PlaceOK, DoneOK, SupportedPolicies
<1>8. LoopOK(c)'
  <2>1. \A h \in steadyUp[c] : 0 <= h
    BY HostsFact DEF SelectInv, SelectTypeOK
  <2> QED
    BY <1>1, <1>5, <2>1 DEF LoopOK, Ahead
<1> QED
  BY <1>3, <1>4, <1>6, <1>7, <1>8 DEF Keeps, CallerOK

\* The sequential policy stops at a host that is up.
LEMMA SequentialUpInv ==
  ASSUME SelectInv, NEW c \in Callers, SequentialUp(c)
  PROVE  Keeps(c)
<1>1. i[c] \in Hosts
  BY HostsFact DEF SelectInv, SelectTypeOK, CallerOK, PlaceOK, SequentialUp, Hosts
<1>2. i[c] \notin steadyDown[c] \cup {NoHost}
  BY <1>1, HostsFact DEF SelectInv, CallerOK, HistoryOK, SequentialUp
<1> QED
  BY <1>1, <1>2, ReturnsRight DEF SequentialUp

-----------------------------------------------------------------------------
\* Random: its candidate was up when it was taken.
LEMMA RandomStepInv ==
  ASSUME SelectInv, NEW c \in Callers, RandomStep(c)
  PROVE  Keeps(c)
<1>1. i[c] \in Int /\ i[c] >= 0 /\ poolLen \in Nat \ {0} /\ i[c] < poolLen /\ i[c] \in Hosts
  BY HostsFact DEF SelectInv, SelectTypeOK, RandomStep, Hosts
<1>2. /\ pc[c] = "random" /\ i' = [i EXCEPT ![c] = @ + 1]
      /\ UNCHANGED <<config, down, robin, pc, first, result, history>>
  BY DEF RandomStep
<1>3. PICK h \in IF down[i[c]] THEN {host[c]}
                 ELSE IF host[c] = NoHost THEN {i[c]} ELSE {host[c], i[c]} :
               host' = [host EXCEPT ![c] = h]
  BY Zenon DEF RandomStep
<1>4. h \in Hosts \cup {NoHost}
  BY <1>1, <1>3 DEF SelectInv, SelectTypeOK
<1>5. /\ i' \in [Callers -> 0..poolLen] /\ i'[c] = i[c] + 1
      /\ host' \in [Callers -> Hosts \cup {NoHost}] /\ host'[c] = h
  BY <1>1, <1>2, <1>3, <1>4 DEF SelectInv, SelectTypeOK
<1>6. Elsewhere(c)
  BY <1>2, <1>3 DEF SelectInv, SelectTypeOK, Elsewhere, history
<1>7. SelectTypeOK'
  BY <1>2, <1>5 DEF SelectInv, SelectTypeOK, config, history, Hosts
<1>8. HistoryOK(c)'
  BY <1>2 DEF SelectInv, CallerOK, HistoryOK, history
<1>9. PlaceOK(c)' /\ DoneOK(c)'
  BY <1>2 DEF SelectInv, CallerOK, PlaceOK, DoneOK, SupportedPolicies, config
<1>10. LoopOK(c)'
  <2>1. CASE h = NoHost
    <3>1. host[c] = NoHost /\ down[i[c]]
      BY <1>1, <1>3, <2>1, HostsFact DEF SelectInv
    <3>2. \A g \in steadyUp[c] : i[c] + 1 <= g
      BY <1>1, <1>2, <3>1, StaysAhead DEF SelectInv, CallerOK, LoopOK
    <3> QED
      BY <1>2, <1>5, <2>1, <3>2 DEF LoopOK, Ahead, history
  <2>2. CASE h # NoHost
    <3>1. h \notin steadyDown[c]
      BY <1>2, <1>3, <2>2 DEF SelectInv, CallerOK, LoopOK, HistoryOK
    <3> QED
      BY <1>2, <1>5, <2>2, <3>1 DEF LoopOK, history
  <2> QED
    BY <2>1, <2>2
<1> QED
  BY <1>6, <1>7, <1>8, <1>9, <1>10 DEF Keeps, CallerOK

\* The random policy has looked at every host when its loop ends.
LEMMA RandomEndInv ==
  ASSUME SelectInv, NEW c \in Callers, RandomEnd(c)
  PROVE  Keeps(c)
<1>1. i[c] = poolLen /\ i[c] \in Int /\ host[c] \in Hosts \cup {NoHost}
  BY HostsFact DEF SelectInv, SelectTypeOK, RandomEnd
<1>2. IF host[c] = NoHost THEN Ahead(c) ELSE host[c] \notin steadyDown[c]
  BY DEF SelectInv, CallerOK, LoopOK, RandomEnd
<1>3. CASE host[c] = NoHost
  <2>1. steadyUp[c] = {}
    BY <1>1, <1>2, <1>3, NoneAhead
  <2> QED
    BY <1>3, <2>1, NoneFoundRight DEF RandomEnd
<1>4. CASE host[c] # NoHost
  BY <1>1, <1>2, <1>4, ReturnsRight DEF RandomEnd
<1> QED
  BY <1>3, <1>4

-----------------------------------------------------------------------------
\* RoundRobin: whatever the counter has wrapped to, it points into the pool.
LEMMA ModuloInPool ==
  ASSUME SelectInv, NEW n \in Nat
  PROVE  n % poolLen \in Hosts
<1>1. poolLen \in Nat \ {0}
  BY HostsFact DEF SelectInv
<1> QED
  BY <1>1 DEF Hosts

\* A step of the round robin loop leaves the caller at a host of the pool.
LEMMA RobinInv ==
  ASSUME SelectInv, NEW c \in Callers, RobinDraw(c) \/ RobinLoop(c)
  PROVE  Keeps(c)
<1>1. poolLen \in Nat \ {0} /\ i[c] \in Int /\ i[c] >= 0
  BY HostsFact DEF SelectInv, SelectTypeOK
<1>2. /\ UNCHANGED <<config, down, result, history>>
      /\ pc' \in [Callers -> PCs] /\ pc'[c] \in {"robin", "final"} /\ policy = "round_robin"
  BY DEF RobinDraw, RobinLoop, SelectInv, SelectTypeOK, CallerOK, PlaceOK, SupportedPolicies, PCs
<1>3. /\ robin' \in 0..RobinSpan - 1 /\ first' \in [Callers -> Hosts]
      /\ host' \in [Callers -> Hosts \cup {NoHost}] /\ host'[c] \in Hosts
      /\ i' \in [Callers -> 0..poolLen]
  <2>1. CASE RobinDraw(c)
    <3>1. robin' \in 0..RobinSpan - 1 /\ robin' \in Nat
      BY <2>1, SelectAssumption DEF SelectInv, SelectTypeOK, RobinDraw
    <3>2. robin' % poolLen \in Hosts
      BY <3>1, ModuloInPool
    <3> QED
      BY <1>1, <2>1, <3>1, <3>2 DEF SelectInv, SelectTypeOK, RobinDraw
  <2>2. CASE RobinLoop(c)
    <3>1. first[c] + i[c] \in Nat
      BY <1>1 DEF SelectInv, SelectTypeOK, Hosts
    <3>2. (first[c] + i[c]) % poolLen \in Hosts
      BY <3>1, ModuloInPool
    <3>3. host[c] \in Hosts
      BY <2>2 DEF SelectInv, CallerOK, PlaceOK, RobinLoop
    <3>4. CASE down[host[c]] /\ i[c] < poolLen
      BY <1>1, <2>2, <3>2, <3>4 DEF SelectInv, SelectTypeOK, RobinLoop
    <3>5. CASE ~(down[host[c]] /\ i[c] < poolLen)
      BY <2>2, <3>3, <3>5 DEF SelectInv, SelectTypeOK, RobinLoop
    <3> QED
      BY <3>4, <3>5
  <2> QED
    BY <2>1, <2>2
<1>4. Elsewhere(c)
  BY DEF SelectInv, SelectTypeOK, RobinDraw, RobinLoop, Elsewhere, history
<1>5. SelectTypeOK'
  BY <1>2, <1>3 DEF SelectInv, SelectTypeOK, config, history, Hosts
<1>6. HistoryOK(c)'
  BY <1>2 DEF SelectInv, CallerOK, HistoryOK, history
<1>7. PlaceOK(c)' /\ LoopOK(c)' /\ DoneOK(c)'
  BY <1>2, <1>3 DEF PlaceOK, LoopOK, DoneOK, SupportedPolicies, config, Hosts
<1> QED
  BY <1>4, <1>5, <1>6, <1>7 DEF Keeps, CallerOK

\* The round robin policy looks at the host it ended on once more.
LEMMA RobinEndInv ==
  ASSUME SelectInv, NEW c \in Callers, RobinEnd(c)
  PROVE  Keeps(c)
<1>1. policy = "round_robin" /\ host[c] \in Hosts /\ host[c] # NoHost
  BY HostsFact DEF SelectInv, CallerOK, PlaceOK, RobinEnd
<1>2. CASE down[host[c]]
  BY <1>1, <1>2, NoneFoundRight DEF RobinEnd
<1>3. CASE ~down[host[c]]
  BY <1>1, <1>3, ReturnsRight DEF RobinEnd
<1> QED
  BY <1>2, <1>3

\* Spray as the policy looks at no host.
LEMMA SprayPickInv ==
  ASSUME SelectInv, NEW c \in Callers, SprayPick(c)
  PROVE  Keeps(c)
<1>1. policy = "spray"
  BY DEF SelectInv, CallerOK, PlaceOK, SprayPick, SupportedPolicies
<1>2. PICK h \in Hosts : Returns(c, h)
  BY DEF SprayPick
<1>3. h # NoHost
  BY HostsFact DEF SelectInv
<1> QED
  BY <1>1, <1>2, <1>3, ReturnsRight DEF SprayPick

-----------------------------------------------------------------------------
\* Every step keeps the invariant.
LEMMA SelectInvStep ==
  ASSUME SelectInv, [SelectNext]_vars
  PROVE  SelectInv'
<1>1. ASSUME NEW c \in Callers, CallerAction(c) PROVE SelectInv'
  <2>1. Keeps(c)
    BY <1>1, CallInv, SingleInv, ScanUpInv, DownInv, RandomStepInv, RandomEndInv, RobinInv,
       RobinEndInv, SequentialUpInv, SprayPickInv DEF CallerAction, CallerStep
  <2>2. \A d \in Callers \ {c} : CallerOK(d)'
    BY <2>1, OthersKeep DEF Keeps
  <2> QED
    BY <2>1, <2>2 DEF Keeps, SelectInv
<1>2. CASE RobinElsewhere \/ UNCHANGED vars
  <2>0. /\ UNCHANGED <<config, down, pc, i, host, first, result, history>>
        /\ robin' = robin \/ robin' = (robin + 1) % RobinSpan
    BY <1>2 DEF RobinElsewhere, vars
  <2>1. SelectTypeOK'
    <3>1. robin' \in 0..RobinSpan - 1
      BY <2>0, SelectAssumption DEF SelectInv, SelectTypeOK
    <3> QED
      BY <2>0, <3>1 DEF SelectInv, SelectTypeOK, config, history, Hosts
  <2>2. ASSUME NEW c \in Callers PROVE CallerOK(c)'
    <3>1. HistoryOK(c)' /\ LoopOK(c)'
      BY <2>0, <2>2 DEF SelectInv, CallerOK, HistoryOK, LoopOK, Ahead, history
    <3>2. PlaceOK(c)' /\ DoneOK(c)'
      BY <2>0, <2>2 DEF SelectInv, CallerOK, PlaceOK, DoneOK, Failed, config, history, Hosts
    <3> QED
      BY <3>1, <3>2 DEF CallerOK
  <2> QED
    BY <2>1, <2>2 DEF SelectInv
<1> QED
  BY <1>1, <1>2, FlipInv DEF SelectNext, CallerAction

\* The invariant always holds.
LEMMA SelectInvAlways == SelectSpec => []SelectInv
BY SelectInvInit, SelectInvStep, PTL DEF SelectSpec

\* Type correctness: a call returns a host of the pool or nil, and the round robin index,
\* wrapped or not, stays in the pool.
THEOREM SelectTypeCorrect == SelectSpec => []SelectTypeOK
<1>1. SelectInv => SelectTypeOK
  BY DEF SelectInv
<1> QED
  BY <1>1, SelectInvAlways, PTL

\* With spray configured, HealthCheck.Select never returns nil.
THEOREM SprayAnswersAlways == SelectSpec => []SprayAnswers
<1>1. SelectInv => SprayAnswers
  BY DEF SelectInv, CallerOK, DoneOK, SprayAnswers
<1> QED
  BY <1>1, SelectInvAlways, PTL

\* The random and the sequential policy (src/policy.go) miss no host that was up from the
\* start of the call to its end, however the others flip under the loops.
THEOREM SteadyHostFoundAlways == SelectSpec => []SteadyHostFound
<1>1. SelectInv => SteadyHostFound
  BY DEF SelectInv, CallerOK, DoneOK, SteadyHostFound, Failed
<1> QED
  BY <1>1, SelectInvAlways, PTL

-----------------------------------------------------------------------------
\* Calls during which no host flips

Quiet(c) == steadyUp[c] \cup steadyDown[c] = Hosts

\* The round robin loop stands i - 1 places after the host it drew, and none of the places
\* it has passed is steadily up; it ends early only at a host it saw up.
RobinOK(c) ==
  pc[c] \in {"robin", "final"} =>
    /\ i[c] \in 1..poolLen
    /\ host[c] = (first[c] + (i[c] - 1)) % poolLen
    /\ \A k \in 0..i[c] - 2 : (first[c] + k) % poolLen \notin steadyUp[c]
    /\ pc[c] = "final" => i[c] = poolLen \/ host[c] \notin steadyDown[c]

\* A policy is asked only after the scan saw a host up.
SomeUp(c) == pc[c] \in SupportedPolicies \cup {"robin", "final"} => steadyDown[c] # Hosts

ExactOK(c) == pc[c] = "done" /\ Quiet(c) => result[c] \in Expected(c, steadyUp[c])

QuietOK(c) == RobinOK(c) /\ SomeUp(c) /\ ExactOK(c)
QuietInv == \A c \in Callers : QuietOK(c)

\* What Min chooses.
LEMMA MinIs ==
  ASSUME NEW S \in SUBSET Int, NEW m \in S, \A y \in S : m <= y
  PROVE  Min(S) = m
<1>1. \E x \in S : \A y \in S : x <= y
  OBVIOUS
<1>2. Min(S) \in S /\ \A y \in S : Min(S) <= y
  BY <1>1, Zenon DEF Min
<1>3. Min(S) \in Int /\ m \in Int /\ Min(S) <= m /\ m <= Min(S)
  BY <1>2, Zenon
<1> QED
  BY <1>3

\* Round robin order, by the first place after the start whose host is up.
LEMMA NextUpIs ==
  ASSUME poolLen \in Nat \ {0}, NEW up, NEW start \in Nat, NEW p \in 0..poolLen - 1,
         (start + p) % poolLen \in up,
         \A k \in 0..p - 1 : (start + k) % poolLen \notin up
  PROVE  NextUp(up, start) = (start + p) % poolLen
<1> DEFINE K == {k \in 0..poolLen - 1 : (start + k) % poolLen \in up}
<1>1. p \in K /\ K \in SUBSET Int
  OBVIOUS
<1>2. \A k \in K : p <= k
  OBVIOUS
<1>3. Min(K) = p
  BY <1>1, <1>2, MinIs, Zenon
<1> QED
  BY <1>3, Zenon DEF NextUp

\* Going once around the pool from any start meets every host.
LEMMA AllAround ==
  ASSUME NEW n \in Nat \ {0}, NEW start \in 0..n - 1, NEW h \in 0..n - 1
  PROVE  \E k \in 0..n - 1 : (start + k) % n = h
<1>1. CASE h >= start
  <2>1. h - start \in 0..n - 1 /\ start + (h - start) = h /\ h % n = h
    BY <1>1
  <2> QED
    BY <2>1, Zenon
<1>2. CASE h < start
  <2>1. h + n - start \in 0..n - 1 /\ start + (h + n - start) = h + n /\ (h + n) % n = h
    BY <1>2
  <2> QED
    BY <2>1
<1> QED
  BY <1>1, <1>2

\* The callers begin with the invariant.
LEMMA QuietInvInit == SelectInit => QuietInv
BY DEF SelectInit, QuietInv, QuietOK, RobinOK, SomeUp, ExactOK, SupportedPolicies

\* A host that flips is steady for nobody any more, and no call is quiet.
LEMMA FlipQuiet ==
  ASSUME SelectInv, QuietInv, NEW f \in 0..PoolMax - 1, Flip(f)
  PROVE  QuietInv'
<1> SUFFICES ASSUME NEW c \in Callers PROVE QuietOK(c)'
  BY DEF QuietInv
<1>1. /\ f \in Hosts /\ Hosts' = Hosts
      /\ steadyUp'[c] = steadyUp[c] \ {f} /\ steadyDown'[c] = steadyDown[c] \ {f}
      /\ UNCHANGED <<poolLen, policy, spray, pc, i, host, first, result>>
  BY DEF SelectInv, SelectTypeOK, Flip, config, Hosts
<1>2. RobinOK(c)'
  BY <1>1 DEF QuietInv, QuietOK, RobinOK
<1>3. SomeUp(c)' /\ ~Quiet(c)'
  BY <1>1 DEF SomeUp, Quiet
<1> QED
  BY <1>2, <1>3 DEF QuietOK, ExactOK

\* Returning h is exact when h is what the policy says of a quiet call.
LEMMA ReturnsExact ==
  ASSUME SelectInv, NEW c \in Callers, NEW h, Returns(c, h), UNCHANGED <<config, first, history>>,
         Quiet(c) => h \in Expected(c, steadyUp[c])
  PROVE  QuietOK(c)'
<1>1. pc'[c] = "done" /\ result'[c] = h
  BY DEF SelectInv, SelectTypeOK, Returns
<1>2. /\ Quiet(c)' <=> Quiet(c)
      /\ Expected(c, steadyUp[c])' = Expected(c, steadyUp[c])
  BY DEF Quiet, Expected, NextUp, Hosts, config, history
<1> QED
  BY <1>1, <1>2 DEF QuietOK, RobinOK, SomeUp, ExactOK, SupportedPolicies

\* Giving up is exact when no host was up throughout.
LEMMA NoneExact ==
  ASSUME SelectInv, NEW c \in Callers, NoneFound(c), UNCHANGED <<config, first, history>>,
         Quiet(c) => steadyUp[c] = {}
  PROVE  QuietOK(c)'
<1>1. PICK h \in IF spray THEN Hosts ELSE {NoHost} : Returns(c, h)
  BY DEF NoneFound
<1>2. Quiet(c) => h \in Expected(c, steadyUp[c])
  BY <1>1 DEF Expected
<1> QED
  BY <1>1, <1>2, ReturnsExact

\* The shortcut for a pool of one host.
LEMMA SingleQuiet ==
  ASSUME SelectInv, NEW c \in Callers, Single(c)
  PROVE  QuietOK(c)'
<1> DEFINE h == IF down[0] /\ ~spray THEN NoHost ELSE 0
<1>1. poolLen = 1 /\ Hosts = {0} /\ first[c] = 0
  BY DEF SelectInv, SelectTypeOK, CallerOK, PlaceOK, Single, Hosts
<1>2. CASE down[0]
  <2>1. steadyUp[c] = {}
    BY <1>1, <1>2 DEF SelectInv, SelectTypeOK, CallerOK, HistoryOK
  <2> QED
    BY <1>1, <1>2, <2>1, ReturnsExact DEF Single, Expected
<1>3. CASE ~down[0]
  <2>1. Quiet(c) => steadyUp[c] = {0}
    BY <1>1, <1>3 DEF Quiet, SelectInv, SelectTypeOK, CallerOK, HistoryOK
  <2>2. Min({0}) = 0
    BY MinIs
  <2>3. NextUp({0}, 0) = 0
    BY <1>1, NextUpIs
  <2>4. policy \in SupportedPolicies
    BY SelectAssumption DEF SelectInv, SelectTypeOK
  <2>5. 0 \in Expected(c, {0})
    BY <1>1, <2>2, <2>3, <2>4 DEF Expected, SupportedPolicies
  <2> QED
    BY <1>3, <2>1, <2>5, ReturnsExact DEF Single
<1> QED
  BY <1>2, <1>3

\* The first loop and the sequential one give up only when nothing is steadily up.
LEMMA DownQuiet ==
  ASSUME SelectInv, QuietInv, NEW c \in Callers, ScanDown(c) \/ SequentialDown(c)
  PROVE  QuietOK(c)'
<1>1. i[c] \in Int /\ i[c] >= 0 /\ poolLen \in Nat \ {0}
  BY HostsFact DEF SelectInv, SelectTypeOK
<1>2. /\ pc[c] \in {"scan", "sequential"} /\ down[i[c]] /\ i[c] < poolLen /\ Ahead(c)
      /\ UNCHANGED <<config, first, history>>
      /\ IF i[c] + 1 < poolLen THEN UNCHANGED <<pc, result>> ELSE NoneFound(c)
  BY DEF ScanDown, SequentialDown, SelectInv, CallerOK, PlaceOK, LoopOK
<1>3. CASE i[c] + 1 < poolLen
  BY <1>2, <1>3 DEF QuietInv, QuietOK, RobinOK, SomeUp, ExactOK, Hosts, config, history
<1>4. CASE ~(i[c] + 1 < poolLen)
  <2>1. steadyUp[c] = {}
    BY <1>1, <1>2, <1>4, NoneAhead
  <2> QED
    BY <1>2, <1>4, <2>1, NoneExact
<1> QED
  BY <1>3, <1>4

\* The host that ends the first loop is up.
LEMMA ScanUpQuiet ==
  ASSUME SelectInv, NEW c \in Callers, ScanUp(c)
  PROVE  QuietOK(c)'
<1>1. pc'[c] = policy /\ policy \in SupportedPolicies
  BY SelectAssumption DEF SelectInv, SelectTypeOK, ScanUp
<1>2. i[c] \in Hosts /\ ~down[i[c]]
  BY HostsFact DEF SelectInv, SelectTypeOK, CallerOK, PlaceOK, ScanUp, Hosts
<1>3. steadyDown[c] # Hosts /\ steadyDown' = steadyDown /\ Hosts' = Hosts
  BY <1>2, Zenon DEF SelectInv, CallerOK, HistoryOK, ScanUp, history, config, Hosts
<1> QED
  BY <1>1, <1>3 DEF QuietOK, RobinOK, SomeUp, ExactOK, SupportedPolicies

\* Sequential stops at the lowest host that is up throughout.
LEMMA SequentialUpQuiet ==
  ASSUME SelectInv, NEW c \in Callers, SequentialUp(c)
  PROVE  QuietOK(c)'
<1>1. policy = "sequential" /\ i[c] \in Hosts /\ ~down[i[c]] /\ Ahead(c)
  BY HostsFact DEF SelectInv, SelectTypeOK, CallerOK, PlaceOK, LoopOK, SequentialUp,
     SupportedPolicies, Hosts
<1>2. ASSUME Quiet(c) PROVE i[c] \in Expected(c, steadyUp[c])
  <2>1. i[c] \in steadyUp[c]
    BY <1>1, <1>2 DEF Quiet, SelectInv, CallerOK, HistoryOK
  <2>2. steadyUp[c] \in SUBSET Int
    BY HostsFact DEF SelectInv, SelectTypeOK
  <2>3. Min(steadyUp[c]) = i[c]
    BY <1>1, <2>1, <2>2, MinIs DEF Ahead
  <2> QED
    BY <1>1, <2>1, <2>3 DEF Expected
<1> QED
  BY <1>2, ReturnsExact DEF SequentialUp

\* Random returns a host that is up throughout.
LEMMA RandomQuiet ==
  ASSUME SelectInv, QuietInv, NEW c \in Callers, RandomStep(c) \/ RandomEnd(c)
  PROVE  QuietOK(c)'
<1>1. CASE RandomStep(c)
  <2>1. /\ pc[c] = "random"
        /\ UNCHANGED <<config, pc, first, result, history>>
    BY <1>1 DEF RandomStep
  <2> QED
    BY <2>1, Zenon DEF QuietInv, QuietOK, RobinOK, SomeUp, ExactOK, Hosts, config, history
<1>2. CASE RandomEnd(c)
  <2>0. pc[c] = "random" /\ i[c] = poolLen
    BY <1>2 DEF RandomEnd
  <2>1. /\ policy = "random" /\ i[c] = poolLen /\ i[c] \in Int /\ host[c] \in Hosts \cup {NoHost}
        /\ IF host[c] = NoHost THEN Ahead(c) ELSE host[c] \notin steadyDown[c]
    <3>1. policy = "random"
      BY <2>0 DEF SelectInv, CallerOK, PlaceOK, SupportedPolicies
    <3>2. i[c] \in Int /\ host[c] \in Hosts \cup {NoHost}
      BY DEF SelectInv, SelectTypeOK
    <3>3. IF host[c] = NoHost THEN Ahead(c) ELSE host[c] \notin steadyDown[c]
      BY <2>0 DEF SelectInv, CallerOK, LoopOK
    <3> QED
      BY <2>0, <3>1, <3>2, <3>3
  <2>2. CASE host[c] = NoHost
    <3>1. Ahead(c)
      BY <2>1, <2>2
    <3>2. steadyUp[c] = {}
      BY <2>1, <3>1, NoneAhead
    <3> QED
      BY <1>2, <2>2, <3>2, NoneExact DEF RandomEnd
  <2>3. CASE host[c] # NoHost
    <3>1. Quiet(c) => host[c] \in Expected(c, steadyUp[c])
      BY <2>1, <2>3 DEF Quiet, Expected
    <3> QED
      BY <1>2, <2>3, <3>1, ReturnsExact DEF RandomEnd
  <2> QED
    BY <2>2, <2>3
<1> QED
  BY <1>1, <1>2

\* The round robin loop leaves behind it only hosts that were down when it looked.
LEMMA RobinDrawQuiet ==
  ASSUME SelectInv, QuietInv, NEW c \in Callers, RobinDraw(c)
  PROVE  QuietOK(c)'
<1>1. poolLen \in Nat \ {0} /\ pc[c] = "round_robin" /\ robin' \in Nat
  BY HostsFact, SelectAssumption DEF SelectInv, SelectTypeOK, RobinDraw
<1>2. /\ pc'[c] = "robin" /\ i'[c] = 1 /\ host'[c] = first'[c]
      /\ first'[c] = robin' % poolLen
      /\ UNCHANGED <<poolLen, steadyUp, steadyDown>> /\ Hosts' = Hosts
  BY DEF SelectInv, SelectTypeOK, RobinDraw, config, history, Hosts
<1>3. first'[c] \in 0..poolLen - 1
  BY <1>1, <1>2, ModuloInPool, Zenon DEF Hosts
<1>4. host'[c] = (first'[c] + (i'[c] - 1)) % poolLen
  BY <1>1, <1>2, <1>3
<1>5. RobinOK(c)'
  <2>1. i'[c] \in 1..poolLen' /\ 0..i'[c] - 2 = {}
    BY <1>1, <1>2
  <2>2. host'[c] = (first'[c] + (i'[c] - 1)) % poolLen'
    BY <1>2, <1>4
  <2> QED
    BY <1>2, <2>1, <2>2 DEF RobinOK
<1>6. SomeUp(c)' /\ ExactOK(c)'
  BY <1>1, <1>2 DEF QuietInv, QuietOK, SomeUp, ExactOK, SupportedPolicies
<1> QED
  BY <1>5, <1>6 DEF QuietOK

\* So is the host it leaves by going on; it ends at one it saw up, or at the last.
LEMMA RobinLoopQuiet ==
  ASSUME SelectInv, QuietInv, NEW c \in Callers, RobinLoop(c)
  PROVE  QuietOK(c)'
<1>1. /\ poolLen \in Nat \ {0} /\ pc[c] = "robin" /\ first[c] \in Nat /\ host[c] \in Hosts
      /\ i[c] \in 1..poolLen /\ host[c] = (first[c] + (i[c] - 1)) % poolLen
      /\ \A k \in 0..i[c] - 2 : (first[c] + k) % poolLen \notin steadyUp[c]
  BY HostsFact DEF SelectInv, SelectTypeOK, CallerOK, PlaceOK, RobinLoop, QuietInv, QuietOK,
     RobinOK, Hosts
<1>2. /\ UNCHANGED <<poolLen, first, steadyUp, steadyDown>> /\ Hosts' = Hosts
      /\ pc'[c] \in {"robin", "final"}
  BY <1>1 DEF SelectInv, SelectTypeOK, RobinLoop, config, history, Hosts
<1>3. SomeUp(c)' /\ ExactOK(c)'
  BY <1>1, <1>2 DEF QuietInv, QuietOK, SomeUp, ExactOK
<1>4. CASE down[host[c]] /\ i[c] < poolLen
  <2>1. i'[c] = i[c] + 1 /\ host'[c] = (first[c] + i[c]) % poolLen /\ pc'[c] = "robin"
    BY <1>1, <1>4 DEF SelectInv, SelectTypeOK, RobinLoop
  <2>2. host[c] \notin steadyUp[c]
    BY <1>4 DEF SelectInv, CallerOK, HistoryOK
  <2>3. \A k \in 0..i[c] - 1 : (first[c] + k) % poolLen \notin steadyUp[c]
    <3> SUFFICES ASSUME NEW k \in 0..i[c] - 1 PROVE (first[c] + k) % poolLen \notin steadyUp[c]
      OBVIOUS
    <3>1. CASE k = i[c] - 1
      BY <1>1, <2>2, <3>1
    <3>2. CASE k # i[c] - 1
      BY <1>1, <3>2
    <3> QED
      BY <3>1, <3>2
  <2>4. i'[c] - 1 = i[c] /\ i'[c] - 2 = i[c] - 1 /\ i'[c] \in 1..poolLen
    BY <1>1, <1>4, <2>1
  <2>5. RobinOK(c)'
    BY <1>2, <2>1, <2>3, <2>4 DEF RobinOK
  <2> QED
    BY <1>3, <2>5 DEF QuietOK
<1>5. CASE ~(down[host[c]] /\ i[c] < poolLen)
  <2>1. i' = i /\ host' = host
    BY <1>5 DEF RobinLoop
  <2>2. i[c] = poolLen \/ host[c] \notin steadyDown[c]
    BY <1>1, <1>5 DEF SelectInv, CallerOK, HistoryOK
  <2>3. RobinOK(c)'
    BY <1>1, <1>2, <2>1, <2>2 DEF RobinOK
  <2> QED
    BY <1>3, <2>3 DEF QuietOK
<1> QED
  BY <1>4, <1>5

\* Where the round robin loop has ended.
RobinEnds(c) ==
  /\ poolLen \in Nat \ {0} /\ pc[c] = "final" /\ policy = "round_robin"
  /\ first[c] \in 0..poolLen - 1 /\ host[c] \in Hosts
  /\ i[c] \in 1..poolLen /\ host[c] = (first[c] + (i[c] - 1)) % poolLen
  /\ \A k \in 0..i[c] - 2 : (first[c] + k) % poolLen \notin steadyUp[c]
  /\ i[c] = poolLen \/ host[c] \notin steadyDown[c]

LEMMA RobinEndsAt ==
  ASSUME SelectInv, QuietInv, NEW c \in Callers, pc[c] = "final"
  PROVE  RobinEnds(c)
<1>1. poolLen \in Nat \ {0}
  BY HostsFact DEF SelectInv
<1>2. policy = "round_robin" /\ host[c] \in Hosts
  BY DEF SelectInv, CallerOK, PlaceOK
<1>3. first[c] \in 0..poolLen - 1
  BY DEF SelectInv, SelectTypeOK, Hosts
<1>4. RobinOK(c)
  BY DEF QuietInv, QuietOK
<1> QED
  BY <1>1, <1>2, <1>3, <1>4 DEF RobinOK, RobinEnds

\* Its second look finds the host down only when some host changed, or none was up.
LEMMA RobinMiss ==
  ASSUME SelectInv, QuietInv, NEW c \in Callers, pc[c] = "final", down[host[c]], Quiet(c)
  PROVE  steadyUp[c] = {}
<1>0. RobinEnds(c)
  BY RobinEndsAt
<1>1. host[c] \notin steadyUp[c]
  BY DEF SelectInv, CallerOK, HistoryOK
<1>2. i[c] = poolLen
  BY <1>0, <1>1 DEF Quiet, RobinEnds
<1>3. ASSUME NEW k \in 0..poolLen - 1 PROVE (first[c] + k) % poolLen \notin steadyUp[c]
  <2>1. CASE k = poolLen - 1
    BY <1>0, <1>1, <1>2, <2>1 DEF RobinEnds
  <2>2. CASE k # poolLen - 1
    BY <1>0, <1>2, <2>2 DEF RobinEnds
  <2> QED
    BY <2>1, <2>2
<1>4. \A h \in Hosts : \E k \in 0..poolLen - 1 : (first[c] + k) % poolLen = h
  BY <1>0, AllAround, Zenon DEF Hosts, RobinEnds
<1>5. steadyUp[c] \subseteq Hosts
  BY DEF SelectInv, SelectTypeOK
<1> QED
  BY <1>3, <1>4, <1>5

\* In a quiet call the host it ends at is the first up from the one it drew.
LEMMA RobinEndQuiet ==
  ASSUME SelectInv, QuietInv, NEW c \in Callers, RobinEnd(c)
  PROVE  QuietOK(c)'
<1>1. RobinEnds(c)
  BY RobinEndsAt DEF RobinEnd
<1>2. CASE down[host[c]]
  BY <1>2, RobinMiss, NoneExact, Zenon DEF RobinEnd
<1>3. CASE ~down[host[c]]
  <2>1. ASSUME Quiet(c) PROVE host[c] \in Expected(c, steadyUp[c])
    <3>1. host[c] \in steadyUp[c]
      BY <1>1, <1>3, <2>1 DEF Quiet, SelectInv, CallerOK, HistoryOK, RobinEnds
    <3>2. PICK p \in 0..poolLen - 1 : p = i[c] - 1 /\ p - 1 = i[c] - 2
      BY <1>1 DEF RobinEnds
    <3>3. /\ first[c] \in Nat /\ (first[c] + p) % poolLen \in steadyUp[c]
          /\ \A k \in 0..p - 1 : (first[c] + k) % poolLen \notin steadyUp[c]
      BY <1>1, <3>1, <3>2 DEF RobinEnds
    <3>4. NextUp(steadyUp[c], first[c]) = (first[c] + p) % poolLen
      <4>1. PICK U, f : U = steadyUp[c] /\ f = first[c]
        OBVIOUS
      <4>2. /\ poolLen \in Nat \ {0} /\ f \in Nat /\ (f + p) % poolLen \in U
            /\ \A k \in 0..p - 1 : (f + k) % poolLen \notin U
        BY <1>1, <3>3, <4>1 DEF RobinEnds
      <4>3. NextUp(U, f) = (f + p) % poolLen
        BY <4>2, NextUpIs, Zenon
      <4> QED
        BY <4>1, <4>3
    <3> QED
      BY <1>1, <3>1, <3>2, <3>4 DEF Expected, RobinEnds
  <2> QED
    BY <1>3, <2>1, ReturnsExact DEF RobinEnd
<1> QED
  BY <1>2, <1>3

\* Spray as the policy returns any host, once the scan saw one up.
LEMMA SprayPickQuiet ==
  ASSUME SelectInv, QuietInv, NEW c \in Callers, SprayPick(c)
  PROVE  QuietOK(c)'
<1>1. policy = "spray" /\ steadyDown[c] # Hosts
  BY DEF SelectInv, CallerOK, PlaceOK, SprayPick, SupportedPolicies, QuietInv, QuietOK, SomeUp
<1>2. PICK h \in Hosts : Returns(c, h)
  BY DEF SprayPick
<1>3. Quiet(c) => h \in Expected(c, steadyUp[c])
  <2>1. Quiet(c) => steadyUp[c] # {}
    BY <1>1 DEF Quiet
  <2> QED
    BY <1>1, <2>1, Zenon DEF Expected
<1> QED
  BY <1>2, <1>3, ReturnsExact DEF SprayPick

\* A step of one caller leaves the others' part alone.
LEMMA OthersQuiet ==
  ASSUME QuietInv, NEW c \in Callers, Elsewhere(c), NEW d \in Callers, d # c
  PROVE  QuietOK(d)'
<1>1. /\ pc'[d] = pc[d] /\ i'[d] = i[d] /\ host'[d] = host[d] /\ first'[d] = first[d]
      /\ result'[d] = result[d] /\ steadyUp'[d] = steadyUp[d] /\ steadyDown'[d] = steadyDown[d]
      /\ UNCHANGED <<poolLen, policy, spray>> /\ Hosts' = Hosts
  BY Zenon DEF Elsewhere, config, Hosts
<1>2. RobinOK(d)' /\ SomeUp(d)'
  BY <1>1, Zenon DEF QuietInv, QuietOK, RobinOK, SomeUp
<1>3. Expected(d, steadyUp[d])' = Expected(d, steadyUp[d])
  BY <1>1 DEF Expected, NextUp
<1> QED
  BY <1>1, <1>2, <1>3 DEF QuietInv, QuietOK, ExactOK, Quiet

\* Every step keeps the invariant of quiet calls.
LEMMA QuietInvStep ==
  ASSUME SelectInv, QuietInv, [SelectNext]_vars
  PROVE  QuietInv'
<1>1. ASSUME NEW c \in Callers, CallerAction(c) PROVE QuietInv'
  <2>1. Elsewhere(c)
    BY <1>1, CallInv, SingleInv, ScanUpInv, DownInv, RandomStepInv, RandomEndInv, RobinInv,
       RobinEndInv, SequentialUpInv, SprayPickInv DEF CallerAction, CallerStep, Keeps
  <2>2. ASSUME Call(c) PROVE QuietOK(c)'
    <3>1. pc'[c] \in {"single", "scan"}
      BY <2>2 DEF SelectInv, SelectTypeOK, Call
    <3> QED
      BY <3>1 DEF QuietOK, RobinOK, SomeUp, ExactOK, SupportedPolicies
  <2>3. QuietOK(c)'
    BY <1>1, <2>2, SingleQuiet, ScanUpQuiet, DownQuiet, RandomQuiet, RobinDrawQuiet, RobinLoopQuiet,
       RobinEndQuiet, SequentialUpQuiet, SprayPickQuiet DEF CallerAction, CallerStep
  <2>4. \A d \in Callers \ {c} : QuietOK(d)'
    BY <2>1, OthersQuiet
  <2> QED
    BY <2>3, <2>4 DEF QuietInv
<1>2. CASE RobinElsewhere \/ UNCHANGED vars
  <2>1. UNCHANGED <<poolLen, policy, spray, pc, i, host, first, result, steadyUp, steadyDown>>
    BY <1>2 DEF RobinElsewhere, vars, config, history
  <2> QED
    BY <2>1, Zenon DEF QuietInv, QuietOK, RobinOK, SomeUp, ExactOK, Quiet, Expected, NextUp, Hosts
<1> QED
  BY <1>1, <1>2, FlipQuiet DEF SelectNext, CallerAction

\* When no host flips during a call, the scan, the policy's loop and the fallbacks together
\* return what the policy's definition says, for any pool, counter and number of callers.
THEOREM QuietCallExactAlways == SelectSpec => []QuietCallExact
<1>1. SelectInit => SelectInv /\ QuietInv
  BY SelectInvInit, QuietInvInit
<1>2. SelectInv /\ QuietInv /\ [SelectNext]_vars => SelectInv' /\ QuietInv'
  BY SelectInvStep, QuietInvStep
<1>3. QuietInv => QuietCallExact
  BY DEF QuietInv, QuietOK, ExactOK, Quiet, QuietCallExact
<1> QED
  BY <1>1, <1>2, <1>3, PTL DEF SelectSpec

-----------------------------------------------------------------------------
\* Select implements Selection

\* A return of what is promised is the end of a call of Selection.
LEMMA TellStep ==
  ASSUME SelectInv, NEW c \in Asking, NEW h \in Promise!Promised(c), Returns(c, h),
         UNCHANGED <<config, down, history>>
  PROVE  Promise!Tell(c)
<1>1. pc' = [pc EXCEPT ![c] = "done"] /\ result' = [result EXCEPT ![c] = h]
  BY Zenon DEF Returns
<1>2. pc \in [Callers -> PCs] /\ c \in Callers
  BY Zenon DEF SelectInv, SelectTypeOK, Asking
<1>3. Asking' = Asking \ {c}
  BY <1>1, <1>2 DEF Asking
<1>4. UNCHANGED <<Hosts, policy, spray, down, steadyUp, steadyDown>>
  BY Zenon DEF config, history, Hosts
<1> QED
  BY <1>1, <1>3, <1>4, Zenon DEF Promise!Tell

\* A host that was up at some time during the call is promised, ...
LEMMA SeenPromised ==
  ASSUME NEW c \in Callers, NEW h \in Hosts, h \notin steadyDown[c]
  PROVE  h \in Promise!Promised(c)
BY Zenon DEF Promise!Promised, Promise!Seen

\* ... and what NoneFound returns, when the call may miss.
LEMMA MissPromised ==
  ASSUME SelectInv, NEW c \in Asking, NoneFound(c), UNCHANGED <<config, down, history>>,
         steadyUp[c] = {} \/ (policy = "round_robin" /\ ~Quiet(c))
  PROVE  Promise!Tell(c)
<1>1. PICK h \in IF spray THEN Hosts ELSE {NoHost} : Returns(c, h)
  BY Zenon DEF NoneFound
<1>2. Promise!MayMiss(c)
  BY Zenon DEF Promise!MayMiss, Quiet
<1>3. h \in Promise!Promised(c)
  BY <1>1, <1>2, Zenon DEF Promise!Promised
<1> QED
  BY <1>1, <1>3, TellStep

\* A step of a loop is no step of Selection.
LEMMA LoopStep ==
  ASSUME SelectInv, NEW c \in Asking, UNCHANGED <<config, down, result, history>>,
         NEW to \in PCs \ {"idle", "done"}, pc' = [pc EXCEPT ![c] = to]
  PROVE  UNCHANGED Promise!selectionVars
<1>1. pc \in [Callers -> PCs] /\ c \in Callers
  BY Zenon DEF SelectInv, SelectTypeOK, Asking
<1>2. Asking' = Asking
  BY <1>1 DEF Asking
<1>3. UNCHANGED <<Hosts, policy, spray, down, steadyUp, steadyDown, result>>
  BY Zenon DEF config, history, Hosts
<1> QED
  BY <1>2, <1>3, Zenon DEF Promise!selectionVars

\* A step of a caller in a call ends the call as promised, or is none of Selection's.
LEMMA StepPromised ==
  ASSUME SelectInv, QuietInv, NEW c \in Callers, CallerStep(c)
  PROVE  Promise!Tell(c) \/ UNCHANGED Promise!selectionVars
<1>0. c \in Asking
  BY Zenon DEF Asking, CallerStep, Single, ScanUp, ScanDown, RandomStep, RandomEnd, RobinDraw,
     RobinLoop, RobinEnd, SequentialUp, SequentialDown, SprayPick
<1>a. SelectTypeOK /\ poolLen \in Int
  BY HostsFact DEF SelectInv
<1>b. HistoryOK(c) /\ PlaceOK(c) /\ LoopOK(c)
  BY Zenon DEF SelectInv, CallerOK
<1>1. ASSUME Single(c) PROVE Promise!Tell(c)
  <2>1. Hosts = {0}
    BY <1>1, <1>b DEF PlaceOK, Single, Hosts
  <2>2. Returns(c, IF down[0] /\ ~spray THEN NoHost ELSE 0) /\ UNCHANGED <<config, down, history>>
    BY <1>1, Zenon DEF Single
  <2>3. CASE down[0]
    <3>1. steadyUp[c] = {}
      BY <1>a, <1>b, <2>1, <2>3 DEF SelectTypeOK, HistoryOK
    <3>2. NoneFound(c)
      BY <2>1, <2>2, <2>3, Zenon DEF NoneFound
    <3> QED
      BY <1>0, <2>2, <3>1, <3>2, MissPromised
  <2>4. CASE ~down[0]
    <3>1. 0 \in Promise!Promised(c)
      BY <1>b, <2>1, <2>4, SeenPromised DEF HistoryOK
    <3> QED
      BY <1>0, <2>2, <2>4, <3>1, TellStep
  <2> QED
    BY <2>3, <2>4
<1>2. ASSUME ScanDown(c) \/ SequentialDown(c) PROVE Promise!Tell(c) \/ UNCHANGED Promise!selectionVars
  <2>1. i[c] \in Int /\ poolLen \in Int
    BY <1>a DEF SelectTypeOK
  <2>2. /\ pc[c] \in {"scan", "sequential"} /\ down[i[c]]
        /\ UNCHANGED <<config, down, history>>
        /\ IF i[c] + 1 < poolLen THEN UNCHANGED <<pc, result>> ELSE NoneFound(c)
    BY <1>2, Zenon DEF ScanDown, SequentialDown
  <2>3. i[c] < poolLen /\ Ahead(c)
    BY <1>b, <2>2 DEF PlaceOK, LoopOK
  <2>4. CASE i[c] + 1 < poolLen
    BY <2>2, <2>4, Zenon DEF Promise!selectionVars, Asking, config, history, Hosts
  <2>5. CASE ~(i[c] + 1 < poolLen)
    <3>1. steadyUp[c] = {}
      BY <2>1, <2>2, <2>3, <2>5, NoneAhead
    <3> QED
      BY <1>0, <2>2, <2>5, <3>1, MissPromised
  <2> QED
    BY <2>4, <2>5
<1>3. ASSUME SequentialUp(c) PROVE Promise!Tell(c)
  <2>1. i[c] \in Hosts
    BY <1>3, <1>a, <1>b DEF SelectTypeOK, PlaceOK, SequentialUp, Hosts
  <2>2. i[c] \in Promise!Promised(c)
    BY <1>3, <1>b, <2>1, SeenPromised DEF HistoryOK, SequentialUp
  <2> QED
    BY <1>0, <1>3, <2>2, TellStep DEF SequentialUp
<1>4. ASSUME RandomEnd(c) PROVE Promise!Tell(c)
  <2>1. i[c] = poolLen /\ i[c] \in Int /\ host[c] \in Hosts \cup {NoHost}
    BY <1>4, <1>a DEF SelectTypeOK, RandomEnd
  <2>2. IF host[c] = NoHost THEN Ahead(c) ELSE host[c] \notin steadyDown[c]
    BY <1>4, <1>b DEF LoopOK, RandomEnd
  <2>3. CASE host[c] = NoHost
    <3>1. steadyUp[c] = {}
      BY <2>1, <2>2, <2>3, NoneAhead
    <3> QED
      BY <1>0, <1>4, <2>3, <3>1, MissPromised DEF RandomEnd
  <2>4. CASE host[c] # NoHost
    <3>1. host[c] \in Promise!Promised(c)
      BY <2>1, <2>2, <2>4, SeenPromised, Zenon
    <3> QED
      BY <1>0, <1>4, <2>4, <3>1, TellStep DEF RandomEnd
  <2> QED
    BY <2>3, <2>4, Zenon
<1>5. ASSUME RobinEnd(c) PROVE Promise!Tell(c)
  <2>1. pc[c] = "final" /\ UNCHANGED <<config, down, history>>
    BY <1>5, Zenon DEF RobinEnd
  <2>2. policy = "round_robin" /\ host[c] \in Hosts
    BY <2>1, RobinEndsAt DEF RobinEnds
  <2>3. CASE down[host[c]]
    <3>1. steadyUp[c] = {} \/ ~Quiet(c)
      BY <2>1, <2>3, RobinMiss
    <3> QED
      BY <1>0, <1>5, <2>1, <2>2, <2>3, <3>1, MissPromised DEF RobinEnd
  <2>4. CASE ~down[host[c]]
    <3>1. host[c] \in Promise!Promised(c)
      BY <1>b, <2>2, <2>4, SeenPromised DEF HistoryOK
    <3> QED
      BY <1>0, <1>5, <2>1, <2>4, <3>1, TellStep DEF RobinEnd
  <2> QED
    BY <2>3, <2>4
<1>6. ASSUME SprayPick(c) PROVE Promise!Tell(c)
  <2>1. policy = "spray" /\ steadyDown[c] # Hosts
    BY <1>6, <1>b DEF PlaceOK, SprayPick, SupportedPolicies, QuietInv, QuietOK, SomeUp
  <2>2. PICK h \in Hosts : Returns(c, h)
    BY <1>6, Zenon DEF SprayPick
  <2>3. steadyDown[c] \subseteq Hosts
    BY <1>a, Zenon DEF SelectTypeOK
  <2>4. Promise!Seen(c) # {}
    BY <2>1, <2>3 DEF Promise!Seen
  <2>5. h \in Promise!Promised(c)
    BY <2>1, <2>2, <2>4, Zenon DEF Promise!Promised
  <2> QED
    BY <1>0, <1>6, <2>2, <2>5, TellStep DEF SprayPick
<1>7. ASSUME ScanUp(c) PROVE UNCHANGED Promise!selectionVars
  <2>1. policy \in PCs \ {"idle", "done"}
    BY <1>a, SelectAssumption DEF SelectTypeOK, SupportedPolicies, PCs
  <2> QED
    BY <1>0, <1>7, <2>1, LoopStep, Zenon DEF ScanUp
<1>8. ASSUME RandomStep(c) PROVE UNCHANGED Promise!selectionVars
  BY <1>8, Zenon DEF RandomStep, Promise!selectionVars, Asking, config, history, Hosts
<1>9. ASSUME RobinDraw(c) PROVE UNCHANGED Promise!selectionVars
  BY <1>0, <1>9, LoopStep, Zenon DEF RobinDraw, PCs
<1>10. ASSUME RobinLoop(c) PROVE UNCHANGED Promise!selectionVars
  <2>1. pc' = [pc EXCEPT ![c] = "final"] \/ pc' = pc
    BY <1>10, Zenon DEF RobinLoop
  <2>2. CASE pc' = pc
    BY <1>10, <2>2, Zenon DEF RobinLoop, Promise!selectionVars, Asking, config, history, Hosts
  <2>3. CASE pc' = [pc EXCEPT ![c] = "final"]
    BY <1>0, <1>10, <2>3, LoopStep, Zenon DEF RobinLoop, PCs
  <2> QED
    BY <2>1, <2>2, <2>3
<1> QED
  BY <1>1, <1>2, <1>3, <1>4, <1>5, <1>6, <1>7, <1>8, <1>9, <1>10, Zenon DEF CallerStep

\* The calls of Select return what Selection promises: for any pool, policy and number of
\* callers, and however hosts flip between the reads, a host down throughout is returned
\* only by spraying, and a call misses only when no host was up throughout, or round
\* robin met a change.
THEOREM ImplementsSelectionAlways == SelectSpec => ImplementsSelection
<1>1. SelectInit => SelectInv /\ QuietInv
  BY SelectInvInit, QuietInvInit
<1>2. SelectInv /\ QuietInv /\ [SelectNext]_vars => SelectInv' /\ QuietInv'
  BY SelectInvStep, QuietInvStep
<1>3. SelectInit => Promise!SelectionInit
  <2>1. SelectInit => Asking = {}
    BY DEF SelectInit, Asking
  <2> QED
    BY <2>1, Zenon DEF SelectInit, Promise!SelectionInit
<1>4. SelectInv /\ QuietInv /\ [SelectNext]_vars =>
        [Promise!SelectionNext]_Promise!selectionVars
  <2> SUFFICES ASSUME SelectInv, QuietInv, [SelectNext]_vars
               PROVE  Promise!SelectionNext \/ UNCHANGED Promise!selectionVars
    BY Zenon
  <2>1. ASSUME NEW c \in Callers, Call(c) PROVE Promise!Ask(c)
    <3>1. pc \in [Callers -> PCs]
      BY Zenon DEF SelectInv, SelectTypeOK
    <3>2. pc[c] \in {"idle", "done"} /\ pc' \in {[pc EXCEPT ![c] = "single"], [pc EXCEPT ![c] = "scan"]}
      BY <2>1, Zenon DEF Call
    <3>3. c \notin Asking /\ Asking' = Asking \cup {c}
      BY <3>1, <3>2 DEF Asking
    <3> QED
      BY <2>1, <3>3, Zenon DEF Call, Promise!Ask, config, Hosts
  <2>2. ASSUME NEW f \in 0..PoolMax - 1, Flip(f) PROVE f \in Hosts /\ Promise!Turn(f)
    BY <2>2, Zenon DEF Flip, Promise!Turn, Asking, config, Hosts
  <2>3. CASE RobinElsewhere \/ UNCHANGED vars
    BY <2>3, Zenon DEF RobinElsewhere, vars, Promise!selectionVars, Asking, config, history, Hosts
  <2> QED
    BY <2>1, <2>2, <2>3, StepPromised, Zenon DEF SelectNext, Promise!SelectionNext
<1> QED
  BY <1>1, <1>2, <1>3, <1>4, PTL DEF SelectSpec, ImplementsSelection, Promise!SelectionSpec
=============================================================================
