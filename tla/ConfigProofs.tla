---------------------------- MODULE ConfigProofs -----------------------------
(****************************************************************************)
(* Proofs about Config, for any lines and tables of words: every line of a  *)
(* block, and its end, keep the block what its lines say (BlockInv).        *)
(****************************************************************************)
EXTENDS Config, WellFoundedInduction, TLAPS

-----------------------------------------------------------------------------
\* Smallest and largest elements

\* A set of natural numbers has a smallest element.
LEMMA NatMin ==
  ASSUME NEW T \in SUBSET Nat, T # {}
  PROVE  \E n \in T : \A m \in T : n <= m
<1>1. IsWellFoundedOn(OpToRel(<, Nat), Nat)
  BY NatLessThanWellFounded, Zenon
<1>2. PICK n \in T : \A m \in T : <<m, n>> \notin OpToRel(<, Nat)
  BY <1>1, WFMin, Zenon
<1>3. ASSUME NEW m \in T PROVE n <= m
  <2>1. m \in Nat /\ n \in Nat
    OBVIOUS
  <2>2. ~(m < n)
    BY <1>2, <2>1, Zenon DEF OpToRel
  <2> QED
    BY <2>1, <2>2
<1> QED
  BY <1>3

\* Max and Min choose it from positions of a sequence.
LEMMA MinMaxFacts ==
  ASSUME NEW n \in Nat, NEW T \in SUBSET (1 .. n), T # {}
  PROVE  /\ Min(T) \in T /\ \A x \in T : Min(T) <= x
         /\ Max(T) \in T /\ \A x \in T : x <= Max(T)
<1>1. \E x \in T : \A y \in T : x <= y
  <2>1. T \in SUBSET Nat
    OBVIOUS
  <2> QED
    BY <2>1, NatMin
<1>2. \E x \in T : \A y \in T : x >= y
  <2> DEFINE D == {n - x : x \in T}
  <2>1. D \in SUBSET Nat /\ D # {}
    <3>1. \A x \in T : n - x \in Nat
      OBVIOUS
    <3> QED
      BY <3>1, Zenon
  <2>2. PICK d \in D : \A e \in D : d <= e
    BY <2>1, NatMin, Zenon
  <2>3. PICK x \in T : d = n - x
    OBVIOUS
  <2>4. ASSUME NEW y \in T PROVE x >= y
    <3>1. n - y \in D
      OBVIOUS
    <3>2. n - x <= n - y /\ x \in Int /\ y \in Int
      BY <2>2, <2>3, <3>1
    <3> QED
      BY <3>2
  <2> QED
    BY <2>4
<1>3. Min(T) \in T /\ \A x \in T : Min(T) <= x
  BY <1>1, Zenon DEF Min
<1>4. Max(T) \in T /\ \A x \in T : Max(T) >= x
  BY <1>2, Zenon DEF Max
<1> QED
  BY <1>3, <1>4

\* Positions are numbers, so the largest one is known when it is seen.
LEMMA MaxIs ==
  ASSUME NEW T \in SUBSET Int, NEW m \in T, \A x \in T : x <= m
  PROVE  Max(T) = m
<1>1. Max(T) \in T /\ \A x \in T : Max(T) >= x
  BY Zenon DEF Max
<1>2. Max(T) \in Int /\ m \in Int /\ Max(T) <= m /\ m <= Max(T)
  BY <1>1, Zenon
<1> QED
  BY <1>2

-----------------------------------------------------------------------------
\* The text of a block grows by a line

\* What adding line d to the block does to the lines of each kind.
LEMMA Appended ==
  ASSUME wrote \in Seq(Lines), NEW d \in Lines, wrote' = Append(wrote, d), NEW dir
  PROVE  /\ wrote' \in Seq(Lines)
         /\ Len(wrote') = Len(wrote) + 1 /\ wrote'[Len(wrote) + 1] = d
         /\ At(dir) \subseteq 1 .. Len(wrote)
         /\ \A i \in 1 .. Len(wrote) : wrote'[i] = wrote[i]
         /\ d.dir # dir => At(dir)' = At(dir)
         /\ d.dir = dir => At(dir)' = At(dir) \cup {Len(wrote) + 1}
<1>1. /\ wrote' \in Seq(Lines)
      /\ Len(wrote) \in Nat /\ DOMAIN wrote = 1 .. Len(wrote)
      /\ Len(wrote') = Len(wrote) + 1 /\ wrote'[Len(wrote) + 1] = d
      /\ DOMAIN wrote' = 1 .. Len(wrote) + 1
      /\ \A i \in 1 .. Len(wrote) : wrote'[i] = wrote[i]
  OBVIOUS
<1>2. DOMAIN wrote' = DOMAIN wrote \cup {Len(wrote) + 1}
  BY <1>1
<1>3. At(dir)' = {i \in DOMAIN wrote' : wrote'[i].dir = dir} /\ At(dir) \subseteq 1 .. Len(wrote)
  BY <1>1 DEF At
<1>4. d.dir # dir => At(dir)' = At(dir)
  BY <1>1, <1>2, <1>3 DEF At
<1>5. d.dir = dir => At(dir)' = At(dir) \cup {Len(wrote) + 1}
  BY <1>1, <1>2, <1>3 DEF At
<1> QED
  BY <1>1, <1>3, <1>4, <1>5

\* The last line of a kind is the added one if it is of that kind, else the one it was.
LEMMA LastAppended ==
  ASSUME wrote \in Seq(Lines), NEW d \in Lines, wrote' = Append(wrote, d), NEW dir
  PROVE  /\ d.dir = dir => At(dir)' # {} /\ LastOf(dir)' = d.args
         /\ d.dir # dir => At(dir)' = At(dir) /\ (At(dir) # {} => LastOf(dir)' = LastOf(dir))
<1>1. Len(wrote) \in Nat
  OBVIOUS
<1>2. ASSUME d.dir = dir PROVE At(dir)' # {} /\ LastOf(dir)' = d.args
  <2>1. At(dir)' = At(dir) \cup {Len(wrote) + 1} /\ At(dir) \subseteq 1 .. Len(wrote)
    BY <1>2, Appended
  <2>2. Max(At(dir)') = Len(wrote) + 1
    <3>1. PICK T : T = At(dir)'
      OBVIOUS
    <3>2. T \in SUBSET Int /\ Len(wrote) + 1 \in T /\ \A x \in T : x <= Len(wrote) + 1
      BY <1>1, <2>1, <3>1
    <3> QED
      BY <3>1, <3>2, MaxIs
  <2>3. wrote'[Len(wrote) + 1] = d
    BY <1>1
  <2> QED
    BY <2>1, <2>2, <2>3 DEF LastOf
<1>3. ASSUME d.dir # dir, At(dir) # {} PROVE LastOf(dir)' = LastOf(dir)
  <2>1. At(dir)' = At(dir) /\ At(dir) \in SUBSET (1 .. Len(wrote))
    BY <1>3, Appended
  <2>2. Max(At(dir)) \in 1 .. Len(wrote)
    BY <1>1, <1>3, <2>1, MinMaxFacts, Zenon
  <2>3. wrote'[Max(At(dir))] = wrote[Max(At(dir))]
    BY <1>1, <2>2
  <2> QED
    BY <2>1, <2>3 DEF LastOf
<1> QED
  BY <1>2, <1>3, Appended

\* Its words are added to those of its kind.
LEMMA WordsAppended ==
  ASSUME wrote \in Seq(Lines), NEW d \in Lines, wrote' = Append(wrote, d), NEW dir
  PROVE  Words(dir)' = IF d.dir = dir THEN Words(dir) \cup Range(d.args) ELSE Words(dir)
<1>1. /\ Len(wrote) \in Nat /\ At(dir) \subseteq 1 .. Len(wrote)
      /\ wrote'[Len(wrote) + 1] = d /\ \A i \in 1 .. Len(wrote) : wrote'[i] = wrote[i]
      /\ At(dir)' = IF d.dir = dir THEN At(dir) \cup {Len(wrote) + 1} ELSE At(dir)
  BY Appended
<1>2. Words(dir)' = UNION {Range(wrote'[i].args) : i \in At(dir)'}
  BY DEF Words
<1>3. \A i \in At(dir) : wrote'[i] = wrote[i]
  BY <1>1
<1> QED
  BY <1>1, <1>2, <1>3 DEF Words

-----------------------------------------------------------------------------
\* What a line that is not refused does

Fields ==
  {"matchAny", "items", "pathReload", "urlReload", "urlReadTimeout", "ignored", "inline", "spray",
   "policy", "maxFails", "maxRetry", "checkInterval", "recursionDesired", "hosts", "expire",
   "certs", "serverName", "bootstrap", "ipset", "pf", "noIPv6"}

Shape == DOMAIN u = Fields /\ wrote \in Seq(Lines)

\* The lines that set a field, each to what it says.
SetsValue(d) ==
  LET a == d.args IN
  /\ u'.pathReload = IF d.dir = "path_reload" THEN Duration[a[1]] ELSE u.pathReload
  /\ u'.urlReload = IF d.dir = "url_reload" THEN Duration[a[1]] ELSE u.urlReload
  /\ u'.urlReadTimeout =
       IF d.dir = "url_reload" /\ Len(a) = 2 THEN Duration[a[2]] ELSE u.urlReadTimeout
  /\ u'.policy = IF d.dir = "policy" THEN a[1] ELSE u.policy
  /\ u'.maxFails = IF d.dir = "max_fails" THEN Number[a[1]] ELSE u.maxFails
  /\ u'.maxRetry = IF d.dir = "max_retry" THEN Number[a[1]] ELSE u.maxRetry
  /\ u'.checkInterval = IF d.dir = "health_check" THEN Duration[a[1]] ELSE u.checkInterval
  /\ u'.recursionDesired = IF d.dir = "health_check" THEN Len(a) = 1 ELSE u.recursionDesired
  /\ u'.expire = IF d.dir = "expire" THEN Duration[a[1]] ELSE u.expire
  /\ u'.certs = IF d.dir = "tls" THEN a ELSE u.certs
  /\ u'.serverName = IF d.dir = "tls_servername" THEN a[1] ELSE u.serverName

\* The lines that add to a field.
AddsTo(d) ==
  LET a == d.args IN
  /\ u'.ignored = IF d.dir = "except" THEN u.ignored \cup (Range(a) \ {"notadomain"}) ELSE u.ignored
  /\ u'.ipset = IF d.dir = "ipset" /\ os = "linux" THEN u.ipset \cup Range(a) ELSE u.ipset
  /\ u'.pf = IF d.dir = "pf" /\ os = "darwin"
               THEN AddTables(u.pf, Range(SubSeq(a, FirstTable(a), Len(a))), parseFlags(a))
               ELSE u.pf
  /\ u'.hosts = IF d.dir = "to" THEN u.hosts \o [i \in DOMAIN a |-> HostOf[a[i]]] ELSE u.hosts

\* What parseBlock has made sure of.
Checked(d) ==
  LET a == d.args IN
  /\ d.dir = "expire" => a # <<>> /\ Interval(a[1], minExpireInterval)
  /\ d.dir = "health_check" => Interval(a[1], minHcInterval)
  /\ d.dir = "url_reload" /\ Len(a) = 2 => Duration[a[2]] >= minUrlReadTimeout
  /\ d.dir = "pf" /\ os = "darwin" => FirstTable(a) > 0

\* FROM is fixed by then.
Stays == u'.items = u.items /\ u'.matchAny = u.matchAny

LineDone(d) ==
  /\ stage' = "block" /\ os' = os /\ DOMAIN u' = Fields
  /\ SetsValue(d) /\ AddsTo(d) /\ Checked(d) /\ Stays

\* The upstream a block starts from has its fields.
LEMMA NewUpstreamFields == DOMAIN newUpstream = Fields
BY SMT DEF newUpstream, Fields

\* A line that is not refused sets or adds to the field it is for, and no other.
LEMMA LineEffect ==
  ASSUME Shape, NEW d \in Lines, parseBlock(d), stage' # "refused"
  PROVE  LineDone(d) /\ wrote' = Append(wrote, d)
<1>0. stage = "block" /\ os' = os /\ wrote' = Append(wrote, d)
  BY DEF parseBlock
<1>1. CASE d.dir = "path_reload"
  <2>1. PathReload(d.args)
    BY <1>1 DEF parseBlock
  <2> QED
    BY <1>0, <1>1, <2>1 DEF PathReload, Shape, Fields, LineDone, SetsValue, AddsTo, Checked,
       Stays, Apply, Abandon
<1>2. CASE d.dir = "url_reload"
  <2>1. UrlReload(d.args)
    BY <1>2 DEF parseBlock
  <2> QED
    <3>1. /\ stage' = "block" /\ (Len(d.args) = 2 => Duration[d.args[2]] >= minUrlReadTimeout)
          /\ u' = [u EXCEPT !.urlReload = Duration[d.args[1]],
                            !.urlReadTimeout = IF Len(d.args) = 2 THEN Duration[d.args[2]] ELSE @]
      BY <1>0, <2>1 DEF UrlReload, Apply, Abandon
    <3>2. SetsValue(d)
      BY <1>2, <3>1 DEF SetsValue, Shape, Fields
    <3>3. DOMAIN u' = Fields /\ AddsTo(d) /\ Checked(d) /\ Stays
      BY <1>2, <3>1 DEF AddsTo, Checked, Stays, Shape, Fields
    <3> QED
      BY <1>0, <3>1, <3>2, <3>3 DEF LineDone
<1>3. CASE d.dir = "except"
  <2>1. Except(d.args)
    BY <1>3 DEF parseBlock
  <2> QED
    BY <1>0, <1>3, <2>1 DEF Except, Shape, Fields, LineDone, SetsValue, AddsTo, Checked, Stays,
       Apply, Abandon
<1>4. CASE d.dir = "spray"
  <2>1. Spray(d.args)
    BY <1>4 DEF parseBlock
  <2> QED
    BY <1>0, <1>4, <2>1 DEF Spray, Shape, Fields, LineDone, SetsValue, AddsTo, Checked, Stays,
       Apply, Abandon
<1>5. CASE d.dir = "policy"
  <2>1. SelectPolicy(d.args)
    BY <1>5 DEF parseBlock
  <2> QED
    BY <1>0, <1>5, <2>1 DEF SelectPolicy, Shape, Fields, LineDone, SetsValue, AddsTo, Checked,
       Stays, Apply, Abandon
<1>6. CASE d.dir = "max_fails"
  <2>1. MaxFailsLine(d.args)
    BY <1>6 DEF parseBlock
  <2> QED
    BY <1>0, <1>6, <2>1 DEF MaxFailsLine, Shape, Fields, LineDone, SetsValue, AddsTo, Checked,
       Stays, Apply, Abandon
<1>7. CASE d.dir = "max_retry"
  <2>1. MaxRetryLine(d.args)
    BY <1>7 DEF parseBlock
  <2> QED
    BY <1>0, <1>7, <2>1 DEF MaxRetryLine, Shape, Fields, LineDone, SetsValue, AddsTo, Checked,
       Stays, Apply, Abandon
<1>8. CASE d.dir = "health_check"
  <2>1. HealthCheckLine(d.args)
    BY <1>8 DEF parseBlock
  <2> QED
    <3>1. /\ stage' = "block" /\ Interval(d.args[1], minHcInterval)
          /\ u' = [u EXCEPT !.checkInterval = Duration[d.args[1]],
                            !.recursionDesired = Len(d.args) = 1]
      BY <1>0, <2>1 DEF HealthCheckLine, Apply, Abandon
    <3>2. SetsValue(d)
      BY <1>8, <3>1 DEF SetsValue, Shape, Fields
    <3>3. DOMAIN u' = Fields /\ AddsTo(d) /\ Checked(d) /\ Stays
      BY <1>8, <3>1 DEF AddsTo, Checked, Stays, Shape, Fields
    <3> QED
      BY <1>0, <3>1, <3>2, <3>3 DEF LineDone
<1>9. CASE d.dir = "to"
  <2>1. To(d.args)
    BY <1>9 DEF parseBlock
  <2> QED
    BY <1>0, <1>9, <2>1, Zenon DEF To, Shape, Fields, LineDone, SetsValue, AddsTo, Checked, Stays, Apply,
       Abandon
<1>10. CASE d.dir = "expire"
  <2>1. ExpireLine(d.args)
    BY <1>10 DEF parseBlock
  <2> QED
    BY <1>0, <1>10, <2>1 DEF ExpireLine, Shape, Fields, LineDone, SetsValue, AddsTo, Checked,
       Stays, Apply, Abandon
<1>11. CASE d.dir = "tls"
  <2>1. Tls(d.args)
    BY <1>11 DEF parseBlock
  <2> QED
    BY <1>0, <1>11, <2>1 DEF Tls, Shape, Fields, LineDone, SetsValue, AddsTo, Checked, Stays,
       Apply, Abandon
<1>12. CASE d.dir = "tls_servername"
  <2>1. TlsServername(d.args)
    BY <1>12 DEF parseBlock
  <2> QED
    BY <1>0, <1>12, <2>1 DEF TlsServername, Shape, Fields, LineDone, SetsValue, AddsTo, Checked,
       Stays, Apply, Abandon
<1>13. CASE d.dir = "bootstrap"
  <2>1. Bootstrap(d.args)
    BY <1>13 DEF parseBlock
  <2> QED
    BY <1>0, <1>13, <2>1 DEF Bootstrap, Shape, Fields, LineDone, SetsValue, AddsTo, Checked,
       Stays, Apply, Abandon
<1>14. CASE d.dir = "ipset"
  <2>1. Ipset(d.args)
    BY <1>14 DEF parseBlock
  <2> QED
    BY <1>0, <1>14, <2>1, Zenon DEF Ipset, Shape, Fields, LineDone, SetsValue, AddsTo, Checked, Stays,
       Apply, Abandon
<1>15. CASE d.dir = "pf"
  <2>1. Pf(d.args)
    BY <1>15 DEF parseBlock
  <2> QED
    BY <1>0, <1>15, <2>1 DEF Pf, Shape, Fields, LineDone, SetsValue, AddsTo, Checked, Stays,
       Apply, Abandon
<1>16. CASE d.dir = "no_ipv6"
  <2>1. NoIPv6(d.args)
    BY <1>16 DEF parseBlock
  <2> QED
    BY <1>0, <1>16, <2>1 DEF NoIPv6, Shape, Fields, LineDone, SetsValue, AddsTo, Checked, Stays,
       Apply, Abandon
<1>17. CASE d.dir \notin {"path_reload", "url_reload", "except", "spray", "policy", "max_fails", "max_retry",
                         "health_check", "to", "expire", "tls", "tls_servername", "bootstrap",
                         "ipset", "pf", "no_ipv6"}
  <2>1. Inline(d.dir, d.args)
    BY <1>17 DEF parseBlock
  <2> QED
    BY <1>0, <1>17, <2>1 DEF Inline, Shape, Fields, LineDone, SetsValue, AddsTo, Checked, Stays,
       Apply, Abandon
<1> QED
  BY <1>0, <1>1, <1>2, <1>3, <1>4, <1>5, <1>6, <1>7, <1>8, <1>9, <1>10, <1>11, <1>12, <1>13,
     <1>14, <1>15, <1>16, <1>17

\* A field set by the lines of one kind is what their last one says.
LEMMA LastCountsStep ==
  ASSUME Shape, LastCounts, NEW d \in Lines, LineDone(d), wrote' = Append(wrote, d)
  PROVE  LastCounts'
<1>1. \A dir : /\ d.dir = dir => At(dir)' # {} /\ LastOf(dir)' = d.args
               /\ d.dir # dir => At(dir)' = At(dir) /\ (At(dir) # {} => LastOf(dir)' = LastOf(dir))
  BY LastAppended DEF Shape
<1>2. (u.expire = IF At("expire") = {} THEN 15000 ELSE Duration[LastOf("expire")[1]])'
  <2>1. u.expire = IF At("expire") = {} THEN 15000 ELSE Duration[LastOf("expire")[1]]
    BY DEF LastCounts
  <2>2. u'.expire = IF d.dir = "expire" THEN Duration[d.args[1]] ELSE u.expire
    BY DEF LineDone, SetsValue
  <2> QED
    BY <1>1, <2>1, <2>2
<1>3. (u.checkInterval = IF At("health_check") = {} THEN 2000 ELSE Duration[LastOf("health_check")[1]])'
  <2>1. u.checkInterval = IF At("health_check") = {} THEN 2000 ELSE Duration[LastOf("health_check")[1]]
    BY DEF LastCounts
  <2>2. u'.checkInterval = IF d.dir = "health_check" THEN Duration[d.args[1]] ELSE u.checkInterval
    BY DEF LineDone, SetsValue
  <2> QED
    BY <1>1, <2>1, <2>2
<1>4. (u.recursionDesired = (At("health_check") = {} \/ Len(LastOf("health_check")) = 1))'
  <2>1. u.recursionDesired = (At("health_check") = {} \/ Len(LastOf("health_check")) = 1)
    BY DEF LastCounts
  <2>2. u'.recursionDesired = IF d.dir = "health_check" THEN Len(d.args) = 1 ELSE u.recursionDesired
    BY DEF LineDone, SetsValue
  <2> QED
    BY <1>1, <2>1, <2>2
<1>5. (u.maxFails = IF At("max_fails") = {} THEN 3 ELSE Number[LastOf("max_fails")[1]])'
  <2>1. u.maxFails = IF At("max_fails") = {} THEN 3 ELSE Number[LastOf("max_fails")[1]]
    BY DEF LastCounts
  <2>2. u'.maxFails = IF d.dir = "max_fails" THEN Number[d.args[1]] ELSE u.maxFails
    BY DEF LineDone, SetsValue
  <2> QED
    BY <1>1, <2>1, <2>2
<1>6. (u.maxRetry = IF At("max_retry") = {} THEN 10 ELSE Number[LastOf("max_retry")[1]])'
  <2>1. u.maxRetry = IF At("max_retry") = {} THEN 10 ELSE Number[LastOf("max_retry")[1]]
    BY DEF LastCounts
  <2>2. u'.maxRetry = IF d.dir = "max_retry" THEN Number[d.args[1]] ELSE u.maxRetry
    BY DEF LineDone, SetsValue
  <2> QED
    BY <1>1, <2>1, <2>2
<1>7. (u.policy = IF At("policy") = {} THEN "random" ELSE LastOf("policy")[1])'
  <2>1. u.policy = IF At("policy") = {} THEN "random" ELSE LastOf("policy")[1]
    BY DEF LastCounts
  <2>2. u'.policy = IF d.dir = "policy" THEN d.args[1] ELSE u.policy
    BY DEF LineDone, SetsValue
  <2> QED
    BY <1>1, <2>1, <2>2
<1>8. (u.certs = CertsSaid)'
  <2>1. u.certs = CertsSaid
    BY DEF LastCounts
  <2>2. u'.certs = IF d.dir = "tls" THEN d.args ELSE u.certs
    BY DEF LineDone, SetsValue
  <2> QED
    BY <1>1, <2>1, <2>2 DEF CertsSaid
<1>9. (u.serverName = ServerNameSaid)'
  <2>1. u.serverName = ServerNameSaid
    BY DEF LastCounts
  <2>2. u'.serverName = IF d.dir = "tls_servername" THEN d.args[1] ELSE u.serverName
    BY DEF LineDone, SetsValue
  <2> QED
    BY <1>1, <2>1, <2>2 DEF ServerNameSaid
<1>10. (u.urlReadTimeout = IF Timed = {} THEN defaultUrlReadTimeout ELSE Duration[LastTimed[2]])'
  <2> DEFINE n == Len(wrote) + 1
  <2>1. /\ Len(wrote) \in Nat /\ At("url_reload") \subseteq 1 .. Len(wrote) /\ wrote'[n] = d
        /\ \A i \in 1 .. Len(wrote) : wrote'[i] = wrote[i]
        /\ At("url_reload")' = IF d.dir = "url_reload" THEN At("url_reload") \cup {n}
                                                       ELSE At("url_reload")
    <3>1. wrote \in Seq(Lines) /\ d \in Lines /\ wrote' = Append(wrote, d)
      BY DEF Shape
    <3>2. /\ At("url_reload") \subseteq 1 .. Len(wrote) /\ wrote'[Len(wrote) + 1] = d
          /\ \A i \in 1 .. Len(wrote) : wrote'[i] = wrote[i]
          /\ d.dir # "url_reload" => At("url_reload")' = At("url_reload")
          /\ d.dir = "url_reload" => At("url_reload")' = At("url_reload") \cup {Len(wrote) + 1}
      BY <3>1, Appended
    <3>3. Len(wrote) \in Nat
      BY <3>1
    <3> QED
      BY <3>2, <3>3
  <2>2. Timed \subseteq 1 .. Len(wrote) /\ Timed' = {i \in At("url_reload")' : Len(wrote'[i].args) = 2}
    BY <2>1 DEF Timed
  <2>3. Timed' = IF d.dir = "url_reload" /\ Len(d.args) = 2 THEN Timed \cup {n} ELSE Timed
    BY <2>1, <2>2 DEF Timed
  <2>4. CASE d.dir = "url_reload" /\ Len(d.args) = 2
    <3>1. PICK T : T = Timed'
      OBVIOUS
    <3>2. T \in SUBSET Int /\ n \in T /\ \A x \in T : x <= n
      BY <2>1, <2>2, <2>3, <2>4, <3>1
    <3>3. Max(T) = n
      BY <3>2, MaxIs
    <3>4. LastTimed' = d.args /\ Timed' # {}
      BY <2>1, <3>1, <3>2, <3>3 DEF LastTimed
    <3>5. u'.urlReadTimeout = Duration[d.args[2]]
      BY <2>4 DEF LineDone, SetsValue
    <3> QED
      BY <3>4, <3>5
  <2>5. CASE ~(d.dir = "url_reload" /\ Len(d.args) = 2)
    <3>1. Timed # {} => Max(Timed) \in 1 .. Len(wrote)
      BY <2>1, <2>2, MinMaxFacts, Zenon
    <3>2. u'.urlReadTimeout = u.urlReadTimeout /\ Timed' = Timed
      BY <2>3, <2>5 DEF LineDone, SetsValue
    <3>3. Timed # {} => LastTimed' = LastTimed
      BY <2>1, <3>1, <3>2 DEF LastTimed
    <3> QED
      BY <3>2, <3>3 DEF LastCounts
  <2> QED
    BY <2>4, <2>5
<1> QED
  BY <1>2, <1>3, <1>4, <1>5, <1>6, <1>7, <1>8, <1>9, <1>10 DEF LastCounts

\* What was checked of each line holds of the fields.
LEMMA WithinLimitsStep ==
  ASSUME WithinLimits, u.expire \in Int, NEW d \in Lines, LineDone(d)
  PROVE  WithinLimits' /\ u'.expire \in Int
<1>1. WithinLimits'
  BY DEF WithinLimits, LineDone, SetsValue, Checked, Interval
<1>2. u'.expire \in Int
  BY ConfigAssumption DEF LineDone, SetsValue, Checked
<1> QED
  BY <1>1, <1>2

\* The options of a pf line end where the first table stands.
LEMMA FlagsAndTables ==
  ASSUME NEW a \in Seq(STRING), FirstTable(a) > 0
  PROVE  parseFlags(a) = Options(a) /\ Range(SubSeq(a, FirstTable(a), Len(a))) = Tables(a)
<1> DEFINE T == {i \in DOMAIN a : ~IsOption(a[i])}
           f == FirstTable(a)
<1>1. Len(a) \in Nat /\ DOMAIN a = 1 .. Len(a) /\ T \in SUBSET (1 .. Len(a))
  OBVIOUS
<1>2. T # {} /\ f = Min(T)
  BY DEF FirstTable
<1>3. f \in T /\ \A x \in T : f <= x
  BY <1>1, <1>2, MinMaxFacts, Zenon
<1>4. f \in 1 .. Len(a) /\ ~IsOption(a[f]) /\ \A k \in 1 .. Len(a) : k < f => IsOption(a[k])
  BY <1>1, <1>3
<1> HIDE DEF f, T
<1>5. {k \in DOMAIN a : \A j \in 1 .. k : IsOption(a[j])} = 1 .. f - 1
  BY <1>1, <1>4
<1>6. {k \in DOMAIN a : \E j \in 1 .. k : ~IsOption(a[j])} = f .. Len(a)
  BY <1>1, <1>4
<1>7. parseFlags(a) = Options(a)
  BY <1>5 DEF parseFlags, Options, f
<1>8. Range(SubSeq(a, f, Len(a))) = Tables(a)
  <2> DEFINE b == SubSeq(a, f, Len(a))
  <2>1. /\ DOMAIN b = 1 .. Len(a) - f + 1
        /\ \A i \in 1 .. Len(a) - f + 1 : b[i] = a[f + i - 1]
    BY <1>1, <1>4
  <2> HIDE DEF b
  <2>2. \A k \in f .. Len(a) : k - f + 1 \in 1 .. Len(a) - f + 1 /\ b[k - f + 1] = a[k]
    BY <1>1, <1>4, <2>1
  <2>3. \A i \in 1 .. Len(a) - f + 1 : f + i - 1 \in f .. Len(a)
    BY <1>1, <1>4
  <2>4. Range(b) = {b[i] : i \in 1 .. Len(a) - f + 1}
    BY <2>1 DEF Range
  <2>5. Tables(a) = {a[k] : k \in f .. Len(a)}
    BY <1>6 DEF Tables
  <2>6. Range(b) \subseteq Tables(a)
    BY <2>1, <2>3, <2>4, <2>5
  <2>7. Tables(a) \subseteq Range(b)
    BY <2>2, <2>4, <2>5
  <2> QED
    BY <2>6, <2>7, Zenon DEF b
<1> QED
  BY <1>7, <1>8 DEF f

\* except, ipset and pf lines add up, and a table keeps the options it was named with first.
LEMMA AddsUpStep ==
  ASSUME Shape, AddsUp, NEW d \in Lines, LineDone(d), wrote' = Append(wrote, d)
  PROVE  AddsUp'
<1> DEFINE a == d.args
           n == Len(wrote) + 1
<1>1. a \in Seq(STRING) /\ Len(wrote) \in Nat
  BY ConfigAssumption DEF Shape
<1>2. \A dir : Words(dir)' = IF d.dir = dir THEN Words(dir) \cup Range(a) ELSE Words(dir)
  BY WordsAppended DEF Shape
<1>3. u'.ignored = Words("except")' \ {"notadomain"}
  BY <1>2 DEF AddsUp, LineDone, AddsTo
<1>4. u'.ipset = IF os' = "linux" THEN Words("ipset")' ELSE {}
  BY <1>2, Zenon DEF AddsUp, LineDone, AddsTo
<1>5. /\ At("pf") \subseteq 1 .. Len(wrote) /\ wrote'[n] = d
      /\ \A i \in At("pf") : wrote'[i] = wrote[i]
      /\ At("pf")' = IF d.dir = "pf" THEN At("pf") \cup {n} ELSE At("pf")
  BY Appended DEF Shape
<1>6. \A i \in At("pf") : i \in Int /\ i < n
  BY <1>1, <1>5
<1> DEFINE PfSays(dom, val, lines, text) ==
             /\ dom = IF os = "darwin" THEN UNION {Tables(text[i].args) : i \in lines} ELSE {}
             /\ \A t \in dom : \E i \in lines :
                  /\ t \in Tables(text[i].args) /\ val[t] = Options(text[i].args)
                  /\ \A j \in lines : j < i => t \notin Tables(text[j].args)
<1>7. PfSays(DOMAIN u.pf, u.pf, At("pf"), wrote)
  BY DEF AddsUp
<1>8. PfSays(DOMAIN u'.pf, u'.pf, At("pf")', wrote')
  <2>1. CASE ~(d.dir = "pf" /\ os = "darwin")
    <3>1. u'.pf = u.pf
      BY <2>1 DEF LineDone, AddsTo
    <3>2. CASE d.dir # "pf"
      <4>1. At("pf")' = At("pf") /\ \A i \in At("pf") : wrote'[i] = wrote[i]
        BY <1>5, <3>2
      <4>2. UNION {Tables(wrote'[i].args) : i \in At("pf")}
              = UNION {Tables(wrote[i].args) : i \in At("pf")}
        BY <4>1, Zenon
      <4>3. ASSUME NEW t \in DOMAIN u'.pf
            PROVE  \E i \in At("pf")' :
                     /\ t \in Tables(wrote'[i].args) /\ u'.pf[t] = Options(wrote'[i].args)
                     /\ \A j \in At("pf")' : j < i => t \notin Tables(wrote'[j].args)
        <5>1. PICK i \in At("pf") :
                /\ t \in Tables(wrote[i].args) /\ u.pf[t] = Options(wrote[i].args)
                /\ \A j \in At("pf") : j < i => t \notin Tables(wrote[j].args)
          BY <1>7, <3>1
        <5> QED
          BY <3>1, <4>1, <5>1, Zenon
      <4>4. DOMAIN u'.pf = IF os = "darwin" THEN UNION {Tables(wrote'[i].args) : i \in At("pf")'}
                                            ELSE {}
        BY <1>7, <3>1, <4>1, <4>2, Zenon
      <4> QED
        BY <4>3, <4>4, Zenon
    <3>3. CASE os # "darwin"
      BY <1>7, <3>1, <3>3
    <3> QED
      BY <2>1, <3>2, <3>3, Zenon
  <2>2. CASE d.dir = "pf" /\ os = "darwin"
    <3> DEFINE S == Tables(a)
               f == Options(a)
    <3>1. u'.pf = AddTables(u.pf, S, f)
      BY <1>1, <2>2, FlagsAndTables DEF LineDone, AddsTo, Checked
    <3>2. /\ DOMAIN u'.pf = DOMAIN u.pf \cup S
          /\ \A t \in DOMAIN u.pf : u'.pf[t] = u.pf[t]
          /\ \A t \in S \ DOMAIN u.pf : u'.pf[t] = f
      BY <3>1 DEF AddTables
    <3>3. At("pf")' = At("pf") \cup {n} /\ Tables(wrote'[n].args) = S /\ Options(wrote'[n].args) = f
      BY <1>5, <2>2
    <3>4. DOMAIN u.pf = UNION {Tables(wrote[i].args) : i \in At("pf")}
      BY <1>7, <2>2
    <3> HIDE DEF S, f
    <3>5. DOMAIN u'.pf = UNION {Tables(wrote'[i].args) : i \in At("pf")'}
      BY <1>5, <3>2, <3>3, <3>4
    <3>6. ASSUME NEW t \in DOMAIN u.pf
          PROVE  \E i \in At("pf")' :
                   /\ t \in Tables(wrote'[i].args) /\ u'.pf[t] = Options(wrote'[i].args)
                   /\ \A j \in At("pf")' : j < i => t \notin Tables(wrote'[j].args)
      <4>1. PICK i \in At("pf") : /\ t \in Tables(wrote[i].args) /\ u.pf[t] = Options(wrote[i].args)
                                  /\ \A j \in At("pf") : j < i => t \notin Tables(wrote[j].args)
        BY <1>7
      <4>2. i \in At("pf")' /\ wrote'[i] = wrote[i] /\ i \in Int /\ i < n /\ n \in Int
        BY <1>1, <1>5, <1>6, <3>3
      <4>3. \A j \in At("pf")' : j < i => j \in At("pf") /\ wrote'[j] = wrote[j]
        BY <1>5, <3>3, <4>2
      <4> QED
        BY <3>2, <4>1, <4>2, <4>3, Zenon
    <3>7. ASSUME NEW t \in S, t \notin DOMAIN u.pf
          PROVE  \E i \in At("pf")' :
                   /\ t \in Tables(wrote'[i].args) /\ u'.pf[t] = Options(wrote'[i].args)
                   /\ \A j \in At("pf")' : j < i => t \notin Tables(wrote'[j].args)
      <4>1. \A j \in At("pf") : t \notin Tables(wrote[j].args) /\ wrote'[j] = wrote[j]
        BY <1>5, <3>4, <3>7
      <4>2. \A j \in At("pf")' : j < n => j \in At("pf")
        BY <1>1, <3>3
      <4> QED
        BY <3>2, <3>3, <3>7, <4>1, <4>2, Zenon
    <3> QED
      BY <2>2, <3>2, <3>5, <3>6, <3>7, Zenon
  <2> QED
    BY <2>1, <2>2, Zenon
<1>9. os' = os
  BY DEF LineDone
<1> QED
  BY <1>3, <1>4, <1>8, <1>9, Zenon DEF AddsUp

\* What a block says of reloading, until its end.
Reloads == u.pathReload = PathReloadSaid /\ u.urlReload = UrlReloadSaid

\* The last reload line of each kind counts.
LEMMA ReloadsStep ==
  ASSUME Shape, Reloads, NEW d \in Lines, LineDone(d), wrote' = Append(wrote, d)
  PROVE  Reloads'
<1>1. \A dir : /\ d.dir = dir => At(dir)' # {} /\ LastOf(dir)' = d.args
               /\ d.dir # dir => At(dir)' = At(dir) /\ (At(dir) # {} => LastOf(dir)' = LastOf(dir))
  BY LastAppended DEF Shape
<1>2. u'.pathReload = IF d.dir = "path_reload" THEN Duration[d.args[1]] ELSE u.pathReload
  BY DEF LineDone, SetsValue
<1>3. u'.urlReload = IF d.dir = "url_reload" THEN Duration[d.args[1]] ELSE u.urlReload
  BY DEF LineDone, SetsValue
<1>4. PathReloadSaid' = IF d.dir = "path_reload" THEN Duration[d.args[1]] ELSE PathReloadSaid
  BY <1>1 DEF PathReloadSaid
<1>5. UrlReloadSaid' = IF d.dir = "url_reload" THEN Duration[d.args[1]] ELSE UrlReloadSaid
  BY <1>1, SMT DEF UrlReloadSaid
<1> QED
  BY <1>2, <1>3, <1>4, <1>5 DEF Reloads

\* Until the end of the block its hosts are those of the `to` lines, in their order.
Hosts0 == {HostOf[w] : w \in STRING}
Copied ==
  /\ u.hosts \in Seq(Hosts0)
  /\ \E place \in [DOMAIN u.hosts -> Places] :
       InOrder(place) /\ \A n \in DOMAIN u.hosts : u.hosts[n] = HostAt(place[n])

\* A line adds its arguments, if it is a `to` line, behind the places there are.
LEMMA PlacesAppended ==
  ASSUME Shape, NEW d \in Lines, wrote' = Append(wrote, d), NEW m, m = Len(wrote) + 1
  PROVE  /\ d.dir = "to" => Places' = Places \cup ({m} \X DOMAIN d.args)
         /\ d.dir # "to" => Places' = Places
         /\ \A p \in Places : p[1] \in 1 .. Len(wrote) /\ HostAt(p)' = HostAt(p)
         /\ \A k \in DOMAIN d.args : HostAt(<<m, k>>)' = HostOf[d.args[k]]
<1>1. wrote \in Seq(Lines) /\ Len(wrote) \in Nat
  BY DEF Shape
<1>2. /\ At("to") \subseteq 1 .. Len(wrote) /\ wrote'[m] = d
      /\ \A i \in 1 .. Len(wrote) : wrote'[i] = wrote[i]
      /\ d.dir # "to" => At("to")' = At("to")
      /\ d.dir = "to" => At("to")' = At("to") \cup {m}
  BY <1>1, Appended, Zenon
<1>3. Places' = UNION {{i} \X DOMAIN wrote'[i].args : i \in At("to")'}
  BY DEF Places
<1>4. \A i \in At("to") : {i} \X DOMAIN wrote'[i].args = {i} \X DOMAIN wrote[i].args
  BY <1>2
<1>5. \A p \in Places : p[1] \in 1 .. Len(wrote)
  BY <1>2 DEF Places
<1>6. \A p \in Places : HostAt(p)' = HostAt(p)
  BY <1>2, <1>5 DEF HostAt
<1>7. ASSUME NEW k \in DOMAIN d.args PROVE HostAt(<<m, k>>)' = HostOf[d.args[k]]
  <2>1. <<m, k>>[1] = m /\ <<m, k>>[2] = k
    OBVIOUS
  <2>2. HostAt(<<m, k>>)' = HostOf[wrote'[<<m, k>>[1]].args[<<m, k>>[2]]]
    BY DEF HostAt
  <2> QED
    BY <1>2, <2>1, <2>2
<1>8. ASSUME d.dir = "to" PROVE Places' = Places \cup ({m} \X DOMAIN d.args)
  <2>1. At("to")' = At("to") \cup {m}
    BY <1>2, <1>8
  <2>2. \A p : p \in Places' <=> \E i \in At("to") \cup {m} : p \in {i} \X DOMAIN wrote'[i].args
    BY <1>3, <2>1, Zenon
  <2>3. \A p : p \in Places <=> \E i \in At("to") : p \in {i} \X DOMAIN wrote[i].args
    BY DEF Places
  <2> QED
    BY <1>2, <1>4, <2>2, <2>3
<1>9. ASSUME d.dir # "to" PROVE Places' = Places
  <2>1. Places' = UNION {{i} \X DOMAIN wrote'[i].args : i \in At("to")}
    BY <1>2, <1>3, <1>9
  <2> QED
    BY <1>4, <2>1, Zenon DEF Places
<1> QED
  BY <1>5, <1>6, <1>7, <1>8, <1>9

\* The first N places of a list are those of P, all of them, in the order of the text.
Orders(q, N, P) ==
  /\ q \in [1 .. N -> P]
  /\ \A p \in P : \E n \in 1 .. N : q[n] = p
  /\ \A i, n \in 1 .. N : i < n => Before(q[i], q[n])

\* The list goes on with the K places of line m.
GoesOn(q, place, N, K, m, P) ==
  /\ Orders(q, N + K, P \cup ({m} \X (1 .. K)))
  /\ \A n \in 1 .. N : q[n] = place[n]
  /\ \A k \in 1 .. K : q[N + k] = <<m, k>>
Earlier(P, m) == \A p \in P : p[1] \in Nat /\ p[1] < m

\* A list that puts the places P in order goes on with the K places of a later line.
LEMMA OrderExtends ==
  ASSUME NEW P, NEW m \in Nat, NEW N \in Nat, NEW K \in Nat, NEW place, Orders(place, N, P),
         Earlier(P, m)
  PROVE  \E q : GoesOn(q, place, N, K, m, P)
<1>0. /\ place \in [1 .. N -> P]
      /\ \A p \in P : \E n \in 1 .. N : place[n] = p
      /\ \A i, n \in 1 .. N : i < n => Before(place[i], place[n])
  BY DEF Orders
<1> DEFINE q == [n \in 1 .. N + K |-> IF n <= N THEN place[n] ELSE <<m, n - N>>]
           Q == P \cup ({m} \X (1 .. K))
<1>1. \A n \in 1 .. N + K : n \in 1 .. N \/ (n > N /\ n - N \in 1 .. K)
  OBVIOUS
<1>2. \A n \in 1 .. N : n \in 1 .. N + K /\ q[n] = place[n] /\ place[n] \in P
  BY <1>0
<1>3. ASSUME NEW k \in 1 .. K PROVE N + k \in 1 .. N + K /\ q[N + k] = <<m, k>>
  <2>1. N + k \in 1 .. N + K /\ ~(N + k <= N) /\ (N + k) - N = k
    OBVIOUS
  <2> QED
    BY <2>1
<1>4. \A n \in 1 .. N + K : n > N => q[n] = <<m, n - N>>
  OBVIOUS
<1>5. ASSUME NEW n \in 1 .. N + K PROVE q[n] \in Q
  <2>1. CASE n \in 1 .. N
    BY <1>2, <2>1, Zenon
  <2>2. CASE n > N /\ n - N \in 1 .. K
    <3>1. <<m, n - N>> \in {m} \X (1 .. K)
      BY <2>2
    <3>2. q[n] = <<m, n - N>>
      BY <1>4, <2>2
    <3> HIDE DEF q
    <3> QED
      BY <3>1, <3>2
  <2> QED
    BY <1>1, <2>1, <2>2
<1>6. q \in [1 .. N + K -> Q]
  BY <1>5
<1> HIDE DEF q
<1>7. ASSUME NEW p \in Q PROVE \E n \in 1 .. N + K : q[n] = p
  <2>1. CASE p \in P
    BY <1>0, <1>2, <2>1
  <2>2. CASE p \in {m} \X (1 .. K)
    <3>1. PICK k \in 1 .. K : p = <<m, k>>
      BY <2>2
    <3> QED
      BY <1>3, <3>1
  <2> QED
    BY <2>1, <2>2
<1>8. ASSUME NEW i \in 1 .. N + K, NEW n \in 1 .. N + K, i < n PROVE Before(q[i], q[n])
  <2>1. CASE n \in 1 .. N
    <3>1. i \in 1 .. N
      BY <1>8, <2>1
    <3> QED
      BY <1>0, <1>2, <1>8, <2>1, <3>1
  <2>2. CASE i \in 1 .. N /\ n > N
    <3>1. q[i] \in P /\ q[i][1] < m
      BY <1>2, <2>2 DEF Earlier
    <3>2. q[n][1] = m
      BY <1>4, <2>2
    <3> QED
      BY <3>1, <3>2 DEF Before
  <2>3. CASE i > N
    <3>1. n > N /\ i - N < n - N
      BY <1>8, <2>3
    <3>2. q[i] = <<m, i - N>> /\ q[n] = <<m, n - N>>
      BY <1>4, <2>3, <3>1
    <3>3. q[i][1] = q[n][1] /\ q[i][2] < q[n][2]
      BY <3>1, <3>2
    <3> QED
      BY <3>3 DEF Before
  <2> QED
    BY <1>1, <2>1, <2>2, <2>3
<1>9. Orders(q, N + K, P \cup ({m} \X (1 .. K)))
  BY <1>6, <1>7, <1>8 DEF Orders
<1> QED
  BY <1>2, <1>3, <1>9 DEF GoesOn

\* A concatenation has the elements of both sequences.
LEMMA Joined ==
  ASSUME NEW S, NEW s \in Seq(S), NEW t \in Seq(S), NEW N, N = Len(s), NEW K, K = Len(t)
  PROVE  /\ s \o t \in Seq(S) /\ DOMAIN (s \o t) = 1 .. N + K
         /\ \A n \in 1 .. N : (s \o t)[n] = s[n]
         /\ \A k \in 1 .. K : (s \o t)[N + k] = t[k]
<1>1. Len(s) \in Nat /\ Len(t) \in Nat /\ DOMAIN s = 1 .. Len(s) /\ DOMAIN t = 1 .. Len(t)
  OBVIOUS
<1>2. s \o t \in Seq(S)
  OBVIOUS
<1>3. Len(s \o t) = Len(s) + Len(t)
  OBVIOUS
<1>4. DOMAIN (s \o t) = 1 .. N + K
  BY <1>2, <1>3
<1>5. \A n \in 1 .. N : (s \o t)[n] = s[n]
  BY <1>1
<1>6. \A k \in 1 .. K : (s \o t)[N + k] = t[k]
  BY <1>1
<1> QED
  BY <1>2, <1>4, <1>5, <1>6

\* A `to` line adds a host for each of its arguments at the end; other lines add none.
LEMMA CopiedStep ==
  ASSUME Shape, Copied, NEW d \in Lines, LineDone(d), wrote' = Append(wrote, d)
  PROVE  Copied'
<1>1. PICK a, m, N, K : a = d.args /\ m = Len(wrote) + 1 /\ N = Len(u.hosts) /\ K = Len(a)
  BY Zenon
<1>2. a \in Seq(STRING) /\ Len(wrote) \in Nat /\ m \in Nat /\ DOMAIN a = 1 .. K /\ K \in Nat
  BY <1>1, ConfigAssumption DEF Shape
<1>3. u.hosts \in Seq(Hosts0) /\ N \in Nat /\ DOMAIN u.hosts = 1 .. N
  BY <1>1 DEF Copied
<1>4. PICK place \in [1 .. N -> Places] :
        InOrder(place) /\ \A n \in 1 .. N : u.hosts[n] = HostAt(place[n])
  BY <1>3 DEF Copied
<1>5. /\ d.dir = "to" => Places' = Places \cup ({m} \X DOMAIN d.args)
      /\ d.dir # "to" => Places' = Places
      /\ \A p \in Places : p[1] \in 1 .. Len(wrote) /\ HostAt(p)' = HostAt(p)
      /\ \A k \in DOMAIN d.args : HostAt(<<m, k>>)' = HostOf[d.args[k]]
  BY <1>1, PlacesAppended
<1>6. CASE d.dir # "to"
  <2>1. u'.hosts = u.hosts /\ Places' = Places
    BY <1>5, <1>6 DEF LineDone, AddsTo
  <2>2. InOrder(place)'
    BY <1>4, <2>1 DEF InOrder
  <2>3. \A n \in 1 .. N : u'.hosts[n] = HostAt(place[n])'
    BY <1>4, <1>5, <2>1
  <2> QED
    BY <1>3, <2>1, <2>2, <2>3 DEF Copied
<1>7. CASE d.dir = "to"
  <2>1. PICK b : b = [k \in DOMAIN a |-> HostOf[a[k]]]
    BY Zenon
  <2>2. u'.hosts = u.hosts \o b /\ Places' = Places \cup ({m} \X (1 .. K))
    BY <1>1, <1>2, <1>5, <1>7, <2>1 DEF LineDone, AddsTo
  <2>3. b \in Seq(Hosts0) /\ Len(b) = K
    <3>1. \A k \in 1 .. K : a[k] \in STRING
      BY <1>2
    <3>2. \A k \in 1 .. K : HostOf[a[k]] \in Hosts0
      BY <3>1, Zenon DEF Hosts0
    <3>3. b = [k \in 1 .. K |-> HostOf[a[k]]]
      BY <1>2, <2>1
    <3>4. b \in [1 .. K -> Hosts0]
      BY <3>2, <3>3
    <3> QED
      BY <1>2, <3>4
  <2>4. /\ u'.hosts \in Seq(Hosts0) /\ DOMAIN u'.hosts = 1 .. N + K
        /\ \A n \in 1 .. N : u'.hosts[n] = u.hosts[n]
    <3>1. PICK H, S : H = u.hosts /\ S = Hosts0
      OBVIOUS
    <3>2. H \in Seq(S) /\ b \in Seq(S) /\ N = Len(H) /\ K = Len(b)
      BY <1>1, <1>3, <2>3, <3>1
    <3>3. /\ H \o b \in Seq(S) /\ DOMAIN (H \o b) = 1 .. N + K
          /\ \A n \in 1 .. N : (H \o b)[n] = H[n]
      BY <3>2, Joined
    <3> QED
      BY <2>2, <3>1, <3>3, Zenon
  <2>5. \A k \in 1 .. K : u'.hosts[N + k] = HostOf[a[k]]
    <3>1. PICK H, S : H = u.hosts /\ S = Hosts0
      OBVIOUS
    <3>2. H \in Seq(S) /\ b \in Seq(S) /\ N = Len(H) /\ K = Len(b)
      BY <1>1, <1>3, <2>3, <3>1
    <3>3. \A k \in 1 .. K : (H \o b)[N + k] = b[k]
      BY <3>2, Joined
    <3>4. \A k \in 1 .. K : b[k] = HostOf[a[k]]
      BY <1>2, <2>1
    <3> QED
      BY <2>2, <3>1, <3>3, <3>4, Zenon
  <2>6. PICK q : /\ Orders(q, N + K, Places')
                 /\ \A n \in 1 .. N : q[n] = place[n]
                 /\ \A k \in 1 .. K : q[N + k] = <<m, k>>
    <3>1. \A p \in Places : p[1] \in Nat /\ p[1] < m
      BY <1>1, <1>2, <1>5
    <3>2. Orders(place, N, Places)
      BY <1>4 DEF InOrder, Orders
    <3>3. PICK P : P = Places
      OBVIOUS
    <3>4. \E q : GoesOn(q, place, N, K, m, P)
      <4>1. Orders(place, N, P) /\ Earlier(P, m)
        BY <3>1, <3>2, <3>3 DEF Earlier
      <4>2. m \in Nat /\ N \in Nat /\ K \in Nat
        BY <1>2, <1>3
      <4> QED
        BY <4>1, <4>2, OrderExtends
    <3> QED
      BY <2>2, <3>3, <3>4 DEF GoesOn
  <2>7. q \in [1 .. N + K -> Places']
    BY <2>6 DEF Orders
  <2>8. InOrder(q)'
    BY <2>6, <2>7 DEF InOrder, Before, Orders
  <2>9. ASSUME NEW n \in 1 .. N + K PROVE u'.hosts[n] = HostAt(q[n])'
    <3>1. CASE n \in 1 .. N
      <4>1. q[n] = place[n] /\ place[n] \in Places
        BY <2>6, <3>1
      <4> QED
        BY <1>4, <1>5, <2>4, <3>1, <4>1
    <3>2. CASE n \notin 1 .. N
      <4>1. PICK k \in 1 .. K : n = N + k
        <5>1. n - N \in 1 .. K /\ n = N + (n - N)
          BY <1>2, <1>3, <3>2
        <5> QED
          BY <5>1
      <4>2. q[n] = <<m, k>>
        BY <2>6, <4>1
      <4>3. u'.hosts[n] = HostOf[a[k]]
        BY <2>5, <4>1
      <4> QED
        BY <1>1, <1>2, <1>5, <4>2, <4>3
    <3> QED
      BY <3>1, <3>2
  <2> QED
    BY <2>4, <2>7, <2>8, <2>9, Zenon DEF Copied
<1> QED
  BY <1>6, <1>7

-----------------------------------------------------------------------------
\* A block from its start to its end

\* What holds of the block from its start on, and until its end.
ReadOK == Shape /\ u.expire \in Int /\ LastCounts /\ WithinLimits /\ AddsUp
OpenOK == Reloads /\ Copied /\ (u.matchAny => u.items = <<>>)

\* The inductive invariant of the parsing.
BlockInv ==
  /\ stage \in {"from", "block", "accepted"} => ReadOK
  /\ stage \in {"from", "block"} => OpenOK
  /\ stage = "from" => u = newUpstream /\ wrote = <<>>
  /\ AsWritten /\ HostsInherit /\ BlockUsable

\* A block without lines yet.
Fresh == u = newUpstream /\ wrote = <<>>

\* The defaults are what a block without lines says.
LEMMA FreshOK == Fresh => ReadOK /\ OpenOK
<1> SUFFICES ASSUME Fresh PROVE ReadOK /\ OpenOK
  OBVIOUS
<1>1. \A dir : At(dir) = {}
  BY DEF At, Fresh
<1>2. Timed = {} /\ (\A dir : Words(dir) = {}) /\ Places = {}
  BY <1>1 DEF Timed, Words, Places
<1>3. Shape
  BY NewUpstreamFields DEF Shape, Fresh
<1>0. /\ u.expire = 15000 /\ u.checkInterval = 2000
      /\ u.maxFails = 3 /\ u.maxRetry = 10 /\ u.policy = "random" /\ u.certs = <<>>
      /\ u.serverName = NoName /\ u.urlReadTimeout = defaultUrlReadTimeout
      /\ u.pathReload = 2000 /\ u.urlReload = 1800000
      /\ u.ignored = {} /\ u.ipset = {} /\ u.pf = <<>> /\ u.hosts = <<>>
      /\ u.matchAny = FALSE /\ u.recursionDesired = TRUE
  <2>1. u.expire = 15000 /\ u.checkInterval = 2000
    BY SMT DEF Fresh, newUpstream
  <2>2. u.maxFails = 3 /\ u.maxRetry = 10 /\ u.policy = "random"
    BY SMT DEF Fresh, newUpstream
  <2>3. u.certs = <<>> /\ u.serverName = NoName /\ u.urlReadTimeout = defaultUrlReadTimeout
    BY SMT DEF Fresh, newUpstream
  <2>4. u.pathReload = 2000 /\ u.urlReload = 1800000
    BY SMT DEF Fresh, newUpstream
  <2>5. u.ignored = {} /\ u.ipset = {} /\ u.pf = <<>> /\ u.hosts = <<>>
    BY SMT DEF Fresh, newUpstream
  <2>6. u.matchAny = FALSE
    BY SMT DEF Fresh, newUpstream
  <2>7. u.recursionDesired = TRUE
    BY SMT DEF Fresh, newUpstream
  <2> QED
    BY <2>1, <2>2, <2>3, <2>4, <2>5, <2>6, <2>7, SMT
<1>4. LastCounts
  <2>1. (At("health_check") = {} \/ Len(LastOf("health_check")) = 1) = TRUE
    BY <1>1
  <2>2. u.recursionDesired = (At("health_check") = {} \/ Len(LastOf("health_check")) = 1)
    <3>1. u.recursionDesired = TRUE
      BY <1>0, SMT
    <3> QED
      BY <2>1, <3>1, Zenon
  <2>3. u.certs = CertsSaid /\ u.serverName = ServerNameSaid
    BY <1>0, <1>1, SMT DEF CertsSaid, ServerNameSaid
  <2>4. /\ u.expire = IF At("expire") = {} THEN 15000 ELSE Duration[LastOf("expire")[1]]
        /\ u.checkInterval = IF At("health_check") = {} THEN 2000 ELSE Duration[LastOf("health_check")[1]]
        /\ u.urlReadTimeout = IF Timed = {} THEN defaultUrlReadTimeout ELSE Duration[LastTimed[2]]
    BY <1>0, <1>1, <1>2, SMT
  <2>5. /\ u.maxFails = IF At("max_fails") = {} THEN 3 ELSE Number[LastOf("max_fails")[1]]
        /\ u.maxRetry = IF At("max_retry") = {} THEN 10 ELSE Number[LastOf("max_retry")[1]]
        /\ u.policy = IF At("policy") = {} THEN "random" ELSE LastOf("policy")[1]
    BY <1>0, <1>1, SMT
  <2> QED
    BY <2>2, <2>3, <2>4, <2>5 DEF LastCounts
<1>5. WithinLimits /\ u.expire \in Int
  BY <1>0, SMT DEF WithinLimits, minExpireInterval, minHcInterval, minUrlReadTimeout,
     defaultUrlReadTimeout
<1>6. AddsUp
  <2>1. u.ignored = {} /\ u.ipset = {} /\ DOMAIN u.pf = {}
    BY <1>0, SMT
  <2>2. UNION {Tables(wrote[i].args) : i \in At("pf")} = {}
    BY <1>1
  <2> QED
    BY <1>2, <2>1, <2>2 DEF AddsUp
<1>7. Reloads /\ (u.matchAny => u.items = <<>>)
  BY <1>0, <1>1, SMT DEF Reloads, PathReloadSaid, UrlReloadSaid
<1>8. Copied
  <2>1. u.hosts = <<>> /\ DOMAIN u.hosts = {} /\ u.hosts \in Seq(Hosts0)
    BY <1>0, SMT
  <2>2. <<>> \in [{} -> Places] /\ InOrder(<<>>)
    BY <1>2 DEF InOrder
  <2> QED
    BY <2>1, <2>2, Zenon DEF Copied
<1> QED
  BY <1>3, <1>4, <1>5, <1>6, <1>7, <1>8 DEF ReadOK, OpenOK

\* The same of the next state.
LEMMA FreshNext == Fresh' => ReadOK' /\ OpenOK'
BY FreshOK, PTL

\* The same text says the same.
LEMMA SameText ==
  ASSUME wrote' = wrote
  PROVE  /\ \A dir : At(dir)' = At(dir) /\ LastOf(dir)' = LastOf(dir) /\ Words(dir)' = Words(dir)
         /\ Timed' = Timed /\ LastTimed' = LastTimed
         /\ CertsSaid' = CertsSaid /\ ServerNameSaid' = ServerNameSaid
         /\ PathReloadSaid' = PathReloadSaid /\ UrlReloadSaid' = UrlReloadSaid
         /\ Places' = Places /\ \A p : HostAt(p)' = HostAt(p)
<1>1. \A dir : At(dir)' = At(dir)
  BY DEF At
<1>2. \A dir : LastOf(dir)' = LastOf(dir) /\ Words(dir)' = Words(dir)
  BY <1>1 DEF LastOf, Words
<1>3. Timed' = Timed
  BY <1>1 DEF Timed
<1>4. LastTimed' = LastTimed
  BY <1>3 DEF LastTimed
<1>5. CertsSaid' = CertsSaid /\ ServerNameSaid' = ServerNameSaid
  BY <1>1, <1>2 DEF CertsSaid, ServerNameSaid
<1>6. PathReloadSaid' = PathReloadSaid /\ UrlReloadSaid' = UrlReloadSaid
  BY <1>1, <1>2, SMT DEF PathReloadSaid, UrlReloadSaid
<1>7. Places' = Places /\ \A p : HostAt(p)' = HostAt(p)
  BY <1>1 DEF Places, HostAt
<1> QED
  BY <1>1, <1>2, <1>3, <1>4, <1>5, <1>6, <1>7

\* FROM and the end of the block leave the fields alone that lines set.
LEMMA KeepsRead ==
  ASSUME ReadOK, wrote' = wrote, os' = os, DOMAIN u' = Fields,
         \A f \in Fields \ {"matchAny", "items", "hosts", "pathReload", "urlReload"} : u'[f] = u[f]
  PROVE  ReadOK'
<1>1. /\ u'.expire = u.expire /\ u'.checkInterval = u.checkInterval
      /\ u'.recursionDesired = u.recursionDesired
      /\ u'.maxFails = u.maxFails /\ u'.maxRetry = u.maxRetry /\ u'.policy = u.policy
      /\ u'.certs = u.certs /\ u'.serverName = u.serverName
      /\ u'.urlReadTimeout = u.urlReadTimeout
      /\ u'.ignored = u.ignored /\ u'.ipset = u.ipset /\ u'.pf = u.pf
  BY DEF Fields
<1>2. Shape' /\ u'.expire \in Int
  BY <1>1 DEF Shape, ReadOK
<1>3. LastCounts'
  <2>1. /\ \A dir : At(dir)' = At(dir) /\ LastOf(dir)' = LastOf(dir)
        /\ Timed' = Timed /\ LastTimed' = LastTimed
        /\ CertsSaid' = CertsSaid /\ ServerNameSaid' = ServerNameSaid
    BY SameText
  <2>2. LastCounts
    BY DEF ReadOK
  <2>3. (/\ u.expire = IF At("expire") = {} THEN 15000 ELSE Duration[LastOf("expire")[1]]
         /\ u.checkInterval = IF At("health_check") = {} THEN 2000 ELSE Duration[LastOf("health_check")[1]]
         /\ u.recursionDesired = (At("health_check") = {} \/ Len(LastOf("health_check")) = 1))'
    <3>1. (u.expire = IF At("expire") = {} THEN 15000 ELSE Duration[LastOf("expire")[1]])'
      BY <1>1, <2>1, <2>2 DEF LastCounts
    <3>2. (u.checkInterval = IF At("health_check") = {} THEN 2000 ELSE Duration[LastOf("health_check")[1]])'
      BY <1>1, <2>1, <2>2 DEF LastCounts
    <3>3. (u.recursionDesired = (At("health_check") = {} \/ Len(LastOf("health_check")) = 1))'
      BY <1>1, <2>1, <2>2 DEF LastCounts
    <3> QED
      BY <3>1, <3>2, <3>3
  <2>4. (/\ u.maxFails = IF At("max_fails") = {} THEN 3 ELSE Number[LastOf("max_fails")[1]]
         /\ u.maxRetry = IF At("max_retry") = {} THEN 10 ELSE Number[LastOf("max_retry")[1]]
         /\ u.policy = IF At("policy") = {} THEN "random" ELSE LastOf("policy")[1])'
    BY <1>1, <2>1, <2>2 DEF LastCounts
  <2>5. (/\ u.certs = CertsSaid
         /\ u.serverName = ServerNameSaid
         /\ u.urlReadTimeout = IF Timed = {} THEN defaultUrlReadTimeout ELSE Duration[LastTimed[2]])'
    BY <1>1, <2>1, <2>2 DEF LastCounts
  <2> QED
    BY <2>3, <2>4, <2>5 DEF LastCounts
<1>4. WithinLimits'
  BY <1>1 DEF ReadOK, WithinLimits
<1>5. AddsUp'
  <2>1. At("pf")' = At("pf") /\ Words("except")' = Words("except") /\ Words("ipset")' = Words("ipset")
    BY SameText
  <2>2. UNION {Tables(wrote'[i].args) : i \in At("pf")'}
          = UNION {Tables(wrote[i].args) : i \in At("pf")}
    BY <2>1
  <2>3. /\ u'.ignored = Words("except")' \ {"notadomain"}
        /\ u'.ipset = IF os' = "linux" THEN Words("ipset")' ELSE {}
    BY <1>1, <2>1 DEF ReadOK, AddsUp
  <2>4. DOMAIN u'.pf = IF os' = "darwin" THEN UNION {Tables(wrote'[i].args) : i \in At("pf")'} ELSE {}
    BY <1>1, <2>2, Zenon DEF ReadOK, AddsUp
  <2>5. ASSUME NEW t \in DOMAIN u'.pf
        PROVE  \E i \in At("pf")' :
                 /\ t \in Tables(wrote'[i].args) /\ u'.pf[t] = Options(wrote'[i].args)
                 /\ \A j \in At("pf")' : j < i => t \notin Tables(wrote'[j].args)
    BY <1>1, <2>1 DEF ReadOK, AddsUp
  <2> QED
    BY <2>3, <2>4, <2>5 DEF AddsUp
<1> QED
  BY <1>2, <1>3, <1>4, <1>5 DEF ReadOK

\* Once setup has failed nothing is claimed of the block.
LEMMA AbandonedInv == ASSUME stage' \in {"refused", "crashed"} PROVE BlockInv'
BY DEF BlockInv, AsWritten, HostsInherit, BlockUsable

\* FROM is read first, and the block starts with it.
LEMMA ParseFromInv ==
  ASSUME BlockInv, NEW forms, parseFrom(forms)
  PROVE  BlockInv'
<1>1. CASE stage' = "refused"
  BY <1>1, AbandonedInv
<1>2. CASE stage' # "refused"
  <2>1. /\ stage = "from" /\ stage' = "block" /\ os' = os /\ wrote' = wrote
        /\ u' = IF forms = <<".">>
                  THEN [u EXCEPT !.matchAny = TRUE]
                  ELSE [u EXCEPT !.items = [i \in DOMAIN forms |-> ItemOf(forms[i])]]
    BY <1>2 DEF parseFrom, Abandon
  <2>2. ReadOK /\ OpenOK /\ DOMAIN u = Fields
    BY <2>1 DEF BlockInv, ReadOK, Shape
  <2>3. u.matchAny = FALSE /\ u.items = <<>>
    BY <2>1, SMT DEF BlockInv, newUpstream
  <2>4. DOMAIN u' = Fields /\ \A f \in Fields \ {"matchAny", "items"} : u'[f] = u[f]
    BY <2>1, <2>2
  <2>5. ReadOK'
    BY <2>1, <2>2, <2>4, KeepsRead
  <2>6. u'.matchAny => u'.items = <<>>
    <3>1. "matchAny" \in DOMAIN u /\ "items" \in DOMAIN u
      BY <2>2 DEF Fields
    <3>2. CASE forms = <<".">>
      BY <2>1, <2>3, <3>1, <3>2
    <3>3. CASE forms # <<".">>
      BY <2>1, <2>3, <3>1, <3>3
    <3> QED
      BY <3>2, <3>3
  <2>7. u'.hosts = u.hosts /\ u'.pathReload = u.pathReload /\ u'.urlReload = u.urlReload
    BY <2>4 DEF Fields
  <2>8. Reloads'
    BY <2>1, <2>2, <2>7, SameText DEF OpenOK, Reloads
  <2>9. Copied'
    <3>1. PICK place \in [DOMAIN u.hosts -> Places] :
            InOrder(place) /\ \A n \in DOMAIN u.hosts : u.hosts[n] = HostAt(place[n])
      BY <2>2 DEF OpenOK, Copied
    <3>2. Places' = Places /\ \A p : HostAt(p)' = HostAt(p)
      BY <2>1, SameText
    <3>3. InOrder(place)' /\ \A n \in DOMAIN u'.hosts : u'.hosts[n] = HostAt(place[n])'
      BY <2>7, <3>1, <3>2 DEF InOrder
    <3> QED
      BY <2>2, <2>7, <3>1, <3>2, <3>3 DEF OpenOK, Copied
  <2> QED
    BY <2>1, <2>5, <2>6, <2>8, <2>9 DEF BlockInv, OpenOK, AsWritten, HostsInherit, BlockUsable
<1> QED
  BY <1>1, <1>2

\* A line that is not refused keeps the block in step with its text.
LEMMA ParseBlockInv ==
  ASSUME BlockInv, NEW d \in Lines, parseBlock(d)
  PROVE  BlockInv'
<1>1. CASE stage' = "refused"
  BY <1>1, AbandonedInv
<1>2. CASE stage' # "refused"
  <2>1. stage = "block"
    BY DEF parseBlock
  <2>2. ReadOK /\ OpenOK
    BY <2>1 DEF BlockInv
  <2>3. LineDone(d) /\ wrote' = Append(wrote, d)
    BY <1>2, <2>2, LineEffect DEF ReadOK
  <2>4. stage' = "block" /\ DOMAIN u' = Fields /\ (u'.matchAny => u'.items = <<>>)
    BY <2>2, <2>3 DEF LineDone, Stays, OpenOK
  <2>5. Shape'
    BY <2>2, <2>3, <2>4 DEF ReadOK, Shape
  <2>6. LastCounts' /\ AddsUp' /\ WithinLimits' /\ u'.expire \in Int
    BY <2>2, <2>3, LastCountsStep, AddsUpStep, WithinLimitsStep DEF ReadOK
  <2>7. Reloads' /\ Copied'
    BY <2>2, <2>3, ReloadsStep, CopiedStep DEF ReadOK, OpenOK
  <2>8. ReadOK' /\ OpenOK'
    BY <2>4, <2>5, <2>6, <2>7 DEF ReadOK, OpenOK
  <2> QED
    BY <2>4, <2>8 DEF BlockInv, AsWritten, HostsInherit, BlockUsable
<1> QED
  BY <1>1, <1>2

\* The end of the block: its hosts get what it says, and its list is reloaded if there is
\* something to reload.
LEMMA EndBlockInv ==
  ASSUME BlockInv, EndBlock
  PROVE  BlockInv'
<1>1. CASE stage' \in {"refused", "crashed"}
  BY <1>1, AbandonedInv
<1>2. CASE stage' \notin {"refused", "crashed"}
  <2>1. /\ stage = "block" /\ stage' = "accepted" /\ u' = Settle(u) /\ wrote' = wrote /\ os' = os
        /\ u.hosts # <<>> /\ ~Conflict /\ ~(u.matchAny /\ u.inline # {}) /\ "nil" \notin Range(u.items)
    BY <1>2 DEF EndBlock, Abandon
  <2>2. ReadOK /\ OpenOK /\ DOMAIN u = Fields
    BY <2>1 DEF BlockInv, ReadOK, Shape
  <2>3. /\ DOMAIN u' = Fields
        /\ \A f \in Fields \ {"hosts", "pathReload", "urlReload"} : u'[f] = u[f]
        /\ u'.hosts = [i \in DOMAIN u.hosts |-> HostTransport(u.hosts[i])]
        /\ u'.pathReload = IF ~u.matchAny /\ "path" \in Range(u.items) THEN u.pathReload ELSE 0
        /\ u'.urlReload = IF ~u.matchAny /\ "url" \in Range(u.items) THEN u.urlReload ELSE 0
    BY <2>1, <2>2, Zenon DEF Settle, Fields
  <2>4. ReadOK'
    BY <2>1, <2>2, <2>3, KeepsRead
  <2>5. /\ u'.items = u.items /\ u'.matchAny = u.matchAny /\ u'.inline = u.inline
        /\ u'.ignored = u.ignored /\ u'.expire = u.expire /\ u'.certs = u.certs
        /\ u'.recursionDesired = u.recursionDesired /\ u'.serverName = u.serverName
    BY <2>3 DEF Fields
  <2>6. u.matchAny => "path" \notin Range(u.items) /\ "url" \notin Range(u.items)
    BY <2>2 DEF OpenOK, Range
  <2>7. /\ u'.pathReload = IF "path" \in Range(u'.items) THEN PathReloadSaid' ELSE 0
        /\ u'.urlReload = IF "url" \in Range(u'.items) THEN UrlReloadSaid' ELSE 0
    BY <2>1, <2>2, <2>3, <2>5, <2>6, SameText DEF OpenOK, Reloads
  <2>8. AsWritten'
    BY <2>4, <2>7 DEF AsWritten, ReadOK
  <2>9. HostsInherit'
    <3>1. PICK place \in [DOMAIN u.hosts -> Places] :
            InOrder(place) /\ \A n \in DOMAIN u.hosts : u.hosts[n] = HostAt(place[n])
      BY <2>2 DEF OpenOK, Copied
    <3>2. u'.hosts # <<>> /\ DOMAIN u'.hosts = DOMAIN u.hosts
      <4>1. u.hosts \in Seq(Hosts0)
        BY <2>2 DEF OpenOK, Copied
      <4>2. u'.hosts = [i \in DOMAIN u.hosts |-> HostTransport(u.hosts[i])]
        BY <2>3
      <4>3. DOMAIN u.hosts # {}
        <5>1. u.hosts # <<>>
          BY <2>1
        <5> QED
          BY <4>1, <5>1
      <4> QED
        BY <4>2, <4>3
    <3>3. place \in [DOMAIN u'.hosts -> Places'] /\ InOrder(place)'
      BY <2>1, <3>1, <3>2, SameText DEF InOrder
    <3>4. CertsSaid' = u.certs /\ ServerNameSaid' = u.serverName
      <4>1. CertsSaid = u.certs /\ ServerNameSaid = u.serverName
        BY <2>2 DEF ReadOK, LastCounts
      <4> QED
        BY <2>1, <4>1, SameText
    <3>5. ASSUME NEW n \in DOMAIN u.hosts
          PROVE  LET w == HostAt(place[n])' IN
                 LET h == u'.hosts[n] IN
                 /\ h.trans = w.trans
                 /\ h.expire = u'.expire
                 /\ h.recursionDesired = u'.recursionDesired
                 /\ h.certs = IF w.trans = "tls" THEN CertsSaid' ELSE <<>>
                 /\ h.serverName = IF w.trans # "tls" THEN NoName
                                   ELSE IF w.tls # NoName THEN w.tls
                                   ELSE IF w.host = "ip" THEN ServerNameSaid' ELSE NoName
      <4>1. PICK w : w = HostAt(place[n])
        OBVIOUS
      <4>2. w = HostAt(place[n])' /\ u.hosts[n] = w
        BY <2>1, <3>1, <4>1, SameText
      <4>3. u'.hosts[n] = HostTransport(w)
        BY <2>3, <4>2
      <4>4. PICK h : h = u'.hosts[n]
        OBVIOUS
      <4>5. /\ h.trans = w.trans /\ h.expire = u.expire /\ h.recursionDesired = u.recursionDesired
            /\ h.certs = IF w.trans = "tls" THEN u.certs ELSE <<>>
        <5>1. h = HostTransport(w)
          BY <4>3, <4>4
        <5>2. h.trans = w.trans /\ h.expire = u.expire /\ h.recursionDesired = u.recursionDesired
          BY <5>1 DEF HostTransport
        <5>3. h.certs = IF w.trans = "tls" THEN u.certs ELSE <<>>
          BY <5>1 DEF HostTransport
        <5> QED
          BY <5>2, <5>3
      <4>6. h.serverName = IF w.trans # "tls" THEN NoName
                           ELSE IF w.tls # NoName THEN w.tls
                           ELSE IF w.host = "ip" THEN u.serverName ELSE NoName
        BY <4>3, <4>4 DEF HostTransport
      <4> QED
        BY <2>5, <3>4, <4>2, <4>4, <4>5, <4>6
    <3> QED
      BY <3>2, <3>3, <3>5 DEF HostsInherit
  <2>10. BlockUsable'
    <3>1. u.ignored = Words("except") \ {"notadomain"} /\ Words("except")' = Words("except")
      BY <2>1, <2>2, SameText DEF ReadOK, AddsUp
    <3>2. \A name \in u'.inline : \A e \in Words("except")' \ {"notadomain"} : <<e, name>> \notin Below
      BY <2>1, <2>5, <3>1, Zenon DEF Conflict
    <3> QED
      BY <2>1, <2>3, <2>5, <3>2 DEF BlockUsable
  <2> QED
    BY <2>1, <2>4, <2>8, <2>9, <2>10 DEF BlockInv
<1> QED
  BY <1>1, <1>2

=============================================================================
