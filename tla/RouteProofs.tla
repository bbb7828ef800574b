------------------------------ MODULE RouteProofs ------------------------------
(****************************************************************************)
(* Proofs about Route, for any number of upstreams and any lines, names and *)
(* exceptions: the buckets lose no domain and make none up, so a name goes  *)
(* to the first upstream that wants it.                                     *)
(****************************************************************************)
EXTENDS Route, SequenceTheorems, FiniteSetTheorems, WellFoundedInduction, TLAPS

Str == Seq(Chars)

\* The names that are asked for: lower case, without an empty label.
WellFormed(c) ==
  /\ c \in Str /\ c # <<>>
  /\ \A k \in DOMAIN c : c[k] # "A"
  /\ c # <<".">> => /\ c[Len(c)] # "."
                    /\ \A k \in DOMAIN c : c[k] = "." => k > 1 /\ c[k - 1] # "."

\* The domain set d holds what was made of the strings T, and nothing else.
Sound(d, T) ==
  \A ix \in DOMAIN d : \A p \in d[ix] : p # <<>> /\ \E t \in T : p = StoredName(t)
Complete(d, T) ==
  \A t \in T : StoredName(t) # <<>> => StoredName(t) \in Bucket(d, StoredName(t))
Stores(d, T) == Sound(d, T) /\ Complete(d, T)

Places == {"file", "page", "inline", "except"}

RouteTypeOK ==
  /\ wrote \subseteq (1 .. Ups) \X Places \X Str
  /\ matchAny \in [1 .. Ups -> BOOLEAN]
  /\ DOMAIN list = 1 .. Ups /\ DOMAIN inline = 1 .. Ups /\ DOMAIN ignored = 1 .. Ups

RouteInv ==
  /\ RouteTypeOK
  /\ \A u \in 1 .. Ups :
       /\ Stores(list[u], Written(u, {"file", "page"}))
       /\ Stores(inline[u], Written(u, {"inline"}))
       /\ Stores(ignored[u], Written(u, {"except"}))

-----------------------------------------------------------------------------
\* Smallest and largest elements

\* A set of natural numbers has a smallest element.
LEMMA NatMin ==
  ASSUME NEW T \in SUBSET Nat, T # {}
  PROVE  \E n \in T : \A m \in T : n <= m
<1>1. IsWellFoundedOn(OpToRel(<, Nat), Nat)
  BY NatLessThanWellFounded, Zenon
<1>2. PICK n \in T : \A m \in T : <<m, n>> \notin OpToRel(<, Nat)
  BY <1>1, WFMin, Zenon
<1>3. ASSUME NEW m \in T PROVE n <= m
  <2>1. m \in Nat /\ n \in Nat
    OBVIOUS
  <2>2. ~(m < n)
    BY <1>2, <2>1, Zenon DEF OpToRel
  <2> QED
    BY <2>1, <2>2
<1> QED
  BY <1>3

\* Min chooses it.
LEMMA MinFacts ==
  ASSUME NEW T \in SUBSET Nat, T # {}
  PROVE  Min(T) \in T /\ \A x \in T : Min(T) <= x
BY NatMin, Zenon DEF Min

\* Max chooses the largest of some positions.
LEMMA MaxFacts ==
  ASSUME NEW n \in Nat, NEW T \in SUBSET (1 .. n), T # {}
  PROVE  Max(T) \in T
<1> DEFINE D == {n - x : x \in T}
<1>1. D \in SUBSET Nat /\ D # {}
  <2>1. \A x \in T : n - x \in Nat
    OBVIOUS
  <2> QED
    BY <2>1, Zenon
<1>2. PICK a \in D : \A y \in D : a <= y
  BY <1>1, NatMin, Zenon
<1>3. PICK z \in T : a = n - z
  OBVIOUS
<1>4. ASSUME NEW y \in T PROVE z >= y
  <2>1. n - y \in D /\ y \in Int /\ z \in Int
    OBVIOUS
  <2> QED
    BY <1>2, <1>3, <2>1
<1> QED
  BY <1>4, Zenon DEF Max

\* Min and Max are the elements with nothing below, or above, them.
LEMMA MinMaxIs ==
  ASSUME NEW T \in SUBSET Int, NEW m \in T
  PROVE  /\ (\A x \in T : m <= x) => Min(T) = m
         /\ (\A x \in T : x <= m) => Max(T) = m
<1>1. ASSUME \A x \in T : m <= x PROVE Min(T) = m
  <2>1. Min(T) \in T /\ \A y \in T : Min(T) <= y
    BY <1>1, Zenon DEF Min
  <2>2. Min(T) \in Int /\ m \in Int /\ Min(T) <= m /\ m <= Min(T)
    BY <1>1, <2>1, Zenon
  <2> QED
    BY <2>2
<1>2. ASSUME \A x \in T : x <= m PROVE Max(T) = m
  <2>1. Max(T) \in T /\ \A y \in T : Max(T) >= y
    BY <1>2, Zenon DEF Max
  <2>2. Max(T) \in Int /\ m \in Int /\ Max(T) <= m /\ m <= Max(T)
    BY <1>2, <2>1, Zenon
  <2> QED
    BY <2>2
<1> QED
  BY <1>1, <1>2

-----------------------------------------------------------------------------
\* Strings

\* ToLower keeps the length and changes one letter.
LEMMA LowerFacts ==
  ASSUME NEW t \in Str
  PROVE  /\ ToLower(t) \in Str /\ Len(ToLower(t)) = Len(t)
         /\ \A k \in 1 .. Len(t) : ToLower(t)[k] = IF t[k] = "A" THEN "a" ELSE t[k]
<1>1. DOMAIN t = 1 .. Len(t) /\ Len(t) \in Nat /\ \A k \in 1 .. Len(t) : t[k] \in Chars
  BY DEF Str
<1>2. ToLower(t) = [k \in 1 .. Len(t) |-> IF t[k] = "A" THEN "a" ELSE t[k]]
  BY <1>1 DEF ToLower
<1>3. \A k \in 1 .. Len(t) : (IF t[k] = "A" THEN "a" ELSE t[k]) \in Chars
  BY <1>1, RouteAssumption
<1> QED
  BY <1>1, <1>2, <1>3 DEF Str

\* What has no upper case letter stays as it is.
LEMMA LowerSame ==
  ASSUME NEW t \in Str, \A k \in 1 .. Len(t) : t[k] # "A"
  PROVE  ToLower(t) = t
<1>1. ToLower(t) \in Str /\ Len(ToLower(t)) = Len(t)
  BY LowerFacts
<1>2. \A k \in 1 .. Len(t) : ToLower(t)[k] = t[k]
  BY LowerFacts
<1> HIDE DEF ToLower
<1> QED
  BY <1>1, <1>2, SeqEqual DEF Str

\* The part of a string from k to n.
LEMMA PartFacts ==
  ASSUME NEW s \in Str, NEW k \in Int, NEW n \in Int, 1 <= k, n <= Len(s)
  PROVE  /\ SubSeq(s, k, n) \in Str
         /\ Len(SubSeq(s, k, n)) = IF k <= n THEN n - k + 1 ELSE 0
         /\ \A i \in 1 .. n - k + 1 : SubSeq(s, k, n)[i] = s[k + i - 1]
<1>1. \A i \in k .. n : s[i] \in Chars
  BY DEF Str
<1> QED
  BY <1>1, SubSeqProperties DEF Str

\* The whole of a string.
LEMMA WholePart ==
  ASSUME NEW s \in Str
  PROVE  SubSeq(s, 1, Len(s)) = s
<1>1. Len(s) \in Nat
  BY DEF Str
<1>2. SubSeq(s, 1, Len(s)) \in Str /\ Len(SubSeq(s, 1, Len(s))) = Len(s)
  BY <1>1, PartFacts
<1>3. \A i \in 1 .. Len(s) : SubSeq(s, 1, Len(s))[i] = s[i]
  BY <1>1, PartFacts
<1> QED
  BY <1>2, <1>3, SeqEqual DEF Str

\* removeTrailingDot takes one dot off the end, if there is one.
LEMMA TrimFacts ==
  ASSUME NEW t \in Str
  PROVE  /\ removeTrailingDot(t) \in Str
         /\ (t = <<>> \/ t[Len(t)] # ".") => removeTrailingDot(t) = t
         /\ t = <<".">> => removeTrailingDot(t) = <<>>
         /\ (\A k \in 1 .. Len(t) : t[k] # "A") =>
              \A k \in 1 .. Len(removeTrailingDot(t)) : removeTrailingDot(t)[k] # "A"
<1>1. Len(t) \in Nat
  BY DEF Str
<1>2. CASE t = <<>> \/ t[Len(t)] # "."
  BY <1>2 DEF removeTrailingDot
<1>3. CASE t # <<>> /\ t[Len(t)] = "."
  <2> DEFINE r == SubSeq(t, 1, Len(t) - 1)
  <2>1. removeTrailingDot(t) = r
    BY <1>3 DEF removeTrailingDot
  <2>2. Len(t) >= 1
    BY <1>1, <1>3, EmptySeq DEF Str
  <2>3. r \in Str /\ Len(r) = Len(t) - 1 /\ \A i \in 1 .. Len(t) - 1 : r[i] = t[i]
    <3>1. PICK n \in Int : n = Len(t) - 1
      BY <1>1
    <3>2. /\ SubSeq(t, 1, n) \in Str
          /\ Len(SubSeq(t, 1, n)) = IF 1 <= n THEN n - 1 + 1 ELSE 0
          /\ \A i \in 1 .. n - 1 + 1 : SubSeq(t, 1, n)[i] = t[1 + i - 1]
      BY <1>1, <3>1, PartFacts
    <3>3. Len(SubSeq(t, 1, n)) = n /\ \A i \in 1 .. n : SubSeq(t, 1, n)[i] = t[i]
      BY <1>1, <2>2, <3>1, <3>2
    <3> QED
      BY <3>1, <3>2, <3>3
  <2>4. t = <<".">> => Len(t) = 1
    OBVIOUS
  <2>5. t = <<".">> => r = <<>>
    BY <2>3, <2>4, EmptySeq DEF Str
  <2> HIDE DEF r
  <2> QED
    BY <1>1, <1>3, <2>1, <2>3, <2>5
<1> QED
  BY <1>2, <1>3

-----------------------------------------------------------------------------
\* Names and their parents

\* c ends with a dot and p.
Ends(c, p) ==
  /\ Len(p) < Len(c) /\ c[Len(c) - Len(p)] = "."
  /\ \A i \in 1 .. Len(p) : c[Len(c) - Len(p) + i] = p[i]

\* HasSuffix with the dot in front of the parent.
LEMMA SuffixIs ==
  ASSUME NEW c \in Str, NEW p \in Str
  PROVE  HasSuffix(c, <<".">> \o p) <=> Ends(c, p)
<1> DEFINE q == <<".">> \o p
<1>1. Len(c) \in Nat /\ Len(p) \in Nat
  BY DEF Str
<1>2. <<".">> \in Str /\ Len(<<".">>) = 1
  BY RouteAssumption DEF Str
<1>3. /\ Len(q) = 1 + Len(p)
      /\ \A i \in 1 .. 1 + Len(p) : q[i] = IF i <= 1 THEN <<".">>[i] ELSE p[i - 1]
  BY <1>2, ConcatProperties DEF Str
<1>4. q[1] = "." /\ \A i \in 1 .. Len(p) : q[i + 1] = p[i]
  BY <1>1, <1>3
<1> HIDE DEF q
<1>5. ASSUME HasSuffix(c, q) PROVE Ends(c, p)
  <2>1. Len(p) < Len(c) /\ \A i \in 1 .. 1 + Len(p) : c[Len(c) - (1 + Len(p)) + i] = q[i]
    BY <1>1, <1>3, <1>5 DEF HasSuffix
  <2>2. Len(c) - (1 + Len(p)) + 1 = Len(c) - Len(p) /\ 1 \in 1 .. 1 + Len(p)
    BY <1>1
  <2>3. c[Len(c) - Len(p)] = "."
    BY <1>4, <2>1, <2>2
  <2>4. ASSUME NEW i \in 1 .. Len(p) PROVE c[Len(c) - Len(p) + i] = p[i]
    <3>1. i + 1 \in 1 .. 1 + Len(p) /\ Len(c) - (1 + Len(p)) + (i + 1) = Len(c) - Len(p) + i
      BY <1>1
    <3>2. c[Len(c) - (1 + Len(p)) + (i + 1)] = q[i + 1]
      BY <2>1, <3>1
    <3> QED
      BY <1>4, <3>1, <3>2
  <2> QED
    BY <2>1, <2>3, <2>4 DEF Ends
<1>6. ASSUME Ends(c, p) PROVE HasSuffix(c, q)
  <2>1. ASSUME NEW i \in 1 .. 1 + Len(p) PROVE c[Len(c) - (1 + Len(p)) + i] = q[i]
    <3>1. CASE i = 1
      <4>1. Len(c) - (1 + Len(p)) + i = Len(c) - Len(p)
        BY <1>1, <3>1
      <4> QED
        BY <1>4, <1>6, <3>1, <4>1 DEF Ends
    <3>2. CASE i # 1
      <4>1. PICK j \in 1 .. Len(p) : i = j + 1
        <5>1. i - 1 \in 1 .. Len(p) /\ i = (i - 1) + 1
          BY <1>1, <3>2
        <5> QED
          BY <5>1
      <4>2. Len(c) - (1 + Len(p)) + i = Len(c) - Len(p) + j
        BY <1>1, <4>1
      <4> QED
        BY <1>4, <1>6, <4>1, <4>2 DEF Ends
    <3> QED
      BY <3>1, <3>2
  <2>2. Len(q) <= Len(c)
    BY <1>1, <1>3, <1>6 DEF Ends
  <2> QED
    BY <1>3, <2>1, <2>2 DEF HasSuffix
<1> QED
  BY <1>5, <1>6 DEF q

\* The part of a name after one of its dots, or the whole of it.
LEMMA StartFacts ==
  ASSUME NEW c, WellFormed(c), NEW k \in Starts(c)
  PROVE  LET s == SubSeq(c, k, Len(c)) IN
         /\ s \in Str /\ k \in 1 .. Len(c) /\ Len(s) = Len(c) - k + 1
         /\ \A i \in 1 .. Len(s) : s[i] = c[k + i - 1]
         /\ k = 1 \/ c[k - 1] = "."
<1>1. c \in Str /\ Len(c) \in Nat /\ k \in 1 .. Len(c) /\ (k = 1 \/ c[k - 1] = ".")
  BY DEF WellFormed, Starts, Str
<1>2. PICK n \in Int : n = Len(c)
  BY <1>1
<1>3. /\ SubSeq(c, k, n) \in Str
      /\ Len(SubSeq(c, k, n)) = IF k <= n THEN n - k + 1 ELSE 0
      /\ \A i \in 1 .. n - k + 1 : SubSeq(c, k, n)[i] = c[k + i - 1]
  BY <1>1, <1>2, PartFacts
<1>4. Len(SubSeq(c, k, n)) = n - k + 1
  BY <1>1, <1>2, <1>3
<1> QED
  BY <1>1, <1>2, <1>3, <1>4

\* Everything below a parent of the name's part is above the name.
LEMMA BelowPart ==
  ASSUME NEW c, WellFormed(c), NEW k \in Starts(c), NEW q \in Str,
         Below(SubSeq(c, k, Len(c)), q)
  PROVE  Below(c, q)
<1>1. PICK s : s = SubSeq(c, k, Len(c))
  BY Zenon
<1>2. c \in Str /\ Len(c) \in Nat /\ Len(q) \in Nat
  BY DEF WellFormed, Str
<1>3. /\ s \in Str /\ k \in 1 .. Len(c) /\ Len(s) = Len(c) - k + 1
      /\ \A i \in 1 .. Len(s) : s[i] = c[k + i - 1]
      /\ k = 1 \/ c[k - 1] = "."
  BY <1>1, StartFacts
<1>4. q = <<>> \/ s = q \/ Ends(s, q)
  BY <1>1, <1>3, SuffixIs DEF Below
<1>5. SUFFICES q = <<>> \/ c = q \/ Ends(c, q)
  BY <1>2, SuffixIs DEF Below
<1>6. CASE k = 1
  <2>1. s = c
    BY <1>1, <1>2, <1>6, WholePart
  <2> QED
    BY <1>4, <2>1
<1>7. CASE k # 1 /\ s = q
  <2>1. Len(q) < Len(c) /\ Len(c) - Len(q) = k - 1
    BY <1>2, <1>3, <1>7
  <2>2. c[Len(c) - Len(q)] = "."
    BY <1>3, <1>7, <2>1
  <2>3. ASSUME NEW i \in 1 .. Len(q) PROVE c[Len(c) - Len(q) + i] = q[i]
    <3>0. i \in Int /\ k \in Int
      BY <1>2, <1>3
    <3>1. Len(c) - Len(q) + i = k + i - 1
      BY <1>2, <2>1, <3>0
    <3>2. s[i] = c[k + i - 1]
      BY <1>3, <1>7
    <3> QED
      BY <1>7, <3>1, <3>2
  <2> QED
    BY <2>1, <2>2, <2>3 DEF Ends
<1>8. CASE Ends(s, q)
  <2>1. Len(q) < Len(s) /\ s[Len(s) - Len(q)] = "."
    BY <1>8 DEF Ends
  <2>2. Len(q) < Len(c) /\ Len(s) - Len(q) \in 1 .. Len(s)
    BY <1>2, <1>3, <2>1
  <2>3. k + (Len(s) - Len(q)) - 1 = Len(c) - Len(q)
    BY <1>2, <1>3
  <2>4. c[Len(c) - Len(q)] = "."
    BY <1>3, <2>1, <2>2, <2>3
  <2>5. ASSUME NEW i \in 1 .. Len(q) PROVE c[Len(c) - Len(q) + i] = q[i]
    <3>1. s[Len(s) - Len(q) + i] = q[i]
      BY <1>8 DEF Ends
    <3>2. /\ Len(s) - Len(q) + i \in 1 .. Len(s)
          /\ k + (Len(s) - Len(q) + i) - 1 = Len(c) - Len(q) + i
      BY <1>2, <1>3, <2>1
    <3> QED
      BY <1>3, <3>1, <3>2
  <2> QED
    BY <2>2, <2>4, <2>5 DEF Ends
<1> QED
  BY <1>4, <1>6, <1>7, <1>8

-----------------------------------------------------------------------------
\* Domain sets

\* The root is not a domain name: it has an empty label.
LEMMA RootNoDomain == ~isDomainName(<<".">>)
<1> DEFINE r == <<".">>
<1>1. Len(r) = 1 /\ DOMAIN r = 1 .. 1 /\ r[1] = "."
  OBVIOUS
<1>2. r \in Str /\ SubSeq(r, 0 + 1, 1 - 1) = <<>>
  BY RouteAssumption, SubSeqEmpty DEF Str
<1> HIDE DEF r
<1>3. Positions(r, ".") = {1}
  BY <1>1 DEF Positions
<1>4. ASSUME isDomainName(r) PROVE FALSE
  <2>1. PICK cuts : cuts = Positions(r, ".") \cup {0, Len(r) + 1}
    BY Zenon
  <2>2. 0 \in cuts /\ 1 \in cuts /\ ~(\E k \in cuts : 0 < k /\ k < 1)
    BY <1>1, <1>3, <2>1
  <2>3. Len(SubSeq(r, 0 + 1, 1 - 1)) \in 1 .. MaxLabel
    BY <1>4, <2>1, <2>2 DEF isDomainName
  <2> QED
    BY <1>2, <2>3, EmptySeq
<1> QED
  BY <1>4 DEF r

\* What is stored: the text without its final dot, in lower case, or the text itself.
LEMMA StoredIs ==
  ASSUME NEW t \in Str
  PROVE  LET q == removeTrailingDot(ToLower(t)) IN
         /\ q \in Str /\ (\A k \in 1 .. Len(q) : q[k] # "A")
         /\ stringToDomain(t) # <<>> =>
              stringToDomain(t) = q /\ StoredName(t) = q /\ isDomainName(q)
         /\ stringToDomain(t) = <<>> => StoredName(t) = t
         /\ StoredName(t) \in Str
         /\ StoredName(t) # <<>> => t # <<>>
<1>1. PICK l : l = ToLower(t)
  OBVIOUS
<1>2. PICK q : q = removeTrailingDot(l)
  OBVIOUS
<1>3. l \in Str /\ \A k \in 1 .. Len(l) : l[k] # "A"
  <2>1. l \in Str /\ Len(l) = Len(t)
    BY <1>1, LowerFacts
  <2>2. \A k \in 1 .. Len(t) : l[k] = IF t[k] = "A" THEN "a" ELSE t[k]
    BY <1>1, LowerFacts
  <2> QED
    BY <2>1, <2>2
<1>4. q \in Str /\ \A k \in 1 .. Len(q) : q[k] # "A"
  BY <1>2, <1>3, TrimFacts
<1>5. t = <<>> => q = <<>>
  <2>1. t = <<>> => Len(l) = 0
    BY <1>1, LowerFacts, EmptySeq
  <2>2. t = <<>> => l = <<>>
    BY <1>3, <2>1, EmptySeq DEF Str
  <2> QED
    BY <1>2, <1>3, <2>2, TrimFacts
<1>6. stringToDomain(t) = IF isDomainName(q) THEN q ELSE <<>>
  BY <1>1, <1>2 DEF stringToDomain
<1>7. StoredName(t) = IF stringToDomain(t) # <<>> THEN stringToDomain(t) ELSE t
  BY DEF StoredName
<1> QED
  BY <1>1, <1>2, <1>4, <1>5, <1>6, <1>7

\* Nothing is stored at first.
LEMMA EmptyStores == Stores(Empty, {})
BY DEF Stores, Sound, Complete, Empty

\* Add stores one more string and keeps the others (domainSet.Add).
LEMMA AddStores ==
  ASSUME NEW d, NEW T, NEW t, Stores(d, T)
  PROVE  Stores(Add(d, t), T \cup {t})
<1>1. PICK name : name = StoredName(t)
  OBVIOUS
<1>2. CASE name = <<>>
  BY <1>1, <1>2, Zenon DEF Add, Stores, Sound, Complete
<1>3. CASE name # <<>>
  <2>1. PICK ix : ix = domainToIndex(name)
    OBVIOUS
  <2>2. PICK e : e = Add(d, t)
    OBVIOUS
  <2>3. e = [i \in DOMAIN d \cup {ix} |-> IF i = ix THEN Bucket(d, name) \cup {name} ELSE d[i]]
    BY <1>1, <1>3, <2>1, <2>2 DEF Add
  <2>4. /\ DOMAIN e = DOMAIN d \cup {ix} /\ e[ix] = Bucket(d, name) \cup {name}
        /\ \A i \in DOMAIN d : i # ix => e[i] = d[i]
    BY <2>3
  <2>5. Bucket(d, name) = IF ix \in DOMAIN d THEN d[ix] ELSE {}
    BY <2>1 DEF Bucket
  <2>6. Sound(e, T \cup {t})
    <3> SUFFICES ASSUME NEW i \in DOMAIN e, NEW p \in e[i]
                 PROVE  p # <<>> /\ \E x \in T \cup {t} : p = StoredName(x)
      BY DEF Sound
    <3>1. CASE p = name
      BY <1>1, <1>3, <3>1
    <3>2. CASE p # name
      <4>1. \E j \in DOMAIN d : p \in d[j]
        BY <2>4, <2>5, <3>2
      <4> QED
        BY <4>1 DEF Stores, Sound
    <3> QED
      BY <3>1, <3>2
  <2>7. \A p : p \in Bucket(d, p) => p \in Bucket(e, p)
    <3> SUFFICES ASSUME NEW p, p \in Bucket(d, p) PROVE p \in Bucket(e, p)
      OBVIOUS
    <3>1. PICK jx : jx = domainToIndex(p)
      OBVIOUS
    <3>2. jx \in DOMAIN d /\ p \in d[jx]
      BY <3>1 DEF Bucket
    <3>3. jx \in DOMAIN e /\ p \in e[jx]
      BY <2>4, <2>5, <3>2
    <3> QED
      BY <3>1, <3>3 DEF Bucket
  <2>8. name \in Bucket(e, name)
    BY <2>1, <2>4 DEF Bucket
  <2>9. Complete(e, T \cup {t})
    BY <1>1, <2>7, <2>8 DEF Complete, Stores
  <2> QED
    BY <2>2, <2>6, <2>9 DEF Stores
<1> QED
  BY <1>2, <1>3

\* A name below a stored domain is found, in whichever bucket (domainSet.Match).
LEMMA MatchFinds ==
  ASSUME NEW d, NEW T \in SUBSET Str, Stores(d, T), NEW c, WellFormed(c),
         NEW t \in T, stringToDomain(t) # <<>>, Below(c, stringToDomain(t))
  PROVE  Match(d, c)
<1>1. PICK p : p = stringToDomain(t)
  OBVIOUS
<1>2. p \in Str /\ p # <<>> /\ p = StoredName(t)
  BY <1>1, StoredIs
<1>3. p \in Bucket(d, p)
  BY <1>2 DEF Stores, Complete
<1>4. c \in Str /\ c # <<>> /\ Len(c) \in Nat \ {0} /\ Len(p) \in Nat \ {0} /\ DOMAIN c = 1 .. Len(c)
  BY <1>2, EmptySeq DEF WellFormed, Str
<1>5. c = p \/ Ends(c, p)
  BY <1>1, <1>2, <1>4, SuffixIs DEF Below
<1>6. SUFFICES \E k \in Starts(c) : SubSeq(c, k, Len(c)) = p
  BY <1>3, Zenon DEF Match, LookedUp
<1>7. CASE c = p
  <2>1. 1 \in Starts(c)
    BY <1>4 DEF Starts
  <2> QED
    BY <1>4, <1>7, <2>1, WholePart
<1>8. CASE Ends(c, p)
  <2>1. PICK k \in Int : k = Len(c) - Len(p) + 1
    <3>1. Len(c) - Len(p) + 1 \in Int
      BY <1>4
    <3> QED
      BY <3>1
  <2>2. Len(p) < Len(c) /\ c[Len(c) - Len(p)] = "."
    BY <1>8 DEF Ends
  <2>3. k \in 1 .. Len(c) /\ k - 1 = Len(c) - Len(p) /\ Len(c) > 1
    BY <1>4, <2>1, <2>2
  <2>4. c # <<".">>
    <3>1. Len(<<".">>) = 1
      OBVIOUS
    <3>2. ASSUME c = <<".">> PROVE FALSE
      BY <1>4, <2>3, <3>1, <3>2
    <3> QED
      BY <3>2
  <2>5. \A j \in 1 .. k - 1 : c[j] = "." => j > 1 /\ c[j - 1] # "."
    <3>1. \A j \in 1 .. Len(c) : c[j] = "." => j > 1 /\ c[j - 1] # "."
      BY <1>4, <2>4, Zenon DEF WellFormed
    <3>2. \A j \in 1 .. k - 1 : j \in 1 .. Len(c)
      BY <1>4, <2>3
    <3> QED
      BY <3>1, <3>2
  <2>6. k \in Starts(c)
    <3>1. c[k - 1] = "." /\ k \in DOMAIN c
      BY <1>4, <2>2, <2>3
    <3> QED
      BY <2>5, <3>1 DEF Starts
  <2>7. PICK s : s = SubSeq(c, k, Len(c))
    BY Zenon
  <2>8. /\ s \in Str /\ Len(s) = Len(c) - k + 1
        /\ \A i \in 1 .. Len(s) : s[i] = c[k + i - 1]
    BY <2>6, <2>7, StartFacts
  <2>9. Len(s) = Len(p)
    BY <1>4, <2>1, <2>8
  <2>10. ASSUME NEW i \in 1 .. Len(s) PROVE s[i] = p[i]
    <3>1. c[Len(c) - Len(p) + i] = p[i]
      BY <1>8, <2>9 DEF Ends
    <3>2. i \in Int
      BY <1>4, <2>9
    <3>3. k + i - 1 = Len(c) - Len(p) + i
      BY <1>4, <2>1, <3>2
    <3> QED
      BY <2>8, <3>1, <3>3
  <2>11. s = p
    BY <1>2, <2>8, <2>9, <2>10, SeqEqual DEF Str
  <2> QED
    BY <2>6, <2>7, <2>11, Zenon
<1> QED
  BY <1>5, <1>7, <1>8

\* A name asked for does not end with a dot, nor does a part of it.
LEMMA PartEnd ==
  ASSUME NEW c, WellFormed(c), NEW k \in Starts(c), NEW s, s = SubSeq(c, k, Len(c))
  PROVE  /\ s \in Str /\ Len(s) \in Nat \ {0} /\ ToLower(s) = s
         /\ s = <<".">> \/ s[Len(s)] # "."
<1>1. c \in Str /\ Len(c) \in Nat /\ DOMAIN c = 1 .. Len(c)
  BY DEF WellFormed, Str
<1>2. /\ s \in Str /\ k \in 1 .. Len(c) /\ Len(s) = Len(c) - k + 1
      /\ \A i \in 1 .. Len(s) : s[i] = c[k + i - 1]
  BY StartFacts
<1>3. Len(s) \in Nat \ {0}
  BY <1>1, <1>2
<1>4. \A i \in 1 .. Len(s) : k + i - 1 \in 1 .. Len(c)
  BY <1>1, <1>2
<1>5. \A i \in 1 .. Len(s) : s[i] # "A"
  BY <1>1, <1>2, <1>4 DEF WellFormed
<1>6. ToLower(s) = s
  BY <1>2, <1>5, LowerSame, Zenon
<1>7. k + Len(s) - 1 = Len(c)
  BY <1>1, <1>2
<1>8. s[Len(s)] = c[Len(c)]
  BY <1>2, <1>3, <1>7
<1>9. CASE c = <<".">>
  <2>1. Len(c) = 1
    BY <1>9
  <2>2. k = 1
    BY <1>2, <2>1
  <2> QED
    BY <1>1, <1>2, <1>3, <1>6, <1>9, <2>2, WholePart, Zenon
<1>10. CASE c # <<".">>
  BY <1>2, <1>3, <1>6, <1>8, <1>10 DEF WellFormed
<1> QED
  BY <1>9, <1>10, Zenon

\* What is found was written, in whatever case and with a final dot or not.
LEMMA MatchWritten ==
  ASSUME NEW d, NEW T \in SUBSET Str, Stores(d, T), NEW c, WellFormed(c), Match(d, c)
  PROVE  \E t \in T : t # <<>> /\ Below(c, removeTrailingDot(ToLower(t)))
<1>1. PICK k \in Starts(c) : LookedUp(d, SubSeq(c, k, Len(c)))
  BY DEF Match
<1>2. PICK s : s = SubSeq(c, k, Len(c))
  BY Zenon
<1>3. /\ s \in Str /\ Len(s) \in Nat \ {0} /\ ToLower(s) = s
      /\ s = <<".">> \/ s[Len(s)] # "."
  BY <1>2, PartEnd, Zenon
<1>4. PICK p \in Bucket(d, s) : p = s \/ Matches(p, s)
  BY <1>1, <1>2, Zenon DEF LookedUp
<1>5. \E ix \in DOMAIN d : p \in d[ix]
  BY <1>4 DEF Bucket
<1>6. PICK t \in T : p = StoredName(t) /\ p # <<>>
  BY <1>5 DEF Stores, Sound
<1>7. PICK l : l = ToLower(t)
  OBVIOUS
<1>8. PICK q : q = removeTrailingDot(l)
  OBVIOUS
<1>9. /\ q \in Str /\ (\A i \in 1 .. Len(q) : q[i] # "A")
      /\ stringToDomain(t) # <<>> => p = q /\ isDomainName(q)
      /\ stringToDomain(t) = <<>> => p = t
      /\ p \in Str /\ t # <<>>
  BY <1>6, <1>7, <1>8, StoredIs
<1>10. l \in Str /\ Len(l) = Len(t) /\ t \in Str /\ Len(t) \in Nat \ {0}
  BY <1>7, <1>9, LowerFacts, EmptySeq DEF Str
<1>11. SUFFICES Below(s, q)
  BY <1>2, <1>7, <1>8, <1>9, BelowPart
<1>12. p = <<".">> \/ ToLower(p) = s \/ Ends(s, ToLower(p))
  <2>1. ToLower(p) \in Str
    BY <1>9, LowerFacts
  <2> QED
    BY <1>3, <1>4, <2>1, SuffixIs DEF Matches
<1>13. CASE stringToDomain(t) # <<>>
  <2>1. p = q /\ p # <<".">>
    BY <1>9, <1>13, RootNoDomain
  <2>2. ToLower(q) = q
    BY <1>9, LowerSame
  <2> QED
    BY <1>3, <1>9, <1>12, <2>1, <2>2, SuffixIs DEF Below
<1>14. CASE stringToDomain(t) = <<>>
  <2>1. p = t
    BY <1>9, <1>14
  <2>2. CASE t = <<".">>
    <3>1. t[1] = "." /\ Len(t) = 1
      BY <2>2
    <3>2. Len(t) \in Nat /\ \A i \in 1 .. Len(t) : t[i] # "A"
      BY <3>1
    <3>3. l = <<".">>
      BY <1>7, <1>10, <2>2, <3>2, LowerSame
    <3>4. q = <<>>
      BY <1>8, <1>10, <3>3, TrimFacts
    <3> QED
      BY <3>4 DEF Below
  <2>3. CASE l = s
    <3>1. CASE s = <<".">>
      <4>1. q = <<>>
        BY <1>8, <1>10, <2>3, <3>1, TrimFacts
      <4> QED
        BY <4>1 DEF Below
    <3>2. CASE s[Len(s)] # "."
      <4>1. q = s
        BY <1>8, <1>10, <2>3, <3>2, TrimFacts
      <4> QED
        BY <4>1 DEF Below
    <3> QED
      BY <1>3, <3>1, <3>2
  <2>4. CASE Ends(s, l)
    <3>1. Len(l) < Len(s) /\ Len(l) \in 1 .. Len(l) /\ Len(s) - Len(l) + Len(l) = Len(s)
      BY <1>3, <1>10, <2>4 DEF Ends
    <3>2. s[Len(s)] = l[Len(l)]
      BY <2>4, <3>1 DEF Ends
    <3>3. s # <<".">>
      <4>1. Len(<<".">>) = 1
        OBVIOUS
      <4>2. ASSUME s = <<".">> PROVE FALSE
        BY <1>10, <3>1, <4>1, <4>2
      <4> QED
        BY <4>2
    <3>4. q = l
      BY <1>3, <1>8, <1>10, <3>2, <3>3, TrimFacts
    <3> QED
      BY <1>3, <1>9, <2>4, <3>4, SuffixIs DEF Below
  <2> QED
    BY <1>7, <1>12, <2>1, <2>2, <2>3, <2>4
<1> QED
  BY <1>13, <1>14

-----------------------------------------------------------------------------
\* Lines

\* What is left of a line is the text before its comment.
LEMMA CommentCut ==
  ASSUME NEW line \in Str
  PROVE  /\ Uncommented(line) \in Str
         /\ Uncommented(line) = IF Index(line, "#") > 0
                                THEN SubSeq(line, 1, Index(line, "#") - 1) ELSE line
<1> DEFINE N == {n \in 0 .. Len(line) : \A k \in 1 .. n : line[k] # "#"}
<1>1. Len(line) \in Nat /\ DOMAIN line = 1 .. Len(line)
  BY DEF Str
<1>2. PICK P : P = Positions(line, "#")
  OBVIOUS
<1>3. P = {k \in 1 .. Len(line) : line[k] = "#"} /\ P \in SUBSET Nat
  BY <1>1, <1>2 DEF Positions
<1>4. Uncommented(line) = SubSeq(line, 1, Max(N))
  BY DEF Uncommented
<1>5. N \in SUBSET Int
  BY <1>1
<1>6. CASE P = {}
  <2>1. Len(line) \in N
    BY <1>1, <1>3, <1>6
  <2>2. \A n \in N : n <= Len(line)
    BY <1>1
  <2> HIDE DEF N
  <2>3. Max(N) = Len(line)
    BY <1>5, <2>1, <2>2, MinMaxIs
  <2>4. Index(line, "#") = 0
    BY <1>2, <1>6 DEF Index
  <2>5. Uncommented(line) = line
    BY <1>4, <2>3, WholePart
  <2>6. ~(Index(line, "#") > 0)
    BY <2>4
  <2> QED
    BY <2>5, <2>6
<1>7. CASE P # {}
  <2>1. PICK m : m = Min(P)
    OBVIOUS
  <2>2. m \in P /\ \A x \in P : m <= x
    BY <1>3, <1>7, <2>1, MinFacts
  <2>3. m \in 1 .. Len(line) /\ line[m] = "#"
    BY <1>3, <2>2
  <2>4. \A k \in 1 .. m - 1 : line[k] # "#"
    BY <1>1, <1>3, <2>2, <2>3
  <2>5. m - 1 \in N
    BY <1>1, <2>3, <2>4
  <2>6. ASSUME NEW n \in N PROVE n <= m - 1
    <3>1. n \in 0 .. Len(line) /\ (m \in 1 .. n => line[m] # "#")
      OBVIOUS
    <3>2. m \notin 1 .. n
      BY <2>3, <3>1
    <3> QED
      BY <1>1, <2>3, <3>1, <3>2
  <2> HIDE DEF N
  <2>7. Max(N) = m - 1
    BY <1>5, <2>5, <2>6, MinMaxIs, Zenon
  <2>8. Index(line, "#") = m
    BY <1>2, <1>7, <2>1 DEF Index
  <2>9. m > 0 /\ m - 1 \in Int /\ m - 1 <= Len(line)
    BY <1>1, <2>3
  <2>10. SubSeq(line, 1, m - 1) \in Str
    BY <2>9, PartFacts
  <2> QED
    BY <1>4, <2>7, <2>8, <2>9, <2>10
<1> QED
  BY <1>6, <1>7

\* dropCR leaves a string.
LEMMA DropType ==
  ASSUME NEW line \in Str
  PROVE  dropCR(line) \in Str
<1>1. Len(line) \in Nat /\ (line # <<>> => Len(line) >= 1)
  BY EmptySeq DEF Str
<1>2. CASE line # <<>> /\ line[Len(line)] = "CR"
  <2>1. SubSeq(line, 1, Len(line) - 1) \in Str
    BY <1>1, <1>2, PartFacts
  <2> QED
    BY <1>2, <2>1 DEF dropCR
<1>3. CASE ~(line # <<>> /\ line[Len(line)] = "CR")
  BY <1>3 DEF dropCR
<1> QED
  BY <1>2, <1>3

\* parse takes from a line what the line is about.
LEMMA NameAbout ==
  ASSUME NEW line \in Str
  PROVE  NameIn(line) = About(line) /\ About(line) \in Str
<1>1. PICK text : text = Uncommented(line)
  OBVIOUS
<1>2. text \in Str
  BY <1>1, CommentCut
<1>0. text = IF Index(line, "#") > 0 THEN SubSeq(line, 1, Index(line, "#") - 1) ELSE line
  BY <1>1, CommentCut
<1>3. Len(text) \in Nat /\ DOMAIN text = 1 .. Len(text)
  BY <1>2 DEF Str
<1>4. PICK S : S = Positions(text, "/")
  OBVIOUS
<1>5. S = {k \in 1 .. Len(text) : text[k] = "/"} /\ S \in SUBSET Nat
  BY <1>3, <1>4 DEF Positions
<1>6. NameIn(line) =
        IF Cardinality(S) # 2 THEN text
        ELSE IF SubSeq(text, 1, Min(S) - 1) = <<"server=">>
          THEN SubSeq(text, Min(S) + 1, Max(S) - 1) ELSE <<>>
  BY <1>0, <1>4 DEF NameIn
<1>7. About(line) =
        IF Cardinality(S) # 2 THEN text
        ELSE IF text[1] = "server=" /\ 2 \in S THEN SubSeq(text, 3, Max(S) - 1) ELSE <<>>
  BY <1>1, <1>4 DEF About
<1>8. CASE Cardinality(S) # 2
  BY <1>2, <1>6, <1>7, <1>8
<1>9. CASE Cardinality(S) = 2
  <2>1. S # {}
    BY <1>9, FS_EmptySet
  <2>2. PICK m : m = Min(S)
    OBVIOUS
  <2>3. m \in S /\ m \in 1 .. Len(text) /\ text[m] = "/" /\ \A x \in S : m <= x
    BY <1>5, <2>1, <2>2, MinFacts, Zenon
  <2>4. PICK f : f = SubSeq(text, 1, m - 1)
    BY Zenon
  <2>5. PICK n \in Int : n = m - 1 /\ n <= Len(text)
    BY <1>3, <2>3
  <2>6. f \in Str /\ Len(f) = n /\ \A i \in 1 .. n : f[i] = text[i]
    <3>1. /\ SubSeq(text, 1, n) \in Str
          /\ Len(SubSeq(text, 1, n)) = IF 1 <= n THEN n - 1 + 1 ELSE 0
          /\ \A i \in 1 .. n - 1 + 1 : SubSeq(text, 1, n)[i] = text[1 + i - 1]
      BY <1>2, <2>5, PartFacts
    <3>2. n >= 0
      BY <1>3, <2>3, <2>5
    <3> QED
      BY <2>4, <2>5, <3>1, <3>2
  <2>7. ASSUME f = <<"server=">> PROVE m = 2 /\ text[1] = "server="
    <3>2. Len(f) = 1 /\ f[1] = "server="
      BY <2>7
    <3>3. n = 1
      BY <2>6, <3>2
    <3>4. text[1] = "server="
      BY <2>6, <3>2, <3>3
    <3>5. m = 2
      BY <1>3, <2>3, <2>5, <3>3
    <3> QED
      BY <3>4, <3>5
  <2>8. ASSUME text[1] = "server=", 2 \in S PROVE f = <<"server=">> /\ m = 2
    <3>1. m # 1
      BY <2>3, <2>8
    <3>2. m = 2
      BY <1>3, <2>3, <2>8, <3>1
    <3>3. n = 1
      BY <2>5, <3>2
    <3>4. Len(f) = 1 /\ f[1] = "server="
      BY <2>6, <2>8, <3>3
    <3>5. f = <<f[1]>>
      BY <2>6, <3>4 DEF Str
    <3> QED
      BY <3>2, <3>4, <3>5
  <2>9. CASE text[1] = "server=" /\ 2 \in S
    <3>0. m = 2 /\ m + 1 = 3 /\ f = <<"server=">>
      BY <2>8, <2>9
    <3>1. NameIn(line) = SubSeq(text, m + 1, Max(S) - 1)
      BY <1>6, <1>9, <2>2, <2>4, <3>0, Zenon
    <3>2. PICK x : x = Max(S)
      OBVIOUS
    <3>3. x \in 1 .. Len(text)
      BY <1>3, <1>5, <2>1, <3>2, MaxFacts, Zenon
    <3>4. x - 1 \in Int /\ x - 1 <= Len(text)
      BY <1>3, <3>3
    <3>5. SubSeq(text, 3, x - 1) \in Str
      BY <1>2, <3>4, PartFacts
    <3> QED
      BY <1>7, <1>9, <2>9, <3>0, <3>1, <3>2, <3>5, Zenon
  <2>10. CASE ~(text[1] = "server=" /\ 2 \in S)
    <3>1. f # <<"server=">>
      BY <2>3, <2>7, <2>10
    <3>2. NameIn(line) = <<>> /\ About(line) = <<>>
      BY <1>6, <1>7, <1>9, <2>2, <2>4, <2>10, <3>1
    <3>3. <<>> \in Str
      BY EmptySeq DEF Str
    <3> QED
      BY <3>2, <3>3
  <2> QED
    BY <2>9, <2>10
<1> QED
  BY <1>8, <1>9

\* What was written is a string, and of a line the lists take what was written.
LEMMA TextType ==
  ASSUME NEW u \in 1 .. Ups, NEW where \in Places, NEW line \in Str
  PROVE  Text(<<u, where, line>>) \in Str
<1>1. dropCR(line) \in Str
  BY DropType
<1>2. About(dropCR(line)) \in Str /\ About(line) \in Str
  BY <1>1, NameAbout
<1> QED
  BY <1>2 DEF Text, Places

LEMMA ParseText ==
  ASSUME NEW u \in 1 .. Ups, NEW where \in {"file", "page"}, NEW line \in Str, NEW d
  PROVE  ParseLine(d, IF where = "file" THEN dropCR(line) ELSE line)
           = Add(d, Text(<<u, where, line>>))
<1>1. dropCR(line) \in Str
  BY DropType
<1>2. NameIn(dropCR(line)) = About(dropCR(line)) /\ NameIn(line) = About(line)
  BY <1>1, NameAbout
<1>3. Text(<<u, where, line>>) = IF where = "file" THEN About(dropCR(line)) ELSE About(line)
  BY DEF Text
<1> QED
  BY <1>2, <1>3 DEF ParseLine

-----------------------------------------------------------------------------
\* The invariant

\* What the entries W say of upstream u.
Texts(W, u, where) == {Text(w) : w \in {x \in W : x[1] = u /\ x[2] \in where}}

\* One more entry adds its text where it belongs.
LEMMA TextsGrow ==
  ASSUME NEW W, NEW v, NEW place, NEW line, NEW u, NEW where
  PROVE  Texts(W \cup {<<v, place, line>>}, u, where) =
           Texts(W, u, where) \cup
             (IF u = v /\ place \in where THEN {Text(<<v, place, line>>)} ELSE {})
<1>1. PICK e : e = <<v, place, line>>
  BY Zenon
<1>2. e[1] = v /\ e[2] = place
  BY <1>1
<1>3. {x \in W \cup {e} : x[1] = u /\ x[2] \in where} =
        {x \in W : x[1] = u /\ x[2] \in where} \cup
          (IF u = v /\ place \in where THEN {e} ELSE {})
  BY <1>2
<1>4. Texts(W \cup {e}, u, where) =
        Texts(W, u, where) \cup (IF u = v /\ place \in where THEN {Text(e)} ELSE {})
  BY <1>3 DEF Texts
<1> QED
  BY <1>1, <1>4

\* What was written are strings.
LEMMA WrittenType ==
  ASSUME RouteTypeOK, NEW u, NEW where
  PROVE  Written(u, where) = Texts(wrote, u, where) /\ Written(u, where) \in SUBSET Str
<1>1. ASSUME NEW w \in wrote PROVE Text(w) \in Str
  <2>1. PICK v \in 1 .. Ups, place \in Places, line \in Str : w = <<v, place, line>>
    BY DEF RouteTypeOK
  <2> QED
    BY <2>1, TextType
<1> QED
  BY <1>1 DEF Written, Texts

\* The lists, names and exceptions sets after a step that writes one entry: the set it
\* belongs to has it added, the others stay.
LEMMA SetsGrow ==
  ASSUME NEW W, NEW sets, NEW next, NEW where, NEW v \in 1 .. Ups, NEW place, NEW line,
         DOMAIN sets = 1 .. Ups,
         \A u \in 1 .. Ups : Stores(sets[u], Texts(W, u, where)),
         IF place \in where
         THEN next = [sets EXCEPT ![v] = Add(sets[v], Text(<<v, place, line>>))]
         ELSE next = sets
  PROVE  /\ DOMAIN next = 1 .. Ups
         /\ \A u \in 1 .. Ups :
              Stores(next[u], Texts(W \cup {<<v, place, line>>}, u, where))
<1>1. DOMAIN next = 1 .. Ups
  OBVIOUS
<1>2. ASSUME NEW u \in 1 .. Ups
      PROVE  Stores(next[u], Texts(W \cup {<<v, place, line>>}, u, where))
  <2>1. PICK T : T = Texts(W, u, where)
    OBVIOUS
  <2>2. PICK t : t = Text(<<v, place, line>>)
    OBVIOUS
  <2>3. PICK T2 : T2 = Texts(W \cup {<<v, place, line>>}, u, where)
    OBVIOUS
  <2>4. T2 = T \cup (IF u = v /\ place \in where THEN {t} ELSE {})
    BY <2>1, <2>2, <2>3, TextsGrow
  <2>5. Stores(sets[u], T)
    BY <2>1
  <2>6. CASE u = v /\ place \in where
    <3>1. next[u] = Add(sets[u], t) /\ T2 = T \cup {t}
      BY <2>2, <2>4, <2>6, Zenon
    <3>2. Stores(Add(sets[u], t), T \cup {t})
      BY <2>5, AddStores
    <3> QED
      BY <2>3, <3>1, <3>2, Zenon
  <2>7. CASE ~(u = v /\ place \in where)
    <3>1. next[u] = sets[u] /\ T2 = T
      BY <2>4, <2>7, Zenon
    <3> QED
      BY <2>3, <2>5, <3>1
  <2> QED
    BY <2>6, <2>7
<1> QED
  BY <1>1, <1>2

\* A step that writes one entry and adds it where it belongs keeps the invariant.
Grown(sets, next, where, v, place, line) ==
  IF place \in where
  THEN next = [sets EXCEPT ![v] = Add(sets[v], Text(<<v, place, line>>))]
  ELSE next = sets

LEMMA EntryKeeps ==
  ASSUME RouteInv, NEW v \in 1 .. Ups, NEW place \in Places, NEW line \in Str,
         wrote' = wrote \cup {<<v, place, line>>}, matchAny' = matchAny,
         Grown(list, list', {"file", "page"}, v, place, line),
         Grown(inline, inline', {"inline"}, v, place, line),
         Grown(ignored, ignored', {"except"}, v, place, line)
  PROVE  RouteInv'
<1>1. RouteTypeOK
  BY DEF RouteInv
<1>2. PICK W : W = wrote
  OBVIOUS
<1>3. \A u \in 1 .. Ups : /\ Stores(list[u], Texts(W, u, {"file", "page"}))
                          /\ Stores(inline[u], Texts(W, u, {"inline"}))
                          /\ Stores(ignored[u], Texts(W, u, {"except"}))
  BY <1>1, <1>2, WrittenType DEF RouteInv
<1>4. DOMAIN list = 1 .. Ups /\ DOMAIN inline = 1 .. Ups /\ DOMAIN ignored = 1 .. Ups
  BY <1>1 DEF RouteTypeOK
<1>5. PICK X : X = W \cup {<<v, place, line>>}
  BY Zenon
<1>6. DOMAIN list' = 1 .. Ups /\ \A u \in 1 .. Ups : Stores(list'[u], Texts(X, u, {"file", "page"}))
  <2>1. PICK a, b : a = list /\ b = list'
    OBVIOUS
  <2>2. Grown(a, b, {"file", "page"}, v, place, line) /\ DOMAIN a = 1 .. Ups
        /\ \A u \in 1 .. Ups : Stores(a[u], Texts(W, u, {"file", "page"}))
    BY <1>3, <1>4, <2>1
  <2>3. DOMAIN b = 1 .. Ups /\ \A u \in 1 .. Ups : Stores(b[u], Texts(X, u, {"file", "page"}))
    BY <1>5, <2>2, SetsGrow, Zenon DEF Grown
  <2> QED
    BY <2>1, <2>3
<1>7. DOMAIN inline' = 1 .. Ups /\ \A u \in 1 .. Ups : Stores(inline'[u], Texts(X, u, {"inline"}))
  <2>1. PICK a, b : a = inline /\ b = inline'
    OBVIOUS
  <2>2. Grown(a, b, {"inline"}, v, place, line) /\ DOMAIN a = 1 .. Ups
        /\ \A u \in 1 .. Ups : Stores(a[u], Texts(W, u, {"inline"}))
    BY <1>3, <1>4, <2>1
  <2>3. DOMAIN b = 1 .. Ups /\ \A u \in 1 .. Ups : Stores(b[u], Texts(X, u, {"inline"}))
    BY <1>5, <2>2, SetsGrow, Zenon DEF Grown
  <2> QED
    BY <2>1, <2>3
<1>8. DOMAIN ignored' = 1 .. Ups /\ \A u \in 1 .. Ups : Stores(ignored'[u], Texts(X, u, {"except"}))
  <2>1. PICK a, b : a = ignored /\ b = ignored'
    OBVIOUS
  <2>2. Grown(a, b, {"except"}, v, place, line) /\ DOMAIN a = 1 .. Ups
        /\ \A u \in 1 .. Ups : Stores(a[u], Texts(W, u, {"except"}))
    BY <1>3, <1>4, <2>1
  <2>3. DOMAIN b = 1 .. Ups /\ \A u \in 1 .. Ups : Stores(b[u], Texts(X, u, {"except"}))
    BY <1>5, <2>2, SetsGrow, Zenon DEF Grown
  <2> QED
    BY <2>1, <2>3
<1>9. wrote' = X
  BY <1>2, <1>5
<1>10. X \subseteq (1 .. Ups) \X Places \X Str
  BY <1>1, <1>2, <1>5 DEF RouteTypeOK
<1>11. RouteTypeOK'
  BY <1>1, <1>6, <1>7, <1>8, <1>9, <1>10 DEF RouteTypeOK
<1>12. \A u, where : Written(u, where)' = Texts(X, u, where)
  BY <1>9 DEF Written, Texts, Text
<1> QED
  BY <1>6, <1>7, <1>8, <1>11, <1>12 DEF RouteInv

\* Nothing is written at first.
LEMMA InvInit == RouteInit => RouteInv
<1> SUFFICES ASSUME RouteInit PROVE RouteInv
  OBVIOUS
<1>1. RouteTypeOK
  BY DEF RouteInit, RouteTypeOK
<1>2. \A u, where : Written(u, where) = {}
  BY DEF RouteInit, Written
<1>3. \A u \in 1 .. Ups : list[u] = Empty /\ inline[u] = Empty /\ ignored[u] = Empty
  BY DEF RouteInit
<1> QED
  BY <1>1, <1>2, <1>3, EmptyStores, Zenon DEF RouteInv

\* Every step keeps what is stored equal to what was written.
LEMMA InvStep == RouteInv /\ [RouteNext]_vars => RouteInv'
<1> SUFFICES ASSUME RouteInv, [RouteNext]_vars PROVE RouteInv'
  OBVIOUS
<1>1. Args \subseteq Str /\ Lines \subseteq {"file", "page"} \X Str
  BY RouteAssumption DEF Str
<1>2. ASSUME NEW u \in 1 .. Ups, NEW arg \in Args, Inline(u, arg) PROVE RouteInv'
  <2>1. Text(<<u, "inline", arg>>) = arg
    BY DEF Text
  <2>2. Grown(inline, inline', {"inline"}, u, "inline", arg)
    BY <1>2, <2>1, Zenon DEF Inline, Grown
  <2>3. /\ Grown(list, list', {"file", "page"}, u, "inline", arg)
        /\ Grown(ignored, ignored', {"except"}, u, "inline", arg)
    BY <1>2 DEF Inline, Grown
  <2>4. wrote' = wrote \cup {<<u, "inline", arg>>} /\ matchAny' = matchAny
    BY <1>2 DEF Inline
  <2>5. "inline" \in Places /\ arg \in Str
    BY <1>1 DEF Places
  <2> QED
    BY <2>2, <2>3, <2>4, <2>5, EntryKeeps
<1>3. ASSUME NEW u \in 1 .. Ups, NEW arg \in Args, Except(u, arg) PROVE RouteInv'
  <2>1. Text(<<u, "except", arg>>) = arg
    BY DEF Text
  <2>2. Grown(ignored, ignored', {"except"}, u, "except", arg)
    BY <1>3, <2>1, Zenon DEF Except, Grown
  <2>3. /\ Grown(list, list', {"file", "page"}, u, "except", arg)
        /\ Grown(inline, inline', {"inline"}, u, "except", arg)
    BY <1>3 DEF Except, Grown
  <2>4. wrote' = wrote \cup {<<u, "except", arg>>} /\ matchAny' = matchAny
    BY <1>3 DEF Except
  <2>5. "except" \in Places /\ arg \in Str
    BY <1>1 DEF Places
  <2> QED
    BY <2>2, <2>3, <2>4, <2>5, EntryKeeps
<1>4. ASSUME NEW u \in 1 .. Ups, NEW line \in Lines, Load(u, line[1], line[2]) PROVE RouteInv'
  <2>1. PICK place \in {"file", "page"}, text \in Str : line = <<place, text>>
    BY <1>1
  <2>2. Load(u, place, text)
    BY <1>4, <2>1
  <2>3. ParseLine(list[u], IF place = "file" THEN dropCR(text) ELSE text)
          = Add(list[u], Text(<<u, place, text>>))
    BY ParseText
  <2>4. Grown(list, list', {"file", "page"}, u, place, text)
    BY <2>2, <2>3, Zenon DEF Load, Grown
  <2>5. /\ Grown(inline, inline', {"inline"}, u, place, text)
        /\ Grown(ignored, ignored', {"except"}, u, place, text)
    BY <2>2 DEF Load, Grown
  <2>6. wrote' = wrote \cup {<<u, place, text>>} /\ matchAny' = matchAny
    BY <2>2 DEF Load
  <2>7. place \in Places
    BY DEF Places
  <2> QED
    BY <2>4, <2>5, <2>6, <2>7, EntryKeeps
<1>5. CASE UNCHANGED vars
  BY <1>5, Zenon DEF vars, RouteInv, RouteTypeOK, Written, Text
<1> QED
  BY <1>2, <1>3, <1>4, <1>5 DEF RouteNext

-----------------------------------------------------------------------------
\* Routing

\* The names asked for are well formed.
LEMMA ChildrenFormed == \A c \in Children : WellFormed(c)
BY RouteAssumption DEF WellFormed, Str

\* Each set finds the names that surely belong to it, and no others than those that
\* possibly do.
LEMMA SetMatches ==
  ASSUME RouteTypeOK, NEW u \in 1 .. Ups, NEW where, NEW d, Stores(d, Written(u, where)),
         NEW c \in Children
  PROVE  /\ c \in Surely(u, where) => Match(d, c)
         /\ Match(d, c) => c \in Possibly(u, where)
<1>1. PICK T : T = Written(u, where)
  OBVIOUS
<1>2. T \in SUBSET Str /\ Stores(d, T) /\ WellFormed(c)
  BY <1>1, WrittenType, ChildrenFormed
<1>3. ASSUME c \in Surely(u, where) PROVE Match(d, c)
  <2>1. PICK t \in T : stringToDomain(t) # <<>> /\ Below(c, stringToDomain(t))
    BY <1>1, <1>3 DEF Surely
  <2> QED
    BY <1>2, <2>1, MatchFinds
<1>4. ASSUME Match(d, c) PROVE c \in Possibly(u, where)
  <2>1. PICK t \in T : t # <<>> /\ Below(c, removeTrailingDot(ToLower(t)))
    BY <1>2, <1>4, MatchWritten
  <2> QED
    BY <1>1, <2>1 DEF Possibly
<1> QED
  BY <1>3, <1>4

\* What is listed is written in a list or INLINE.
LEMMA ListedSplit ==
  ASSUME NEW u
  PROVE  /\ Surely(u, Listed) = Surely(u, {"file", "page"}) \cup Surely(u, {"inline"})
         /\ Possibly(u, Listed) = Possibly(u, {"file", "page"}) \cup Possibly(u, {"inline"})
<1>1. Written(u, Listed) = Written(u, {"file", "page"}) \cup Written(u, {"inline"})
  <2>1. {x \in wrote : x[1] = u /\ x[2] \in Listed} =
          {x \in wrote : x[1] = u /\ x[2] \in {"file", "page"}}
            \cup {x \in wrote : x[1] = u /\ x[2] \in {"inline"}}
    BY DEF Listed
  <2> QED
    BY <2>1 DEF Written
<1> QED
  BY <1>1 DEF Surely, Possibly

\* An upstream takes the names it surely has and does not possibly except, and only names
\* it possibly has and does not surely except (reloadableUpstream.Match).
LEMMA UpstreamTakes ==
  ASSUME RouteInv, NEW u \in 1 .. Ups, NEW c \in Children
  PROVE  /\ (matchAny[u] \/ c \in Surely(u, Listed)) /\ c \notin Possibly(u, {"except"})
              => UpstreamMatch(u, c)
         /\ UpstreamMatch(u, c) => /\ matchAny[u] \/ c \in Possibly(u, Listed)
                                   /\ c \notin Surely(u, {"except"})
<1>1. /\ c \in Surely(u, {"file", "page"}) => Match(list[u], c)
      /\ Match(list[u], c) => c \in Possibly(u, {"file", "page"})
  BY SetMatches DEF RouteInv
<1>2. /\ c \in Surely(u, {"inline"}) => Match(inline[u], c)
      /\ Match(inline[u], c) => c \in Possibly(u, {"inline"})
  BY SetMatches DEF RouteInv
<1>3. /\ c \in Surely(u, {"except"}) => Match(ignored[u], c)
      /\ Match(ignored[u], c) => c \in Possibly(u, {"except"})
  BY SetMatches DEF RouteInv
<1>4. UpstreamMatch(u, c) <=> /\ matchAny[u] \/ Match(list[u], c) \/ Match(inline[u], c)
                              /\ ~Match(ignored[u], c)
  BY DEF UpstreamMatch, ListMatch
<1> QED
  BY <1>1, <1>2, <1>3, <1>4, ListedSplit

\* The first upstream that matches, or none (Dnsredir.match).
LEMMA RoutedIs ==
  ASSUME NEW c
  PROVE  /\ Routed(c) # 0 => Routed(c) \in 1 .. Ups /\ UpstreamMatch(Routed(c), c)
         /\ \A u \in 1 .. Ups : UpstreamMatch(u, c) => Routed(c) \in 1 .. u
<1>1. PICK M : M = {u \in 1 .. Ups : UpstreamMatch(u, c)}
  BY Zenon
<1>2. Routed(c) = IF M = {} THEN 0 ELSE Min(M)
  BY <1>1 DEF Routed
<1>3. M \in SUBSET Nat /\ Ups \in Nat
  BY <1>1, RouteAssumption
<1>4. CASE M = {}
  BY <1>1, <1>2, <1>4
<1>5. CASE M # {}
  <2>1. Min(M) \in M /\ \A x \in M : Min(M) <= x
    BY <1>3, <1>5, MinFacts
  <2>2. Routed(c) \in M /\ \A x \in M : Routed(c) <= x
    BY <1>2, <1>5, <2>1
  <2>3. Routed(c) \in 1 .. Ups /\ UpstreamMatch(Routed(c), c)
    BY <1>1, <2>2
  <2>4. ASSUME NEW u \in 1 .. Ups, UpstreamMatch(u, c) PROVE Routed(c) \in 1 .. u
    <3>1. Routed(c) <= u
      BY <1>1, <2>2, <2>4
    <3> QED
      BY <1>3, <2>3, <3>1
  <2> QED
    BY <2>3, <2>4
<1> QED
  BY <1>4, <1>5

\* The sets hold exactly what the lines say, whatever was loaded and in which order
\* (domainSet.Add, NameList.parse).
THEOREM RouteInvariant == RouteSpec => []RouteInv
BY InvInit, InvStep, PTL DEF RouteSpec

\* A name goes to the first upstream that surely wants it, or to one before it that
\* possibly does, whatever buckets the domains and the labels of the name fall into
\* (domainSet.Match, reloadableUpstream.Match, Dnsredir.match).
THEOREM RoutedToFirstAlways == RouteSpec => []RoutedToFirst
<1>1. RouteInv => RoutedToFirst
  <2> SUFFICES ASSUME RouteInv, NEW u \in 1 .. Ups,
                      NEW c \in (IF matchAny[u] THEN Children ELSE Surely(u, Listed))
                                  \ Possibly(u, {"except"})
               PROVE  Routed(c) \in 1 .. u
    BY DEF RoutedToFirst
  <2>1. c \in Children /\ (matchAny[u] \/ c \in Surely(u, Listed))
    BY DEF Surely
  <2>2. UpstreamMatch(u, c)
    BY <2>1, UpstreamTakes
  <2> QED
    BY <2>2, RoutedIs
<1> QED
  BY <1>1, RouteInvariant, PTL

\* An upstream that gets a name has it, or a parent, written down, and has not surely
\* excepted it.
THEOREM RoutedWithReasonAlways == RouteSpec => []RoutedWithReason
<1>1. RouteInv => RoutedWithReason
  <2> SUFFICES ASSUME RouteInv, NEW c \in Children, Routed(c) # 0
               PROVE  /\ matchAny[Routed(c)] \/ c \in Possibly(Routed(c), Listed)
                      /\ c \notin Surely(Routed(c), {"except"})
    BY DEF RoutedWithReason
  <2>1. PICK u \in 1 .. Ups : u = Routed(c) /\ UpstreamMatch(u, c)
    BY RoutedIs
  <2>2. (matchAny[u] \/ c \in Possibly(u, Listed)) /\ c \notin Surely(u, {"except"})
    BY <2>1, UpstreamTakes
  <2> QED
    BY <2>1, <2>2
<1> QED
  BY <1>1, RouteInvariant, PTL

=============================================================================
