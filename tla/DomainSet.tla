------------------------------ MODULE DomainSet ------------------------------
(****************************************************************************)
(* domainSet (namelist.go) with the conversions it rests on (utils.go): a   *)
(* set of base domains, in buckets by their first two characters, that is   *)
(* asked whether a name is one of them or below one.                        *)
(*                                                                          *)
(* Strings are sequences of characters: which bucket a name is in, and what *)
(* is left of a line, depends on single characters.  "A" stands for an      *)
(* upper case letter, "server=" is a character of its own.                  *)
(****************************************************************************)
EXTENDS Integers, Sequences, FiniteSetsExt

CONSTANT MaxLabel  \* characters a label may have

Letters == {"a", "b"}
ToLower(s) == [k \in DOMAIN s |-> IF s[k] = "A" THEN "a" ELSE s[k]]

\* strings.IndexByte: 0 when c does not occur.
Positions(s, c) == {k \in DOMAIN s : s[k] = c}
Index(s, c) == IF Positions(s, c) = {} THEN 0 ELSE Min(Positions(s, c))

removeTrailingDot(s) == IF s # <<>> /\ s[Len(s)] = "." THEN SubSeq(s, 1, Len(s) - 1) ELSE s

\* What stands from each dot, or the beginning, to the next dot, or the end, is a label.
isDomainName(s) ==
  LET cuts == Positions(s, ".") \cup {0, Len(s) + 1} IN
  \A i, j \in cuts : i < j /\ ~(\E k \in cuts : i < k /\ k < j) =>
    LET seg == SubSeq(s, i + 1, j - 1) IN
    /\ Len(seg) \in 1 .. MaxLabel
    /\ \A k \in DOMAIN seg : seg[k] \in Letters \cup {"-"}
    /\ seg[1] # "-" /\ seg[Len(seg)] # "-"

\* The empty string when s is no domain name.
stringToDomain(s) ==
  LET t == removeTrailingDot(ToLower(s)) IN IF isDomainName(t) THEN t ELSE <<>>

domainToIndex(s) == IF Len(s) = 1 THEN <<"-", s[1]>> ELSE <<s[1], s[2]>>

\* A missing bucket is empty.
Bucket(d, s) ==
  LET ix == domainToIndex(s) IN IF ix \in DOMAIN d THEN d[ix] ELSE {}

\* What is stored for a string: the domain name it is, or what idna.ToASCII
\* makes of it, which leaves ASCII text as it is, upper case included.
StoredName(s) ==
  IF stringToDomain(s) # <<>> THEN stringToDomain(s) ELSE s

Add(d, s) ==
  LET name == StoredName(s)
      ix == domainToIndex(name)
  IN IF name = <<>> THEN d
     ELSE [i \in DOMAIN d \cup {ix} |-> IF i = ix THEN Bucket(d, name) \cup {name} ELSE d[i]]

\* strings.HasSuffix
HasSuffix(s, t) == Len(t) <= Len(s) /\ \A i \in 1 .. Len(t) : s[Len(s) - Len(t) + i] = t[i]

\* plugin.Name.Matches: label by label from the right, in any case.
Matches(parent, child) ==
  \/ parent = <<".">>
  \/ ToLower(parent) = ToLower(child)
  \/ HasSuffix(ToLower(child), <<".">> \o ToLower(parent))

\* Where the names begin that the loop of Match looks up: the child, then what follows its
\* first dot, and so on, up to a name without a dot or one that begins with a dot.
Starts(child) ==
  {k \in DOMAIN child :
     /\ k = 1 \/ child[k - 1] = "."
     /\ \A j \in 1 .. k - 1 : child[j] = "." => j > 1 /\ child[j - 1] # "."}

LookedUp(d, s) == s \in Bucket(d, s) \/ \E parent \in Bucket(d, s) : Matches(parent, s)

\* Variant: names with a single label are not looked up.
Match_StopsEarly(d, child) ==
  \E k \in Starts(child) :
    LET s == SubSeq(child, k, Len(child)) IN Index(s, ".") > 1 /\ LookedUp(d, s)

Match(d, child) == \E k \in Starts(child) : LookedUp(d, SubSeq(child, k, Len(child)))

-----------------------------------------------------------------------------
\* Lists

\* What bufio.ScanLines leaves of a line.
dropCR(line) ==
  IF line # <<>> /\ line[Len(line)] = "CR" THEN SubSeq(line, 1, Len(line) - 1) ELSE line

\* parse, for one line: a comment is cut off, `server=/DOMAIN/...` gives its
\* domain, another line with two slashes nothing, and any other line is taken
\* whole.
NameIn(line) ==
  LET cut == Index(line, "#")
      text == IF cut > 0 THEN SubSeq(line, 1, cut - 1) ELSE line
      slashes == Positions(text, "/")
  IN IF Cardinality(slashes) # 2 THEN text
     ELSE IF SubSeq(text, 1, Min(slashes) - 1) = <<"server=">>
       THEN SubSeq(text, Min(slashes) + 1, Max(slashes) - 1)
       ELSE <<>>

ParseLine(d, line) == Add(d, NameIn(line))

=============================================================================
