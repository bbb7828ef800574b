-------------------------------- MODULE Route --------------------------------
(****************************************************************************)
(* Which upstream a name is routed to (Dnsredir.match in dnsredir.go,       *)
(* reloadableUpstream.Match in upstream.go), after any lines have been      *)
(* loaded into the upstreams' lists, INLINE names and exceptions.           *)
(****************************************************************************)
EXTENDS DomainSet

CONSTANTS
  Chars,     \* the characters of lines and names
  Ups,       \* number of upstreams, in the order of the Corefile
  Lines,     \* <<where, line>>: lines of files and of pages, up to the newline
  Args,      \* INLINE names and arguments of except
  Children,  \* names asked for: lower case, without a trailing dot
  MaxLines   \* bound: lines and arguments in all

\* A name asked for has no empty label, or is the root.
ASSUME RouteAssumption ==
  /\ Ups \in Nat \ {0} /\ MaxLines \in Nat
  /\ {"a", "."} \subseteq Chars
  /\ Lines \subseteq {"file", "page"} \X Seq(Chars)
  /\ Args \subseteq Seq(Chars)
  /\ Children \subseteq Seq(Chars) \ {<<>>}
  /\ \A c \in Children :
       /\ \A k \in DOMAIN c : c[k] # "A"
       /\ c # <<".">> => /\ c[Len(c)] # "."
                         /\ \A k \in DOMAIN c : c[k] = "." => k > 1 /\ c[k - 1] # "."

VARIABLES
  matchAny,  \* per upstream: FROM is "."
  list,      \* per upstream: the NameList
  inline,    \* per upstream: the domainSet inline
  ignored,   \* per upstream: the domainSet ignored
  wrote      \* history: what was written where

vars == <<matchAny, list, inline, ignored, wrote>>

Empty == [ix \in {} |-> {}]

RouteInit ==
  /\ matchAny \in [1..Ups -> BOOLEAN]
  /\ list = [u \in 1..Ups |-> Empty]
  /\ inline = [u \in 1..Ups |-> Empty]
  /\ ignored = [u \in 1..Ups |-> Empty]
  /\ wrote = {}

\* INLINE: not next to ".", before any exception (parseBlock,
\* newReloadableUpstream).
Inline(u, arg) ==
  /\ ~matchAny[u]
  /\ ignored[u] = Empty
  /\ Cardinality(wrote) < MaxLines
  /\ inline' = [inline EXCEPT ![u] = Add(@, arg)]
  /\ wrote' = wrote \cup {<<u, "inline", arg>>}
  /\ UNCHANGED <<matchAny, list, ignored>>

\* except: no INLINE name may fall under it.
Except(u, arg) ==
  /\ Cardinality(wrote) < MaxLines
  /\ ignored' = [ignored EXCEPT ![u] = Add(@, arg)]
  /\ \A ix \in DOMAIN inline[u] :
       \A name \in inline[u][ix] : ~Match(ignored'[u], name)
  /\ wrote' = wrote \cup {<<u, "except", arg>>}
  /\ UNCHANGED <<matchAny, list, inline>>

\* A line of one of the upstream's lists; "." leaves no items.  The scanner that
\* reads files drops a carriage return at the end, pages are only split.
Load(u, where, line) ==
  /\ ~matchAny[u]
  /\ Cardinality(wrote) < MaxLines
  /\ list' = [list EXCEPT ![u] =
                ParseLine(@, IF where = "file" THEN dropCR(line) ELSE line)]
  /\ wrote' = wrote \cup {<<u, where, line>>}
  /\ UNCHANGED <<matchAny, inline, ignored>>

RouteNext ==
  \E u \in 1..Ups :
    \/ \E arg \in Args : Inline(u, arg) \/ Except(u, arg)
    \/ \E line \in Lines : Load(u, line[1], line[2])

RouteSpec == RouteInit /\ [][RouteNext]_vars

\* NameList.Match, over all items at once.
ListMatch(u, name) == Match(list[u], name)

\* Variant: exceptions are not looked at when FROM is ".".
UpstreamMatch_AnyFirst(u, name) ==
  \/ matchAny[u]
  \/ (ListMatch(u, name) \/ Match(inline[u], name)) /\ ~Match(ignored[u], name)

\* reloadableUpstream.Match
UpstreamMatch(u, name) ==
  /\ matchAny[u] \/ ListMatch(u, name) \/ Match(inline[u], name)
  /\ ~Match(ignored[u], name)

\* Dnsredir.match: the first upstream that matches, 0 for none.
Routed(name) ==
  LET matching == {u \in 1..Ups : UpstreamMatch(u, name)} IN
  IF matching = {} THEN 0 ELSE Min(matching)

-----------------------------------------------------------------------------
\* Properties

\* What a line is about by the README: the whole of it, or DOMAIN in
\* server=/DOMAIN/..., without the comment.
Uncommented(line) ==
  SubSeq(line, 1, Max({n \in 0 .. Len(line) : \A k \in 1 .. n : line[k] # "#"}))
About(line) ==
  LET text == Uncommented(line)
      slashes == Positions(text, "/")
  IN IF Cardinality(slashes) # 2 THEN text
     ELSE IF text[1] = "server=" /\ 2 \in slashes THEN SubSeq(text, 3, Max(slashes) - 1)
     ELSE <<>>

\* A file may end its lines either way.
Text(w) ==
  CASE w[2] = "file" -> About(dropCR(w[3]))
    [] w[2] = "page" -> About(w[3])
    [] OTHER -> w[3]

\* The same name, or one below it; the root is above every name.
Below(child, parent) ==
  parent = <<>> \/ child = parent \/ HasSuffix(child, <<".">> \o parent)

Written(u, where) == {Text(w) : w \in {x \in wrote : x[1] = u /\ x[2] \in where}}

\* Names below a domain that was written down properly, and names below
\* anything that was written down, in whatever case and with a final dot or not.
Surely(u, where) ==
  {c \in Children : \E t \in Written(u, where) :
     stringToDomain(t) # <<>> /\ Below(c, stringToDomain(t))}
Possibly(u, where) ==
  {c \in Children : \E t \in Written(u, where) :
     t # <<>> /\ Below(c, removeTrailingDot(ToLower(t)))}

Listed == {"file", "page", "inline"}

\* The two-way hash loses nothing: a name goes to the first upstream that surely
\* wants it, or to one before it that possibly does, whatever buckets the domains
\* and the labels of the name fall into.
RoutedToFirst ==
  \A u \in 1..Ups :
    \A c \in (IF matchAny[u] THEN Children ELSE Surely(u, Listed))
               \ Possibly(u, {"except"}) :
      Routed(c) \in 1..u

\* And it makes nothing up: an upstream that gets a name has it, or a parent,
\* written down, and has not surely excepted it.
RoutedWithReason ==
  \A c \in Children :
    LET u == Routed(c) IN
    u # 0 => /\ matchAny[u] \/ c \in Possibly(u, Listed)
             /\ c \notin Surely(u, {"except"})

=============================================================================
