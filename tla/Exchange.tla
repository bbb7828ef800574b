------------------------------ MODULE Exchange ------------------------------
(****************************************************************************)
(* A request that is tried on the hosts of an upstream, classic ones and    *)
(* DNS over HTTPS ones, until one answers: UpstreamHost.Exchange            *)
(* (src/healthcheck.go:419-469) in the loop of Dnsredir.ServeDNS            *)
(* (src/dnsredir.go:81-137), down to what the client gets.                  *)
(*                                                                          *)
(* ServeDNS has the bounds on tries and time; here the request may be given *)
(* up at any try. The dial timeout is in DialTimeout, the connection cache  *)
(* in Transport.                                                            *)
(****************************************************************************)
EXTENDS Doh, AddIP

CONSTANT Protos  \* the hosts, by how they are written: dns, json-doh, ietf-doh, doh

VARIABLES
  at,            \* select, dial, exchange, https, match, add, done
  written        \* what the client got: [kind, id]

exchangeVars == <<dohVars, addVars, at, written>>

\* Select returns a classic host, whose Dial takes a cached connection, makes one, or fails.
Dial ==
  /\ at = "select" /\ "dns" \in Protos
  /\ at' \in {"exchange", "select"}
  /\ UNCHANGED <<dohVars, addVars, written>>

\* A write or read that fails, or a reply with another Id: back for the next try.
ExchangeFails ==
  /\ at = "exchange" /\ at' = "select"
  /\ UNCHANGED <<dohVars, addVars, written>>

\* A reply under the Id of the request, which must have been packed to be written.
Exchanged ==
  /\ at = "exchange" /\ query.packs /\ at' = "match"
  /\ \E q \in Questions, c \in Contents : reply' = Reply("dns", reqId, q, c)
  /\ UNCHANGED <<query, reqId, asked, addVars, written>>

\* Select returns a DNS over HTTPS host. An error leads to the next try.
dohExchange(proto) ==
  /\ at = "select"
  /\ \E type \in requestContentTypes(proto) :
       \/ type = "dns-json" /\ jsonDnsExchange /\ at' = "https"
       \/ type = "dns-message" /\ ietfDnsExchange /\ at' = "https"
       \/ type = "dns-message" /\ ietfPackFails /\ UNCHANGED at
  /\ UNCHANGED <<addVars, written>>

dohReturn ==
  /\ at = "https"
  /\ (dohReply /\ at' = "match") \/ (dohError /\ at' = "select")
  /\ UNCHANGED <<addVars, written>>

\* WriteMsg to the client, and the request is over.
Write(kind, id) == at' = "done" /\ written' = [kind |-> kind, id |-> id]

\* ServeDNS returns an error, and the server answers the request, as it is now, with SERVFAIL.
GiveUp ==
  /\ at = "select" /\ Write("servfail", reqId)
  /\ UNCHANGED <<dohVars, addVars>>

\* state.Match looks at the question of the reply and not at its Id.
Match ==
  /\ at = "match"
  /\ \/ reply.question = "asked" /\ BeginAdd(reply) /\ at' = "add" /\ UNCHANGED written
     \/ reply.question # "asked" /\ Write("formerr", reqId) /\ UNCHANGED addVars
  /\ UNCHANGED dohVars

AddIPs ==
  /\ at = "add"
  /\ NextRecord \/ \E t \in left : ipsetAddTo(t) \/ pfAddTo(t)
  /\ UNCHANGED <<dohVars, at, written>>

WriteReply ==
  /\ at = "add" /\ pos > Len(records)
  /\ Write("reply", reply.id)
  /\ UNCHANGED <<dohVars, addVars>>

ExchangeInit ==
  /\ DohInit /\ AddInit
  /\ at = "select" /\ written = [kind |-> "none", id |-> "none"]

ExchangeNext ==
  \/ Dial \/ ExchangeFails \/ Exchanged
  \/ \E proto \in Protos \ {"dns"} : dohExchange(proto)
  \/ dohReturn \/ GiveUp \/ Match \/ AddIPs \/ WriteReply

ExchangeSpec == ExchangeInit /\ [][ExchangeNext]_exchangeVars

-----------------------------------------------------------------------------
\* The client gets its answer under the Id it asked with, after whatever tries on whatever
\* kinds of hosts, with two exceptions that the code leaves: a request that cannot be packed
\* goes on with Id 0 (src/doh-ietf.go:26-29), and the Id of a DNS over HTTPS reply is
\* corrected when it is 0 and passed on otherwise (src/doh-ietf.go:77).
AnsweredAsAsked ==
  written.kind # "none" /\ query.packs =>
    \/ written.id = "own"
    \/ written.kind = "reply" /\ written.id = "foreign" /\ reply.from = "doh"

\* When the client has a reply, each of its records that has an address has been added to
\* every set and table that takes its family, except where a kernel call for that very
\* record and table failed, and to no other: an error with one set or one record, also one
\* of the same family, keeps nothing from the rest, and a reply that is no success adds
\* nothing (src/ipset_linux.go:69-116, src/pf_darwin.go:131-170).
RoutedOrRefused ==
  written.kind = "reply" =>
    LET wanted == {p \in (DOMAIN reply.answer) \X (DOMAIN tables) :
                     /\ reply.success /\ HasAddress(reply.answer[p[1]])
                     /\ Fits(reply.answer[p[1]], tables[p[2]])}
    IN added \subseteq wanted /\ wanted \subseteq added \cup refused

=============================================================================
