--------------------------------- MODULE Doh --------------------------------
(****************************************************************************)
(* One DNS over HTTPS exchange of a request: dohExchange                    *)
(* (src/healthcheck.go:368-417) with the JSON and the wire format           *)
(* (src/doh-json.go, src/doh-ietf.go).                                      *)
(*                                                                          *)
(* An Id is the client's ("own"), zero, or one nobody here has given        *)
(* ("foreign"). Of a request it matters whether it can be packed, and       *)
(* whether the JSON format takes it.                                        *)
(****************************************************************************)
EXTENDS Sequences

CONSTANT Contents  \* of replies: [success, answer], the answer by the types of its records and
                   \* whether the text of each has an IP address

Records == [type : STRING, ip : BOOLEAN]

ASSUME DohAssumption == Contents \subseteq [success : BOOLEAN, answer : Seq(Records)]

VARIABLES
  query,  \* the request: [packs, json]
  reqId,  \* the Id in state.Req
  asked,  \* requestContentType of the exchange under way, or none
  reply   \* the reply, [from, id, question, success, answer], or NoReply

dohVars == <<query, reqId, asked, reply>>

\* json: not a response, a single question, and one of class IN.
Queries == [packs : BOOLEAN, json : BOOLEAN]

NoReply == [from |-> "nobody"]
Questions == {"asked", "other"}
Reply(from, id, q, c) ==
  [from |-> from, id |-> id, question |-> q, success |-> c.success, answer |-> c.answer]

JsonTypes == {"json", "dns-json"}
WireTypes == {"dns-message", "dns-udpwireformat"}
Responses ==
  [type : JsonTypes \cup WireTypes \cup {"text"}, status : {"ok", "bad"}, body : {"json", "wire", "junk"}]

\* uh.requestContentType as InitDOH sets it, and the choice between both for doh://.
requestContentTypes(proto) ==
  CASE proto = "json-doh" -> {"dns-json"}
    [] proto = "ietf-doh" -> {"dns-message"}
    [] proto = "doh"      -> {"dns-json", "dns-message"}

jsonDnsExchange ==
  /\ query.json
  /\ asked' = "dns-json"
  /\ UNCHANGED <<query, reqId, reply>>

\* The Id is zero while the request is packed, and put back when that went well.
ietfDnsExchange ==
  /\ query.packs
  /\ asked' = "dns-message"
  /\ UNCHANGED <<query, reqId, reply>>

\* A request that cannot be packed goes back with the zero Id.
ietfPackFails ==
  /\ ~query.packs
  /\ reqId' = "zero"
  /\ UNCHANGED <<query, asked, reply>>

\* The parser by the response's type, or by the request's when that says nothing.
Parser(resp, type) ==
  IF resp.type \in JsonTypes \/ (resp.type \notin WireTypes /\ type = "dns-json") THEN "json" ELSE "wire"

\* A bad status is tolerated with the content type that was asked for.
Accepted(resp, type) ==
  (resp.status = "ok" \/ resp.type = type) /\ resp.body = Parser(resp, type)

jsonDnsParseResponse ==
  \E c \in Contents : reply' = Reply("doh", reqId, "asked", c)

\* Servers send back the zero Id they were sent, which becomes the client's again.
ietfDnsParseResponse_KeepsZero ==
  \E id \in {"zero", "foreign"}, q \in Questions, c \in Contents :
    reply' = Reply("doh", id, q, c)

ietfDnsParseResponse ==
  \E id \in {"zero", "foreign"}, q \in Questions, c \in Contents :
    reply' = Reply("doh", IF id = "zero" THEN reqId ELSE id, q, c)

\* A response that is parsed, or else an error of HTTP, status, body or format.
dohReply ==
  /\ \E resp \in Responses :
       /\ Accepted(resp, asked)
       /\ IF Parser(resp, asked) = "json" THEN jsonDnsParseResponse ELSE ietfDnsParseResponse
  /\ asked' = "none"
  /\ UNCHANGED <<query, reqId>>

dohError ==
  /\ asked' = "none"
  /\ UNCHANGED <<query, reqId, reply>>

DohInit ==
  /\ query \in Queries
  /\ reqId = "own"
  /\ asked = "none"
  /\ reply = NoReply

=============================================================================
