-------------------------------- MODULE AddIP -------------------------------
(****************************************************************************)
(* The loops of ipsetAddIP (src/ipset_linux.go:69-116) and pfAddIP          *)
(* (src/pf_darwin.go:131-170) over the records of a reply and the sets or   *)
(* tables of the upstream, with calls to the kernel that may fail.          *)
(****************************************************************************)
EXTENDS Sequences, Naturals

CONSTANT
  Upstreams  \* the sets or tables an upstream may have: functions from names to what is
             \* known of them, the family of an ipset or the options of a pf table

VARIABLES
  tables,    \* the ones it has
  records,   \* of the reply: [type, ip], ip when the text gives an IP address
  pos,       \* position of the record at hand
  left,      \* tables left for it
  added,     \* pairs <<position of the record, table>> the kernel took
  refused    \* history: such pairs for which a call failed

addVars == <<tables, records, pos, left, added, refused>>

\* A or AAAA, with a text of five fields of which the last is an IP address.
HasAddress(rr) == rr.type \in {"A", "AAAA"} /\ rr.ip

\* Which addresses belong into a set or table.
ipsetFits(rr, t) == t.family = rr.type
pfFits(rr, t) ==
  ("+v4_only" \in t.flags => rr.type = "A") /\ ("+v6_only" \in t.flags => rr.type = "AAAA")
Fits(rr, t) == IF t.kind = "ipset" THEN ipsetFits(rr, t) ELSE pfFits(rr, t)

\* Nothing is added for a reply with another rcode than success.
BeginAdd(msg) ==
  /\ records' = IF msg.success THEN msg.answer ELSE <<>>
  /\ pos' = 1
  /\ left' = DOMAIN tables
  /\ added' = {}
  /\ refused' = {}
  /\ UNCHANGED tables

\* A record without an address is skipped; on to the next one when all tables are done.
NextRecord ==
  /\ pos <= Len(records)
  /\ ~HasAddress(records[pos]) \/ left = {}
  /\ pos' = pos + 1
  /\ left' = DOMAIN tables
  /\ UNCHANGED <<tables, records, added, refused>>

\* The address at hand and a table it is not yet through with.
AtTable(t) == pos <= Len(records) /\ HasAddress(records[pos]) /\ t \in left

Took(t) == added' = added \cup {<<pos, t>>} /\ UNCHANGED refused
Failed(t) == refused' = refused \cup {<<pos, t>>} /\ UNCHANGED added

\* Variant: an error ends the loop over the sets.
ipsetAddTo_Returns(t) ==
  /\ AtTable(t) /\ tables[t].kind = "ipset"
  /\ \/ Failed(t) /\ left' = {}
     \/ ~ipsetFits(records[pos], tables[t]) /\ left' = left \ {t} /\ UNCHANGED <<added, refused>>
     \/ ipsetFits(records[pos], tables[t]) /\ left' = left \ {t} /\ Took(t)
  /\ UNCHANGED <<tables, records, pos>>

\* One set, in the order of the map: its header is not to be had, or its family is another,
\* or the address is added, or that fails. An error is logged and no more.
ipsetAddTo(t) ==
  /\ AtTable(t) /\ tables[t].kind = "ipset"
  /\ left' = left \ {t}
  /\ \/ Failed(t)
     \/ ~ipsetFits(records[pos], tables[t]) /\ UNCHANGED <<added, refused>>
     \/ ipsetFits(records[pos], tables[t]) /\ Took(t)
  /\ UNCHANGED <<tables, records, pos>>

\* One table: its options exclude the address, or it is added, or that fails.
pfAddTo(t) ==
  /\ AtTable(t) /\ tables[t].kind = "pf"
  /\ left' = left \ {t}
  /\ \/ ~pfFits(records[pos], tables[t]) /\ UNCHANGED <<added, refused>>
     \/ pfFits(records[pos], tables[t]) /\ (Took(t) \/ Failed(t))
  /\ UNCHANGED <<tables, records, pos>>

AddInit ==
  /\ tables \in Upstreams
  /\ records = <<>> /\ pos = 1
  /\ left = {} /\ added = {} /\ refused = {}

=============================================================================
