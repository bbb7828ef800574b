----------------------------- MODULE MCExchange -----------------------------
(****************************************************************************)
(* Finite instance of Exchange: hosts of every kind, and an upstream with   *)
(* ipsets of both families and of none, or with pf tables of every option.  *)
(****************************************************************************)
EXTENDS Exchange

RR(t, isIP) == [type |-> t, ip |-> isIP]

\* Two addresses of a family with one of the other and two records without between them.
MCContents ==
  {[success |-> TRUE, answer |-> <<RR("CNAME", FALSE), RR("A", TRUE), RR("AAAA", TRUE),
                                   RR("A", FALSE), RR("A", TRUE)>>],
   [success |-> FALSE, answer |-> <<RR("A", TRUE)>>], [success |-> TRUE, answer |-> <<>>]}

MCUpstreams ==
  {[s4 |-> [kind |-> "ipset", family |-> "A"],
    s6 |-> [kind |-> "ipset", family |-> "AAAA"],
    mac |-> [kind |-> "ipset", family |-> "none"]],
   [all |-> [kind |-> "pf", flags |-> {"+create"}],
    t4 |-> [kind |-> "pf", flags |-> {"+v4_only"}],
    t6 |-> [kind |-> "pf", flags |-> {"+v6_only"}]],
   <<>>}

=============================================================================
