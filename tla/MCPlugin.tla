------------------------------ MODULE MCPlugin ------------------------------
(****************************************************************************)
(* Finite instance of Plugin: the words of the Corefile and what they say.  *)
(****************************************************************************)
EXTENDS Plugin

MCForms == {<<>>, <<".">>, <<"file", "https">>, <<"http">>, <<"unreadable">>}

MCDuration == [s0 |-> 0, ms500 |-> 500, s1 |-> 1000, s5 |-> 5000, s60 |-> 60000, junk |-> -1]

MCNumber == [n0 |-> 0, n7 |-> 7, huge |-> -1]

MCHostOf ==
  [ip    |-> [trans |-> "dns", host |-> "ip", port |-> FALSE, tls |-> NoName],
   tlsip |-> [trans |-> "tls", host |-> "ip", port |-> FALSE, tls |-> NoName],
   named |-> [trans |-> "tls", host |-> "ip", port |-> TRUE, tls |-> "own"],
   dom   |-> [trans |-> "tls", host |-> "domain", port |-> FALSE, tls |-> NoName],
   odd   |-> [trans |-> "tls", host |-> "domain", port |-> FALSE, tls |-> "own"],
   wrong |-> [trans |-> "tls", host |-> "ip", port |-> TRUE, tls |-> "notadomain"],
   doh   |-> [trans |-> "doh", host |-> "domain", port |-> FALSE, tls |-> NoName]]

Line(dir, args) == [dir |-> dir, args |-> args]

\* Well-formed lines, among them two that only the end of the block refuses.
GoodLines ==
  {Line("to", <<"ip", "tlsip">>), Line("to", <<"named", "dom">>), Line("to", <<"wrong", "doh">>),
   Line("path_reload", <<"s5">>), Line("url_reload", <<"s60", "s5">>), Line("url_reload", <<"s0">>),
   Line("except", <<"d", "notadomain">>), Line("d", <<>>), Line("sub", <<>>),
   Line("max_fails", <<"n0">>), Line("max_retry", <<"n7">>),
   Line("health_check", <<"s1", "no_rec">>), Line("health_check", <<"s0">>),
   Line("expire", <<"s0">>), Line("expire", <<"s5">>),
   Line("tls", <<"ca">>), Line("tls_servername", <<"name">>), Line("ipset", <<"a", "b">>),
   Line("pf", <<"+create", "t">>), Line("pf", <<"+v4_only", "t", "+create">>),
   Line("policy", <<"round_robin">>), Line("policy", <<"spray">>), Line("spray", <<>>),
   Line("no_ipv6", <<>>), Line("bootstrap", <<"addr">>)}

\* Lines that parseBlock refuses; the lines of ipset and pf on their platform.
BadLines ==
  {Line("to", <<>>), Line("to", <<"odd">>), Line("path_reload", <<"ms500">>), Line("url_reload", <<"s60", "s1">>),
   Line("except", <<>>), Line("max_fails", <<>>), Line("max_retry", <<"huge">>),
   Line("health_check", <<"s1", "rec">>), Line("expire", <<"ms500">>), Line("expire", <<"junk">>),
   Line("tls", <<"nofile">>), Line("tls_servername", <<"notadomain">>), Line("policy", <<"best">>),
   Line("spray", <<"x">>), Line("no_ipv6", <<"x">>), Line("bootstrap", <<"noaddress">>), Line("notadomain", <<>>),
   Line("ipset", <<>>), Line("pf", <<"+v4_only", "+v6_only", "t">>), Line("pf", <<"+create">>),
   Line("pf", <<"t", ":anchor">>)}

MCLines == GoodLines \cup BadLines

MCBelow == {<<"d", "d">>, <<"d", "sub">>, <<"sub", "sub">>}

=============================================================================
