------------------------------- MODULE MCRoute -------------------------------
(****************************************************************************)
(* Finite instances of Route for TLC.  The lines cover names of one and two *)
(* characters, one to three labels, upper case, characters that are no part *)
(* of a domain name, final dots, comments, the dnsmasq format, CRLF ends    *)
(* and a label that is too long.                                            *)
(****************************************************************************)
EXTENDS Route

MCChars == {"a", "b", "A", ".", "-", "_", " ", "#", "/", "server=", "CR"}

MCArgs ==
  { <<"a">>, <<"A", ".">>, <<"a", ".", "b">>, <<"_", "a">>,
    <<"a", "_", ".", "b">>, <<".">> }

MCLines ==
  ({"file"} \X
     { <<"A", "a", ".">>, <<"a", ".", "a">>, <<"_", "A">>, <<"b", "#", "a">>,
       <<"server=", "/", "a", "b", "/", "b">>, <<"b", "CR">> })
  \cup
  ({"page"} \X
     { <<"a">>, <<"A", ".", "b">>, <<"a", "-">>, <<".">>, <<"b", " ", "#">>,
       <<"b", "/", "a", "/">>, <<"b", "CR">>, <<"A", "a", "b">> })

MCChildren ==
  { <<"a">>, <<"b">>, <<"a", "b">>, <<"a", ".", "a">>, <<"b", ".", "a">>,
    <<"a", "b", ".", "a", "a">>, <<"b", ".", "_", "a">>,
    <<"a", ".", "a", "_", ".", "b">>, <<"b", ".", "a", ".", "b">>, <<".">>,
    <<"a", "a", "b">> }
=============================================================================
