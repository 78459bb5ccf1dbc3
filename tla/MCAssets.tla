------------------------------ MODULE MCAssets ------------------------------
(* A small engagement for module Assets. *)
EXTENDS Assets

\* Two names in the scope, one that is in it but cannot be encoded, and one
\* outside it; two addresses and one; two ports and one that the walk tries by
\* default but the scope does not allow, unless it is given.
SomeSeeds == {<<"www", "www">>, <<"www", "other">>, <<"mail", "a..www">>}
TwoWebPorts == <<80, 8080, 8443>>
OneGiven == {<<8080>>}
=============================================================================
