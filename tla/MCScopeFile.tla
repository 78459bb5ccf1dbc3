---------------------------- MODULE MCScopeFile ----------------------------
(* The lines of the shipped config/scope.yaml for module ScopeFile.         *)
EXTENDS ScopeFile, TLC

NoToken == Token("empty", <<>>, 0)
Key(indent, name) == Line(indent, "key", name, NoToken)

ShippedLines ==
  {Blank, Line(0, "scope", "", NoToken), Key(2, "domains"), Line(4, "item", "", Token("quoted", <<"b">>, 0)),
   Key(2, "cidrs"), Line(4, "item", "", Token("quoted", <<"n">>, 0)),
   Key(2, "ports"), Line(4, "item", "", Token("int", <<>>, 80)),
   Key(2, "rate_limit"), Line(4, "pair", "max_concurrency", Token("int", <<>>, 100)),
   Line(4, "pair", "timeout_seconds", Token("fraction", <<"2.0">>, 0))}
Net == (<<"n">> :> {1})
=============================================================================
