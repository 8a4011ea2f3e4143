------------------------------- MODULE MCParser -------------------------------
(* Parser for TLC: a line of each kind that the calls tell apart, those        *)
(* included that two patterns match, as dashes and a row that are list items.  *)
EXTENDS Parser

Fence == <<"fence">>
DashItem == <<"-", " ", "|", " ", "-">>
Item == <<"-", " ", "a">>

BlockLines ==
  {<<>>, <<"a">>, Fence, Item, <<"1", ".", " ", "a">>, <<"a", "|", "b">>, DashItem,
   Item \o <<"|", "b">>, <<"|", "|">>}

CodeLines == {<<"a">>, Fence}

==============================================================================
