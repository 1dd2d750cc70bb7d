-------------------------------- MODULE MCTmpfs ---------------------------------
EXTENDS Tmpfs

P(q) == [abs |-> TRUE, comps |-> q, slash |-> FALSE]
MCPaths ==
  {P(<<"a">>), P(<<"b">>), P(<<"a", "b">>), P(<<"a", "b", "a">>), P(<<"b", "long">>),
   [P(<<"a">>) EXCEPT !.slash = TRUE], [P(<<"b">>) EXCEPT !.abs = FALSE]}
MCContents == {<<>>, <<1>>, <<2, 1>>}
\* What later calls depend on.
View == <<node, heap, map>>
================================================================================
