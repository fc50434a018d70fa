------------------------------ MODULE MCNetwork ------------------------------
(* One to three processes on two nodes, under small agents.                *)
EXTENDS AgentNetwork

Nodes == <<1, 2, 1>>

Case(c, f, l, p) == [opt |-> [cluster |-> c, fan |-> f, local |-> l], plan |-> p]

\* Three levels; a restart; rebuilding for more processes, and for fewer with a restart behind it.
ManyCases == {Case(1, 2, FALSE, <<3>>), Case(1, 2, FALSE, <<2, 2>>),
              Case(1, 1, FALSE, <<1, 2>>), Case(1, 1, FALSE, <<2, 1, 1>>),
              Case(2, 1, FALSE, <<3>>), Case(2, 2, TRUE, <<3>>)}
\* Two processes are replaced by three.
OneMore == {Case(1, 2, FALSE, <<2, 3>>)}
=============================================================================
