--------------------------- MODULE AgentHierarchy ---------------------------
(***************************************************************************)
(* The hierarchy ApplicationStarter::computeAgentHierarchy lays out for    *)
(* the processes found in the registry: which analysis agent controls      *)
(* which processes, how many high-level agents stand above them, and the   *)
(* tag, the parent and the port each agent is started with.                *)
(*                                                                         *)
(* A process is a record of its registry id and its node; nodes are        *)
(* numbers, ordered as the std::map of host names orders them.  A tag      *)
(* fe[id]:0:i:j is the sequence <<0, i, j>>, the frontend's own is <<>>.   *)
(*                                                                         *)
(* The options are a record: cluster (--maxcluster), fan (--maxfan) and    *)
(* local (--force-localhost).                                              *)
(***************************************************************************)
EXTENDS Integers, Sequences, SequencesExt, FiniteSetsExt

CeilDiv(n, d) == (n + d - 1) \div d

-----------------------------------------------------------------------------
(* Placement: the lists of process ids of the analysis agents, in order.   *)

\* Mutant: a new agent is begun when one is full, not when a process is left over.
Mutant_Chunks_Eager(list, size) ==
    [i \in 1 .. (Len(list) \div size) + 1 |->
        SubSeq(list, (i - 1) * size + 1, Min({i * size, Len(list)}))]

\* A list cut into pieces of the given size, the last one shorter.
Chunks(list, size) ==
    [i \in 1 .. CeilDiv(Len(list), size) |->
        SubSeq(list, (i - 1) * size + 1, Min({i * size, Len(list)}))]

IdsOn(list, node) == LET here == SelectSeq(list, LAMBDA p : p.node = node)
                     IN  [i \in 1 .. Len(here) |-> here[i].id]

\* Agents do not span nodes, unless all of them are forced to one host.  The
\* first agent is there even if no process is.
Placement(list, opt) ==
    IF list = <<>> THEN << <<>> >>
    ELSE IF opt.local
    THEN Chunks([i \in 1 .. Len(list) |-> list[i].id], opt.cluster)
    ELSE LET nodes == SetToSortSeq({p.node : p \in ToSet(list)}, <)
         IN  FlattenSeq([k \in 1 .. Len(nodes) |-> Chunks(IdsOn(list, nodes[k]), opt.cluster)])

-----------------------------------------------------------------------------
(* The levels above n analysis agents, level 0 being theirs.  Rounding up   *)
(* level by level is rounding up once: k levels up, an agent stands for     *)
(* fan^k analysis agents.  With a fan of 1 one high-level agent takes all.  *)

\* The place on level k of the agent that agent i of level 0 is handed up to;
\* the width of a level is the place of its last agent.
Place(i, k, fan) == IF k = 0 THEN i ELSE IF fan = 1 THEN 1 ELSE CeilDiv(i, fan ^ k)

\* Levels are added until one has a single agent.
TopLevel(n, fan) == CHOOSE k \in 0 .. n : /\ Place(n, k, fan) = 1
                                          /\ \A j \in 0 .. k - 1 : Place(n, j, fan) > 1

\* The place among the children of its parent, counted from 0.
ChildNumber(i, fan) == IF fan = 1 THEN i - 1 ELSE (i - 1) % fan

\* The tag of agent i on level k: its parent's, and its own number.
TagOf(i, k, top, fan) ==
    <<0>> \o [d \in 1 .. top - k |-> ChildNumber(Place(i, top - d - k, fan), fan)]

\* Ports are counted up from the frontend's (0), level by level.
PortOf(i, k, n, fan) == i + FoldSet(LAMBDA j, sum : sum + Place(n, j, fan), 0, 0 .. k - 1)

\* The agents above the given placement by tag, with what they are started with.
Hierarchy(placement, fan) ==
    LET n   == Len(placement)
        top == TopLevel(n, fan)
        Agent(i, k) ==
            [tag   |-> TagOf(i, k, top, fan),
             level |-> k,
             port  |-> PortOf(i, k, n, fan),
             ids   |-> IF k = 0 THEN ToSet(placement[i]) ELSE {},
             children |-> IF k = 0 THEN {}
                          ELSE {TagOf(c, k - 1, top, fan) :
                                  c \in {j \in 1 .. Place(n, k - 1, fan) : Place(j, 1, fan) = i}}]
        agents == UNION {{Agent(i, k) : i \in 1 .. Place(n, k, fan)} : k \in 0 .. top}
    IN  [t \in {a.tag : a \in agents} |-> CHOOSE a \in agents : a.tag = t]

\* "%s:%d" of the parent's tag: the tag a parent is looked up with.
ParentTag(tag) == Front(tag)
=============================================================================
