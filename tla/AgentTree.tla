------------------------------ MODULE AgentTree ------------------------------
(***************************************************************************)
(* The agent hierarchy of Periscope: the frontend at the root, analysis    *)
(* agents (AA) at the leaves and high-level agents (HLA) in between, with  *)
(* the two FIFO streams of every edge (psc_agent.cc opens one TCP          *)
(* connection in each direction) and the AgentInfo record that a parent    *)
(* keeps for each of its children.  An agent has one parent, so the        *)
(* records of all the child_agents_ maps are one function of the child.    *)
(***************************************************************************)
EXTENDS Naturals, Sequences, FiniteSets

CONSTANTS Agents,  \* the agents below the frontend, numbered in the order of their tags
          Parent,  \* Parent[n] is the agent (or the frontend) n is connected to
          TimeOuts \* the waits that have a limit may exceed it

\* The frontend.
FE == 0

\* Agents are numbered top down, as runAgents numbers its levels.
ASSUME TreeAssumption ==
    /\ Agents \subseteq Nat \ {FE}
    /\ Agents # {} /\ IsFiniteSet(Agents)
    /\ Parent \in [Agents -> Agents \cup {FE}]
    /\ \A n \in Agents : Parent[n] < n
    /\ TimeOuts \in BOOLEAN

Children(p) == {n \in Agents : Parent[n] = p}

AAs  == {n \in Agents : Children(n) = {}}
HLAs == Agents \ AAs

VARIABLES down,   \* down[n]: the stream from n's parent to n
          up,     \* up[n]: the stream from n to its parent
          info,   \* info[n]: the AgentInfo of n in its parent's child_agents_
          alive   \* alive[n]: "starting", "up", or "down" after a quit

treeVars == <<down, up, info, alive>>

Status       == {"INITIAL", "STARTED"}
SearchStatus == {"UNDEFINED", "FINISHED", "REQEXPERIMENT", "REQRESTART"}

AgentInfo == [status          : Status,
              status_reinit   : Status,
              search_status   : SearchStatus,
              properties_sent : BOOLEAN,
              appl_terminated : BOOLEAN,
              calltree_sent   : BOOLEAN]

\* add_child_agent: a new record.  The constructor leaves the three flags
\* uninitialised; any value may be found in them.
InitInfo(flags) == [status          |-> "INITIAL",
                    status_reinit   |-> "INITIAL",
                    search_status   |-> "UNDEFINED",
                    properties_sent |-> flags,
                    appl_terminated |-> flags,
                    calltree_sent   |-> flags]

TreeInit ==
    /\ down = [n \in Agents |-> <<>>]
    /\ up = [n \in Agents |-> <<>>]
    /\ \E flags \in [Agents -> BOOLEAN] : info = [n \in Agents |-> InitInfo(flags[n])]
    /\ alive = [n \in Agents |-> "starting"]

-----------------------------------------------------------------------------
(* Streams.                                                                *)

Msg(t) == [type |-> t]

\* The down streams once parent p has sent m to all its children.
SendToChildren(p, m) ==
    [n \in Agents |-> IF Parent[n] = p THEN Append(down[n], m) ELSE down[n]]

\* The down streams once agent h has read its next request and sent m on.
ForwardDown(h, m) ==
    [n \in Agents |-> CASE n = h         -> Tail(down[n])
                        [] Parent[n] = h -> Append(down[n], m)
                        [] OTHER         -> down[n]]

\* The up streams once parent h has read c's next message and sent ms upwards.
ForwardUp(c, h, ms) == [up EXCEPT ![c] = Tail(@), ![h] = @ \o ms]

HasRequest(n, t) == down[n] # <<>> /\ Head(down[n]).type = t
HasMessage(n, t) == up[n] # <<>> /\ Head(up[n]).type = t

\* The children that precede n in its parent's std::map.
Before(n) == {m \in Children(Parent[n]) : m < n}

-----------------------------------------------------------------------------
(* What forward_request and decide_continuation share: the request of a    *)
(* set of children is known when none is UNDEFINED, and a restart wins     *)
(* over an experiment, which wins over a finished search.                  *)

\* Mutant: one child's report is enough.
Mutant_AllReported_Any(cs, i) == \E n \in cs : i[n].search_status # "UNDEFINED"

AllReported(cs, i) == \A n \in cs : i[n].search_status # "UNDEFINED"

\* Mutants: a finished search wins; a restart is the default.
Mutant_Combined_FinishedWins(cs, i) ==
    IF \E n \in cs : i[n].search_status = "FINISHED" THEN "FINISHED"
    ELSE IF \E n \in cs : i[n].search_status = "REQRESTART" THEN "REQRESTART"
    ELSE "REQEXPERIMENT"

Mutant_Combined_RestartDefault(cs, i) ==
    IF \E n \in cs : i[n].search_status = "REQEXPERIMENT" THEN "REQEXPERIMENT" ELSE "REQRESTART"

Combined(cs, i) ==
    IF \E n \in cs : i[n].search_status = "REQRESTART" THEN "REQRESTART"
    ELSE IF \E n \in cs : i[n].search_status = "REQEXPERIMENT" THEN "REQEXPERIMENT"
    ELSE "FINISHED"

\* The message that reports a search status to the parent, and back.
RequestOf(s) == CASE s = "FINISHED"      -> "searchfinished"
                  [] s = "REQEXPERIMENT" -> "reqexperiment"
                  [] s = "REQRESTART"    -> "needrestart"

StatusOf(t) == CASE t = "searchfinished" -> "FINISHED"
                 [] t = "reqexperiment"  -> "REQEXPERIMENT"
                 [] t = "needrestart"    -> "REQRESTART"

SearchRequests == {"searchfinished", "reqexperiment", "needrestart"}
==============================================================================
