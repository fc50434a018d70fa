---------------------------- MODULE AgentNetwork ----------------------------
(***************************************************************************)
(* How the application and the agents find each other through the          *)
(* registry: the frontend starts the application and waits until its       *)
(* processes are registered, lays out the hierarchy and forks the agents,  *)
(* which register, attach to their processes and connect to their parents, *)
(* all at their own pace.  The application may be started again under the  *)
(* same agents, or for another number of processes, for which the agents   *)
(* are told to quit and new ones are forked while the old still leave.     *)
(*                                                                         *)
(* An agent is named by its generation (the hierarchies forked before) and *)
(* its tag; the frontend's tag is <<>>, its port 0.  What agents say to    *)
(* each other once they are connected is the subject of Frontend; here the *)
(* commands of the frontend pass from parent to child in order, and of the *)
(* answers only the heartbeats are kept.                                   *)
(***************************************************************************)
EXTENDS AgentHierarchy, FiniteSets

CONSTANTS
    NodeOf,  \* the node of each rank
    Cases    \* a command line and the numbers of processes its plugin asks for,
             \* run by run: records of opt and plan

ASSUME CasesAssumption ==
    \A c \in Cases :
       /\ c \in [opt : [cluster : Nat \ {0}, fan : Nat \ {0}, local : BOOLEAN],
                 plan : Seq(Nat \ {0})]
       /\ c.plan # <<>>
       /\ \A i \in DOMAIN c.plan : 1 .. c.plan[i] \subseteq DOMAIN NodeOf

PortStep == 20  \* to the next port when one is in use

VARIABLES
    opt,       \* the options the frontend was started with
    plan,      \* what its plugin will ask for
    fe,        \* where the frontend is
    procs,     \* the number of processes of the application
    run,       \* the starts of the application
    starting,  \* the ranks of this run that are not registered yet
    alive,     \* the processes that have not exited
    told,      \* those of them that were told to
    nextId,    \* the next id the registry gives out
    entries,   \* the processes in the registry, which orders them by their ids
    idmap,     \* the id of each rank, as of the last poll
    gen,       \* the hierarchies forked
    agents,    \* the agents forked
    tagged,    \* the agents in the registry: their ports, per tag in the order of their ids
    commands,  \* the commands the frontend has sent, per generation
    heard      \* it has a heartbeat from the agent at the top

appVars   == <<procs, run, starting, alive, told, nextId, entries>>
agentVars == <<gen, agents, tagged, commands>>
vars == <<opt, plan, fe, appVars, idmap, agentVars, heard>>

-----------------------------------------------------------------------------
Process(id, r) == [id |-> id, run |-> run, rank |-> r, node |-> NodeOf[r]]

\* The launcher the frontend forked ends with the processes it started.
LauncherEnded == starting = {} /\ \A p \in alive : p.run # run

Agents     == {a \in DOMAIN agents : a.gen = gen}
Leaves     == {a \in Agents : agents[a].level = 0}
Parent(a)  == [gen |-> a.gen, tag |-> ParentTag(a.tag)]
TheFrontend == [gen |-> 0, tag |-> <<>>]
IsTop(a)   == a.tag = <<0>>
TrueParent(a) == IF IsTop(a) THEN TheFrontend ELSE Parent(a)

\* The agents that hold their port, and those that run their event loop.
Listening  == {a \in DOMAIN agents : agents[a].pc \notin {"forked", "failed", "gone"}}
PortsInUse == {0} \cup {agents[a].port : a \in Listening}

\* Mutant: the comma after the last child is read as one more child.
Mutant_ListedChildren_Comma(d) == IF d.level = 0 THEN {} ELSE d.children \cup {<<>>}

\* The tags on the command line of a high-level agent, without the empty one.
ListedChildren(d) == d.children

\* What an agent is forked with, and what it has done since.
ForkedAgent(d) ==
    [pc |-> "forked", level |-> d.level, port |-> d.port, ids |-> d.ids, children |-> ListedChildren(d),
     control |-> {}, ranks |-> {}, parent |-> <<>>, peer |-> <<>>,
     heard |-> {}, beat |-> FALSE, obeyed |-> 0]

Init ==
    /\ \E c \in Cases : opt = c.opt /\ plan = c.plan
    /\ procs = Head(plan)
    /\ fe = "appstart" /\ run = 1
    /\ starting = 1 .. procs
    /\ alive = {} /\ told = {} /\ nextId = 1 /\ entries = {}
    /\ idmap = <<>>
    /\ gen = 0 /\ agents = <<>> /\ tagged = <<>> /\ commands = <<>>
    /\ heard = FALSE

-----------------------------------------------------------------------------
(* The application.                                                        *)

\* What agents and processes do after the frontend has aborted or told the
\* last hierarchy to quit is left out: they do so when it is rebuilt as well.
Followed == fe \notin {"aborted", "quitting", "done"}

ProcessRegisters(r) ==
    /\ Followed
    /\ r \in starting
    /\ starting' = starting \ {r}
    /\ alive' = alive \cup {Process(nextId, r)}
    /\ entries' = entries \cup {Process(nextId, r)}
    /\ nextId' = nextId + 1
    /\ UNCHANGED <<opt, plan, fe, procs, run, told, idmap, agentVars, heard>>

ProcessExits(p) ==
    /\ Followed
    /\ p \in alive \cap told
    /\ alive' = alive \ {p}
    /\ told' = told \ {p}
    /\ UNCHANGED <<opt, plan, fe, procs, run, starting, nextId, entries, idmap, agentVars, heard>>

\* The launcher fails before all processes are up and takes them with it.
LauncherFails ==
    /\ fe \in {"appstart", "apprestart"}
    /\ starting # {}
    /\ starting' = {}
    /\ alive' = {p \in alive : p.run # run}
    /\ UNCHANGED <<opt, plan, fe, procs, run, told, nextId, entries, idmap, agentVars, heard>>

-----------------------------------------------------------------------------
(* The frontend starts the application and the agents.                     *)

\* The ids of the ranks; a later entry of the same rank replaces an earlier.
IdMap == [r \in {p.rank : p \in entries} |-> Max({p.id : p \in {q \in entries : q.rank = r}})]

InOrder(processes) == SetToSortSeq(processes, LAMBDA p, q : p.id < q.id)

\* Entries are counted, whatever run they belong to.
PollSucceeds ==
    /\ fe \in {"appstart", "apprestart"}
    /\ Cardinality(entries) >= procs
    /\ idmap' = IdMap
    /\ heard' = FALSE
    /\ \/ /\ ~ 1 .. procs \subseteq DOMAIN IdMap
          /\ fe' = "aborted"
          /\ UNCHANGED agentVars
       \/ /\ 1 .. procs \subseteq DOMAIN IdMap
          /\ fe = "appstart"
          /\ fe' = "startup"
          /\ gen' = gen + 1
          /\ \E tree \in {Hierarchy(placement, opt.fan) : placement \in {Placement(InOrder(entries), opt)}} :
                LET forked == {[gen |-> gen + 1, tag |-> t] : t \in DOMAIN tree}
                IN  agents' = [a \in DOMAIN agents \cup forked |->
                                  IF a \in forked THEN ForkedAgent(tree[a.tag]) ELSE agents[a]]
          /\ commands' = Append(commands, <<>>)
          /\ UNCHANGED tagged
       \/ /\ 1 .. procs \subseteq DOMAIN IdMap
          /\ fe = "apprestart"
          /\ fe' = "reinit"
          /\ commands' = [commands EXCEPT ![gen] = Append(@, "reinit")]
          /\ UNCHANGED <<gen, agents, tagged>>
    /\ UNCHANGED <<opt, plan, appVars>>

PollFails ==
    /\ fe \in {"appstart", "apprestart"}
    /\ Cardinality(entries) < procs
    /\ LauncherEnded
    /\ fe' = "aborted"
    /\ UNCHANGED <<opt, plan, appVars, idmap, agentVars, heard>>

\* The loops AGENT_STARTUP and STARTUP_REINIT end with the heartbeat of the top.
StartupDone ==
    /\ fe \in {"startup", "reinit"}
    /\ heard
    /\ fe' = "running"
    /\ UNCHANGED <<opt, plan, appVars, idmap, agentVars, heard>>

\* The frontend quits, cannot reach a child whose port it does not know, and
\* aborts.  The wait for the agents of a restart has no limit.
StartupTimesOut ==
    /\ fe = "startup"
    /\ ~ heard
    /\ fe' = "aborted"
    /\ UNCHANGED <<opt, plan, appVars, idmap, agentVars, heard>>

StartApplication ==
    /\ procs' = plan[run + 1]
    /\ run' = run + 1
    /\ starting' = 1 .. plan[run + 1]
    /\ idmap' = <<>>
    /\ UNCHANGED <<alive, told, nextId, entries>>

-----------------------------------------------------------------------------
(* The frontend restarts, rebuilds and quits.                              *)

Send(command, stage) ==
    /\ fe = "running"
    /\ commands' = [commands EXCEPT ![gen] = Append(@, command)]
    /\ fe' = stage
    /\ UNCHANGED <<opt, plan, appVars, idmap, gen, agents, tagged, heard>>

\* consider_restart: the agents stay if the number of processes does.
Restart == run < Len(plan) /\ plan[run + 1] = procs /\ Send("terminate", "terminating")
Rebuild == run < Len(plan) /\ plan[run + 1] # procs /\ Send("quit", "rebuilding")
Quit    == Send("quit", "quitting")

\* The agents have reported that their processes are told, and none of the
\* processes is registered.
RestartApplication ==
    /\ fe = "terminating"
    /\ \A a \in Leaves : /\ agents[a].pc = "connected"
                         /\ agents[a].obeyed = Len(commands[gen])
    /\ entries = {}
    /\ StartApplication
    /\ fe' = "apprestart"
    /\ UNCHANGED <<opt, plan, agentVars, heard>>

\* The time waited is compared with a variable not yet set: the loop may be
\* skipped, in which case nothing is known of the entries that are left.
\* Otherwise it ends when there is none or, after a minute, removes them.
WaitForShutdown ==
    /\ fe \in {"rebuilding", "quitting"}
    /\ entries' \in {entries, {}}
    /\ fe' = IF fe = "rebuilding" THEN "reaping" ELSE "done"
    /\ UNCHANGED <<opt, plan, procs, run, starting, alive, told, nextId, idmap, agentVars, heard>>

\* Once the launcher has ended everything is started for the new number.
StartAgain ==
    /\ fe = "reaping"
    /\ LauncherEnded
    /\ StartApplication
    /\ fe' = "appstart"
    /\ UNCHANGED <<opt, plan, agentVars, heard>>

-----------------------------------------------------------------------------
(* An agent starts.                                                        *)

AgentStep == Followed /\ UNCHANGED <<opt, plan, fe, procs, run, starting, alive, nextId, idmap, gen, commands>>

\* The first free port, from the one on the command line in steps of 20.
FreePort(port) ==
    LET free == {k \in 0 .. Cardinality(PortsInUse) : port + k * PortStep \notin PortsInUse}
    IN  port + Min(free) * PortStep

\* What a query for a tag finds.
Entries(tag) == IF tag \in DOMAIN tagged THEN tagged[tag] ELSE <<>>

\* open and register_self.
Register(a) ==
    /\ agents[a].pc = "forked"
    /\ LET port == FreePort(agents[a].port)
       IN  /\ agents' = [agents EXCEPT ![a].port = port,
                                       ![a].pc = IF agents[a].level = 0
                                                 THEN "registered" ELSE "attached"]
           /\ tagged' = [t \in DOMAIN tagged \cup {a.tag} |->
                            IF t = a.tag THEN Append(Entries(t), [port |-> port, owner |-> a])
                                         ELSE tagged[t]]
    /\ UNCHANGED <<told, entries, heard>> /\ AgentStep

\* The processes of the given ids that are registered and accept connections.
Reachable(ids) == {p \in entries \cap alive : p.id \in ids}

Attach(a) ==
    /\ agents[a].pc = "registered"
    /\ LET found == Reachable(agents[a].ids)
       IN  agents' = IF Cardinality(found) = Cardinality(agents[a].ids)
                     THEN [agents EXCEPT ![a].pc = "attached", ![a].control = found,
                                         ![a].ranks = {p.rank : p \in found}]
                     ELSE [agents EXCEPT ![a].pc = "failed"]
    /\ UNCHANGED <<told, entries, tagged, heard>> /\ AgentStep

\* The first entry with the parent's tag is taken.  Without one the agent
\* exits: it does not wait for its parent to register.
FindParent(a) ==
    /\ agents[a].pc = "attached"
    /\ \/ /\ IsTop(a)
          /\ agents' = [agents EXCEPT ![a].pc = "connecting",
                                      ![a].parent = [port |-> 0, owner |-> TheFrontend]]
       \/ /\ ~ IsTop(a) /\ Entries(ParentTag(a.tag)) # <<>>
          /\ agents' = [agents EXCEPT ![a].pc = "connecting",
                                      ![a].parent = Head(Entries(ParentTag(a.tag)))]
       \/ /\ ~ IsTop(a) /\ Entries(ParentTag(a.tag)) = <<>>
          /\ agents' = [agents EXCEPT ![a].pc = "failed"]
    /\ UNCHANGED <<told, entries, tagged, heard>> /\ AgentStep

\* Whoever listens on that port is the peer.
Connect(a) ==
    /\ agents[a].pc = "connecting"
    /\ \E peer \in Listening \cup {TheFrontend} :
          /\ agents[a].parent.port = IF peer = TheFrontend THEN 0 ELSE agents[peer].port
          /\ agents' = [agents EXCEPT ![a].pc = "connected", ![a].peer = peer]
    /\ UNCHANGED <<told, entries, tagged, heard>> /\ AgentStep

GiveUpConnecting(a) ==
    /\ agents[a].pc = "connecting"
    /\ agents[a].parent.port \notin PortsInUse
    /\ agents' = [agents EXCEPT ![a].pc = "failed"]
    /\ UNCHANGED <<told, entries, tagged, heard>> /\ AgentStep

\* Mutant: any heartbeat is noted, whoever's child sent it.
Mutant_Lists_Any(b, tag) == TRUE

\* Whether the agent has a child of that tag.
Lists(b, tag) == tag \in agents[b].children

\* A high-level agent waits for the heartbeats of its children.  A heartbeat is
\* noted by an agent that lists its sender.
Heartbeat(a) ==
    /\ agents[a].pc = "connected"
    /\ ~ agents[a].beat
    /\ agents[a].heard = agents[a].children
    /\ LET peer == agents[a].peer
       IN  \/ /\ peer = TheFrontend
              /\ fe \in {"startup", "reinit"}
              /\ heard' = TRUE
              /\ agents' = [agents EXCEPT ![a].beat = TRUE]
           \/ /\ peer # TheFrontend
              /\ agents[peer].pc = "connected"
              /\ agents' = [b \in DOMAIN agents |->
                     [agents[b] EXCEPT !.beat = IF b = a THEN TRUE ELSE @,
                                       !.heard = IF b = peer /\ Lists(peer, a.tag)
                                                 THEN @ \cup {a.tag} ELSE @]]
              /\ UNCHANGED heard
    /\ UNCHANGED <<told, entries, tagged>> /\ AgentStep

-----------------------------------------------------------------------------
(* An agent obeys.                                                         *)

\* The next command in the stream from the peer that connects to this agent.
Received(a) ==
    LET n == agents[a].obeyed + 1
        given == IF IsTop(a) THEN Len(commands[a.gen]) ELSE agents[Parent(a)].obeyed
    IN  IF agents[a].pc = "connected" /\ n <= given THEN commands[a.gen][n] ELSE "none"

\* Mutant: the heartbeats of the startup are taken for those of the restart.
Mutant_Rejoining_KeepsHeard(agent, found) ==
    [agent EXCEPT !.control = found, !.beat = FALSE, !.obeyed = @ + 1]

\* Mutant: an agent that has sent a heartbeat sends no other.
Mutant_Rejoining_KeepsBeat(agent, found) ==
    [agent EXCEPT !.control = found, !.heard = {}, !.obeyed = @ + 1]

\* The agent controls the new processes and waits for its children once more.
Rejoining(agent, found) ==
    [agent EXCEPT !.control = found, !.heard = {}, !.beat = FALSE, !.obeyed = @ + 1]

\* DataProvider::reinit looks its processes up by the new ids of their ranks;
\* a high-level agent has none.
ObeyReinit(a) ==
    /\ Received(a) = "reinit"
    /\ LET found == Reachable({idmap[r] : r \in agents[a].ranks})
       IN  agents' = IF Cardinality(found) = Cardinality(agents[a].ranks)
                     THEN [agents EXCEPT ![a] = Rejoining(@, found)]
                     ELSE [agents EXCEPT ![a].pc = "failed"]
    /\ UNCHANGED <<told, entries, tagged, heard>> /\ AgentStep

\* terminate and quit: an analysis agent releases its processes, a high-level
\* agent has only its children to tell, and leaves its event loop after quit.
ObeyTerminate(a) ==
    /\ Received(a) \in {"terminate", "quit"}
    /\ agents' = [agents EXCEPT ![a].obeyed = @ + 1,
                                ![a].pc = IF agents[a].level = 0 THEN "releasing"
                                          ELSE IF Received(a) = "quit" THEN "leaving" ELSE @]
    /\ UNCHANGED <<told, entries, tagged, heard>> /\ AgentStep

\* app_finish: one process after the other is told, then its entry deleted.
First(processes) == CHOOSE p \in processes : \A q \in processes : p.id <= q.id

TellTerminate(a) ==
    /\ agents[a].pc = "releasing"
    /\ agents[a].control # {}
    /\ told' = told \cup {First(agents[a].control)}
    /\ agents' = [agents EXCEPT ![a].pc = "deleting"]
    /\ UNCHANGED <<entries, tagged, heard>> /\ AgentStep

DeleteEntry(a) ==
    /\ agents[a].pc = "deleting"
    /\ entries' = entries \ {First(agents[a].control)}
    /\ agents' = [agents EXCEPT ![a].control = @ \ {First(@)}, ![a].pc = "releasing"]
    /\ UNCHANGED <<told, tagged, heard>> /\ AgentStep

\* All processes are released.
Finished(a) == agents[a].pc = "releasing" /\ agents[a].control = {}
ToldToQuit(a) == commands[a.gen][agents[a].obeyed] = "quit"

Released(a) ==
    /\ Finished(a) /\ ~ ToldToQuit(a)
    /\ agents' = [agents EXCEPT ![a].pc = "connected"]
    /\ UNCHANGED <<told, entries, tagged, heard>> /\ AgentStep

\* The registry without the entry of the agent.
Deregistered(a) ==
    [tagged EXCEPT ![a.tag] =
        RemoveAt(@, CHOOSE i \in DOMAIN @ : @[i].owner = a)]

\* ~PeriscopeAgent deletes the agent's entry, and the port is free.  In a
\* high-level agent the registry service it does so with has been destroyed
\* before, so that the entry may stay, as that of an agent that failed does:
\* exit destroys no agent.
Leave(a) ==
    /\ agents[a].pc = "leaving" \/ (Finished(a) /\ ToldToQuit(a))
    /\ agents' = [agents EXCEPT ![a].pc = "gone"]
    /\ \/ tagged' = Deregistered(a)
       \/ agents[a].level > 0 /\ UNCHANGED tagged
    /\ UNCHANGED <<told, entries, heard>> /\ AgentStep

-----------------------------------------------------------------------------
Agent(a) ==
    \/ Register(a) \/ Attach(a) \/ FindParent(a) \/ Connect(a) \/ Heartbeat(a)
    \/ ObeyReinit(a) \/ ObeyTerminate(a)
    \/ TellTerminate(a) \/ DeleteEntry(a) \/ Released(a) \/ Leave(a)

FrontendStep ==
    \/ PollSucceeds \/ PollFails \/ StartupDone
    \/ RestartApplication \/ WaitForShutdown \/ StartAgain

Application ==
    \/ \E r \in starting : ProcessRegisters(r)
    \/ \E p \in alive : ProcessExits(p)

\* What somebody does who has it to do, and what may happen besides.
Work ==
    \/ Application \/ FrontendStep
    \/ \E a \in DOMAIN agents : Agent(a)

Next ==
    \/ Work
    \/ LauncherFails \/ StartupTimesOut \/ Restart \/ Rebuild \/ Quit
    \/ \E a \in DOMAIN agents : GiveUpConnecting(a)

\* Processes of the system are scheduled.  One condition for all of them is
\* enough: nobody takes steps forever.
Fairness == WF_vars(Work)

Spec == Init /\ [][Next]_vars
FairSpec == Spec /\ Fairness

-----------------------------------------------------------------------------
(* Properties.                                                             *)

\* The types of the variables; the registry gives each process an id of
\* its own, no agent obeys a command that was not given, and none has heard
\* from a child it does not have.
TypeOK ==
    /\ [opt |-> opt, plan |-> plan] \in Cases /\ procs = plan[run]
    /\ fe \in {"appstart", "startup", "running", "terminating", "apprestart", "reinit",
               "rebuilding", "reaping", "quitting", "done", "aborted"}
    /\ run \in DOMAIN plan /\ gen \in 0 .. run /\ Len(commands) = gen
    /\ starting \subseteq 1 .. procs /\ heard \in BOOLEAN
    /\ \A p, q \in entries \cup alive \cup told : p.id < nextId /\ (p.id = q.id => p = q)
    /\ \A a \in DOMAIN agents :
          /\ agents[a].pc \in {"forked", "registered", "attached", "connecting", "connected",
                               "releasing", "deleting", "leaving", "gone", "failed"}
          /\ agents[a].obeyed \in 0 .. Len(commands[a.gen])
          /\ agents[a].heard \subseteq agents[a].children

\* A hierarchy for the processes in the registry: each process has one analysis
\* agent; these have at most --maxcluster processes, of one node unless forced
\* to a host; high-level agents have at most --maxfan children, one at least;
\* each agent but the one at the top is the child of the agent its tag names;
\* and no two have the same port, nor any the frontend's.
Sound ==
    /\ IsFiniteSet(Agents)
    /\ UNION {agents[a].ids : a \in Leaves} = {p.id : p \in entries}
    /\ \A a \in Leaves :
          /\ \A b \in Leaves \ {a} : agents[a].ids \cap agents[b].ids = {}
          /\ Cardinality(agents[a].ids) \in 1 .. opt.cluster
          /\ opt.local \/ Cardinality({p.node : p \in
                                {q \in entries : q.id \in agents[a].ids}}) = 1
    /\ \A a \in Agents \ Leaves :
          /\ agents[a].children # {}
          /\ opt.fan = 1 \/ Cardinality(agents[a].children) <= opt.fan
          /\ \A t \in agents[a].children : [gen |-> gen, tag |-> t] \in Agents
    /\ \A a \in Agents : IsTop(a) \/ (Parent(a) \in Agents /\ a.tag \in agents[Parent(a)].children)
    /\ \A a \in Agents : a.tag \in Seq(Nat) \ {<<>>} /\ agents[a].port \in Nat \ {0}
    /\ \A a, b \in Agents : a # b => agents[a].port # agents[b].port

\* Every hierarchy the frontend forks is sound, whatever is in the registry.
HierarchySound == [][gen' # gen => Sound']_vars

\* When the frontend goes on to work with the agents, every agent of the
\* hierarchy is connected to its parent, and every process of the current run
\* of the application is controlled by exactly one of them, and no other is.
ReadyMeansComplete ==
    fe = "running" =>
       /\ \A a \in Agents : agents[a].pc = "connected" /\ agents[a].peer = TrueParent(a)
       /\ \A r \in 1 .. procs : \E p \in alive \ told :
             /\ p.run = run /\ p.rank = r
             /\ Cardinality({a \in Leaves : p \in agents[a].control}) = 1
       /\ \A a \in Leaves : \A p \in agents[a].control : p.run = run

\* Something that keeps an agent of this generation from coming up: it has
\* given up, or has looked up another agent than its parent.
Astray ==
    \E a \in Agents : \/ agents[a].pc = "failed"
                      \/ /\ agents[a].parent # <<>>
                         /\ agents[a].parent.owner # TrueParent(a)

\* The network comes up, unless an agent goes astray or the frontend aborts.
StartupEnds == fe = "appstart" ~> fe \in {"running", "aborted"} \/ Astray

\* A restart for the same number of processes comes to its end.
RestartEnds == fe = "terminating" ~> fe \in {"running", "aborted"}

\* An agent connects to the agent that was computed to be its parent.
ConnectsToParent ==
    [][\A a \in DOMAIN agents : agents'[a].peer # agents[a].peer =>
          agents'[a].peer = TrueParent(a)]_vars
=============================================================================
