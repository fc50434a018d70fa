-------------------------- MODULE AgentNetworkProofs --------------------------
(***************************************************************************)
(* That the network of the agents is complete when the frontend goes on to *)
(* work with it, for every plan of runs and every interleaving, with any   *)
(* hierarchies that are sound.                                             *)
(***************************************************************************)
EXTENDS AgentNetwork, FiniteSetTheorems, SequenceTheorems, TLAPS

-----------------------------------------------------------------------------
(* The invariant.                                                          *)

Stages == {"forked", "registered", "attached", "connecting", "connected",
           "releasing", "deleting", "leaving", "gone", "failed"}
\* The agents that are connected, or have been.
Joined == {"connected", "releasing", "deleting", "leaving", "gone"}
\* The agents that are not in the registry, or need not be.
Absent == {"forked", "gone", "failed"}
Fields == {"pc", "level", "port", "ids", "children", "control", "ranks", "parent", "peer",
           "heard", "beat", "obeyed"}

\* While the application starts or is worked with; when agents are told to
\* release it, and what follows.
Early  == {"appstart", "startup", "running", "apprestart", "reinit"}
Ending == {"terminating", "rebuilding", "reaping", "quitting", "done"}

AgentNames == [gen : Nat \ {0}, tag : Seq(Nat) \ {<<>>}]
Given      == Len(commands[gen])

\* The agents of hierarchies that were told to quit.
Past(a) == a.gen < gen \/ fe = "appstart"

\* What the frontend counts: starts, forks and commands.
Stage ==
    /\ plan \in Seq(Nat \ {0}) /\ [opt |-> opt, plan |-> plan] \in Cases
    /\ run \in 1 .. Len(plan) /\ procs = plan[run]
    /\ fe \in Early \cup Ending \cup {"aborted"}
    /\ gen \in 0 .. run /\ (fe = "appstart" => gen < run)
    /\ fe \notin {"appstart", "aborted"} => gen > 0
    /\ commands \in Seq(Seq({"terminate", "quit", "reinit"})) /\ Len(commands) = gen
    /\ fe \in {"terminating", "rebuilding", "reaping"} => run < Len(plan)
    /\ fe = "terminating" => plan[run + 1] = procs
    /\ starting \subseteq 1 .. procs /\ heard \in BOOLEAN

\* The agents and the tree they are in.
Tree ==
    /\ IsFiniteSet(DOMAIN agents) /\ DOMAIN agents \subseteq AgentNames
    /\ \A a \in DOMAIN agents :
          /\ a.gen <= gen /\ DOMAIN agents[a] = Fields
          /\ agents[a].pc \in Stages /\ agents[a].beat \in BOOLEAN
          /\ agents[a].port \in Nat \ {0}
          /\ agents[a].obeyed \in 0 .. Len(commands[a.gen])
          /\ agents[a].heard \subseteq agents[a].children
          /\ agents[a].pc \in {"releasing", "deleting"} => agents[a].level = 0
          /\ IsTop(a) \/ (Parent(a) \in DOMAIN agents /\ a.tag \in agents[Parent(a)].children)
    /\ \A a \in Leaves : IsFiniteSet(agents[a].ids)
    /\ \A a, b \in Leaves : a # b => agents[a].ids \cap agents[b].ids = {}

\* The processes anybody knows of.
Known == entries \cup alive \cup told \cup UNION {agents[a].control : a \in DOMAIN agents}

\* The processes: ids are their own, a run has one process of each rank, and
\* those of an earlier run that are left in the registry have exited.
Registry ==
    /\ IsFiniteSet(entries) /\ nextId \in Nat
    /\ \A p \in Known : p.id \in Nat /\ p.id < nextId /\ p.run \in Nat /\ p.run <= run
    /\ \A p, q \in Known : p.id = q.id => p = q
    /\ \A p, q \in entries \cup alive :
          p.run = run /\ q.run = run /\ p.rank = q.rank => p = q
    /\ \A p \in entries \cup alive : p.run = run => p.rank \in (1 .. procs) \ starting
    /\ \A p \in entries : p.run < run => p \notin alive
    /\ fe \in {"apprestart", "reinit"} => \A p \in entries : p.run = run
    /\ fe \in Early => \A p \in told : p.run < run

\* Whom agents connect to: an agent connects to the frontend if it is the top.
Links ==
    \A a \in DOMAIN agents :
       /\ agents[a].pc = "connecting" =>
             IF IsTop(a) THEN agents[a].parent.port = 0
                         ELSE agents[a].parent.port \in Nat \ {0}
       /\ agents[a].pc \in Joined => (agents[a].peer = TheFrontend <=> IsTop(a))

\* What the registry holds of agents: an agent that has registered is in it
\* until it leaves.
Entry == [port : Nat \ {0}, owner : AgentNames]

InRegistry(a) ==
    a.tag \in DOMAIN tagged /\ \E i \in DOMAIN tagged[a.tag] : tagged[a.tag][i].owner = a

Listed ==
    /\ \A t \in DOMAIN tagged : tagged[t] \in Seq(Entry)
    /\ \A a \in DOMAIN agents : agents[a].pc \notin Absent => InRegistry(a)

\* Agents that were told to quit have no restart before them and control no
\* process of this run.
Leaving ==
    \A a \in DOMAIN agents : Past(a) =>
       /\ agents[a].beat /\ agents[a].pc \in Joined
       /\ \A n \in agents[a].obeyed + 1 .. Len(commands[a.gen]) :
             commands[a.gen][n] # "reinit"
       /\ \A p \in agents[a].control : p.run < run

\* How far the agents of the hierarchy are.
Progress ==
    /\ fe = "startup" =>
          /\ Given = 0
          /\ \A a \in Agents : agents[a].pc \notin {"releasing", "deleting", "leaving", "gone"}
    /\ fe = "running" =>
          \A a \in Agents : /\ agents[a].pc = "connected" /\ agents[a].beat
                            /\ agents[a].obeyed = Given /\ agents[a].peer = TrueParent(a)
    /\ fe \in Ending \cup {"apprestart"} =>
          /\ Given >= 1 /\ commands[gen][Given] # "reinit"
          /\ \A a \in Agents : /\ agents[a].pc \in Joined /\ agents[a].beat
                               /\ agents[a].obeyed >= Given - 1
    /\ fe = "apprestart" =>
          \A a \in Leaves : agents[a].pc = "connected" /\ agents[a].obeyed = Given
    /\ fe = "reinit" =>
          /\ Given >= 2 /\ commands[gen][Given] = "reinit" /\ commands[gen][Given - 1] # "reinit"
          /\ \A a \in Agents : /\ agents[a].pc \in Joined \cup {"failed"}
                               /\ agents[a].obeyed >= Given - 2
                               /\ agents[a].pc = "leaving" => agents[a].obeyed < Given
          /\ \A a \in Leaves : /\ agents[a].pc \in {"connected", "failed"}
                               /\ agents[a].obeyed >= Given - 1

\* An agent that has obeyed all and sent its heartbeat.
Up(a) == a \in Agents /\ agents[a].beat /\ agents[a].obeyed = Given

\* Heartbeats come from below: who has noted one knows that its child is up.
Heartbeats ==
    fe \in {"startup", "reinit"} =>
       /\ \A a \in Agents : Up(a) => /\ agents[a].pc = "connected"
                                     /\ agents[a].heard = agents[a].children
       /\ \A a \in Agents : agents[a].obeyed = Given =>
             \A t \in agents[a].heard : LET c == [gen |-> gen, tag |-> t]
                                        IN  Up(c) /\ agents[c].peer = a
       /\ \A a \in Agents : ~ agents[a].beat => agents[a].obeyed = Given
       /\ heard => \E a \in Agents : IsTop(a) /\ Up(a)

\* An analysis agent controls a process of this run for each of its ranks.
Controls(a) ==
    /\ agents[a].control \subseteq alive
    /\ \A p \in agents[a].control : p.run = run
    /\ {p.rank : p \in agents[a].control} = agents[a].ranks

\* The process of a rank is controlled, or its agent will not find it.
Found(r) ==
    \E a \in Leaves : \E i \in agents[a].ids :
       /\ i \in Nat /\ i < nextId
       /\ \A p \in alive : p.id = i => p.run = run /\ p.rank = r

\* Every process has one agent.
Coverage ==
    /\ fe = "startup" =>
          /\ \A a \in Leaves : agents[a].pc \notin {"forked", "registered", "failed"} =>
                Controls(a) /\ {p.id : p \in agents[a].control} = agents[a].ids
          /\ \A r \in 1 .. procs : Found(r)
    /\ fe \in {"running", "terminating", "apprestart", "reinit"} =>
          /\ \A a \in Leaves : agents[a].ranks \subseteq 1 .. procs
          /\ \A r \in 1 .. procs : \E a \in Leaves : r \in agents[a].ranks
          /\ \A a, b \in Leaves : a # b => agents[a].ranks \cap agents[b].ranks = {}
    /\ fe = "running" => \A a \in Leaves : Controls(a)
    /\ fe = "reinit" =>
          /\ \A a \in Leaves : agents[a].obeyed = Given => Controls(a)
          /\ \A r \in 1 .. procs :
                /\ idmap[r] \in Nat /\ idmap[r] < nextId
                /\ \A p \in entries : p.id = idmap[r] => p.rank = r

NetworkInv ==
    /\ Stage /\ Tree /\ Registry /\ Links /\ Listed
    /\ Leaving /\ Progress /\ Heartbeats /\ Coverage

-----------------------------------------------------------------------------
(* Lemmas about sets, ports and processes.                                 *)

\* A set of natural numbers that is not empty has a least element.
LEMMA LeastExists ==
    ASSUME NEW S, S \subseteq Nat, S # {}
    PROVE  \E i \in S : \A j \in S : i <= j
<1> DEFINE R == OpToRel(<, Nat)
<1>1. \A i, j \in Nat : j < i => <<j, i>> \in R
  BY Zenon DEF OpToRel
<1>2. IsWellFoundedOn(R, Nat)
  BY NatLessThanWellFounded
<1> HIDE DEF R
<1>3. PICK i \in S : \A j \in S : ~(<<j, i>> \in R)
  BY <1>2, WFMin
<1>4. ASSUME NEW j \in S PROVE i <= j
  <2>1. i \in Nat /\ j \in Nat
    OBVIOUS
  <2>2. ~(j < i)
    BY <1>1, <1>3, <2>1
  <2> QED
    BY <2>1, <2>2
<1> QED
  BY <1>4

\* An injection between finite sets of the same size reaches everything.
LEMMA SameImage ==
    ASSUME NEW S, IsFiniteSet(S), NEW T, IsFiniteSet(T), Cardinality(S) = Cardinality(T),
           NEW f \in [S -> T], \A x, y \in S : f[x] = f[y] => x = y
    PROVE  {f[x] : x \in S} = T
<1>1. f \in Injection(S, T)
  BY DEF Injection, IsInjective
<1>2. f \in Surjection(S, T)
  BY <1>1, FS_Injection
<1> QED
  BY <1>2 DEF Surjection

\* An agent finds a port, which is not the frontend's.
LEMMA FreePortFacts ==
    ASSUME IsFiniteSet(DOMAIN agents), NEW port \in Nat \ {0}
    PROVE  FreePort(port) \in Nat \ {0}
<1> DEFINE n == Cardinality(PortsInUse)
           free == {k \in 0 .. n : port + k * PortStep \notin PortsInUse}
<1>1. IsFiniteSet(PortsInUse)
  <2>1. IsFiniteSet(Listening)
    BY FS_Subset DEF Listening
  <2> DEFINE ports == {agents[a].port : a \in Listening}
             f == [a \in Listening |-> agents[a].port]
  <2>2. f \in Surjection(Listening, ports)
    BY DEF Surjection
  <2>3. IsFiniteSet(ports)
    BY <2>1, <2>2, FS_Surjection
  <2> QED
    BY <2>3, FS_Singleton, FS_Union DEF PortsInUse
<1>2. n \in Nat
  BY <1>1, FS_CardinalityType
<1>3. free # {}
  <2> SUFFICES ASSUME free = {} PROVE FALSE
    OBVIOUS
  <2> DEFINE f == [k \in 0 .. n |-> port + k * PortStep]
  <2>1. f \in [0 .. n -> PortsInUse]
    OBVIOUS
  <2>2. IsFiniteSet(0 .. n) /\ Cardinality(0 .. n) > n
    <3> HIDE DEF n
    <3> QED
      BY <1>2, FS_Interval
  <2>3. PICK x, y \in 0 .. n : x # y /\ f[x] = f[y]
    <3> HIDE DEF f
    <3> QED
      BY <1>1, <1>2, <2>1, <2>2, FS_PigeonHole
  <2>4. f[x] = port + x * PortStep /\ f[y] = port + y * PortStep /\ x \in Nat /\ y \in Nat
    BY <1>2
  <2> QED
    BY <2>3, <2>4 DEF PortStep
<1>4. \E k \in free : \A j \in free : k <= j
  <2>1. free \subseteq Nat
    BY <1>2
  <2> HIDE DEF free
  <2> QED
    BY <1>3, <2>1, LeastExists
<1>5. Min(free) \in free
  <2> HIDE DEF free
  <2> QED
    BY <1>4 DEF Min
<1>6. Min(free) \in Nat
  BY <1>2, <1>5
<1>7. FreePort(port) = port + Min(free) * PortStep
  BY DEF FreePort
<1> QED
  BY <1>6, <1>7 DEF PortStep

\* The tag of the parent is shorter.
LEMMA ParentTagFacts ==
    ASSUME NEW t \in Seq(Nat) \ {<<>>}
    PROVE  ParentTag(t) \in Seq(Nat) /\ Len(ParentTag(t)) < Len(t) /\ Len(t) \in Nat
<1>1. t \in Seq(Nat) /\ Len(t) \in Nat /\ Len(t) # 0
  BY EmptySeq, LenProperties
<1>2. Len(t) - 1 \in 0 .. Len(t) /\ Len(t) - 1 \in Nat
  BY <1>1
<1>3. \A i \in 1 .. Len(t) - 1 : t[i] \in Nat
  BY <1>1, ElementOfSeq
<1> DEFINE n == Len(t) - 1
<1>4. SubSeq(t, 1, n) \in Seq(Nat) /\ Len(SubSeq(t, 1, n)) = IF 1 <= n THEN n - 1 + 1 ELSE 0
  <2>1. n \in Int /\ \A i \in 1 .. n : t[i] \in Nat
    BY <1>2, <1>3
  <2> HIDE DEF n
  <2> QED
    BY <2>1, SubSeqProperties
<1> QED
  BY <1>1, <1>2, <1>4 DEF ParentTag, Front

\* What a set of processes with ids of their own that are among given ids covers.
LEMMA AllIdsFound ==
    ASSUME NEW found, NEW ids, IsFiniteSet(found), IsFiniteSet(ids),
           \A p \in found : p.id \in ids, \A p, q \in found : p.id = q.id => p = q,
           Cardinality(found) = Cardinality(ids)
    PROVE  {p.id : p \in found} = ids
<1> DEFINE f == [p \in found |-> p.id]
<1>1. f \in [found -> ids] /\ \A p, q \in found : f[p] = f[q] => p = q
  OBVIOUS
<1>2. {f[p] : p \in found} = ids
  <2> HIDE DEF f
  <2> QED
    BY <1>1, SameImage
<1> QED
  BY <1>2

\* The same for ranks.
LEMMA AllRanksFound ==
    ASSUME NEW found, NEW ranks, IsFiniteSet(found), IsFiniteSet(ranks),
           \A p \in found : p.rank \in ranks, \A p, q \in found : p.rank = q.rank => p = q,
           Cardinality(found) = Cardinality(ranks)
    PROVE  {p.rank : p \in found} = ranks
<1> DEFINE f == [p \in found |-> p.rank]
<1>1. f \in [found -> ranks] /\ \A p, q \in found : f[p] = f[q] => p = q
  OBVIOUS
<1>2. {f[p] : p \in found} = ranks
  <2> HIDE DEF f
  <2> QED
    BY <1>1, SameImage
<1> QED
  BY <1>2

-----------------------------------------------------------------------------
(* What does not concern a part of the invariant leaves it alone.          *)

\* A step that changes no agent and no command keeps the tree.
LEMMA TreeSame ==
    ASSUME Tree, UNCHANGED <<gen, agents, commands>>
    PROVE  Tree'
BY DEF Tree, Leaves, Agents, IsTop, Parent

\* A step that changes no agent keeps the links.
LEMMA LinksSame ==
    ASSUME Links, UNCHANGED agents
    PROVE  Links'
BY DEF Links, IsTop, TheFrontend

\* The entries of agents are theirs to change.
LEMMA ListedSame ==
    ASSUME Listed, UNCHANGED <<agents, tagged>>
    PROVE  Listed'
BY DEF Listed, InRegistry

\* A step that changes no agent, unless it begins another hierarchy, keeps who is leaving.
LEMMA LeavingSame ==
    ASSUME Leaving, UNCHANGED <<run, gen, agents, commands>>, fe' = "appstart" => fe = "appstart"
    PROVE  Leaving'
BY DEF Leaving, Past

\* The agents do not progress by themselves.
LEMMA ProgressSame ==
    ASSUME Progress, UNCHANGED <<fe, gen, agents, commands>>
    PROVE  Progress'
BY DEF Progress, Leaves, Agents, Given, TrueParent, Parent, IsTop, TheFrontend

\* Nor do heartbeats.
LEMMA HeartbeatsSame ==
    ASSUME Heartbeats, UNCHANGED <<fe, gen, agents, commands, heard>>
    PROVE  Heartbeats'
BY DEF Heartbeats, Up, Agents, Given, IsTop

\* The frontend has aborted.
LEMMA AbortedKeeps ==
    ASSUME NetworkInv, fe' = "aborted", heard' \in BOOLEAN,
           UNCHANGED <<opt, plan, appVars, agentVars>>
    PROVE  NetworkInv'
<1>1. Stage'
  BY DEF NetworkInv, Stage, appVars, agentVars
<1>2. Registry'
  BY DEF NetworkInv, Registry, Known, Early, appVars, agentVars
<1>3. Tree' /\ Links' /\ Listed' /\ Leaving'
  BY TreeSame, LinksSame, ListedSame, LeavingSame DEF NetworkInv, appVars, agentVars
<1>4. Progress' /\ Heartbeats' /\ Coverage'
  BY DEF Progress, Heartbeats, Coverage, Ending
<1> QED
  BY <1>1, <1>2, <1>3, <1>4 DEF NetworkInv

-----------------------------------------------------------------------------
(* The application.                                                        *)

\* The frontend has begun to start the application, and there is no agent yet.
LEMMA InitInv ==
    ASSUME Init
    PROVE  NetworkInv
<1>1. Stage
  <2>1. PICK c \in Cases : opt = c.opt /\ plan = c.plan
    BY DEF Init
  <2>2. [opt |-> opt, plan |-> plan] \in Cases /\ plan \in Seq(Nat \ {0}) /\ plan # <<>>
    BY <2>1, CasesAssumption
  <2>3. Len(plan) \in Nat /\ Len(plan) >= 1 /\ Head(plan) = plan[1]
    BY <2>2, EmptySeq, LenProperties
  <2>4. commands \in Seq(Seq({"terminate", "quit", "reinit"})) /\ Len(commands) = 0
    BY EmptySeq DEF Init
  <2>5. procs = plan[1] /\ run = 1 /\ run \in 1 .. Len(plan) /\ starting = 1 .. procs
    BY <2>3 DEF Init
  <2>6. fe = "appstart" /\ gen = 0
    BY DEF Init
  <2>7. fe \in Early \cup Ending \cup {"aborted"} /\ fe \notin {"terminating", "rebuilding", "reaping"}
    BY <2>6 DEF Early
  <2>8. gen \in 0 .. run /\ gen < run
    BY <2>5, <2>6
  <2>9. heard \in BOOLEAN
    BY DEF Init
  <2> QED
    BY <2>2, <2>4, <2>5, <2>6, <2>7, <2>8, <2>9 DEF Stage
<1>2. DOMAIN agents = {} /\ Agents = {} /\ Leaves = {} /\ DOMAIN tagged = {}
  BY DEF Init, Agents, Leaves
<1>3. Tree
  BY <1>2, FS_EmptySet DEF Tree
<1>4. Registry
  BY FS_EmptySet DEF Init, Registry, Known
<1>5. Links /\ Listed /\ Leaving
  BY <1>2 DEF Links, Listed, Leaving
<1>6. Progress /\ Heartbeats /\ Coverage
  BY DEF Init, Progress, Heartbeats, Coverage, Ending
<1> QED
  BY <1>1, <1>3, <1>4, <1>5, <1>6 DEF NetworkInv

\* Its id is new.
LEMMA RegistersKeeps ==
    ASSUME NetworkInv, NEW r \in starting, ProcessRegisters(r)
    PROVE  NetworkInv'
<1> DEFINE new == Process(nextId, r)
<1>1. /\ UNCHANGED <<opt, plan, fe, procs, run, told, idmap, agentVars, heard>>
      /\ starting' = starting \ {r} /\ alive' = alive \cup {new}
      /\ entries' = entries \cup {new} /\ nextId' = nextId + 1
  BY DEF ProcessRegisters
<1>2. new.id = nextId /\ new.run = run /\ new.rank = r /\ r \in 1 .. procs /\ run \in Nat /\ nextId \in Nat
  BY DEF Process, NetworkInv, Stage, Registry
<1> HIDE DEF new
<1>3. Stage'
  BY <1>1 DEF NetworkInv, Stage, agentVars
<1>4. Tree' /\ Links' /\ Listed' /\ Leaving' /\ Progress' /\ Heartbeats'
  BY <1>1, TreeSame, LinksSame, ListedSame, LeavingSame, ProgressSame, HeartbeatsSame
     DEF NetworkInv, agentVars
<1>5. Registry'
  <2>1. IsFiniteSet(entries') /\ nextId' \in Nat
    BY <1>1, <1>2, FS_AddElement DEF NetworkInv, Registry, Known
  <2>2. \A p \in Known' :
           p = new \/ (p \in Known /\ p.id \in Nat /\ p.id < nextId)
    BY <1>1 DEF NetworkInv, Registry, Known, agentVars
  <2>3. /\ \A p \in Known' :
              p.id \in Nat /\ p.id < nextId' /\ p.run \in Nat /\ p.run <= run'
        /\ \A p, q \in Known' : p.id = q.id => p = q
    BY <1>1, <1>2, <2>2 DEF NetworkInv, Registry, Known
  <2>4. \A p \in entries' \cup alive' : p = new \/ p \in entries \cup alive
    BY <1>1
  <2>5. /\ \A p, q \in entries' \cup alive' :
              p.run = run' /\ q.run = run' /\ p.rank = q.rank => p = q
        /\ \A p \in entries' \cup alive' : p.run = run' => p.rank \in (1 .. procs') \ starting'
    BY <1>1, <1>2, <2>4 DEF NetworkInv, Registry, Known
  <2>6. \A p \in entries' : p.run < run' => p \notin alive'
    BY <1>1, <1>2 DEF NetworkInv, Registry, Known
  <2>7. /\ fe' \in {"apprestart", "reinit"} => \A p \in entries' : p.run = run'
        /\ fe' \in Early => \A p \in told' : p.run < run'
    BY <1>1, <1>2 DEF NetworkInv, Registry, Known
  <2> QED
    BY <2>1, <2>3, <2>5, <2>6, <2>7 DEF Registry
<1>6. Coverage'
  <2>1. /\ UNCHANGED <<fe, agents, gen, commands, procs, run, idmap>> /\ Leaves' = Leaves
        /\ Given' = Given
    BY <1>1 DEF agentVars, Leaves, Agents, Given
  <2>2. \A a \in Leaves : Controls(a) => Controls(a)'
    BY <1>1, <2>1 DEF Controls
  <2>3. \A k : Found(k) => Found(k)'
    <3> SUFFICES ASSUME NEW k, Found(k) PROVE Found(k)'
      OBVIOUS
    <3>0. PICK a \in Leaves : \E i \in agents[a].ids :
             i \in Nat /\ i < nextId /\ \A p \in alive : p.id = i => p.run = run /\ p.rank = k
      BY DEF Found
    <3>1. PICK i \in agents[a].ids :
             i \in Nat /\ i < nextId /\ \A p \in alive : p.id = i => p.run = run /\ p.rank = k
      BY <3>0
    <3>2. i < nextId' /\ \A p \in alive' : p.id = i => p.run = run /\ p.rank = k
      BY <1>1, <1>2, <3>1
    <3> QED
      BY <2>1, <3>1, <3>2 DEF Found
  <2>4. fe = "reinit" => \A k \in 1 .. procs :
             /\ idmap[k] \in Nat /\ idmap[k] < nextId'
             /\ \A p \in entries' : p.id = idmap[k] => p.rank = k
    BY <1>1, <1>2 DEF NetworkInv, Coverage
  <2> QED
    BY <2>1, <2>2, <2>3, <2>4 DEF NetworkInv, Coverage
<1> QED
  BY <1>3, <1>4, <1>5, <1>6 DEF NetworkInv

\* No process of this run is told while one is needed.
LEMMA ExitsKeeps ==
    ASSUME NetworkInv, NEW p \in alive, ProcessExits(p)
    PROVE  NetworkInv'
<1>1. /\ UNCHANGED <<opt, plan, fe, procs, run, starting, nextId, entries, idmap, agentVars, heard>>
      /\ alive' = alive \ {p} /\ told' = told \ {p} /\ p \in told
  BY DEF ProcessExits
<1>2. Stage'
  BY <1>1 DEF NetworkInv, Stage, agentVars
<1>3. Tree' /\ Links' /\ Listed' /\ Leaving' /\ Progress' /\ Heartbeats'
  BY <1>1, TreeSame, LinksSame, ListedSame, LeavingSame, ProgressSame, HeartbeatsSame
     DEF NetworkInv, agentVars
<1>4. Registry'
  <2>1. Known' \subseteq Known
    BY <1>1 DEF Known, agentVars
  <2> QED
    BY <1>1, <2>1 DEF NetworkInv, Registry
<1>5. Coverage'
  <2>1. /\ UNCHANGED <<fe, agents, gen, commands, procs, run, idmap>> /\ Leaves' = Leaves
        /\ Given' = Given
    BY <1>1 DEF agentVars, Leaves, Agents, Given
  <2>2. \A a \in Leaves : fe \in Early /\ Controls(a) => Controls(a)'
    <3> SUFFICES ASSUME NEW a \in Leaves, fe \in Early, Controls(a) PROVE Controls(a)'
      OBVIOUS
    <3>1. p.run < run /\ p.run \in Nat /\ run \in Nat
      BY <1>1 DEF NetworkInv, Registry, Known, Stage
    <3>2. p \notin agents[a].control
      BY <3>1 DEF Controls
    <3> QED
      BY <1>1, <2>1, <3>2 DEF Controls
  <2>3. \A k : Found(k) => Found(k)'
    BY <1>1, <2>1 DEF Found
  <2> QED
    BY <1>1, <2>1, <2>2, <2>3 DEF NetworkInv, Coverage, Early
<1> QED
  BY <1>2, <1>3, <1>4, <1>5 DEF NetworkInv

\* What agents still leave behind is of an earlier run.
LEMMA LauncherFailsKeeps ==
    ASSUME NetworkInv, LauncherFails
    PROVE  NetworkInv'
<1>1. /\ UNCHANGED <<opt, plan, fe, procs, run, told, nextId, entries, idmap, agentVars, heard>>
      /\ alive' \subseteq alive /\ starting' = {} /\ fe \in {"appstart", "apprestart"}
  BY DEF LauncherFails
<1>2. Stage'
  BY <1>1 DEF NetworkInv, Stage, agentVars
<1>3. Tree' /\ Links' /\ Listed' /\ Leaving' /\ Progress' /\ Heartbeats'
  BY <1>1, TreeSame, LinksSame, ListedSame, LeavingSame, ProgressSame, HeartbeatsSame
     DEF NetworkInv, agentVars
<1>4. Registry'
  <2>1. Known' \subseteq Known
    BY <1>1 DEF Known, agentVars
  <2> QED
    BY <1>1, <2>1 DEF NetworkInv, Registry
<1>5. Coverage'
  BY <1>1 DEF NetworkInv, Coverage, agentVars, Leaves, Agents
<1> QED
  BY <1>2, <1>3, <1>4, <1>5 DEF NetworkInv

-----------------------------------------------------------------------------
(* The frontend.                                                           *)

\* When the frontend has a heartbeat from the top, every agent is up.
LEMMA AllUp ==
    ASSUME NetworkInv, fe \in {"startup", "reinit"}, heard
    PROVE  \A a \in Agents : Up(a) /\ agents[a].pc = "connected" /\ agents[a].peer = TrueParent(a)
<1> DEFINE Behind == {a \in Agents : ~ (Up(a) /\ agents[a].peer = TrueParent(a))}
           depths == {Len(a.tag) : a \in Behind}
<1>1. \A a \in Agents : /\ a \in AgentNames /\ a.gen = gen
                        /\ Up(a) => /\ agents[a].pc = "connected"
                                    /\ agents[a].heard = agents[a].children
                                    /\ agents[a].peer = TheFrontend <=> IsTop(a)
  BY DEF NetworkInv, Heartbeats, Agents, Tree, Links, Joined
<1>2. ASSUME NEW a \in Behind, \A b \in Behind : Len(a.tag) <= Len(b.tag) PROVE FALSE
  <2>1. a \in Agents /\ a \in AgentNames /\ a.gen = gen
    BY <1>1
  <2>2. CASE IsTop(a)
    <3>1. PICK b \in Agents : IsTop(b) /\ Up(b)
      BY DEF NetworkInv, Heartbeats
    <3>2. a = b
      BY <1>1, <2>1, <2>2, <3>1 DEF IsTop, AgentNames
    <3> QED
      BY <1>1, <2>2, <3>1, <3>2 DEF TrueParent
  <2>3. CASE ~ IsTop(a)
    <3>1. Parent(a) \in DOMAIN agents /\ a.tag \in agents[Parent(a)].children
      BY <2>1, <2>3 DEF NetworkInv, Tree, Agents
    <3>2. Parent(a) \in Agents /\ Parent(a).tag = ParentTag(a.tag)
      BY <2>1, <3>1 DEF Agents, Parent
    <3>3. Len(Parent(a).tag) < Len(a.tag) /\ Len(a.tag) \in Nat /\ Len(Parent(a).tag) \in Nat
      <4>1. a.tag \in Seq(Nat) \ {<<>>}
        BY <2>1 DEF AgentNames
      <4> QED
        BY <3>2, <4>1, ParentTagFacts, LenProperties
    <3>4. Parent(a) \notin Behind
      BY <1>2, <3>3
    <3>5. Up(Parent(a))
      BY <3>2, <3>4
    <3>6. a.tag \in agents[Parent(a)].heard /\ agents[Parent(a)].obeyed = Given
      BY <1>1, <3>1, <3>2, <3>5 DEF Up
    <3>7. a = [gen |-> gen, tag |-> a.tag]
      BY <2>1 DEF AgentNames
    <3>8. Up(a) /\ agents[a].peer = Parent(a)
      BY <3>2, <3>6, <3>7 DEF NetworkInv, Heartbeats
    <3> QED
      BY <2>3, <3>8 DEF TrueParent
  <2> QED
    BY <2>2, <2>3
<1>3. Behind = {}
  <2> SUFFICES ASSUME Behind # {} PROVE FALSE
    OBVIOUS
  <2>1. \A a \in Behind : Len(a.tag) \in Nat
    <3> SUFFICES ASSUME NEW a \in Behind PROVE Len(a.tag) \in Nat
      OBVIOUS
    <3>1. a.tag \in Seq(Nat)
      BY <1>1 DEF AgentNames
    <3> QED
      BY <3>1, LenProperties
  <2>2. PICK d \in depths : \A e \in depths : d <= e
    <3>1. depths \subseteq Nat /\ depths # {}
      BY <2>1
    <3> HIDE DEF depths
    <3> QED
      BY <3>1, LeastExists
  <2>3. PICK a \in Behind : d = Len(a.tag)
    BY <2>2
  <2>4. \A b \in Behind : Len(a.tag) <= Len(b.tag)
    BY <2>2, <2>3
  <2> QED
    BY <1>2, <2>3, <2>4
<1> QED
  BY <1>1, <1>3

\* The analysis agents that are up control the whole application between them.
LEMMA StartupCovers ==
    ASSUME NetworkInv, fe = "startup", \A a \in Leaves : agents[a].pc = "connected"
    PROVE  /\ \A a \in Leaves : Controls(a) /\ agents[a].ranks \subseteq 1 .. procs
           /\ \A r \in 1 .. procs : \E a \in Leaves : r \in agents[a].ranks
           /\ \A a, b \in Leaves : a # b => agents[a].ranks \cap agents[b].ranks = {}
<1>1. \A a \in Leaves : Controls(a) /\ {p.id : p \in agents[a].control} = agents[a].ids
  BY DEF NetworkInv, Coverage
<1>2. \A a \in Leaves : \A p \in agents[a].control :
         p \in alive /\ p.run = run /\ p.rank \in agents[a].ranks
  BY <1>1 DEF Controls
<1>3. \A a \in Leaves : \A r \in agents[a].ranks : \E p \in agents[a].control : p.rank = r
  BY <1>1 DEF Controls
<1>4. \A a \in Leaves : agents[a].ranks \subseteq 1 .. procs
  BY <1>2, <1>3 DEF NetworkInv, Registry, Known
<1>5. ASSUME NEW r \in 1 .. procs PROVE \E a \in Leaves : r \in agents[a].ranks
  <2>1. PICK a \in Leaves : \E i \in agents[a].ids :
           \A p \in alive : p.id = i => p.run = run /\ p.rank = r
    BY DEF NetworkInv, Coverage, Found
  <2>2. PICK i \in agents[a].ids : \A p \in alive : p.id = i => p.run = run /\ p.rank = r
    BY <2>1
  <2>3. PICK p \in agents[a].control : p.id = i
    BY <1>1, <2>2
  <2> QED
    BY <1>2, <2>2, <2>3
<1>6. ASSUME NEW a \in Leaves, NEW b \in Leaves, a # b PROVE agents[a].ranks \cap agents[b].ranks = {}
  <2> SUFFICES ASSUME NEW r \in agents[a].ranks, r \in agents[b].ranks PROVE FALSE
    OBVIOUS
  <2>1. PICK p \in agents[a].control : p.rank = r
    BY <1>3
  <2>2. PICK q \in agents[b].control : q.rank = r
    BY <1>3
  <2>3. p = q
    BY <1>2, <2>1, <2>2 DEF NetworkInv, Registry, Known
  <2>4. p.id \in agents[a].ids /\ p.id \in agents[b].ids
    BY <1>1, <2>3
  <2> QED
    BY <1>6, <2>4 DEF NetworkInv, Tree
<1> QED
  BY <1>1, <1>4, <1>5, <1>6

\* The frontend goes on to work with the agents.
LEMMA StartupDoneKeeps ==
    ASSUME NetworkInv, StartupDone
    PROVE  NetworkInv'
<1>1. /\ UNCHANGED <<opt, plan, procs, run, starting, alive, told, nextId, entries, idmap, heard>>
      /\ UNCHANGED <<gen, agents, tagged, commands>>
      /\ fe \in {"startup", "reinit"} /\ heard /\ fe' = "running"
  BY DEF StartupDone, appVars, agentVars
<1>2. \A a \in Agents : Up(a) /\ agents[a].pc = "connected" /\ agents[a].peer = TrueParent(a)
  BY <1>1, AllUp
<1>3. Stage'
  BY <1>1 DEF NetworkInv, Stage, Early
<1>4. Registry'
  BY <1>1 DEF NetworkInv, Registry, Known, Early
<1>5. Tree' /\ Links' /\ Listed' /\ Leaving'
  BY <1>1, TreeSame, LinksSame, ListedSame, LeavingSame DEF NetworkInv
<1>6. /\ Agents' = Agents /\ Leaves' = Leaves /\ Given' = Given
      /\ \A a : TrueParent(a)' = TrueParent(a) /\ (Controls(a) => Controls(a)')
  BY <1>1 DEF Agents, Leaves, Given, TrueParent, Parent, IsTop, TheFrontend, Controls
<1>7. Progress'
  BY <1>1, <1>2, <1>6 DEF Progress, Up, Ending
<1>8. Heartbeats'
  BY <1>1 DEF Heartbeats
<1>9. Coverage'
  <2>1. \A a \in Leaves : agents[a].pc = "connected" /\ agents[a].obeyed = Given
    BY <1>2 DEF Leaves, Up
  <2>2. CASE fe = "startup"
    BY <1>1, <1>6, <2>1, <2>2, StartupCovers DEF Coverage
  <2>3. CASE fe = "reinit"
    BY <1>1, <1>6, <2>1, <2>3 DEF NetworkInv, Coverage
  <2> QED
    BY <1>1, <2>2, <2>3
<1> QED
  BY <1>3, <1>4, <1>5, <1>7, <1>8, <1>9 DEF NetworkInv

\* One more command, which every agent has yet to obey.
LEMMA Appended ==
    ASSUME Stage, gen > 0, NEW c \in {"terminate", "quit", "reinit"},
           commands' = [commands EXCEPT ![gen] = Append(@, c)], gen' = gen
    PROVE  /\ commands' \in Seq(Seq({"terminate", "quit", "reinit"})) /\ Len(commands') = gen
           /\ Given \in Nat /\ Given' = Given + 1 /\ commands'[gen][Given + 1] = c
           /\ \A n \in 1 .. Given : commands'[gen][n] = commands[gen][n]
           /\ \A g \in 1 .. gen : /\ Len(commands[g]) \in Nat /\ Len(commands'[g]) >= Len(commands[g])
                                  /\ g # gen => commands'[g] = commands[g]
<1> DEFINE C == {"terminate", "quit", "reinit"}
<1>1. commands \in Seq(Seq(C)) /\ Len(commands) = gen /\ gen \in Nat /\ DOMAIN commands = 1 .. gen
  <2>1. commands \in Seq(Seq(C)) /\ Len(commands) = gen /\ gen \in Nat
    BY DEF Stage
  <2> QED
    BY <2>1, LenProperties
<1>2. \A g \in 1 .. gen : commands[g] \in Seq(C) /\ Len(commands[g]) \in Nat
  BY <1>1, ElementOfSeq, LenProperties
<1>3. gen \in 1 .. gen
  BY <1>1
<1>4. /\ Append(commands[gen], c) \in Seq(C) /\ Len(Append(commands[gen], c)) = Len(commands[gen]) + 1
      /\ \A n \in 1 .. Len(commands[gen]) : Append(commands[gen], c)[n] = commands[gen][n]
      /\ Append(commands[gen], c)[Len(commands[gen]) + 1] = c
  BY <1>2, <1>3, AppendProperties
<1>5. commands' \in Seq(Seq(C)) /\ Len(commands') = gen
  BY <1>1, <1>3, <1>4, ExceptSeq
<1>6. /\ commands'[gen] = Append(commands[gen], c)
      /\ \A g \in 1 .. gen : g # gen => commands'[g] = commands[g]
  BY <1>1, <1>3
<1>7. Given = Len(commands[gen]) /\ Given' = Len(commands'[gen])
  BY DEF Given
<1>8. \A g \in 1 .. gen : Len(commands'[g]) >= Len(commands[g])
  BY <1>2, <1>3, <1>4, <1>6
<1> QED
  BY <1>2, <1>3, <1>4, <1>5, <1>6, <1>7, <1>8

\* An agent may have yet to obey what is sent.
LEMMA SendTree ==
    ASSUME Stage, Tree, gen > 0, NEW c \in {"terminate", "quit", "reinit"},
           commands' = [commands EXCEPT ![gen] = Append(@, c)], UNCHANGED <<gen, agents>>
    PROVE  Tree'
<1>1. \A a \in DOMAIN agents : a.gen \in 1 .. gen
  BY DEF Tree, AgentNames, Stage
<1>2. \A a \in DOMAIN agents : agents[a].obeyed \in 0 .. Len(commands'[a.gen])
  <2> SUFFICES ASSUME NEW a \in DOMAIN agents PROVE agents[a].obeyed \in 0 .. Len(commands'[a.gen])
    OBVIOUS
  <2>1. Len(commands[a.gen]) \in Nat /\ Len(commands'[a.gen]) >= Len(commands[a.gen])
    BY <1>1, Appended
  <2>2. Len(commands'[a.gen]) \in Nat
    <3>1. commands' \in Seq(Seq({"terminate", "quit", "reinit"})) /\ Len(commands') = gen
      BY Appended
    <3> QED
      BY <1>1, <3>1, ElementOfSeq, LenProperties
  <2> QED
    BY <2>1, <2>2 DEF Tree
<1> QED
  BY <1>2 DEF Tree, Leaves, Agents, IsTop, Parent

\* What was sent to earlier hierarchies stays as it is.
LEMMA SendLeaving ==
    ASSUME Stage, Tree, Leaving, gen > 0, fe # "appstart", fe' # "appstart",
           NEW c \in {"terminate", "quit", "reinit"},
           commands' = [commands EXCEPT ![gen] = Append(@, c)], UNCHANGED <<gen, agents, run>>
    PROVE  Leaving'
<1>1. \A a \in DOMAIN agents : Past(a)' => Past(a) /\ a.gen \in 1 .. gen /\ a.gen # gen
  BY DEF Tree, AgentNames, Stage, Past
<1>2. \A a \in DOMAIN agents : Past(a)' => commands'[a.gen] = commands[a.gen]
  BY <1>1, Appended
<1> QED
  BY <1>1, <1>2 DEF Leaving

\* Terminate and quit are sent while every agent has obeyed all before.
LEMMA SendKeeps ==
    ASSUME NetworkInv, NEW command \in {"terminate", "quit"}, NEW stage, Send(command, stage),
           \/ stage = "quitting"
           \/ stage = "rebuilding" /\ run < Len(plan)
           \/ stage = "terminating" /\ run < Len(plan) /\ plan[run + 1] = procs
    PROVE  NetworkInv'
<1>1. /\ UNCHANGED <<opt, plan, procs, run, starting, alive, told, nextId, entries, idmap, heard>>
      /\ UNCHANGED <<gen, agents, tagged>>
      /\ fe = "running" /\ fe' = stage /\ stage \in Ending /\ gen > 0
      /\ commands' = [commands EXCEPT ![gen] = Append(@, command)]
  BY DEF Send, appVars, Ending, NetworkInv, Stage
<1>2. /\ commands' \in Seq(Seq({"terminate", "quit", "reinit"})) /\ Len(commands') = gen
      /\ Given \in Nat /\ Given' = Given + 1 /\ commands'[gen][Given + 1] = command
  BY <1>1, Appended DEF NetworkInv
<1>3. Stage'
  BY <1>1, <1>2 DEF NetworkInv, Stage, Ending
<1>4. Registry'
  BY <1>1 DEF NetworkInv, Registry, Known, Early
<1>5. Tree' /\ Links' /\ Listed'
  BY <1>1, SendTree, LinksSame, ListedSame DEF NetworkInv
<1>6. Leaving'
  BY <1>1, SendLeaving DEF NetworkInv, Ending
<1>7. Agents' = Agents /\ Leaves' = Leaves
  BY <1>1 DEF Agents, Leaves
<1>8. Progress'
  <2>1. \A a \in Agents : /\ agents[a].pc = "connected" /\ agents[a].beat
                          /\ agents[a].obeyed = Given
    BY <1>1 DEF NetworkInv, Progress
  <2>2. \A a \in Agents : /\ agents'[a].pc \in Joined /\ agents'[a].beat
                          /\ agents'[a].obeyed >= Given' - 1
    BY <1>1, <1>2, <2>1 DEF Joined
  <2>3. Given' >= 1 /\ commands'[gen'][Given'] # "reinit"
    <3>1. gen' = gen /\ commands'[gen][Given'] = command /\ command # "reinit"
      BY <1>1, <1>2
    <3> QED
      BY <1>2, <3>1
  <2>4. fe' \in Ending /\ fe' \notin {"startup", "running", "apprestart", "reinit"}
    BY <1>1 DEF Ending
  <2> QED
    BY <1>7, <2>2, <2>3, <2>4 DEF Progress
<1>9. Heartbeats' /\ Coverage'
  <2>1. Heartbeats'
    BY <1>1 DEF Heartbeats, Ending
  <2>2. fe' \in Ending /\ fe' \notin {"startup", "running", "apprestart", "reinit"}
    BY <1>1 DEF Ending
  <2>3. /\ \A a \in Leaves : agents[a].ranks \subseteq 1 .. procs
        /\ \A r \in 1 .. procs : \E a \in Leaves : r \in agents[a].ranks
        /\ \A a, b \in Leaves : a # b => agents[a].ranks \cap agents[b].ranks = {}
    BY <1>1 DEF NetworkInv, Coverage
  <2> QED
    BY <1>1, <1>7, <2>1, <2>2, <2>3 DEF Coverage
<1> QED
  BY <1>3, <1>4, <1>5, <1>6, <1>8, <1>9 DEF NetworkInv

\* The processes of the run that ends belong to an earlier one.
LEMMA NewRun ==
    ASSUME Stage, Registry, fe \in Ending, run < Len(plan), StartApplication,
           UNCHANGED <<gen, agents, commands>>
    PROVE  /\ run \in Nat /\ run' = run + 1 /\ run' \in 1 .. Len(plan) /\ procs' = plan[run']
           /\ starting' = 1 .. procs'
           /\ \A p \in Known' : p.run < run'
           /\ \A a \in DOMAIN agents : \A p \in agents[a].control : p.run < run'
           /\ \A p \in Known' : p.id \in Nat /\ p.id < nextId' /\ p.run \in Nat /\ p.run <= run'
           /\ \A p, q \in Known' : p.id = q.id => p = q
           /\ IsFiniteSet(entries') /\ nextId' \in Nat
<1>1. run \in Nat /\ run' = run + 1 /\ procs' = plan[run'] /\ run' \in 1 .. Len(plan)
      /\ starting' = 1 .. procs' /\ UNCHANGED <<alive, told, nextId, entries>>
  <2>1. Len(plan) \in Nat
    BY LenProperties DEF Stage
  <2> QED
    BY <2>1 DEF StartApplication, Stage
<1>2. /\ \A p \in Known : p.run \in Nat /\ p.run <= run
      /\ \A p \in Known : p.id \in Nat /\ p.id < nextId
      /\ \A p, q \in Known : p.id = q.id => p = q
      /\ IsFiniteSet(entries) /\ nextId \in Nat
  BY DEF Registry
<1>3. Known' = Known /\ \A a \in DOMAIN agents : agents[a].control \subseteq Known
  BY <1>1 DEF Known
<1> QED
  BY <1>1, <1>2, <1>3

\* The application is started again for agents that control no process.
LEMMA RestartApplicationKeeps ==
    ASSUME NetworkInv, RestartApplication
    PROVE  NetworkInv'
<1>1. /\ UNCHANGED <<opt, plan, alive, told, nextId, entries, heard>>
      /\ UNCHANGED <<gen, agents, tagged, commands>> /\ StartApplication
      /\ fe = "terminating" /\ fe' = "apprestart" /\ entries = {}
      /\ \A a \in Leaves : agents[a].pc = "connected" /\ agents[a].obeyed = Given
      /\ run < Len(plan) /\ plan[run + 1] = procs /\ fe \in Ending
  BY DEF RestartApplication, StartApplication, agentVars, Given, NetworkInv, Stage, Ending
<1>2. /\ run \in Nat /\ run' = run + 1 /\ run' \in 1 .. Len(plan) /\ procs' = plan[run']
      /\ starting' = 1 .. procs'
      /\ \A p \in Known' : p.run < run'
      /\ \A a \in DOMAIN agents : \A p \in agents[a].control : p.run < run'
      /\ \A p \in Known' : p.id \in Nat /\ p.id < nextId' /\ p.run \in Nat /\ p.run <= run'
      /\ \A p, q \in Known' : p.id = q.id => p = q
      /\ IsFiniteSet(entries') /\ nextId' \in Nat
  BY <1>1, NewRun DEF NetworkInv
<1>3. Stage'
  <2>1. gen' \in 0 .. run'
    BY <1>1, <1>2 DEF NetworkInv, Stage
  <2> QED
    BY <1>1, <1>2, <2>1 DEF NetworkInv, Stage, Early
<1>4. Tree' /\ Links' /\ Listed'
  BY <1>1, TreeSame, LinksSame, ListedSame DEF NetworkInv
<1>5. Registry'
  <2>1. \A p \in entries' \cup alive' \cup told' : p.run < run' /\ p.run # run'
    BY <1>2 DEF Known
  <2> QED
    BY <1>1, <1>2, <2>1 DEF Registry
<1>6. Agents' = Agents /\ Leaves' = Leaves /\ Given' = Given
  BY <1>1 DEF Agents, Leaves, Given
<1>7. Leaving'
  <2>1. \A a \in DOMAIN agents : Past(a)' => Past(a)
    BY <1>1 DEF Past
  <2> QED
    BY <1>1, <1>2, <2>1 DEF NetworkInv, Leaving
<1>8. Progress'
  BY <1>1, <1>6 DEF NetworkInv, Progress, Ending
<1>9. Heartbeats'
  BY <1>1 DEF Heartbeats
<1>10. Coverage'
  <2>1. procs' = procs
    BY <1>1, <1>2
  <2> QED
    BY <1>1, <1>6, <2>1 DEF NetworkInv, Coverage
<1> QED
  BY <1>3, <1>4, <1>5, <1>7, <1>8, <1>9, <1>10 DEF NetworkInv

\* What is left in the registry is of the run that ends.
LEMMA WaitForShutdownKeeps ==
    ASSUME NetworkInv, WaitForShutdown
    PROVE  NetworkInv'
<1>1. /\ UNCHANGED <<opt, plan, procs, run, starting, alive, told, nextId, idmap, heard>>
      /\ UNCHANGED <<gen, agents, tagged, commands>>
      /\ fe \in {"rebuilding", "quitting"} /\ entries' \subseteq entries
      /\ fe' = IF fe = "rebuilding" THEN "reaping" ELSE "done"
  BY DEF WaitForShutdown, agentVars
<1>2. fe \in Ending /\ fe' \in Ending
      /\ fe' \notin Early /\ fe' \notin {"terminating", "startup", "running", "apprestart", "reinit"}
  BY <1>1 DEF Ending, Early
<1>3. Stage'
  BY <1>1, <1>2 DEF NetworkInv, Stage, Early
<1>4. Tree' /\ Links' /\ Listed'
  BY <1>1, TreeSame, LinksSame, ListedSame DEF NetworkInv
<1>5. Leaving'
  BY <1>1, LeavingSame DEF NetworkInv
<1>6. Registry'
  <2>1. IsFiniteSet(entries')
    BY <1>1, FS_Subset DEF NetworkInv, Registry, Known
  <2> QED
    BY <1>1, <1>2, <2>1 DEF NetworkInv, Registry, Known
<1>7. Progress'
  <2>1. Agents' = Agents /\ Given' = Given
    BY <1>1 DEF Agents, Given
  <2>2. /\ Given >= 1 /\ commands[gen][Given] # "reinit"
        /\ \A a \in Agents : /\ agents[a].pc \in Joined /\ agents[a].beat
                             /\ agents[a].obeyed >= Given - 1
    BY <1>2 DEF NetworkInv, Progress
  <2> QED
    BY <1>1, <1>2, <2>1, <2>2 DEF Progress
<1>8. Heartbeats' /\ Coverage'
  BY <1>2 DEF Heartbeats, Coverage
<1> QED
  BY <1>3, <1>4, <1>5, <1>6, <1>7, <1>8 DEF NetworkInv

\* All agents there are were told to quit.
LEMMA StartAgainKeeps ==
    ASSUME NetworkInv, StartAgain
    PROVE  NetworkInv'
<1>1. /\ UNCHANGED <<opt, plan, alive, told, nextId, entries, heard>>
      /\ UNCHANGED <<gen, agents, tagged, commands>> /\ StartApplication /\ LauncherEnded
      /\ fe = "reaping" /\ fe' = "appstart" /\ run < Len(plan) /\ fe \in Ending
  BY DEF StartAgain, StartApplication, agentVars, NetworkInv, Stage, Ending
<1>2. /\ run \in Nat /\ run' = run + 1 /\ run' \in 1 .. Len(plan) /\ procs' = plan[run']
      /\ starting' = 1 .. procs'
      /\ \A p \in Known' : p.run < run'
      /\ \A a \in DOMAIN agents : \A p \in agents[a].control : p.run < run'
      /\ \A p \in Known' : p.id \in Nat /\ p.id < nextId' /\ p.run \in Nat /\ p.run <= run'
      /\ \A p, q \in Known' : p.id = q.id => p = q
      /\ IsFiniteSet(entries') /\ nextId' \in Nat
  BY <1>1, NewRun DEF NetworkInv
<1>3. Stage'
  <2>1. gen' \in 0 .. run' /\ gen' < run'
    BY <1>1, <1>2 DEF NetworkInv, Stage
  <2> QED
    BY <1>1, <1>2, <2>1 DEF NetworkInv, Stage, Early
<1>4. Tree' /\ Links' /\ Listed'
  BY <1>1, TreeSame, LinksSame, ListedSame DEF NetworkInv
<1>5. Registry'
  <2>1. \A p \in entries' \cup alive' \cup told' : p.run < run' /\ p.run # run'
    BY <1>2 DEF Known
  <2>2. \A p \in entries : p \notin alive
    <3> SUFFICES ASSUME NEW p \in entries, p \in alive PROVE FALSE
      OBVIOUS
    <3>1. p.run # run /\ p.run \in Nat /\ p.run <= run
      BY <1>1 DEF LauncherEnded, NetworkInv, Registry, Known
    <3> QED
      BY <1>2, <3>1 DEF NetworkInv, Registry, Known
  <2> QED
    BY <1>1, <1>2, <2>1, <2>2 DEF Registry
<1>6. Leaving'
  <2>2. \A a \in DOMAIN agents : a.gen < gen \/ a \in Agents
    BY DEF NetworkInv, Stage, Tree, AgentNames, Agents
  <2>3. \A a \in Agents : /\ agents[a].beat /\ agents[a].pc \in Joined
                          /\ \A n \in agents[a].obeyed + 1 .. Len(commands[a.gen]) :
                                commands[a.gen][n] # "reinit"
    <3> SUFFICES ASSUME NEW a \in Agents
                 PROVE  /\ agents[a].beat /\ agents[a].pc \in Joined
                        /\ \A n \in agents[a].obeyed + 1 .. Len(commands[a.gen]) :
                                commands[a.gen][n] # "reinit"
      OBVIOUS
    <3>1. a.gen = gen /\ a \in DOMAIN agents
      BY DEF Agents
    <3>2. /\ agents[a].beat /\ agents[a].pc \in Joined /\ agents[a].obeyed >= Given - 1
          /\ Given >= 1 /\ commands[gen][Given] # "reinit"
      BY <1>1 DEF NetworkInv, Progress
    <3>3. agents[a].obeyed \in 0 .. Given
      BY <3>1 DEF NetworkInv, Tree, Given
    <3>4. ASSUME NEW n \in agents[a].obeyed + 1 .. Given PROVE n = Given
      <4>1. Given \in Nat
        <5>1. commands \in Seq(Seq({"terminate", "quit", "reinit"})) /\ gen \in 1 .. Len(commands)
          BY <1>1 DEF NetworkInv, Stage, Ending
        <5> QED
          BY <5>1, ElementOfSeq, LenProperties DEF Given
      <4> QED
        BY <3>2, <3>3, <3>4, <4>1
    <3> QED
      BY <3>1, <3>2, <3>4 DEF Given
  <2>4. \A a \in DOMAIN agents : a.gen < gen =>
           /\ agents[a].beat /\ agents[a].pc \in Joined
           /\ \A n \in agents[a].obeyed + 1 .. Len(commands[a.gen]) :
                 commands[a.gen][n] # "reinit"
    BY DEF NetworkInv, Leaving, Past
  <2> QED
    BY <1>1, <1>2, <2>2, <2>3, <2>4 DEF Leaving
<1>7. Progress' /\ Heartbeats' /\ Coverage'
  BY <1>1 DEF Progress, Heartbeats, Coverage, Ending
<1> QED
  BY <1>3, <1>4, <1>5, <1>6, <1>7 DEF NetworkInv

-----------------------------------------------------------------------------
(* The hierarchy is forked, or told of the processes of a new run.         *)

\* The agents forked: nothing has happened to them.
LEMMA ForkedFacts ==
    ASSUME NEW tree, NEW forked, forked = {[gen |-> gen + 1, tag |-> t] : t \in DOMAIN tree},
           agents' = [a \in DOMAIN agents \cup forked |->
                         IF a \in forked THEN ForkedAgent(tree[a.tag]) ELSE agents[a]]
    PROVE  /\ DOMAIN agents' = forked \cup DOMAIN agents
           /\ \A a \in forked :
                 /\ a.gen = gen + 1
                 /\ DOMAIN agents'[a] = Fields
                 /\ agents'[a].pc = "forked" /\ agents'[a].control = {}
                 /\ agents'[a].heard = {} /\ agents'[a].beat = FALSE /\ agents'[a].obeyed = 0
           /\ \A a \in DOMAIN agents : a.gen # gen + 1 => agents'[a] = agents[a]
<1>1. /\ DOMAIN agents' = forked \cup DOMAIN agents
      /\ \A a \in forked : agents'[a] = ForkedAgent(tree[a.tag])
      /\ \A a \in DOMAIN agents : a \notin forked => agents'[a] = agents[a]
  OBVIOUS
<1>2. \A a \in forked : a.gen = gen + 1
  OBVIOUS
<1>3. \A d : /\ DOMAIN ForkedAgent(d) = Fields
             /\ ForkedAgent(d).pc = "forked" /\ ForkedAgent(d).control = {}
             /\ ForkedAgent(d).heard = {} /\ ForkedAgent(d).beat = FALSE
             /\ ForkedAgent(d).obeyed = 0
  BY DEF ForkedAgent, Fields
<1> QED
  BY <1>1, <1>2, <1>3

\* A hierarchy for the processes in the registry: the agent of each will find it.
LEMMA ForkKeeps ==
    ASSUME NetworkInv, PollSucceeds, fe' = "startup", Sound'
    PROVE  NetworkInv'
<1>1. /\ UNCHANGED <<opt, plan, procs, run, starting, alive, told, nextId, entries, tagged>>
      /\ fe = "appstart" /\ gen' = gen + 1 /\ commands' = Append(commands, <<>>)
      /\ heard' = FALSE /\ 1 .. procs \subseteq DOMAIN IdMap
  BY DEF PollSucceeds, appVars
<1>2. PICK tree : LET forked == {[gen |-> gen + 1, tag |-> t] : t \in DOMAIN tree}
                  IN  agents' = [a \in DOMAIN agents \cup forked |->
                                    IF a \in forked THEN ForkedAgent(tree[a.tag]) ELSE agents[a]]
  BY <1>1 DEF PollSucceeds
<1> DEFINE forked == {[gen |-> gen + 1, tag |-> t] : t \in DOMAIN tree}
<1>3. /\ DOMAIN agents' = forked \cup DOMAIN agents
      /\ \A a \in forked :
            /\ a.gen = gen + 1
            /\ DOMAIN agents'[a] = Fields
            /\ agents'[a].pc = "forked" /\ agents'[a].control = {}
            /\ agents'[a].heard = {} /\ agents'[a].beat = FALSE /\ agents'[a].obeyed = 0
      /\ \A a \in DOMAIN agents : a.gen # gen + 1 => agents'[a] = agents[a]
  BY <1>2, ForkedFacts
<1> HIDE DEF forked
<1>4. gen \in Nat /\ gen' \in Nat \ {0} /\ \A a \in DOMAIN agents : a.gen \in 1 .. gen /\ a.gen # gen + 1
  <2>1. gen \in Nat /\ gen < run /\ run \in Nat
    BY <1>1 DEF NetworkInv, Stage
  <2>2. \A a \in DOMAIN agents : a.gen \in Nat \ {0} /\ a.gen <= gen
    BY DEF NetworkInv, Tree, AgentNames
  <2> QED
    BY <1>1, <2>1, <2>2
<1>5. Agents' = forked /\ Leaves' \subseteq forked
  BY <1>1, <1>3, <1>4 DEF Agents, Leaves
<1>6. \A a \in DOMAIN agents' : a \in forked \/ (a \in DOMAIN agents /\ agents'[a] = agents[a])
  BY <1>3, <1>4
<1>7. /\ commands' \in Seq(Seq({"terminate", "quit", "reinit"})) /\ Len(commands') = gen'
      /\ commands'[gen'] = <<>> /\ Len(commands'[gen']) = 0 /\ Given' = 0
      /\ \A g \in 1 .. gen : commands'[g] = commands[g]
  <2>1. commands \in Seq(Seq({"terminate", "quit", "reinit"})) /\ Len(commands) = gen
    BY DEF NetworkInv, Stage
  <2>2. <<>> \in Seq({"terminate", "quit", "reinit"}) /\ Len(<<>>) = 0
    BY EmptySeq
  <2> QED
    BY <1>1, <2>1, <2>2, AppendProperties DEF Given
<1>8. /\ IsFiniteSet(Agents') /\ (UNION {agents'[a].ids : a \in Leaves'} = {p.id : p \in entries})
      /\ \A a \in Leaves' : \A b \in Leaves' \ {a} : agents'[a].ids \cap agents'[b].ids = {}
      /\ \A a \in Agents' : /\ IsTop(a) \/ (Parent(a) \in Agents' /\ a.tag \in agents'[Parent(a)].children)
                            /\ a.tag \in Seq(Nat) \ {<<>>} /\ agents'[a].port \in Nat \ {0}
  <2>1. \A a : IsTop(a)' = IsTop(a) /\ Parent(a)' = Parent(a)
    BY DEF IsTop, Parent
  <2> QED
    BY <1>1, <2>1 DEF Sound
<1>9. Stage'
  <2>1. heard' \in BOOLEAN
    BY <1>1
  <2>2. fe' = "startup" /\ fe' \in Early /\ gen' \in 0 .. run
    BY <1>1, <1>4 DEF NetworkInv, Stage, Early
  <2>3. UNCHANGED <<opt, plan, procs, run, starting>>
    BY <1>1
  <2> QED
    BY <1>4, <1>7, <2>1, <2>2, <2>3 DEF NetworkInv, Stage
<1>10. Tree'
  <2>1. IsFiniteSet(DOMAIN agents')
    <3>1. IsFiniteSet(forked) /\ IsFiniteSet(DOMAIN agents)
      BY <1>5, <1>8 DEF NetworkInv, Tree
    <3>2. IsFiniteSet(forked \cup DOMAIN agents)
      BY <3>1, FS_Union
    <3> QED
      BY <1>3, <3>2
  <2>2. \A a \in forked : a \in AgentNames
    <3>1. \A a \in forked : \E t : a = [gen |-> gen + 1, tag |-> t]
      BY DEF forked
    <3> QED
      BY <1>4, <1>5, <1>8, <3>1 DEF AgentNames
  <2>3. DOMAIN agents' \subseteq AgentNames
    BY <1>6, <2>2 DEF NetworkInv, Tree
  <2>4. \A a \in forked :
          /\ a.gen <= gen' /\ DOMAIN agents'[a] = Fields
          /\ agents'[a].pc \in Stages /\ agents'[a].beat \in BOOLEAN
          /\ agents'[a].port \in Nat \ {0}
          /\ agents'[a].obeyed \in 0 .. Len(commands'[a.gen])
          /\ agents'[a].heard \subseteq agents'[a].children
          /\ agents'[a].pc \in {"releasing", "deleting"} => agents'[a].level = 0
    <3>1. \A a \in forked : agents'[a].beat \in BOOLEAN
      BY <1>3
    <3>2. \A a \in forked : a.gen <= gen' /\ Len(commands'[a.gen]) = 0
      BY <1>1, <1>3, <1>4, <1>7
    <3>3. \A a \in forked : agents'[a].port \in Nat \ {0}
      BY <1>5, <1>8
    <3> QED
      BY <1>3, <3>1, <3>2, <3>3 DEF Stages
  <2>5. \A a \in DOMAIN agents :
          /\ a.gen <= gen' /\ DOMAIN agents'[a] = Fields
          /\ agents'[a].pc \in Stages /\ agents'[a].beat \in BOOLEAN
          /\ agents'[a].port \in Nat \ {0}
          /\ agents'[a].obeyed \in 0 .. Len(commands'[a.gen])
          /\ agents'[a].heard \subseteq agents'[a].children
          /\ agents'[a].pc \in {"releasing", "deleting"} => agents'[a].level = 0
    BY <1>1, <1>3, <1>4, <1>7 DEF NetworkInv, Tree
  <2>6. \A a \in DOMAIN agents' :
          IsTop(a) \/ (Parent(a) \in DOMAIN agents' /\ a.tag \in agents'[Parent(a)].children)
    <3>1. \A a \in forked :
            IsTop(a) \/ (Parent(a) \in DOMAIN agents' /\ a.tag \in agents'[Parent(a)].children)
      BY <1>3, <1>5, <1>8
    <3>2. \A a \in DOMAIN agents :
            IsTop(a) \/ (Parent(a) \in DOMAIN agents /\ a.tag \in agents[Parent(a)].children)
      BY DEF NetworkInv, Tree
    <3> QED
      BY <1>3, <1>4, <1>6, <3>1, <3>2
  <2>7. \A a \in Leaves' : IsFiniteSet(agents'[a].ids)
    <3> DEFINE ids == {p.id : p \in entries}
               f == [p \in entries |-> p.id]
    <3>1. f \in Surjection(entries, ids)
      BY DEF Surjection
    <3>2. IsFiniteSet(ids)
      BY <3>1, FS_Surjection DEF NetworkInv, Registry, Known
    <3>3. \A a \in Leaves' : agents'[a].ids \subseteq ids
      BY <1>8
    <3> HIDE DEF ids
    <3> QED
      BY <3>2, <3>3, FS_Subset
  <2>8. \A a, b \in Leaves' : a # b => agents'[a].ids \cap agents'[b].ids = {}
    BY <1>8
  <2>9. \A a : IsTop(a)' = IsTop(a) /\ Parent(a)' = Parent(a)
    BY DEF IsTop, Parent
  <2>10. \A a \in DOMAIN agents' :
          /\ a.gen <= gen' /\ DOMAIN agents'[a] = Fields
          /\ agents'[a].pc \in Stages /\ agents'[a].beat \in BOOLEAN
          /\ agents'[a].port \in Nat \ {0}
          /\ agents'[a].obeyed \in 0 .. Len(commands'[a.gen])
          /\ agents'[a].heard \subseteq agents'[a].children
          /\ agents'[a].pc \in {"releasing", "deleting"} => agents'[a].level = 0
    BY <1>3, <2>4, <2>5
  <2> QED
    BY <2>1, <2>3, <2>6, <2>7, <2>8, <2>9, <2>10 DEF Tree
<1>11. Registry'
  <2>1. Known' = Known
    BY <1>1, <1>3, <1>4 DEF Known
  <2> QED
    BY <1>1, <2>1 DEF NetworkInv, Registry, Early
<1>12. Links'
  <2>1. \A a : IsTop(a)' = IsTop(a)
    BY DEF IsTop
  <2> QED
    BY <1>1, <1>3, <1>6, <2>1 DEF NetworkInv, Links, Joined, TheFrontend
<1>13. Leaving'
  <2>1. \A a \in DOMAIN agents : Past(a)
    BY <1>1 DEF Past
  <2>2. \A a \in forked : ~ Past(a)' /\ agents'[a].control = {}
    BY <1>1, <1>3, <1>4 DEF Past
  <2>3. \A a \in DOMAIN agents : commands'[a.gen] = commands[a.gen]
    BY <1>4, <1>7
  <2> QED
    <3>1. \A a \in DOMAIN agents :
             /\ agents[a].beat /\ agents[a].pc \in Joined
             /\ \A n \in agents[a].obeyed + 1 .. Len(commands'[a.gen]) :
                   commands'[a.gen][n] # "reinit"
             /\ \A p \in agents[a].control : p.run < run
      BY <2>1, <2>3 DEF NetworkInv, Leaving
    <3>2. run' = run
      BY <1>1
    <3> QED
      BY <1>6, <2>2, <3>1, <3>2 DEF Leaving
<1>14. Progress'
  BY <1>1, <1>3, <1>5, <1>7 DEF Progress, Ending
<1>15. Heartbeats'
  BY <1>1, <1>3, <1>5, <1>7 DEF Heartbeats, Up
<1>16. Coverage'
  <2>1. \A r \in 1 .. procs : Found(r)'
    <3> SUFFICES ASSUME NEW r \in 1 .. procs PROVE Found(r)'
      OBVIOUS
    <3>1. PICK q \in entries : q.rank = r
      BY <1>1 DEF IdMap
    <3>2. q.id \in UNION {agents'[a].ids : a \in Leaves'}
      BY <1>8, <3>1
    <3>3. PICK a \in Leaves' : q.id \in agents'[a].ids
      BY <3>2
    <3>4. q.id \in Nat /\ q.id < nextId
      BY <3>1 DEF NetworkInv, Registry, Known
    <3>5. ASSUME NEW p \in alive, p.id = q.id PROVE p.run = run /\ p.rank = r
      <4>1. p = q /\ p.run \in Nat /\ p.run <= run
        BY <3>1, <3>5 DEF NetworkInv, Registry, Known
      <4>2. ~ (p.run < run)
        BY <3>1, <3>5, <4>1 DEF NetworkInv, Registry, Known
      <4> QED
        BY <3>1, <4>1, <4>2 DEF NetworkInv, Stage
    <3> QED
      BY <1>1, <3>3, <3>4, <3>5 DEF Found
  <2> QED
    BY <1>1, <1>3, <1>5, <2>1 DEF Coverage
<1>17. Listed'
  <2>1. \A a : InRegistry(a)' <=> InRegistry(a)
    BY <1>1 DEF InRegistry
  <2>2. \A a \in forked : agents'[a].pc \in Absent
    BY <1>3 DEF Absent
  <2> QED
    BY <1>1, <1>3, <1>6, <2>1, <2>2 DEF NetworkInv, Listed
<1> QED
  BY <1>9, <1>10, <1>11, <1>12, <1>13, <1>14, <1>15, <1>16, <1>17 DEF NetworkInv

\* As many entries as processes, one of each rank: the ids are those of this run.
LEMMA TellReinitKeeps ==
    ASSUME NetworkInv, PollSucceeds, fe' = "reinit"
    PROVE  NetworkInv'
<1>1. /\ UNCHANGED <<opt, plan, procs, run, starting, alive, told, nextId, entries>>
      /\ UNCHANGED <<gen, agents, tagged>>
      /\ fe = "apprestart" /\ commands' = [commands EXCEPT ![gen] = Append(@, "reinit")]
      /\ idmap' = IdMap /\ heard' = FALSE /\ 1 .. procs \subseteq DOMAIN IdMap
  BY DEF PollSucceeds, appVars
<1>2. gen > 0
  BY <1>1 DEF NetworkInv, Stage
<1>3. /\ commands' \in Seq(Seq({"terminate", "quit", "reinit"})) /\ Len(commands') = gen
      /\ Given \in Nat /\ Given' = Given + 1 /\ commands'[gen][Given + 1] = "reinit"
      /\ \A n \in 1 .. Given : commands'[gen][n] = commands[gen][n]
  BY <1>1, <1>2, Appended DEF NetworkInv
<1>4. Stage'
  BY <1>1, <1>3 DEF NetworkInv, Stage, Early
<1>5. Registry'
  BY <1>1 DEF NetworkInv, Registry, Known, Early
<1>6. Tree' /\ Links' /\ Listed'
  BY <1>1, <1>2, SendTree, LinksSame, ListedSame DEF NetworkInv
<1>7. Leaving'
  BY <1>1, <1>2, SendLeaving DEF NetworkInv
<1>8. Agents' = Agents /\ Leaves' = Leaves
  BY <1>1 DEF Agents, Leaves
<1>9. /\ Given >= 1 /\ commands[gen][Given] # "reinit"
      /\ \A a \in Agents : /\ agents[a].pc \in Joined /\ agents[a].beat
                           /\ agents[a].obeyed \in 0 .. Given /\ agents[a].obeyed >= Given - 1
      /\ \A a \in Leaves : agents[a].pc = "connected" /\ agents[a].obeyed = Given
  <2>1. \A a \in Agents : agents[a].obeyed \in 0 .. Given
    BY DEF NetworkInv, Tree, Agents, Given
  <2> QED
    BY <1>1, <2>1 DEF NetworkInv, Progress
<1>10. Given' >= 2 /\ Given' - 1 = Given /\ Given' - 2 = Given - 1 /\ Given \in 1 .. Given
  BY <1>3, <1>9
<1>11. Progress'
  <2>1. gen' = gen /\ commands'[gen][Given'] = "reinit" /\ commands'[gen][Given' - 1] # "reinit"
    BY <1>1, <1>3, <1>9, <1>10
  <2>2. /\ \A a \in Agents : /\ agents'[a].pc \in Joined \cup {"failed"}
                             /\ agents'[a].obeyed >= Given' - 2
                             /\ agents'[a].pc = "leaving" => agents'[a].obeyed < Given'
        /\ \A a \in Leaves : /\ agents'[a].pc \in {"connected", "failed"}
                             /\ agents'[a].obeyed >= Given' - 1
    BY <1>1, <1>3, <1>9, <1>10
  <2> QED
    BY <1>8, <1>10, <2>1, <2>2 DEF Progress, Ending
<1>12. \A a \in Agents : agents'[a].obeyed # Given' /\ agents'[a].beat
  BY <1>1, <1>3, <1>9
<1>13. Heartbeats'
  BY <1>1, <1>8, <1>12 DEF Heartbeats, Up
<1>14. Coverage'
  <2>1. ASSUME NEW r \in 1 .. procs
        PROVE  /\ IdMap[r] \in Nat /\ IdMap[r] < nextId
               /\ \A p \in entries : p.id = IdMap[r] => p.rank = r
    <3>1. PICK q \in entries : q.rank = r
      BY <1>1 DEF IdMap
    <3>2. \A p \in entries : p.rank = r => p = q
      BY <1>1, <3>1 DEF NetworkInv, Registry, Known
    <3>3. {p.id : p \in {x \in entries : x.rank = r}} = {q.id}
      BY <3>1, <3>2
    <3>4. q.id \in Nat /\ q.id < nextId
      BY <3>1 DEF NetworkInv, Registry, Known
    <3>5. Max({q.id}) = q.id
      BY <3>4 DEF Max
    <3>6. IdMap[r] = q.id
      BY <3>1, <3>3, <3>5 DEF IdMap
    <3> QED
      BY <3>1, <3>4, <3>6 DEF NetworkInv, Registry, Known
  <2>2. /\ \A a \in Leaves : agents[a].ranks \subseteq 1 .. procs
        /\ \A r \in 1 .. procs : \E a \in Leaves : r \in agents[a].ranks
        /\ \A a, b \in Leaves : a # b => agents[a].ranks \cap agents[b].ranks = {}
    BY <1>1 DEF NetworkInv, Coverage
  <2>3. Leaves \subseteq Agents
    BY DEF Leaves
  <2> QED
    BY <1>1, <1>8, <1>12, <2>1, <2>2, <2>3 DEF Coverage
<1> QED
  BY <1>4, <1>5, <1>6, <1>7, <1>11, <1>13, <1>14 DEF NetworkInv

\* All steps of the frontend.
LEMMA FrontendKeeps ==
    ASSUME NetworkInv, FrontendStep \/ StartupTimesOut \/ Restart \/ Rebuild \/ Quit,
           gen' # gen => Sound'
    PROVE  NetworkInv'
<1>1. ASSUME PollSucceeds PROVE NetworkInv'
  <2>1. CASE fe' = "aborted"
    <3>1. UNCHANGED <<opt, plan, appVars>> /\ heard' \in BOOLEAN
      BY <1>1 DEF PollSucceeds
    <3>2. UNCHANGED agentVars
      BY <1>1, <2>1 DEF PollSucceeds
    <3> QED
      BY <2>1, <3>1, <3>2, AbortedKeeps
  <2>2. CASE fe' = "startup"
    <3>1. gen' = gen + 1 /\ gen \in Nat
      BY <1>1, <2>2 DEF PollSucceeds, NetworkInv, Stage
    <3> QED
      BY <1>1, <2>2, <3>1, ForkKeeps
  <2>3. CASE fe' = "reinit"
    BY <1>1, <2>3, TellReinitKeeps
  <2> QED
    BY <1>1, <2>1, <2>2, <2>3 DEF PollSucceeds
<1>2. ASSUME PollFails \/ StartupTimesOut PROVE NetworkInv'
  <2>1. fe' = "aborted" /\ UNCHANGED <<opt, plan, appVars, agentVars, heard>>
    BY <1>2 DEF PollFails, StartupTimesOut
  <2>2. heard' \in BOOLEAN
    BY <2>1 DEF NetworkInv, Stage
  <2> QED
    BY <2>1, <2>2, AbortedKeeps
<1>3. ASSUME Restart \/ Rebuild \/ Quit PROVE NetworkInv'
  BY <1>3, SendKeeps DEF Restart, Rebuild, Quit
<1> QED
  BY <1>1, <1>2, <1>3, StartupDoneKeeps, RestartApplicationKeeps, WaitForShutdownKeeps,
     StartAgainKeeps DEF FrontendStep

-----------------------------------------------------------------------------
(* An agent starts.                                                        *)

\* One agent takes a step, which changes nothing it was forked with but the port.
Moves(a) ==
    /\ a \in DOMAIN agents /\ DOMAIN agents' = DOMAIN agents
    /\ \A b \in DOMAIN agents : b # a => agents'[b] = agents[b]
    /\ DOMAIN agents'[a] = Fields
    /\ agents'[a].level = agents[a].level /\ agents'[a].ids = agents[a].ids
    /\ agents'[a].children = agents[a].children
    /\ AgentStep

\* What the step of one agent leaves alone.
LEMMA MoveFrame ==
    ASSUME NEW a, Moves(a), Tree
    PROVE  /\ UNCHANGED <<opt, plan, fe, procs, run, starting, alive, nextId, idmap, gen, commands>>
           /\ fe # "aborted" /\ Agents' = Agents /\ Leaves' = Leaves /\ Given' = Given
           /\ \A b : /\ IsTop(b)' = IsTop(b) /\ Parent(b)' = Parent(b) /\ Past(b)' = Past(b)
                     /\ TrueParent(b)' = TrueParent(b)
           /\ \A b \in DOMAIN agents : /\ DOMAIN agents'[b] = Fields
                                       /\ agents'[b].level = agents[b].level
                                       /\ agents'[b].ids = agents[b].ids
                                       /\ agents'[b].children = agents[b].children
<1>1. /\ UNCHANGED <<opt, plan, fe, procs, run, starting, alive, nextId, idmap, gen, commands>>
      /\ fe # "aborted"
  BY DEF Moves, AgentStep, Followed
<1>2. \A b \in DOMAIN agents : /\ DOMAIN agents'[b] = Fields
                               /\ agents'[b].level = agents[b].level
                               /\ agents'[b].ids = agents[b].ids
                               /\ agents'[b].children = agents[b].children
  BY DEF Moves, Tree
<1>3. DOMAIN agents' = DOMAIN agents
  BY DEF Moves
<1>4. Agents' = Agents
  BY <1>1, <1>3 DEF Agents
<1>5. Leaves' = Leaves
  BY <1>2, <1>4 DEF Leaves, Agents
<1> QED
  BY <1>1, <1>2, <1>4, <1>5 DEF Given, IsTop, Parent, Past, TrueParent, TheFrontend

\* It leaves the frontend where it is.
LEMMA MoveStage ==
    ASSUME NEW a, Moves(a), Tree, Stage, heard' \in BOOLEAN
    PROVE  Stage'
BY MoveFrame DEF Stage

\* The tree stays what it is.
LEMMA MoveTree ==
    ASSUME NEW a, Moves(a), Tree,
           agents'[a].pc \in Stages, agents'[a].beat \in BOOLEAN, agents'[a].port \in Nat \ {0},
           agents'[a].obeyed \in 0 .. Len(commands[a.gen]),
           agents'[a].heard \subseteq agents[a].children,
           agents'[a].pc \in {"releasing", "deleting"} => agents[a].level = 0
    PROVE  Tree'
<1>1. /\ UNCHANGED <<gen, commands>> /\ Leaves' = Leaves /\ DOMAIN agents' = DOMAIN agents
      /\ \A b : IsTop(b)' = IsTop(b) /\ Parent(b)' = Parent(b)
  BY MoveFrame DEF Moves
<1>2. \A b \in DOMAIN agents :
          /\ b.gen <= gen' /\ DOMAIN agents'[b] = Fields
          /\ agents'[b].pc \in Stages /\ agents'[b].beat \in BOOLEAN
          /\ agents'[b].port \in Nat \ {0}
          /\ agents'[b].obeyed \in 0 .. Len(commands'[b.gen])
          /\ agents'[b].heard \subseteq agents'[b].children
          /\ agents'[b].pc \in {"releasing", "deleting"} => agents'[b].level = 0
  <2> SUFFICES ASSUME NEW b \in DOMAIN agents
               PROVE  /\ b.gen <= gen' /\ DOMAIN agents'[b] = Fields
                      /\ agents'[b].pc \in Stages /\ agents'[b].beat \in BOOLEAN
                      /\ agents'[b].port \in Nat \ {0}
                      /\ agents'[b].obeyed \in 0 .. Len(commands'[b.gen])
                      /\ agents'[b].heard \subseteq agents'[b].children
                      /\ agents'[b].pc \in {"releasing", "deleting"} => agents'[b].level = 0
    OBVIOUS
  <2>1. CASE b = a
    BY <1>1, <2>1 DEF Moves, Tree
  <2>2. CASE b # a
    BY <1>1, <2>2 DEF Moves, Tree
  <2> QED
    BY <2>1, <2>2
<1>3. \A b \in DOMAIN agents' :
         IsTop(b) \/ (Parent(b) \in DOMAIN agents' /\ b.tag \in agents'[Parent(b)].children)
  BY <1>1, MoveFrame DEF Tree
<1>4. /\ \A b \in Leaves : IsFiniteSet(agents'[b].ids)
      /\ \A b, c \in Leaves : b # c => agents'[b].ids \cap agents'[c].ids = {}
  <2>1. \A b \in Leaves : agents'[b].ids = agents[b].ids
    BY MoveFrame DEF Leaves, Agents
  <2> QED
    BY <2>1 DEF Tree
<1> QED
  BY <1>1, <1>2, <1>3, <1>4 DEF Tree

\* So do the links, if the agent has its own right.
LEMMA MoveLinks ==
    ASSUME NEW a, Moves(a), Tree, Links,
           agents'[a].pc = "connecting" =>
              IF IsTop(a) THEN agents'[a].parent.port = 0
                          ELSE agents'[a].parent.port \in Nat \ {0},
           agents'[a].pc \in Joined => (agents'[a].peer = TheFrontend <=> IsTop(a))
    PROVE  Links'
<1>1. \A b \in DOMAIN agents :
          /\ agents'[b].pc = "connecting" =>
                IF IsTop(b) THEN agents'[b].parent.port = 0
                            ELSE agents'[b].parent.port \in Nat \ {0}
          /\ agents'[b].pc \in Joined => (agents'[b].peer = TheFrontend <=> IsTop(b))
  BY DEF Moves, Links
<1> QED
  BY <1>1, MoveFrame DEF Moves, Links, TheFrontend

\* A step between registering and leaving does not concern the registry.
LEMMA MoveListed ==
    ASSUME NEW a, Moves(a), Listed, tagged' = tagged,
           agents[a].pc \notin Absent \/ agents'[a].pc \in Absent
    PROVE  Listed'
<1>1. \A b : InRegistry(b)' <=> InRegistry(b)
  BY DEF InRegistry
<1>2. \A b \in DOMAIN agents : agents'[b].pc \notin Absent => InRegistry(b)
  BY DEF Moves, Listed
<1> QED
  BY <1>1, <1>2 DEF Moves, Listed

\* What is known of the processes of agents does not grow, nor the registry.
LEMMA MoveRegistry ==
    ASSUME NEW a, Moves(a), Tree, Registry, entries' \subseteq entries,
           told' \subseteq Known, agents'[a].control \subseteq Known,
           fe \in Early => \A p \in told' : p.run < run
    PROVE  Registry'
<1>1. UNCHANGED <<fe, procs, run, starting, alive, nextId>>
  BY MoveFrame
<1>2. Known' \subseteq Known
  BY <1>1 DEF Known, Moves
<1>3. IsFiniteSet(entries')
  BY FS_Subset DEF Registry
<1> QED
  BY <1>1, <1>2, <1>3 DEF Registry

\* An agent that has not connected yet: the frontend waits for it.
LEMMA StartingFacts ==
    ASSUME NetworkInv, NEW a \in DOMAIN agents, fe # "aborted",
           agents[a].pc \notin Joined \cup {"failed"}
    PROVE  /\ a \in Agents /\ ~ Past(a) /\ fe = "startup"
           /\ agents[a].beat = FALSE /\ agents[a].obeyed = 0 /\ Given = 0
<1>1. ~ Past(a)
  BY DEF NetworkInv, Leaving
<1>2. a \in Agents
  BY <1>1 DEF NetworkInv, Stage, Tree, AgentNames, Past, Agents
<1>3. fe = "startup"
  <2>1. fe \notin Ending \cup {"running", "apprestart", "reinit"}
    BY <1>2 DEF NetworkInv, Progress, Joined
  <2> QED
    BY <1>1, <2>1 DEF NetworkInv, Stage, Early, Past
<1>4. Given = 0 /\ agents[a].obeyed = 0
  BY <1>2, <1>3 DEF NetworkInv, Progress, Tree, Agents, Given
<1>5. ~ agents[a].beat /\ agents[a].beat \in BOOLEAN
  BY <1>2, <1>3, <1>4 DEF NetworkInv, Heartbeats, Up, Joined, Tree
<1>6. agents[a].beat = FALSE
  BY <1>5
<1> QED
  BY <1>1, <1>2, <1>3, <1>4, <1>6

\* What the steps up to the connection have in common.
LEMMA StartingKeeps ==
    ASSUME NetworkInv, NEW a, Moves(a), UNCHANGED <<told, entries, heard>>,
           agents[a].pc \notin Joined \cup {"failed"},
           agents'[a].pc \in {"registered", "attached", "connecting", "connected", "failed"},
           agents'[a].heard = agents[a].heard, agents'[a].beat = agents[a].beat,
           agents'[a].obeyed = agents[a].obeyed, agents'[a].port \in Nat \ {0},
           agents'[a].control \subseteq Known, Links', Listed',
           a \in Leaves /\ agents'[a].pc \notin {"registered", "failed"} =>
              /\ agents'[a].control \subseteq alive
              /\ \A p \in agents'[a].control : p.run = run
              /\ {p.rank : p \in agents'[a].control} = agents'[a].ranks
              /\ {p.id : p \in agents'[a].control} = agents[a].ids
    PROVE  NetworkInv'
<1>1. /\ UNCHANGED <<opt, plan, fe, procs, run, starting, alive, nextId, idmap, gen, commands>>
      /\ fe # "aborted" /\ Agents' = Agents /\ Leaves' = Leaves /\ Given' = Given
      /\ \A b : Past(b)' = Past(b)
  BY MoveFrame DEF NetworkInv
<1>2. /\ a \in Agents /\ ~ Past(a) /\ fe = "startup"
      /\ agents[a].beat = FALSE /\ agents[a].obeyed = 0 /\ Given = 0
  <2>1. a \in DOMAIN agents
    BY DEF Moves
  <2> QED
    BY <1>1, <2>1, StartingFacts
<1>3. /\ DOMAIN agents' = DOMAIN agents
      /\ \A b \in DOMAIN agents : b # a => agents'[b] = agents[b]
  BY DEF Moves
<1>4. Stage'
  <2>1. heard' \in BOOLEAN
    BY DEF NetworkInv, Stage
  <2> QED
    BY <2>1, MoveStage DEF NetworkInv
<1>5. Tree'
  <2>1. agents'[a].beat \in BOOLEAN
    BY <1>2
  <2>2. agents'[a].obeyed \in 0 .. Len(commands[a.gen])
    BY <1>2 DEF NetworkInv, Tree, Agents
  <2>3. agents'[a].heard \subseteq agents[a].children
    BY <1>2 DEF NetworkInv, Tree, Agents
  <2>4. agents'[a].pc \in Stages /\ agents'[a].pc \notin {"releasing", "deleting"}
    BY DEF Stages
  <2> QED
    BY <2>1, <2>2, <2>3, <2>4, MoveTree DEF NetworkInv
<1>6. Registry'
  <2>1. told' \subseteq Known /\ (fe \in Early => \A p \in told' : p.run < run)
    BY DEF NetworkInv, Registry, Known
  <2> QED
    BY <2>1, MoveRegistry DEF NetworkInv
<1>7. Leaving'
  <2>1. \A b \in DOMAIN agents : Past(b) => b # a
    BY <1>2
  <2> QED
    BY <1>1, <1>3, <2>1 DEF NetworkInv, Leaving
<1>8. Progress'
  <2>1. \A b \in Agents : agents'[b].pc \notin {"releasing", "deleting", "leaving", "gone"}
    BY <1>2, <1>3 DEF NetworkInv, Progress, Agents
  <2> QED
    BY <1>1, <1>2, <2>1 DEF Progress, Ending
<1>9. Heartbeats'
  <2>1. \A b : b \in Agents => b \in DOMAIN agents
    BY DEF Agents
  <2>2. \A b : Up(b) => b # a
    BY <1>2 DEF Up
  <2>3. ~ agents'[a].beat
    BY <1>2
  <2>4. \A b : Up(b)' <=> Up(b)
    BY <1>1, <1>2, <1>3, <2>1, <2>3 DEF Up
  <2>5. \A b \in Agents : agents'[b].heard = agents[b].heard /\ agents'[b].obeyed = agents[b].obeyed
    BY <1>3, <2>1
  <2>6. \A b : Up(b) => agents'[b] = agents[b]
    BY <1>3, <2>1, <2>2 DEF Up
  <2>7. \A b \in Agents : Up(b)' => /\ agents'[b].pc = "connected"
                                    /\ agents'[b].heard = agents'[b].children
    BY <1>2, <2>4, <2>6 DEF NetworkInv, Heartbeats
  <2>8. \A b \in Agents : agents'[b].obeyed = Given' =>
             \A t \in agents'[b].heard : \A c :
                c = [gen |-> gen', tag |-> t] => Up(c)' /\ agents'[c].peer = b
    BY <1>1, <1>2, <2>4, <2>5, <2>6 DEF NetworkInv, Heartbeats
  <2>9. \A b \in Agents : agents'[b].obeyed = Given'
    BY <1>1, <1>2, <2>5 DEF NetworkInv, Tree, Agents, Given
  <2>10. heard' => \E b \in Agents' : IsTop(b)' /\ Up(b)'
    BY <1>1, <1>2, <2>4 DEF NetworkInv, Heartbeats, IsTop
  <2> QED
    BY <1>1, <2>7, <2>8, <2>9, <2>10 DEF Heartbeats
<1>10. Coverage'
  <2>1. Leaves \subseteq DOMAIN agents
    BY DEF Leaves, Agents
  <2>2. \A b \in Leaves : agents'[b].pc \notin {"forked", "registered", "failed"} =>
           Controls(b)' /\ {p.id : p \in agents'[b].control} = agents'[b].ids
    <3> SUFFICES ASSUME NEW b \in Leaves,
                        agents'[b].pc \notin {"forked", "registered", "failed"}
                 PROVE  Controls(b)' /\ {p.id : p \in agents'[b].control} = agents'[b].ids
      OBVIOUS
    <3>1. CASE b = a
      BY <1>1, <3>1 DEF Controls, Moves
    <3>2. CASE b # a
      <4>1. agents'[b] = agents[b]
        BY <1>3, <2>1, <3>2
      <4>2. Controls(b) /\ {p.id : p \in agents[b].control} = agents[b].ids
        BY <1>2, <4>1 DEF NetworkInv, Coverage
      <4> QED
        BY <1>1, <4>1, <4>2 DEF Controls
    <3> QED
      BY <3>1, <3>2
  <2>3. \A r : Found(r) => Found(r)'
    <3>1. \A b \in Leaves : agents'[b].ids = agents[b].ids
      BY <2>1, MoveFrame DEF NetworkInv
    <3> QED
      BY <1>1, <3>1 DEF Found
  <2> QED
    BY <1>1, <1>2, <2>2, <2>3 DEF NetworkInv, Coverage
<1> QED
  BY <1>4, <1>5, <1>6, <1>7, <1>8, <1>9, <1>10 DEF NetworkInv

\* An agent registers under its tag, behind those that left their entries.
LEMMA RegisterKeeps ==
    ASSUME NetworkInv, NEW a \in DOMAIN agents, Register(a)
    PROVE  NetworkInv'
<1> DEFINE port == FreePort(agents[a].port)
           old  == Entries(a.tag)
           next == IF agents[a].level = 0 THEN "registered" ELSE "attached"
<1>1. /\ agents[a].pc = "forked"
      /\ agents' = [agents EXCEPT ![a].port = port, ![a].pc = next]
      /\ tagged' = [t \in DOMAIN tagged \cup {a.tag} |->
                       IF t = a.tag THEN Append(old, [port |-> port, owner |-> a]) ELSE tagged[t]]
      /\ UNCHANGED <<told, entries, heard>> /\ AgentStep
  BY DEF Register
<1>2. port \in Nat \ {0}
  BY FreePortFacts DEF NetworkInv, Tree
<1> HIDE DEF port
<1>3. /\ DOMAIN agents[a] = Fields /\ a \in AgentNames /\ a.tag \in Seq(Nat) \ {<<>>}
  BY DEF NetworkInv, Tree, AgentNames
<1>4. /\ agents'[a].port = port /\ agents'[a].pc = next
      /\ agents'[a].control = agents[a].control /\ agents'[a].ranks = agents[a].ranks
      /\ agents'[a].heard = agents[a].heard /\ agents'[a].beat = agents[a].beat
      /\ agents'[a].obeyed = agents[a].obeyed
      /\ DOMAIN agents'[a] = Fields /\ agents'[a].level = agents[a].level
      /\ agents'[a].ids = agents[a].ids /\ agents'[a].children = agents[a].children
  BY <1>1, <1>3 DEF Fields
<1>5. Moves(a)
  BY <1>1, <1>4 DEF Moves
<1>6. Links'
  BY <1>4, <1>5, MoveLinks DEF NetworkInv, Joined
<1>7. a \in Leaves => next = "registered"
  BY DEF Leaves
<1>8. agents'[a].control \subseteq Known
  BY <1>4 DEF Known
<1>9. next \in {"registered", "attached", "connecting", "connected", "failed"}
  OBVIOUS
<1> HIDE DEF next
<1>10. agents[a].pc \notin Joined \cup {"failed"}
  BY <1>1 DEF Joined
<1>11. Listed'
  <2> DEFINE new == [port |-> port, owner |-> a]
  <2>1. new \in Entry /\ new.owner = a
    BY <1>2, <1>3 DEF Entry
  <2>2. old \in Seq(Entry)
    BY EmptySeq DEF NetworkInv, Listed, Entries
  <2> HIDE DEF new
  <2>3. /\ Append(old, new) \in Seq(Entry) /\ Len(old) \in Nat
        /\ DOMAIN old = 1 .. Len(old) /\ DOMAIN Append(old, new) = 1 .. Len(old) + 1
        /\ Append(old, new)[Len(old) + 1] = new
        /\ \A i \in 1 .. Len(old) : Append(old, new)[i] = old[i]
    BY <2>1, <2>2, AppendProperties, LenProperties
  <2>4. /\ DOMAIN tagged' = DOMAIN tagged \cup {a.tag} /\ tagged'[a.tag] = Append(old, new)
        /\ \A t \in DOMAIN tagged : t # a.tag => tagged'[t] = tagged[t]
    BY <1>1 DEF new
  <2>5. a.tag \in DOMAIN tagged => old = tagged[a.tag]
    BY DEF Entries
  <2> HIDE DEF old
  <2>6. \A t \in DOMAIN tagged' : tagged'[t] \in Seq(Entry)
    BY <2>3, <2>4 DEF NetworkInv, Listed
  <2>7. InRegistry(a)'
    BY <2>1, <2>3, <2>4 DEF InRegistry
  <2>8. ASSUME NEW b, InRegistry(b) PROVE InRegistry(b)'
    <3>1. CASE b.tag = a.tag
      BY <2>3, <2>4, <2>5, <2>8, <3>1 DEF InRegistry
    <3>2. CASE b.tag # a.tag
      BY <2>4, <2>8, <3>2 DEF InRegistry
    <3> QED
      BY <3>1, <3>2
  <2>9. \A b \in DOMAIN agents' : agents'[b].pc \notin Absent => InRegistry(b)'
    BY <1>5, <2>7, <2>8 DEF Moves, NetworkInv, Listed
  <2> QED
    BY <2>6, <2>9 DEF Listed
<1> QED
  BY <1>1, <1>2, <1>4, <1>5, <1>6, <1>7, <1>8, <1>9, <1>10, <1>11, StartingKeeps

\* If as many processes are found as were given, they are those given.
LEMMA AttachKeeps ==
    ASSUME NetworkInv, NEW a \in DOMAIN agents, Attach(a)
    PROVE  NetworkInv'
<1> DEFINE found == Reachable(agents[a].ids)
<1>1. /\ agents[a].pc = "registered"
      /\ UNCHANGED <<told, entries, heard, tagged>> /\ AgentStep
      /\ \/ /\ Cardinality(found) = Cardinality(agents[a].ids)
            /\ agents' = [agents EXCEPT ![a].pc = "attached", ![a].control = found,
                                        ![a].ranks = {p.rank : p \in found}]
         \/ agents' = [agents EXCEPT ![a].pc = "failed"]
  BY DEF Attach
<1>2. DOMAIN agents[a] = Fields /\ agents[a].port \in Nat \ {0}
  BY DEF NetworkInv, Tree
<1>3. found \subseteq entries /\ found \subseteq alive /\ \A p \in found : p.id \in agents[a].ids
  BY DEF Reachable
<1>4. IsFiniteSet(found) /\ found \subseteq Known
  BY <1>3, FS_Subset DEF NetworkInv, Registry, Known
<1>5. \A p \in found : p.run = run
  BY <1>3 DEF NetworkInv, Registry, Known, Stage
<1>6. \A p, q \in found : p.id = q.id => p = q
  BY <1>4 DEF NetworkInv, Registry
<1> HIDE DEF found
<1>7. /\ agents'[a].port = agents[a].port /\ agents'[a].pc \in {"attached", "failed"}
      /\ agents'[a].heard = agents[a].heard /\ agents'[a].beat = agents[a].beat
      /\ agents'[a].obeyed = agents[a].obeyed
      /\ DOMAIN agents'[a] = Fields /\ agents'[a].level = agents[a].level
      /\ agents'[a].ids = agents[a].ids /\ agents'[a].children = agents[a].children
      /\ agents'[a].control = found \/ agents'[a].control = agents[a].control
      /\ agents'[a].pc = "attached" => /\ Cardinality(found) = Cardinality(agents[a].ids)
                                       /\ agents'[a].control = found
                                       /\ agents'[a].ranks = {p.rank : p \in found}
  <2>1. CASE /\ Cardinality(found) = Cardinality(agents[a].ids)
             /\ agents' = [agents EXCEPT ![a].pc = "attached", ![a].control = found,
                                         ![a].ranks = {p.rank : p \in found}]
    <3> DEFINE r == {p.rank : p \in found}
    <3>1. agents' = [agents EXCEPT ![a].pc = "attached", ![a].control = found, ![a].ranks = r]
      BY <2>1
    <3> HIDE DEF r
    <3>2. agents'[a].ranks = r /\ agents'[a].control = found /\ agents'[a].pc = "attached"
      BY <1>2, <3>1 DEF Fields
    <3>3. agents'[a].ranks = {p.rank : p \in found}
      BY <3>2 DEF r
    <3>4. /\ agents'[a].port = agents[a].port /\ agents'[a].heard = agents[a].heard
          /\ agents'[a].beat = agents[a].beat /\ agents'[a].obeyed = agents[a].obeyed
          /\ DOMAIN agents'[a] = Fields /\ agents'[a].level = agents[a].level
          /\ agents'[a].ids = agents[a].ids /\ agents'[a].children = agents[a].children
      BY <1>2, <3>1 DEF Fields
    <3>5. Cardinality(found) = Cardinality(agents[a].ids)
      BY <2>1
    <3> QED
      BY <3>2, <3>3, <3>4, <3>5
  <2>2. CASE agents' = [agents EXCEPT ![a].pc = "failed"]
    BY <1>2, <2>2 DEF Fields
  <2> QED
    BY <1>1, <2>1, <2>2
<1>8. Moves(a)
  BY <1>1, <1>7 DEF Moves
<1>9. Links' /\ Listed'
  BY <1>1, <1>7, <1>8, MoveLinks, MoveListed DEF NetworkInv, Joined, Absent
<1>10. agents'[a].control \subseteq Known
  BY <1>4, <1>7 DEF Known
<1>11. ASSUME a \in Leaves, agents'[a].pc = "attached"
       PROVE  {p.id : p \in found} = agents[a].ids
  <2>1. IsFiniteSet(agents[a].ids)
    BY <1>11 DEF NetworkInv, Tree
  <2> QED
    BY <1>3, <1>4, <1>6, <1>7, <1>11, <2>1, AllIdsFound
<1>12. agents[a].pc \notin Joined \cup {"failed"}
  BY <1>1 DEF Joined
<1>13. a \in Leaves /\ agents'[a].pc \notin {"registered", "failed"} =>
              /\ agents'[a].control \subseteq alive
              /\ \A p \in agents'[a].control : p.run = run
              /\ {p.rank : p \in agents'[a].control} = agents'[a].ranks
              /\ {p.id : p \in agents'[a].control} = agents[a].ids
  BY <1>3, <1>5, <1>7, <1>11
<1> QED
  BY <1>1, <1>2, <1>7, <1>8, <1>9, <1>10, <1>12, <1>13, StartingKeeps

\* What an agent does on the way from its processes to its parent.
LEMMA ApproachKeeps ==
    ASSUME NetworkInv, NEW a \in DOMAIN agents, agents[a].pc \in {"attached", "connecting"},
           UNCHANGED <<told, entries, heard, tagged>>, Moves(a),
           agents'[a].pc \in {"connecting", "connected", "failed"},
           agents'[a].port = agents[a].port, agents'[a].heard = agents[a].heard,
           agents'[a].beat = agents[a].beat, agents'[a].obeyed = agents[a].obeyed,
           agents'[a].control = agents[a].control, agents'[a].ranks = agents[a].ranks,
           agents'[a].pc = "connecting" =>
              IF IsTop(a) THEN agents'[a].parent.port = 0 ELSE agents'[a].parent.port \in Nat \ {0},
           agents'[a].pc = "connected" => (agents'[a].peer = TheFrontend <=> IsTop(a))
    PROVE  NetworkInv'
<1>1. agents'[a].port \in Nat \ {0}
  BY DEF NetworkInv, Tree
<1>2. agents'[a].pc \in Joined => agents'[a].pc = "connected"
  BY DEF Joined
<1>3. Links' /\ Listed'
  BY <1>2, MoveLinks, MoveListed DEF NetworkInv, Absent
<1>4. agents'[a].control \subseteq Known
  BY DEF Known
<1>5. agents[a].pc \notin Joined \cup {"failed"}
  BY DEF Joined
<1>6. fe = "startup"
  BY <1>5, StartingFacts DEF Moves, AgentStep, Followed
<1>7. a \in Leaves => /\ agents[a].control \subseteq alive
                      /\ \A p \in agents[a].control : p.run = run
                      /\ {p.rank : p \in agents[a].control} = agents[a].ranks
                      /\ {p.id : p \in agents[a].control} = agents[a].ids
  BY <1>6 DEF NetworkInv, Coverage, Controls
<1> QED
  BY <1>1, <1>3, <1>4, <1>5, <1>7, StartingKeeps

\* The fields such a step leaves alone.
LEMMA ApproachMoves ==
    ASSUME Tree, NEW a \in DOMAIN agents, AgentStep, NEW x,
           agents' = [agents EXCEPT ![a] = x], DOMAIN x = Fields,
           \A f \in Fields \ {"pc", "parent", "peer"} : x[f] = agents[a][f]
    PROVE  /\ Moves(a) /\ agents'[a] = x
           /\ agents'[a].port = agents[a].port /\ agents'[a].heard = agents[a].heard
           /\ agents'[a].beat = agents[a].beat /\ agents'[a].obeyed = agents[a].obeyed
           /\ agents'[a].control = agents[a].control /\ agents'[a].ranks = agents[a].ranks
<1>1. agents'[a] = x
  OBVIOUS
<1>2. /\ x.port = agents[a].port /\ x.heard = agents[a].heard
      /\ x.beat = agents[a].beat /\ x.obeyed = agents[a].obeyed
      /\ x.control = agents[a].control /\ x.ranks = agents[a].ranks
      /\ x.level = agents[a].level /\ x.ids = agents[a].ids /\ x.children = agents[a].children
  BY DEF Fields
<1>3. Moves(a)
  BY <1>1, <1>2 DEF Moves
<1> QED
  BY <1>1, <1>2, <1>3

\* An agent looks its parent up, if it is not the top.
LEMMA FindParentKeeps ==
    ASSUME NetworkInv, NEW a \in DOMAIN agents, FindParent(a)
    PROVE  NetworkInv'
<1>1. agents[a].pc = "attached" /\ UNCHANGED <<told, entries, heard, tagged>> /\ AgentStep
  BY DEF FindParent
<1>2. DOMAIN agents[a] = Fields /\ Tree
  BY DEF NetworkInv, Tree
<1>3. ASSUME NEW parent, agents' = [agents EXCEPT ![a].pc = "connecting", ![a].parent = parent],
             IF IsTop(a) THEN parent.port = 0 ELSE parent.port \in Nat \ {0}
      PROVE  NetworkInv'
  <2> DEFINE x == [agents[a] EXCEPT !.pc = "connecting", !.parent = parent]
  <2>1. agents' = [agents EXCEPT ![a] = x]
    BY <1>3
  <2>2. /\ DOMAIN x = Fields /\ x.pc = "connecting" /\ x.parent = parent
        /\ \A f \in Fields \ {"pc", "parent", "peer"} : x[f] = agents[a][f]
    BY <1>2 DEF Fields
  <2> HIDE DEF x
  <2> QED
    BY <1>1, <1>2, <1>3, <2>1, <2>2, ApproachMoves, ApproachKeeps
<1>4. CASE agents' = [agents EXCEPT ![a].pc = "failed"]
  <2> DEFINE x == [agents[a] EXCEPT !.pc = "failed"]
  <2>1. agents' = [agents EXCEPT ![a] = x]
    BY <1>4
  <2>2. /\ DOMAIN x = Fields /\ x.pc = "failed"
        /\ \A f \in Fields \ {"pc", "parent", "peer"} : x[f] = agents[a][f]
    BY <1>2 DEF Fields
  <2> HIDE DEF x
  <2> QED
    BY <1>1, <1>2, <2>1, <2>2, ApproachMoves, ApproachKeeps
<1>5. CASE /\ IsTop(a)
           /\ agents' = [agents EXCEPT ![a].pc = "connecting",
                                       ![a].parent = [port |-> 0, owner |-> TheFrontend]]
  <2>1. [port |-> 0, owner |-> TheFrontend].port = 0
    OBVIOUS
  <2> QED
    BY <1>3, <1>5, <2>1
<1>6. CASE /\ ~ IsTop(a) /\ Entries(ParentTag(a.tag)) # <<>>
           /\ agents' = [agents EXCEPT ![a].pc = "connecting",
                                       ![a].parent = Head(Entries(ParentTag(a.tag)))]
  <2>1. Entries(ParentTag(a.tag)) \in Seq(Entry)
    BY EmptySeq DEF NetworkInv, Listed, Entries
  <2>2. Head(Entries(ParentTag(a.tag))) \in Entry
    BY <1>6, <2>1, HeadTailProperties
  <2>3. Head(Entries(ParentTag(a.tag))).port \in Nat \ {0}
    BY <2>2 DEF Entry
  <2> QED
    BY <1>3, <1>6, <2>3
<1> QED
  BY <1>4, <1>5, <1>6 DEF FindParent

\* Only the top finds the frontend on its port.
LEMMA ConnectKeeps ==
    ASSUME NetworkInv, NEW a \in DOMAIN agents, Connect(a)
    PROVE  NetworkInv'
<1>1. agents[a].pc = "connecting" /\ UNCHANGED <<told, entries, heard, tagged>> /\ AgentStep
  BY DEF Connect
<1>2. PICK peer \in Listening \cup {TheFrontend} :
         /\ agents[a].parent.port = IF peer = TheFrontend THEN 0 ELSE agents[peer].port
         /\ agents' = [agents EXCEPT ![a].pc = "connected", ![a].peer = peer]
  BY DEF Connect
<1>3. peer = TheFrontend <=> IsTop(a)
  <2>1. IF IsTop(a) THEN agents[a].parent.port = 0 ELSE agents[a].parent.port \in Nat \ {0}
    BY <1>1 DEF NetworkInv, Links
  <2>2. peer # TheFrontend => agents[peer].port \in Nat \ {0}
    BY DEF Listening, NetworkInv, Tree
  <2> QED
    BY <1>2, <2>1, <2>2
<1> DEFINE x == [agents[a] EXCEPT !.pc = "connected", !.peer = peer]
<1>4. DOMAIN agents[a] = Fields /\ Tree
  BY DEF NetworkInv, Tree
<1>5. agents' = [agents EXCEPT ![a] = x]
  BY <1>2
<1>6. /\ DOMAIN x = Fields /\ x.pc = "connected" /\ x.peer = peer
      /\ \A f \in Fields \ {"pc", "parent", "peer"} : x[f] = agents[a][f]
  BY <1>4 DEF Fields
<1> HIDE DEF x
<1> QED
  BY <1>1, <1>3, <1>4, <1>5, <1>6, ApproachMoves, ApproachKeeps

\* An agent that gives up sends no heartbeat.
LEMMA GiveUpConnectingKeeps ==
    ASSUME NetworkInv, NEW a \in DOMAIN agents, GiveUpConnecting(a)
    PROVE  NetworkInv'
<1>1. /\ agents[a].pc = "connecting" /\ UNCHANGED <<told, entries, heard, tagged>> /\ AgentStep
      /\ agents' = [agents EXCEPT ![a].pc = "failed"]
  BY DEF GiveUpConnecting
<1> DEFINE x == [agents[a] EXCEPT !.pc = "failed"]
<1>2. DOMAIN agents[a] = Fields /\ Tree
  BY DEF NetworkInv, Tree
<1>3. agents' = [agents EXCEPT ![a] = x]
  BY <1>1
<1>4. /\ DOMAIN x = Fields /\ x.pc = "failed"
      /\ \A f \in Fields \ {"pc", "parent", "peer"} : x[f] = agents[a][f]
  BY <1>2 DEF Fields
<1> HIDE DEF x
<1> QED
  BY <1>1, <1>2, <1>3, <1>4, ApproachMoves, ApproachKeeps

-----------------------------------------------------------------------------
(* An agent sends its heartbeat.                                           *)

\* The fields a heartbeat leaves alone.
Carried == Fields \ {"beat", "heard"}

\* They are these.
LEMMA CarriedFacts ==
    ASSUME NEW r, NEW q, \A f \in Carried : q[f] = r[f]
    PROVE  /\ q.pc = r.pc /\ q.level = r.level /\ q.port = r.port /\ q.ids = r.ids
           /\ q.children = r.children /\ q.control = r.control /\ q.ranks = r.ranks
           /\ q.parent = r.parent /\ q.peer = r.peer /\ q.obeyed = r.obeyed
BY DEF Carried, Fields

\* The heartbeat of a is noted by its peer, if that lists it.
Noted(a) ==
    /\ DOMAIN agents' = DOMAIN agents
    /\ \A b \in DOMAIN agents :
          /\ DOMAIN agents'[b] = Fields
          /\ \A f \in Carried : agents'[b][f] = agents[b][f]
          /\ agents'[b].beat = IF b = a THEN TRUE ELSE agents[b].beat
          /\ \/ agents'[b].heard = agents[b].heard
             \/ /\ b = agents[a].peer /\ a.tag \in agents[b].children
                /\ agents'[b].heard = agents[b].heard \cup {a.tag}
    /\ heard' = heard \/ (agents[a].peer = TheFrontend /\ heard' = TRUE)

\* That is what a heartbeat does.
LEMMA HeartbeatNoted ==
    ASSUME Tree, NEW a \in DOMAIN agents, Heartbeat(a)
    PROVE  Noted(a)
<1>1. \A b \in DOMAIN agents : DOMAIN agents[b] = Fields
  BY DEF Tree
<1>2. CASE /\ agents[a].peer = TheFrontend /\ heard' = TRUE
           /\ agents' = [agents EXCEPT ![a].beat = TRUE]
  <2>1. \A b \in DOMAIN agents : /\ DOMAIN agents'[b] = Fields
                                 /\ \A f \in Carried : agents'[b][f] = agents[b][f]
                                 /\ agents'[b].beat = IF b = a THEN TRUE ELSE agents[b].beat
                                 /\ agents'[b].heard = agents[b].heard
    <3> SUFFICES ASSUME NEW b \in DOMAIN agents
                 PROVE  /\ DOMAIN agents'[b] = Fields
                        /\ \A f \in Carried : agents'[b][f] = agents[b][f]
                        /\ agents'[b].beat = IF b = a THEN TRUE ELSE agents[b].beat
                        /\ agents'[b].heard = agents[b].heard
      OBVIOUS
    <3>1. CASE b = a
      <4>1. agents'[b] = [agents[b] EXCEPT !.beat = TRUE]
        BY <1>2, <3>1
      <4> QED
        BY <1>1, <3>1, <4>1 DEF Carried, Fields
    <3>2. CASE b # a
      <4>1. agents'[b] = agents[b]
        BY <1>2, <3>2
      <4> QED
        BY <1>1, <3>2, <4>1
    <3> QED
      BY <3>1, <3>2
  <2>2. DOMAIN agents' = DOMAIN agents
    BY <1>2
  <2> QED
    BY <1>2, <2>1, <2>2 DEF Noted
<1>3. CASE /\ UNCHANGED heard
           /\ agents' = [b \in DOMAIN agents |->
                 [agents[b] EXCEPT !.beat = IF b = a THEN TRUE ELSE @,
                                   !.heard = IF b = agents[a].peer /\ Lists(agents[a].peer, a.tag)
                                             THEN @ \cup {a.tag} ELSE @]]
  <2>1. \A b \in DOMAIN agents :
          /\ DOMAIN agents'[b] = Fields
          /\ \A f \in Carried : agents'[b][f] = agents[b][f]
          /\ agents'[b].beat = IF b = a THEN TRUE ELSE agents[b].beat
          /\ \/ agents'[b].heard = agents[b].heard
             \/ /\ b = agents[a].peer /\ a.tag \in agents[b].children
                /\ agents'[b].heard = agents[b].heard \cup {a.tag}
    <3> SUFFICES ASSUME NEW b \in DOMAIN agents
                 PROVE  /\ DOMAIN agents'[b] = Fields
                        /\ \A f \in Carried : agents'[b][f] = agents[b][f]
                        /\ agents'[b].beat = IF b = a THEN TRUE ELSE agents[b].beat
                        /\ \/ agents'[b].heard = agents[b].heard
                           \/ /\ b = agents[a].peer /\ a.tag \in agents[b].children
                              /\ agents'[b].heard = agents[b].heard \cup {a.tag}
      OBVIOUS
    <3> DEFINE h == IF b = agents[a].peer /\ Lists(agents[a].peer, a.tag)
                    THEN agents[b].heard \cup {a.tag} ELSE agents[b].heard
               t == IF b = a THEN TRUE ELSE agents[b].beat
    <3>1. agents'[b] = [agents[b] EXCEPT !.beat = t, !.heard = h]
      BY <1>3
    <3>2. \/ h = agents[b].heard
          \/ /\ b = agents[a].peer /\ a.tag \in agents[b].children
             /\ h = agents[b].heard \cup {a.tag}
      BY DEF Lists
    <3>3. t = IF b = a THEN TRUE ELSE agents[b].beat
      OBVIOUS
    <3> HIDE DEF h, t
    <3>4. /\ DOMAIN agents'[b] = Fields /\ agents'[b].beat = t /\ agents'[b].heard = h
          /\ \A f \in Carried : agents'[b][f] = agents[b][f]
      BY <1>1, <3>1 DEF Carried, Fields
    <3> QED
      BY <3>2, <3>3, <3>4
  <2>2. DOMAIN agents' = DOMAIN agents
    BY <1>3
  <2> QED
    BY <1>3, <2>1, <2>2 DEF Noted
<1> QED
  BY <1>2, <1>3 DEF Heartbeat

\* A heartbeat is noted only if it is awaited: the agents of an earlier hierarchy
\* have sent theirs, and those below who is asked to rejoin rejoin after it.
LEMMA HeartbeatKeeps ==
    ASSUME NetworkInv, NEW a \in DOMAIN agents, Heartbeat(a)
    PROVE  NetworkInv'
<1>1. /\ agents[a].pc = "connected" /\ ~ agents[a].beat /\ agents[a].heard = agents[a].children
      /\ UNCHANGED <<told, entries, tagged>> /\ fe # "aborted"
      /\ UNCHANGED <<opt, plan, fe, procs, run, starting, alive, nextId, idmap, gen, commands>>
  BY DEF Heartbeat, AgentStep, Followed
<1>2. Noted(a)
  BY HeartbeatNoted DEF NetworkInv
<1>3. \A b \in DOMAIN agents :
          /\ DOMAIN agents'[b] = Fields
          /\ agents'[b].pc = agents[b].pc /\ agents'[b].level = agents[b].level
          /\ agents'[b].port = agents[b].port /\ agents'[b].ids = agents[b].ids
          /\ agents'[b].children = agents[b].children /\ agents'[b].control = agents[b].control
          /\ agents'[b].ranks = agents[b].ranks /\ agents'[b].parent = agents[b].parent
          /\ agents'[b].peer = agents[b].peer /\ agents'[b].obeyed = agents[b].obeyed
  <2> SUFFICES ASSUME NEW b \in DOMAIN agents
               PROVE  /\ DOMAIN agents'[b] = Fields
                      /\ agents'[b].pc = agents[b].pc /\ agents'[b].level = agents[b].level
                      /\ agents'[b].port = agents[b].port /\ agents'[b].ids = agents[b].ids
                      /\ agents'[b].children = agents[b].children
                      /\ agents'[b].control = agents[b].control
                      /\ agents'[b].ranks = agents[b].ranks /\ agents'[b].parent = agents[b].parent
                      /\ agents'[b].peer = agents[b].peer /\ agents'[b].obeyed = agents[b].obeyed
    OBVIOUS
  <2>1. DOMAIN agents'[b] = Fields /\ \A f \in Carried : agents'[b][f] = agents[b][f]
    BY <1>2 DEF Noted
  <2> DEFINE q == agents'[b]
             r == agents[b]
  <2>2. DOMAIN q = Fields /\ \A f \in Carried : q[f] = r[f]
    BY <2>1
  <2>3. /\ q.pc = r.pc /\ q.level = r.level /\ q.port = r.port /\ q.ids = r.ids
        /\ q.children = r.children /\ q.control = r.control /\ q.ranks = r.ranks
        /\ q.parent = r.parent /\ q.peer = r.peer /\ q.obeyed = r.obeyed
    <3> HIDE DEF q, r
    <3> QED
      BY <2>2, CarriedFacts
  <2> QED
    BY <2>2, <2>3
<1>4. /\ DOMAIN agents' = DOMAIN agents
      /\ agents'[a].beat = TRUE /\ \A b \in DOMAIN agents : b # a => agents'[b].beat = agents[b].beat
      /\ \A b \in DOMAIN agents :
            \/ agents'[b].heard = agents[b].heard
            \/ /\ b = agents[a].peer /\ a.tag \in agents[b].children
               /\ agents'[b].heard = agents[b].heard \cup {a.tag}
      /\ heard' = heard \/ (agents[a].peer = TheFrontend /\ heard' = TRUE)
  BY <1>2 DEF Noted
<1>5. Agents' = Agents /\ Leaves' = Leaves /\ Given' = Given
  <2>1. Agents' = Agents
    BY <1>1, <1>4 DEF Agents
  <2> QED
    BY <1>1, <1>3, <2>1 DEF Leaves, Given, Agents
<1>6. \A b : /\ IsTop(b)' = IsTop(b) /\ Parent(b)' = Parent(b) /\ Past(b)' = Past(b)
             /\ TrueParent(b)' = TrueParent(b)
  BY <1>1 DEF IsTop, Parent, Past, TrueParent, TheFrontend
<1>7. a \in Agents /\ ~ Past(a)
  <2>1. ~ Past(a)
    BY <1>1 DEF NetworkInv, Leaving
  <2> QED
    BY <2>1 DEF NetworkInv, Stage, Tree, AgentNames, Past, Agents
<1>8. fe \in {"startup", "reinit"}
  <2>1. fe \notin Ending \cup {"running", "apprestart"}
    BY <1>1, <1>7 DEF NetworkInv, Progress
  <2> QED
    BY <1>1, <1>7, <2>1 DEF NetworkInv, Stage, Early, Past
<1>9. agents[a].obeyed = Given
  BY <1>1, <1>7, <1>8 DEF NetworkInv, Heartbeats
<1>10. Stage'
  <2>1. heard' \in BOOLEAN
    BY <1>4 DEF NetworkInv, Stage
  <2> QED
    BY <1>1, <2>1 DEF NetworkInv, Stage
<1>11. Tree'
  <2>1. \A b \in DOMAIN agents : agents'[b].beat \in BOOLEAN
    BY <1>4 DEF NetworkInv, Tree
  <2>2. \A b \in DOMAIN agents : agents'[b].heard \subseteq agents[b].children
    BY <1>4 DEF NetworkInv, Tree
  <2>3. \A b \in DOMAIN agents' :
          /\ b.gen <= gen' /\ DOMAIN agents'[b] = Fields
          /\ agents'[b].pc \in Stages /\ agents'[b].port \in Nat \ {0}
          /\ agents'[b].obeyed \in 0 .. Len(commands'[b.gen])
          /\ agents'[b].pc \in {"releasing", "deleting"} => agents'[b].level = 0
    BY <1>1, <1>3, <1>4 DEF NetworkInv, Tree
  <2>4. \A b \in DOMAIN agents' :
          IsTop(b) \/ (Parent(b) \in DOMAIN agents' /\ b.tag \in agents'[Parent(b)].children)
    BY <1>3, <1>4 DEF NetworkInv, Tree
  <2>5. /\ \A b \in Leaves : IsFiniteSet(agents'[b].ids)
        /\ \A b, c \in Leaves : b # c => agents'[b].ids \cap agents'[c].ids = {}
    <3>1. \A b \in Leaves : agents'[b].ids = agents[b].ids
      BY <1>3 DEF Leaves, Agents
    <3> QED
      BY <3>1 DEF NetworkInv, Tree
  <2>6. IsFiniteSet(DOMAIN agents') /\ DOMAIN agents' \subseteq AgentNames
    BY <1>4 DEF NetworkInv, Tree
  <2> QED
    BY <1>3, <1>4, <1>5, <1>6, <2>1, <2>2, <2>3, <2>4, <2>5, <2>6 DEF Tree
<1>12. Registry'
  <2>1. Known' = Known
    BY <1>1, <1>3, <1>4 DEF Known
  <2> QED
    BY <1>1, <2>1 DEF NetworkInv, Registry
<1>13. Links'
  <2>1. TheFrontend' = TheFrontend
    BY DEF TheFrontend
  <2>2. \A b \in DOMAIN agents' :
          /\ agents'[b].pc = agents[b].pc /\ agents'[b].parent = agents[b].parent
          /\ agents'[b].peer = agents[b].peer
    BY <1>3, <1>4
  <2>3. \A b \in DOMAIN agents' :
          /\ agents'[b].pc = "connecting" =>
                IF IsTop(b) THEN agents'[b].parent.port = 0
                            ELSE agents'[b].parent.port \in Nat \ {0}
          /\ agents'[b].pc \in Joined => (agents'[b].peer = TheFrontend <=> IsTop(b))
    BY <1>4, <2>2 DEF NetworkInv, Links
  <2> HIDE DEF TheFrontend
  <2> QED
    BY <1>4, <1>6, <2>1, <2>3 DEF Links
<1>14. Leaving'
  <2>1. \A b \in DOMAIN agents : Past(b) => b # a
    BY <1>7
  <2> QED
    BY <1>1, <1>3, <1>4, <1>6, <2>1 DEF NetworkInv, Leaving
<1>15. Progress'
  <2>1. \A b \in Agents : agents'[b].pc = agents[b].pc /\ agents'[b].obeyed = agents[b].obeyed
    BY <1>3 DEF Agents
  <2>2. Leaves \subseteq Agents
    BY DEF Leaves
  <2> QED
    BY <1>1, <1>5, <1>8, <2>1, <2>2 DEF NetworkInv, Progress, Ending
<1>16. Heartbeats'
  <2>1. \A b : b \in Agents => b \in DOMAIN agents /\ agents'[b].obeyed = agents[b].obeyed
    BY <1>3 DEF Agents
  <2>2. \A b : Up(b) => Up(b)'
    BY <1>4, <1>5, <2>1 DEF Up
  <2>3. \A b : Up(b)' => Up(b) \/ b = a
    BY <1>4, <1>5, <2>1 DEF Up
  <2>4. Up(a)'
    BY <1>4, <1>5, <1>7, <1>9, <2>1 DEF Up
  <2>5. \A b \in Agents : Up(b)' => /\ agents'[b].pc = "connected"
                                    /\ agents'[b].heard = agents'[b].children
    <3> SUFFICES ASSUME NEW b \in Agents, Up(b)'
                 PROVE  agents'[b].pc = "connected" /\ agents'[b].heard = agents'[b].children
      OBVIOUS
    <3>1. agents[b].pc = "connected" /\ agents[b].heard = agents[b].children
      BY <1>1, <1>8, <2>3 DEF NetworkInv, Heartbeats
    <3>2. agents'[b].pc = "connected" /\ agents'[b].children = agents[b].children
      BY <1>3, <2>1, <3>1
    <3>3. agents'[b].heard = agents[b].heard
      BY <1>4, <2>1, <3>1
    <3> QED
      BY <3>1, <3>2, <3>3
  <2>6. ASSUME NEW b \in Agents, agents'[b].obeyed = Given', NEW t \in agents'[b].heard,
               NEW c, c = [gen |-> gen', tag |-> t]
        PROVE  Up(c)' /\ agents'[c].peer = b
    <3>1. agents[b].obeyed = Given
      BY <1>5, <2>1, <2>6
    <3>2. CASE t \in agents[b].heard
      <4>1. Up(c) /\ agents[c].peer = b
        BY <1>1, <1>8, <2>6, <3>1, <3>2 DEF NetworkInv, Heartbeats
      <4>2. c \in DOMAIN agents
        BY <2>1, <4>1 DEF Up
      <4> QED
        BY <1>3, <2>2, <4>1, <4>2
    <3>3. CASE t \notin agents[b].heard
      <4>1. t = a.tag /\ b = agents[a].peer
        BY <1>4, <2>1, <2>6, <3>3
      <4>2. c = a
        BY <1>1, <1>7, <2>6, <4>1 DEF NetworkInv, Tree, AgentNames, Agents
      <4> QED
        BY <1>3, <2>4, <4>1, <4>2
    <3> QED
      BY <3>2, <3>3
  <2>7. \A b \in Agents : ~ agents'[b].beat => agents'[b].obeyed = Given'
    <3> SUFFICES ASSUME NEW b \in Agents, ~ agents'[b].beat PROVE agents'[b].obeyed = Given'
      OBVIOUS
    <3>1. ~ agents[b].beat
      BY <1>4, <2>1
    <3> QED
      BY <1>5, <1>8, <2>1, <3>1 DEF NetworkInv, Heartbeats
  <2>8. heard' => \E b \in Agents : IsTop(b) /\ Up(b)'
    <3>1. CASE heard' = heard
      BY <1>8, <2>2, <3>1 DEF NetworkInv, Heartbeats
    <3>2. CASE agents[a].peer = TheFrontend
      <4>1. IsTop(a)
        BY <1>1, <3>2 DEF NetworkInv, Links, Joined
      <4> QED
        BY <1>7, <2>4, <4>1
    <3> QED
      BY <1>4, <3>1, <3>2
  <2> QED
    BY <1>5, <1>6, <2>5, <2>6, <2>7, <2>8 DEF Heartbeats
<1>17. Coverage'
  <2>1. \A b \in Leaves : /\ agents'[b].ids = agents[b].ids /\ agents'[b].pc = agents[b].pc
                          /\ agents'[b].control = agents[b].control
                          /\ agents'[b].ranks = agents[b].ranks
                          /\ agents'[b].obeyed = agents[b].obeyed
    BY <1>3 DEF Leaves, Agents
  <2>2. \A b \in Leaves : Controls(b)' <=> Controls(b)
    BY <1>1, <2>1 DEF Controls
  <2>3. \A r : Found(r)' <=> Found(r)
    BY <1>1, <1>5, <2>1 DEF Found
  <2> QED
    BY <1>1, <1>5, <2>1, <2>2, <2>3 DEF NetworkInv, Coverage
<1>18. Listed'
  <2>1. \A b : InRegistry(b)' <=> InRegistry(b)
    BY <1>1 DEF InRegistry
  <2> QED
    BY <1>1, <1>3, <1>4, <2>1 DEF NetworkInv, Listed
<1> QED
  BY <1>10, <1>11, <1>12, <1>13, <1>14, <1>15, <1>16, <1>17, <1>18 DEF NetworkInv

-----------------------------------------------------------------------------
(* An agent obeys.                                                         *)

\* The commands an agent receives are those of its hierarchy, in their order.
LEMMA ReceivedFacts ==
    ASSUME NetworkInv, NEW a \in DOMAIN agents, Received(a) # "none"
    PROVE  /\ agents[a].pc = "connected" /\ a.gen \in Nat /\ a.gen <= gen
           /\ agents[a].obeyed \in Nat /\ Len(commands[a.gen]) \in Nat
           /\ agents[a].obeyed + 1 <= Len(commands[a.gen])
           /\ Received(a) = commands[a.gen][agents[a].obeyed + 1]
<1> DEFINE given == IF IsTop(a) THEN Len(commands[a.gen]) ELSE agents[Parent(a)].obeyed
<1>1. /\ agents[a].pc = "connected" /\ agents[a].obeyed + 1 <= given
      /\ Received(a) = commands[a.gen][agents[a].obeyed + 1]
  BY DEF Received
<1>2. a.gen \in 1 .. gen /\ gen \in Nat /\ agents[a].obeyed \in 0 .. Len(commands[a.gen])
  BY DEF NetworkInv, Stage, Tree, AgentNames
<1>3. Len(commands[a.gen]) \in Nat
  <2>1. commands[a.gen] \in Seq({"terminate", "quit", "reinit"})
    BY <1>2, ElementOfSeq DEF NetworkInv, Stage
  <2> QED
    BY <2>1, LenProperties
<1>4. given <= Len(commands[a.gen]) /\ given \in Nat
  <2>1. CASE IsTop(a)
    BY <1>3, <2>1
  <2>2. CASE ~ IsTop(a)
    <3>1. Parent(a) \in DOMAIN agents
      BY <2>2 DEF NetworkInv, Tree
    <3>2. agents[Parent(a)].obeyed \in 0 .. Len(commands[Parent(a).gen])
      BY <3>1 DEF NetworkInv, Tree
    <3>3. Parent(a).gen = a.gen
      BY DEF Parent
    <3> QED
      BY <1>3, <2>2, <3>2, <3>3
  <2> QED
    BY <2>1, <2>2
<1> HIDE DEF given
<1> QED
  BY <1>1, <1>2, <1>3, <1>4

\* The processes of an agent are told and their entries deleted, or it has
\* nothing to release.  Whoever does so obeys the frontend, or an earlier one
\* of its commands.
LEMMA ObeyingKeeps ==
    ASSUME NetworkInv, NEW a, Moves(a), UNCHANGED heard, Listed', entries' \subseteq entries,
           told' \subseteq Known, fe \in Early => \A p \in told' : p.run < run,
           agents[a].pc \in Joined, agents'[a].pc \in Joined,
           agents'[a].pc \in {"releasing", "deleting"} => agents[a].level = 0,
           agents'[a].port = agents[a].port, agents'[a].peer = agents[a].peer,
           agents'[a].beat = agents[a].beat, agents'[a].heard = agents[a].heard,
           agents'[a].ranks = agents[a].ranks, agents'[a].control \subseteq agents[a].control,
           agents'[a].obeyed \in agents[a].obeyed .. Len(commands[a.gen]),
           fe \in Early /\ ~ Past(a) =>
              /\ fe \in {"apprestart", "reinit"} /\ agents[a].level # 0
              /\ fe = "reinit" => agents'[a].obeyed < Given
    PROVE  NetworkInv'
<1>1. /\ UNCHANGED <<opt, plan, fe, procs, run, starting, alive, nextId, idmap, gen, commands>>
      /\ fe # "aborted" /\ Agents' = Agents /\ Leaves' = Leaves /\ Given' = Given
      /\ \A b : /\ Past(b)' = Past(b) /\ IsTop(b)' = IsTop(b) /\ Parent(b)' = Parent(b)
                /\ TrueParent(b)' = TrueParent(b)
  BY MoveFrame DEF NetworkInv
<1>2. /\ a \in DOMAIN agents /\ DOMAIN agents' = DOMAIN agents
      /\ \A b \in DOMAIN agents : b # a => agents'[b] = agents[b]
      /\ Leaves \subseteq Agents /\ Agents \subseteq DOMAIN agents
  BY DEF Moves, Leaves, Agents
<1>3. agents[a].obeyed \in Nat /\ agents'[a].obeyed \in Nat /\ agents'[a].obeyed >= agents[a].obeyed
  BY <1>2 DEF NetworkInv, Tree
<1>4. a \in Agents => \/ fe \in Ending
                      \/ /\ fe \in {"apprestart", "reinit"} /\ a \notin Leaves
                         /\ fe = "reinit" => agents'[a].obeyed < Given
                      \/ fe = "appstart"
  BY <1>1 DEF NetworkInv, Stage, Past, Agents, Leaves
<1>5. Given \in Nat /\ (a \in Agents => agents'[a].obeyed <= Given)
  <2>1. commands[gen] \in Seq({"terminate", "quit", "reinit"}) \/ gen \notin 1 .. Len(commands)
    BY ElementOfSeq DEF NetworkInv, Stage
  <2>2. a \in Agents => a.gen = gen /\ gen \in 1 .. Len(commands)
    BY <1>2 DEF Agents, NetworkInv, Tree, AgentNames, Stage
  <2> QED
    BY <1>1, <1>2, <2>1, <2>2, LenProperties DEF Given
<1>6. Stage'
  <2>1. heard' \in BOOLEAN
    BY DEF NetworkInv, Stage
  <2> QED
    BY <2>1, MoveStage DEF NetworkInv
<1>7. Tree'
  <2>1. agents'[a].pc \in Stages /\ agents'[a].heard \subseteq agents[a].children
    BY <1>2 DEF NetworkInv, Tree, Joined, Stages
  <2>2. agents'[a].beat \in BOOLEAN
    BY <1>2 DEF NetworkInv, Tree
  <2>3. agents'[a].port \in Nat \ {0} /\ agents'[a].obeyed \in 0 .. Len(commands[a.gen])
    BY <1>2, <1>3 DEF NetworkInv, Tree
  <2> QED
    BY <2>1, <2>2, <2>3, MoveTree DEF NetworkInv
<1>8. Registry'
  <2>1. agents'[a].control \subseteq Known
    BY <1>2 DEF Known
  <2> QED
    BY <2>1, MoveRegistry DEF NetworkInv
<1>9. Links'
  <2>1. agents'[a].pc # "connecting"
    BY DEF Joined
  <2>2. agents'[a].peer = TheFrontend <=> IsTop(a)
    BY <1>2 DEF NetworkInv, Links
  <2> QED
    BY <2>1, <2>2, MoveLinks DEF NetworkInv
<1>10. Leaving'
  <2> SUFFICES ASSUME NEW b \in DOMAIN agents, Past(b)
               PROVE  /\ agents'[b].beat /\ agents'[b].pc \in Joined
                      /\ \A n \in agents'[b].obeyed + 1 .. Len(commands'[b.gen]) :
                            commands'[b.gen][n] # "reinit"
                      /\ \A p \in agents'[b].control : p.run < run'
    BY <1>1, <1>2 DEF Leaving
  <2>1. /\ agents[b].beat /\ agents[b].pc \in Joined
        /\ \A n \in agents[b].obeyed + 1 .. Len(commands[b.gen]) : commands[b.gen][n] # "reinit"
        /\ \A p \in agents[b].control : p.run < run
    BY DEF NetworkInv, Leaving
  <2>2. CASE b = a
    <3>1. \A n \in agents'[b].obeyed + 1 .. Len(commands[b.gen]) : commands[b.gen][n] # "reinit"
      BY <1>3, <2>1, <2>2
    <3> QED
      BY <1>1, <2>1, <2>2, <3>1
  <2>3. CASE b # a
    BY <1>1, <1>2, <2>1, <2>3
  <2> QED
    BY <2>2, <2>3
<1>11. Progress'
  <2>1. fe \in {"startup", "running"} => a \notin Agents
    BY <1>4 DEF Ending
  <2>2. fe = "startup" =>
          /\ Given = 0
          /\ \A b \in Agents : agents'[b].pc \notin {"releasing", "deleting", "leaving", "gone"}
    BY <1>2, <2>1 DEF NetworkInv, Progress
  <2>3. fe = "running" =>
          \A b \in Agents : /\ agents'[b].pc = "connected" /\ agents'[b].beat
                            /\ agents'[b].obeyed = Given /\ agents'[b].peer = TrueParent(b)
    BY <1>2, <2>1 DEF NetworkInv, Progress
  <2>4. ASSUME fe \in Ending \cup {"apprestart"}
        PROVE  /\ Given >= 1 /\ commands[gen][Given] # "reinit"
               /\ \A b \in Agents : /\ agents'[b].pc \in Joined /\ agents'[b].beat
                                    /\ agents'[b].obeyed >= Given - 1
    <3>1. /\ Given >= 1 /\ commands[gen][Given] # "reinit"
          /\ \A b \in Agents : /\ agents[b].pc \in Joined /\ agents[b].beat
                               /\ agents[b].obeyed >= Given - 1
      BY <2>4 DEF NetworkInv, Progress
    <3>2. \A b \in Agents : b # a => agents'[b] = agents[b]
      BY <1>2
    <3>3. a \in Agents => agents'[a].obeyed >= Given - 1
      BY <1>3, <1>5, <3>1
    <3> QED
      BY <3>1, <3>2, <3>3
  <2>5. fe = "apprestart" =>
          \A b \in Leaves : agents'[b].pc = "connected" /\ agents'[b].obeyed = Given
    BY <1>2, <1>4 DEF NetworkInv, Progress, Ending
  <2>6. ASSUME fe = "reinit"
        PROVE  /\ Given >= 2 /\ commands[gen][Given] = "reinit"
               /\ commands[gen][Given - 1] # "reinit"
               /\ \A b \in Agents : /\ agents'[b].pc \in Joined \cup {"failed"}
                                    /\ agents'[b].obeyed >= Given - 2
                                    /\ agents'[b].pc = "leaving" => agents'[b].obeyed < Given
               /\ \A b \in Leaves : /\ agents'[b].pc \in {"connected", "failed"}
                                    /\ agents'[b].obeyed >= Given - 1
    <3>1. /\ Given >= 2 /\ commands[gen][Given] = "reinit" /\ commands[gen][Given - 1] # "reinit"
          /\ \A b \in Agents : /\ agents[b].pc \in Joined \cup {"failed"}
                               /\ agents[b].obeyed >= Given - 2
                               /\ agents[b].pc = "leaving" => agents[b].obeyed < Given
          /\ \A b \in Leaves : /\ agents[b].pc \in {"connected", "failed"}
                               /\ agents[b].obeyed >= Given - 1
      BY <2>6 DEF NetworkInv, Progress
    <3>2. \A b \in Agents : b # a => agents'[b] = agents[b]
      BY <1>2
    <3>3. a \in Agents => agents'[a].obeyed >= Given - 2 /\ agents'[a].obeyed < Given
      BY <1>3, <1>4, <1>5, <2>6, <3>1 DEF Ending
    <3>4. \A b \in Leaves : b \in Agents /\ b # a
      BY <1>2, <1>4, <2>6 DEF Ending
    <3> QED
      BY <3>1, <3>2, <3>3, <3>4
  <2>7. commands'[gen'] = commands[gen]
    BY <1>1
  <2> QED
    BY <1>1, <2>2, <2>3, <2>4, <2>5, <2>6, <2>7 DEF Progress
<1>12. Heartbeats'
  <2> SUFFICES ASSUME fe \in {"startup", "reinit"} PROVE Heartbeats'
    BY <1>1 DEF Heartbeats
  <2>1. a \in Agents => agents'[a].obeyed < Given /\ agents[a].obeyed < Given
    BY <1>3, <1>4, <1>5 DEF Ending
  <2>2. \A b \in Agents : b # a => agents'[b] = agents[b]
    BY <1>2
  <2>3. \A b : Up(b) => b # a
    BY <1>5, <2>1 DEF Up
  <2>4. \A b : Up(b)' <=> Up(b)
    BY <1>1, <1>3, <1>5, <2>1, <2>2 DEF Up
  <2>5. \A b : Up(b) => agents'[b] = agents[b]
    BY <2>2, <2>3 DEF Up
  <2>6. \A b \in Agents : Up(b)' => /\ agents'[b].pc = "connected"
                                    /\ agents'[b].heard = agents'[b].children
    BY <2>4, <2>5 DEF NetworkInv, Heartbeats
  <2>7. \A b \in Agents : agents'[b].obeyed = Given' =>
             \A t \in agents'[b].heard : \A c :
                c = [gen |-> gen', tag |-> t] => Up(c)' /\ agents'[c].peer = b
    <3> SUFFICES ASSUME NEW b \in Agents, agents'[b].obeyed = Given', NEW t \in agents'[b].heard,
                        NEW c, c = [gen |-> gen', tag |-> t]
                 PROVE  Up(c)' /\ agents'[c].peer = b
      OBVIOUS
    <3>1. b # a
      BY <1>1, <1>3, <1>5, <2>1
    <3>2. Up(c) /\ agents[c].peer = b
      BY <1>1, <2>2, <3>1 DEF NetworkInv, Heartbeats
    <3> QED
      BY <2>4, <2>5, <3>2
  <2>8. \A b \in Agents : ~ agents'[b].beat => agents'[b].obeyed = Given'
    <3> SUFFICES ASSUME NEW b \in Agents, ~ agents'[b].beat PROVE agents'[b].obeyed = Given'
      OBVIOUS
    <3>1. ~ agents[b].beat
      BY <2>2
    <3>2. agents[b].obeyed = Given
      BY <3>1 DEF NetworkInv, Heartbeats
    <3>3. b # a
      BY <1>3, <1>5, <2>1, <3>2
    <3> QED
      BY <1>1, <2>2, <3>2, <3>3
  <2>9. heard' => \E b \in Agents' : IsTop(b)' /\ Up(b)'
    BY <1>1, <2>4 DEF NetworkInv, Heartbeats
  <2> QED
    BY <1>1, <2>6, <2>7, <2>8, <2>9 DEF Heartbeats
<1>13. Coverage'
  <2>1. \A b \in Leaves : agents'[b].ranks = agents[b].ranks
    BY <1>2
  <2>2. fe \in {"startup", "running", "reinit"} => \A b \in Leaves : agents'[b] = agents[b]
    BY <1>2, <1>4 DEF Ending
  <2>3. \A r : Found(r) => Found(r)'
    <3>1. \A b \in Leaves : agents'[b].ids = agents[b].ids
      BY <1>2, MoveFrame DEF NetworkInv
    <3> QED
      BY <1>1, <3>1 DEF Found
  <2>4. fe = "startup" =>
          /\ \A b \in Leaves : agents'[b].pc \notin {"forked", "registered", "failed"} =>
                Controls(b)' /\ {p.id : p \in agents'[b].control} = agents'[b].ids
          /\ \A r \in 1 .. procs : Found(r)'
    BY <1>1, <2>2, <2>3 DEF NetworkInv, Coverage, Controls
  <2>5. fe \in {"running", "terminating", "apprestart", "reinit"} =>
          /\ \A b \in Leaves : agents'[b].ranks \subseteq 1 .. procs
          /\ \A r \in 1 .. procs : \E b \in Leaves : r \in agents'[b].ranks
          /\ \A b, c \in Leaves : b # c => agents'[b].ranks \cap agents'[c].ranks = {}
    BY <2>1 DEF NetworkInv, Coverage
  <2>6. fe = "running" => \A b \in Leaves : Controls(b)'
    BY <1>1, <2>2 DEF NetworkInv, Coverage, Controls
  <2>7. fe = "reinit" =>
          /\ \A b \in Leaves : agents'[b].obeyed = Given => Controls(b)'
          /\ \A r \in 1 .. procs :
                /\ idmap[r] \in Nat /\ idmap[r] < nextId
                /\ \A p \in entries' : p.id = idmap[r] => p.rank = r
    BY <1>1, <2>2 DEF NetworkInv, Coverage, Controls
  <2> QED
    BY <1>1, <2>4, <2>5, <2>6, <2>7 DEF Coverage
<1> QED
  BY <1>6, <1>7, <1>8, <1>9, <1>10, <1>11, <1>12, <1>13 DEF NetworkInv

\* An agent that releases its processes is one that was told to by a command
\* after which the frontend does not work with it.
LEMMA ReleasingFacts ==
    ASSUME NetworkInv, NEW a \in DOMAIN agents, agents[a].pc \in {"releasing", "deleting"},
           fe \in Early
    PROVE  Past(a)
<1> SUFFICES ASSUME ~ Past(a) PROVE FALSE
  OBVIOUS
<1>1. a \in Agents /\ fe # "appstart"
  BY DEF NetworkInv, Stage, Tree, AgentNames, Past, Agents
<1>2. a \in Leaves
  BY <1>1 DEF NetworkInv, Tree, Leaves
<1> QED
  BY <1>1, <1>2 DEF NetworkInv, Progress, Early

\* An agent whose hierarchy was told to quit, or a high-level agent that has not
\* heard of the restart.
Settled(a) ==
    \/ Past(a)
    \/ /\ fe \in {"apprestart", "reinit"} /\ agents[a].level # 0
       /\ fe = "reinit" => agents[a].obeyed < Given

\* What the last step of an agent has in common with its return to its event loop.
LEMMA ReleasedMoves ==
    ASSUME NetworkInv, NEW a \in DOMAIN agents, NEW next \in {"connected", "gone"},
           agents[a].pc \in {"releasing", "leaving"}, fe \in Early => Settled(a),
           agents' = [agents EXCEPT ![a].pc = next],
           UNCHANGED <<told, entries, heard>>, AgentStep
    PROVE  Moves(a) /\ (Listed' => NetworkInv')
<1>1. DOMAIN agents[a] = Fields /\ agents[a].obeyed \in 0 .. Len(commands[a.gen])
  BY DEF NetworkInv, Tree
<1>2. /\ agents'[a].pc = next /\ DOMAIN agents'[a] = Fields
      /\ agents'[a].level = agents[a].level /\ agents'[a].ids = agents[a].ids
      /\ agents'[a].children = agents[a].children
      /\ agents'[a].port = agents[a].port /\ agents'[a].peer = agents[a].peer
      /\ agents'[a].beat = agents[a].beat /\ agents'[a].heard = agents[a].heard
      /\ agents'[a].ranks = agents[a].ranks /\ agents'[a].control = agents[a].control
      /\ agents'[a].obeyed = agents[a].obeyed
  BY <1>1 DEF Fields
<1>3. Moves(a)
  BY <1>2 DEF Moves
<1>4. told \subseteq Known /\ (fe \in Early => \A p \in told : p.run < run)
  BY DEF Known, NetworkInv, Registry
<1>5. agents[a].pc \in Joined /\ agents'[a].pc \in Joined
  BY <1>2 DEF Joined
<1>6. agents'[a].obeyed \in agents[a].obeyed .. Len(commands[a.gen])
  BY <1>1, <1>2
<1>7. agents'[a].pc \notin {"releasing", "deleting"}
  BY <1>2
<1> QED
  BY <1>2, <1>3, <1>4, <1>5, <1>6, <1>7, ObeyingKeeps DEF Settled

\* Agents of an earlier hierarchy have processes of an earlier run.
LEMMA ReleasedKeeps ==
    ASSUME NetworkInv, NEW a \in DOMAIN agents, Released(a)
    PROVE  NetworkInv'
<1>1. /\ agents[a].pc = "releasing" /\ agents' = [agents EXCEPT ![a].pc = "connected"]
      /\ UNCHANGED <<told, entries, tagged, heard>> /\ AgentStep
  BY DEF Released, Finished
<1>2. fe \in Early => Settled(a)
  BY <1>1, ReleasingFacts DEF Settled
<1>3. Moves(a) /\ (Listed' => NetworkInv')
  BY <1>1, <1>2, ReleasedMoves
<1> QED
  BY <1>1, <1>3, MoveListed DEF NetworkInv, Absent

\* A sequence without one of its elements still has all others.
LEMMA RemoveAtFacts ==
    ASSUME NEW S, NEW s \in Seq(S), NEW k \in 1 .. Len(s)
    PROVE  /\ RemoveAt(s, k) \in Seq(S)
           /\ \A i \in 1 .. Len(s) : i # k =>
                 \E j \in DOMAIN RemoveAt(s, k) : RemoveAt(s, k)[j] = s[i]
<1> DEFINE n == Len(s)
           s1 == SubSeq(s, 1, k - 1)
           s2 == SubSeq(s, k + 1, n)
<1>1. n \in Nat /\ k \in Nat /\ 1 <= k /\ k <= n /\ \A i \in 1 .. n : s[i] \in S
  BY LenProperties, ElementOfSeq
<1> HIDE DEF n
<1>2. /\ s1 \in Seq(S) /\ Len(s1) = k - 1
      /\ \A i \in 1 .. k - 1 : s1[i] = s[i]
  <2>1. /\ s1 \in Seq(S) /\ Len(s1) = IF 1 <= k - 1 THEN (k - 1) - 1 + 1 ELSE 0
        /\ \A i \in 1 .. (k - 1) - 1 + 1 : s1[i] = s[1 + i - 1]
    <3>1. k - 1 \in Int /\ \A i \in 1 .. k - 1 : s[i] \in S
      BY <1>1
    <3> QED
      BY <3>1, SubSeqProperties
  <2> QED
    BY <1>1, <2>1
<1>3. /\ s2 \in Seq(S) /\ Len(s2) = n - k
      /\ \A i \in 1 .. n - k : s2[i] = s[k + i]
  <2>1. /\ s2 \in Seq(S) /\ Len(s2) = IF k + 1 <= n THEN n - (k + 1) + 1 ELSE 0
        /\ \A i \in 1 .. n - (k + 1) + 1 : s2[i] = s[k + 1 + i - 1]
    <3>1. k + 1 \in Int /\ n \in Int /\ \A i \in k + 1 .. n : s[i] \in S
      BY <1>1
    <3> QED
      BY <3>1, SubSeqProperties
  <2> QED
    BY <1>1, <2>1
<1>4. RemoveAt(s, k) = s1 \o s2
  BY DEF RemoveAt, n
<1> HIDE DEF s1, s2
<1>5. /\ s1 \o s2 \in Seq(S) /\ Len(s1 \o s2) = n - 1
      /\ \A i \in 1 .. n - 1 : (s1 \o s2)[i] = IF i <= k - 1 THEN s1[i] ELSE s2[i - (k - 1)]
  <2>1. Len(s1) + Len(s2) = n - 1
    BY <1>1, <1>2, <1>3
  <2> QED
    BY <1>2, <1>3, <2>1, ConcatProperties
<1>6. DOMAIN (s1 \o s2) = 1 .. n - 1
  BY <1>5, LenProperties
<1>7. ASSUME NEW i \in 1 .. n, i # k
      PROVE  \E j \in 1 .. n - 1 : (s1 \o s2)[j] = s[i]
  <2>1. CASE i < k
    <3>1. i \in 1 .. n - 1 /\ i \in 1 .. k - 1 /\ i <= k - 1
      BY <1>1, <2>1
    <3>2. (s1 \o s2)[i] = s[i]
      BY <1>2, <1>5, <3>1
    <3> QED
      BY <3>1, <3>2
  <2>2. CASE i > k
    <3> DEFINE j == i - 1
    <3>1. /\ j \in 1 .. n - 1 /\ ~ (j <= k - 1)
          /\ j - (k - 1) \in 1 .. n - k /\ k + (j - (k - 1)) = i
      BY <1>1, <2>2
    <3> HIDE DEF j
    <3>2. (s1 \o s2)[j] = s2[j - (k - 1)]
      BY <1>5, <3>1
    <3>3. s2[j - (k - 1)] = s[i]
      BY <1>3, <3>1
    <3> QED
      BY <3>1, <3>2, <3>3
  <2>3. i < k \/ i > k
    <3>1. i \in Nat /\ k \in Nat /\ i # k
      BY <1>1, <1>7
    <3> QED
      BY <3>1
  <2> QED
    BY <2>1, <2>2, <2>3
<1> QED
  BY <1>4, <1>5, <1>6, <1>7 DEF n

\* An agent takes its own entry from the registry, and no other.
LEMMA DeregisteredFacts ==
    ASSUME Listed, NEW a, InRegistry(a), tagged' = Deregistered(a)
    PROVE  /\ \A t \in DOMAIN tagged' : tagged'[t] \in Seq(Entry)
           /\ \A b : b # a /\ InRegistry(b) => InRegistry(b)'
<1> DEFINE s == tagged[a.tag]
           k == CHOOSE i \in DOMAIN s : s[i].owner = a
<1>1. k \in DOMAIN s /\ s[k].owner = a /\ a.tag \in DOMAIN tagged
  BY DEF InRegistry
<1>2. s \in Seq(Entry) /\ DOMAIN s = 1 .. Len(s)
  BY <1>1, LenProperties DEF Listed
<1>3. tagged' = [tagged EXCEPT ![a.tag] = RemoveAt(s, k)]
  BY DEF Deregistered
<1> HIDE DEF k
<1>4. /\ RemoveAt(s, k) \in Seq(Entry)
      /\ \A i \in DOMAIN s : i # k => \E j \in DOMAIN RemoveAt(s, k) : RemoveAt(s, k)[j] = s[i]
  <2> HIDE DEF s
  <2> QED
    BY <1>1, <1>2, RemoveAtFacts
<1>5. \A t \in DOMAIN tagged' : tagged'[t] \in Seq(Entry)
  BY <1>3, <1>4 DEF Listed
<1>6. ASSUME NEW b, b # a, InRegistry(b) PROVE InRegistry(b)'
  <2>1. CASE b.tag = a.tag
    <3>1. PICK i \in DOMAIN s : s[i].owner = b
      BY <1>6, <2>1 DEF InRegistry
    <3>2. i # k
      BY <1>1, <1>6, <3>1
    <3>3. \E j \in DOMAIN RemoveAt(s, k) : RemoveAt(s, k)[j].owner = b
      BY <1>4, <3>1, <3>2
    <3>4. b.tag \in DOMAIN tagged' /\ tagged'[b.tag] = RemoveAt(s, k)
      BY <1>1, <1>3, <2>1
    <3> QED
      BY <3>3, <3>4 DEF InRegistry
  <2>2. CASE b.tag # a.tag
    BY <1>3, <1>6, <2>2 DEF InRegistry
  <2> QED
    BY <2>1, <2>2
<1> QED
  BY <1>5, <1>6

\* A high-level agent that leaves was told to by an earlier command, too.
LEMMA LeavingFacts ==
    ASSUME NetworkInv, NEW a \in DOMAIN agents, agents[a].pc = "leaving", fe \in Early
    PROVE  Settled(a)
<1> SUFFICES ASSUME ~ Past(a) PROVE Settled(a)
  BY DEF Settled
<1>1. a \in Agents /\ fe # "appstart"
  BY DEF NetworkInv, Stage, Tree, AgentNames, Past, Agents
<1>2. fe \in {"apprestart", "reinit"}
  BY <1>1 DEF NetworkInv, Progress, Early
<1>3. a \notin Leaves
  BY <1>2 DEF NetworkInv, Progress
<1>4. agents[a].level # 0
  BY <1>1, <1>3 DEF Leaves
<1>5. fe = "reinit" => agents[a].obeyed < Given
  BY <1>1 DEF NetworkInv, Progress
<1> QED
  BY <1>2, <1>4, <1>5 DEF Settled

\* An agent that leaves takes nobody with it.
LEMMA LeaveKeeps ==
    ASSUME NetworkInv, NEW a \in DOMAIN agents, Leave(a)
    PROVE  NetworkInv'
<1>1. /\ agents[a].pc \in {"releasing", "leaving"}
      /\ agents' = [agents EXCEPT ![a].pc = "gone"]
      /\ tagged' = Deregistered(a) \/ tagged' = tagged
      /\ UNCHANGED <<told, entries, heard>> /\ AgentStep
  BY DEF Leave, Finished
<1>2. fe \in Early => Settled(a)
  BY <1>1, ReleasingFacts, LeavingFacts DEF Settled
<1>3. Moves(a) /\ (Listed' => NetworkInv')
  BY <1>1, <1>2, ReleasedMoves
<1>4. agents'[a].pc = "gone"
  BY <1>1 DEF NetworkInv, Tree, Fields
<1>5. CASE tagged' = tagged
  BY <1>3, <1>4, <1>5, MoveListed DEF NetworkInv, Absent
<1>6. CASE tagged' = Deregistered(a)
  <2>1. InRegistry(a)
    BY <1>1 DEF NetworkInv, Listed, Absent
  <2>2. /\ \A t \in DOMAIN tagged' : tagged'[t] \in Seq(Entry)
        /\ \A b : b # a /\ InRegistry(b) => InRegistry(b)'
    BY <1>6, <2>1, DeregisteredFacts DEF NetworkInv
  <2>3. \A b \in DOMAIN agents' : agents'[b].pc \notin Absent => InRegistry(b)'
    BY <1>3, <1>4, <2>2 DEF NetworkInv, Listed, Moves, Absent
  <2> QED
    BY <1>3, <2>2, <2>3 DEF Listed
<1> QED
  BY <1>1, <1>5, <1>6

\* The first of some processes is one of them.
LEMMA FirstFacts ==
    ASSUME NEW S, S # {}, \A p \in S : p.id \in Nat
    PROVE  First(S) \in S
<1> DEFINE ids == {p.id : p \in S}
<1>1. PICK i \in ids : \A j \in ids : i <= j
  BY LeastExists
<1>2. \E p \in S : \A q \in S : p.id <= q.id
  BY <1>1
<1> QED
  BY <1>2 DEF First

\* A process that is told to terminate is of an earlier run, or its run is over.
LEMMA TellTerminateKeeps ==
    ASSUME NetworkInv, NEW a \in DOMAIN agents, TellTerminate(a)
    PROVE  NetworkInv'
<1> DEFINE p == First(agents[a].control)
<1>1. /\ agents[a].pc = "releasing" /\ agents' = [agents EXCEPT ![a].pc = "deleting"]
      /\ told' = told \cup {p} /\ agents[a].control # {}
      /\ UNCHANGED <<entries, tagged, heard>> /\ AgentStep
  BY DEF TellTerminate
<1>2. p \in agents[a].control /\ agents[a].control \subseteq Known
  <2>1. agents[a].control \subseteq Known
    BY DEF Known
  <2>2. \A q \in agents[a].control : q.id \in Nat
    BY <2>1 DEF NetworkInv, Registry
  <2> QED
    BY <1>1, <2>1, <2>2, FirstFacts
<1> HIDE DEF p
<1>3. /\ DOMAIN agents[a] = Fields /\ agents[a].obeyed \in 0 .. Len(commands[a.gen])
      /\ agents[a].level = 0
  BY <1>1 DEF NetworkInv, Tree
<1>4. /\ agents'[a].pc = "deleting" /\ DOMAIN agents'[a] = Fields
      /\ agents'[a].level = agents[a].level /\ agents'[a].ids = agents[a].ids
      /\ agents'[a].children = agents[a].children
      /\ agents'[a].port = agents[a].port /\ agents'[a].peer = agents[a].peer
      /\ agents'[a].beat = agents[a].beat /\ agents'[a].heard = agents[a].heard
      /\ agents'[a].ranks = agents[a].ranks /\ agents'[a].control = agents[a].control
      /\ agents'[a].obeyed = agents[a].obeyed
  BY <1>1, <1>3 DEF Fields
<1>5. Moves(a)
  BY <1>1, <1>4 DEF Moves
<1>6. fe \in Early => Past(a)
  BY <1>1, ReleasingFacts
<1>7. told' \subseteq Known
  BY <1>1, <1>2 DEF Known
<1>8. ASSUME fe \in Early PROVE \A q \in told' : q.run < run
  <2>1. \A q \in agents[a].control : q.run < run
    BY <1>6, <1>8 DEF NetworkInv, Leaving
  <2> QED
    BY <1>1, <1>2, <1>8, <2>1 DEF NetworkInv, Registry
<1>9. agents[a].pc \in Joined /\ agents'[a].pc \in Joined
  BY <1>1, <1>4 DEF Joined
<1>10. agents'[a].obeyed \in agents[a].obeyed .. Len(commands[a.gen])
  BY <1>3, <1>4
<1>11. Listed'
  BY <1>1, <1>5, MoveListed DEF NetworkInv, Absent
<1> QED
  BY <1>1, <1>3, <1>4, <1>5, <1>6, <1>7, <1>8, <1>9, <1>10, <1>11, ObeyingKeeps

\* An entry that is deleted is not needed any more.
LEMMA DeleteEntryKeeps ==
    ASSUME NetworkInv, NEW a \in DOMAIN agents, DeleteEntry(a)
    PROVE  NetworkInv'
<1> DEFINE left == agents[a].control \ {First(agents[a].control)}
<1>1. /\ agents[a].pc = "deleting"
      /\ agents' = [agents EXCEPT ![a].control = left, ![a].pc = "releasing"]
      /\ entries' \subseteq entries
      /\ UNCHANGED <<told, tagged, heard>> /\ AgentStep
  BY DEF DeleteEntry
<1>2. left \subseteq agents[a].control
  OBVIOUS
<1> HIDE DEF left
<1>3. /\ DOMAIN agents[a] = Fields /\ agents[a].obeyed \in 0 .. Len(commands[a.gen])
      /\ agents[a].level = 0
  BY <1>1 DEF NetworkInv, Tree
<1>4. /\ agents'[a].pc = "releasing" /\ DOMAIN agents'[a] = Fields
      /\ agents'[a].level = agents[a].level /\ agents'[a].ids = agents[a].ids
      /\ agents'[a].children = agents[a].children
      /\ agents'[a].port = agents[a].port /\ agents'[a].peer = agents[a].peer
      /\ agents'[a].beat = agents[a].beat /\ agents'[a].heard = agents[a].heard
      /\ agents'[a].ranks = agents[a].ranks /\ agents'[a].control = left
      /\ agents'[a].obeyed = agents[a].obeyed
  BY <1>1, <1>3 DEF Fields
<1>5. Moves(a)
  BY <1>1, <1>4 DEF Moves
<1>6. fe \in Early => Past(a)
  BY <1>1, ReleasingFacts
<1>7. told' \subseteq Known /\ (fe \in Early => \A p \in told' : p.run < run)
  BY <1>1 DEF Known, NetworkInv, Registry
<1>8. agents[a].pc \in Joined /\ agents'[a].pc \in Joined
  BY <1>1, <1>4 DEF Joined
<1>9. agents'[a].obeyed \in agents[a].obeyed .. Len(commands[a.gen])
  BY <1>3, <1>4
<1>10. Listed'
  BY <1>1, <1>5, MoveListed DEF NetworkInv, Absent
<1> QED
  BY <1>1, <1>2, <1>3, <1>4, <1>5, <1>6, <1>7, <1>8, <1>9, <1>10, ObeyingKeeps

\* An agent is not told to terminate while it starts, and an analysis agent has
\* released its processes when the application is started again.
LEMMA ObeyTerminateKeeps ==
    ASSUME NetworkInv, NEW a \in DOMAIN agents, ObeyTerminate(a)
    PROVE  NetworkInv'
<1> DEFINE n == agents[a].obeyed + 1
           next == IF agents[a].level = 0 THEN "releasing"
                   ELSE IF Received(a) = "quit" THEN "leaving" ELSE agents[a].pc
<1>1. /\ Received(a) \in {"terminate", "quit"}
      /\ agents' = [agents EXCEPT ![a].obeyed = n, ![a].pc = next]
      /\ UNCHANGED <<told, entries, tagged, heard>> /\ AgentStep
  BY DEF ObeyTerminate
<1>2. /\ agents[a].pc = "connected" /\ a.gen \in Nat /\ a.gen <= gen
      /\ agents[a].obeyed \in Nat /\ Len(commands[a.gen]) \in Nat
      /\ n <= Len(commands[a.gen]) /\ Received(a) = commands[a.gen][n]
  BY <1>1, ReceivedFacts
<1>3. next \in {"releasing", "leaving", "connected"} /\ (next = "releasing" => agents[a].level = 0)
  BY <1>2
<1>4. n \in Nat /\ n > agents[a].obeyed
  BY <1>2
<1> HIDE DEF next, n
<1>5. DOMAIN agents[a] = Fields
  BY DEF NetworkInv, Tree
<1>6. /\ agents'[a].pc = next /\ DOMAIN agents'[a] = Fields
      /\ agents'[a].level = agents[a].level /\ agents'[a].ids = agents[a].ids
      /\ agents'[a].children = agents[a].children
      /\ agents'[a].port = agents[a].port /\ agents'[a].peer = agents[a].peer
      /\ agents'[a].beat = agents[a].beat /\ agents'[a].heard = agents[a].heard
      /\ agents'[a].ranks = agents[a].ranks /\ agents'[a].control = agents[a].control
      /\ agents'[a].obeyed = n
  BY <1>1, <1>5 DEF Fields
<1>7. Moves(a)
  BY <1>1, <1>6 DEF Moves
<1>8. ASSUME fe \in Early, ~ Past(a)
      PROVE  /\ fe \in {"apprestart", "reinit"} /\ agents[a].level # 0
             /\ fe = "reinit" => agents'[a].obeyed < Given
  <2>1. a \in Agents /\ a.gen = gen /\ fe # "appstart"
    BY <1>2, <1>8 DEF NetworkInv, Stage, Past, Agents
  <2>2. n <= Given /\ Received(a) = commands[gen][n] /\ Given \in Nat
    BY <1>2, <2>1 DEF Given
  <2>3. fe # "startup"
    BY <1>2, <1>4, <2>1, <2>2 DEF NetworkInv, Progress
  <2>4. fe # "running"
    BY <1>4, <2>1, <2>2, <1>2 DEF NetworkInv, Progress
  <2>5. fe = "apprestart" => agents[a].level # 0
    BY <1>2, <1>4, <2>1, <2>2 DEF NetworkInv, Progress, Leaves
  <2>6. fe = "reinit" => n < Given
    BY <1>1, <1>4, <2>1, <2>2 DEF NetworkInv, Progress
  <2>7. fe = "reinit" => agents[a].level # 0
    <3>1. agents[a].level = 0 => a \in Leaves
      BY <2>1 DEF Leaves
    <3>2. fe = "reinit" /\ a \in Leaves => agents[a].obeyed >= Given - 1
      BY DEF NetworkInv, Progress
    <3> QED
      BY <1>2, <1>4, <2>2, <2>6, <3>1, <3>2
  <2> QED
    BY <1>6, <1>8, <2>1, <2>3, <2>4, <2>5, <2>6, <2>7 DEF Early
<1>9. told \subseteq Known /\ (fe \in Early => \A p \in told : p.run < run)
  BY DEF Known, NetworkInv, Registry
<1>10. agents[a].pc \in Joined /\ agents'[a].pc \in Joined
  BY <1>2, <1>3, <1>6 DEF Joined
<1>11. agents'[a].obeyed \in agents[a].obeyed .. Len(commands[a.gen])
  BY <1>2, <1>4, <1>6
<1>12. agents'[a].pc \in {"releasing", "deleting"} => agents[a].level = 0
  BY <1>3, <1>6
<1>13. Listed'
  BY <1>1, <1>2, <1>7, MoveListed DEF NetworkInv, Absent
<1> QED
  BY <1>1, <1>6, <1>7, <1>8, <1>9, <1>10, <1>11, <1>12, <1>13, ObeyingKeeps

-----------------------------------------------------------------------------
(* An agent rejoins.                                                       *)

\* An agent that has obeyed all but the restart has found its processes, or not.
LEMMA RejoiningKeeps ==
    ASSUME NetworkInv, NEW a, Moves(a), UNCHANGED <<told, entries, tagged, heard>>,
           a \in Agents, fe = "reinit", agents[a].obeyed = Given - 1,
           agents[a].pc = "connected", agents'[a].pc \in {"connected", "failed"},
           agents'[a].port = agents[a].port, agents'[a].peer = agents[a].peer,
           agents'[a].ranks = agents[a].ranks, agents'[a].control \subseteq Known,
           \/ /\ agents'[a].obeyed = agents[a].obeyed
              /\ agents'[a].beat = agents[a].beat /\ agents'[a].heard = agents[a].heard
           \/ /\ agents'[a].obeyed = Given
              /\ agents'[a].beat = FALSE /\ agents'[a].heard = {}
              /\ a \in Leaves => Controls(a)'
    PROVE  NetworkInv'
<1>1. /\ UNCHANGED <<opt, plan, fe, procs, run, starting, alive, nextId, idmap, gen, commands>>
      /\ fe # "aborted" /\ Agents' = Agents /\ Leaves' = Leaves /\ Given' = Given
      /\ \A b : /\ Past(b)' = Past(b) /\ IsTop(b)' = IsTop(b) /\ Parent(b)' = Parent(b)
                /\ TrueParent(b)' = TrueParent(b)
  BY MoveFrame DEF NetworkInv
<1>2. /\ a \in DOMAIN agents /\ DOMAIN agents' = DOMAIN agents
      /\ \A b \in DOMAIN agents : b # a => agents'[b] = agents[b]
      /\ Leaves \subseteq Agents /\ Agents \subseteq DOMAIN agents
  BY DEF Moves, Leaves, Agents
<1>3. a.gen = gen /\ ~ Past(a)
  BY DEF Agents, Past, NetworkInv, Stage
<1>4. agents[a].obeyed \in 0 .. Len(commands[a.gen]) /\ Len(commands[a.gen]) = Given
  BY <1>2, <1>3 DEF NetworkInv, Tree, Given
<1>5. /\ Given >= 2 /\ commands[gen][Given] = "reinit" /\ commands[gen][Given - 1] # "reinit"
      /\ \A b \in Agents : /\ agents[b].pc \in Joined \cup {"failed"}
                           /\ agents[b].obeyed >= Given - 2
                           /\ agents[b].pc = "leaving" => agents[b].obeyed < Given
      /\ \A b \in Leaves : /\ agents[b].pc \in {"connected", "failed"}
                           /\ agents[b].obeyed >= Given - 1
  BY DEF NetworkInv, Progress
<1>6. Given \in Nat
  <2>1. commands[gen] \in Seq({"terminate", "quit", "reinit"})
    <3>1. gen \in 1 .. Len(commands)
      BY DEF NetworkInv, Stage
    <3> QED
      BY <3>1, ElementOfSeq DEF NetworkInv, Stage
  <2> QED
    BY <2>1, LenProperties DEF Given
<1>7. Stage'
  <2>1. heard' \in BOOLEAN
    BY DEF NetworkInv, Stage
  <2> QED
    BY <2>1, MoveStage DEF NetworkInv
<1>8. Tree'
  <2>1. agents'[a].pc \in Stages /\ agents'[a].pc \notin {"releasing", "deleting"}
    BY DEF Stages
  <2>2. agents'[a].beat \in BOOLEAN
    <3>1. agents[a].beat \in BOOLEAN
      BY <1>2 DEF NetworkInv, Tree
    <3> QED
      BY <3>1
  <2>3. agents'[a].heard \subseteq agents[a].children
    BY <1>2 DEF NetworkInv, Tree
  <2>4. agents'[a].port \in Nat \ {0}
    BY <1>2 DEF NetworkInv, Tree
  <2>5. agents'[a].obeyed \in 0 .. Len(commands[a.gen])
    BY <1>4, <1>6
  <2> QED
    BY <2>1, <2>2, <2>3, <2>4, <2>5, MoveTree DEF NetworkInv
<1>9. Registry'
  <2>1. told' \subseteq Known /\ (fe \in Early => \A p \in told' : p.run < run)
    BY DEF NetworkInv, Registry, Known
  <2> QED
    BY <2>1, MoveRegistry DEF NetworkInv
<1>10. Links' /\ Listed'
  <2>1. agents[a].peer = TheFrontend <=> IsTop(a)
    BY <1>2 DEF NetworkInv, Links, Joined
  <2>2. agents'[a].pc # "connecting" /\ agents[a].pc \notin Absent
    BY DEF Absent
  <2> QED
    BY <2>1, <2>2, MoveLinks, MoveListed DEF NetworkInv
<1>11. Leaving'
  <2>1. \A b \in DOMAIN agents : Past(b) => b # a
    BY <1>3
  <2> QED
    BY <1>1, <1>2, <2>1 DEF NetworkInv, Leaving
<1>12. Progress'
  <2>1. agents'[a].obeyed >= Given - 1
    BY <1>6
  <2>2. \A b \in Agents : /\ agents'[b].pc \in Joined \cup {"failed"}
                          /\ agents'[b].obeyed >= Given - 2
                          /\ agents'[b].pc = "leaving" => agents'[b].obeyed < Given
    <3>1. agents'[a].pc \in Joined \cup {"failed"} /\ agents'[a].obeyed >= Given - 2
      BY <1>6, <2>1 DEF Joined
    <3> QED
      BY <1>2, <1>5, <3>1
  <2>3. \A b \in Leaves : /\ agents'[b].pc \in {"connected", "failed"}
                          /\ agents'[b].obeyed >= Given - 1
    BY <1>2, <1>5, <2>1
  <2>4. fe' = "reinit" /\ fe' \notin Ending \cup {"startup", "running", "apprestart"}
    BY <1>1 DEF Ending
  <2> QED
    BY <1>1, <1>5, <2>2, <2>3, <2>4 DEF Progress
<1>13. Heartbeats'
  <2>1. \A b \in Agents : b # a => agents'[b] = agents[b]
    BY <1>2
  <2>2. agents[a].obeyed # Given /\ (agents'[a].obeyed = Given => agents'[a].beat = FALSE)
    BY <1>6
  <2>3. \A b : Up(b) => b # a
    BY <2>2 DEF Up
  <2>4. \A b : Up(b)' <=> Up(b)
    BY <1>1, <2>1, <2>2 DEF Up
  <2>5. \A b : Up(b) => agents'[b] = agents[b]
    BY <2>1, <2>3 DEF Up
  <2>6. \A b \in Agents : Up(b)' => /\ agents'[b].pc = "connected"
                                    /\ agents'[b].heard = agents'[b].children
    BY <2>4, <2>5 DEF NetworkInv, Heartbeats
  <2>7. \A b \in Agents : agents'[b].obeyed = Given' =>
             \A t \in agents'[b].heard : \A c :
                c = [gen |-> gen', tag |-> t] => Up(c)' /\ agents'[c].peer = b
    <3> SUFFICES ASSUME NEW b \in Agents, agents'[b].obeyed = Given', NEW t \in agents'[b].heard,
                        NEW c, c = [gen |-> gen', tag |-> t]
                 PROVE  Up(c)' /\ agents'[c].peer = b
      OBVIOUS
    <3>1. b # a
      BY <1>1, <2>2
    <3>2. Up(c) /\ agents[c].peer = b
      BY <1>1, <2>1, <3>1 DEF NetworkInv, Heartbeats
    <3> QED
      BY <2>4, <2>5, <3>2
  <2>8. \A b \in Agents : ~ agents'[b].beat => agents'[b].obeyed = Given'
    <3> SUFFICES ASSUME NEW b \in Agents, ~ agents'[b].beat PROVE agents'[b].obeyed = Given'
      OBVIOUS
    <3>1. CASE b # a
      <4>1. agents[b].obeyed = Given
        BY <2>1, <3>1 DEF NetworkInv, Heartbeats
      <4> QED
        BY <1>1, <2>1, <3>1, <4>1
    <3>2. CASE b = a
      <4>1. agents[a].beat
        BY <2>2 DEF NetworkInv, Heartbeats
      <4> QED
        BY <1>1, <3>2, <4>1
    <3> QED
      BY <3>1, <3>2
  <2>9. heard' => \E b \in Agents' : IsTop(b)' /\ Up(b)'
    BY <1>1, <2>4 DEF NetworkInv, Heartbeats
  <2> QED
    BY <1>1, <2>6, <2>7, <2>8, <2>9 DEF Heartbeats
<1>14. Coverage'
  <2>1. /\ \A b \in Leaves : agents'[b].ranks \subseteq 1 .. procs
        /\ \A r \in 1 .. procs : \E b \in Leaves : r \in agents'[b].ranks
        /\ \A b, c \in Leaves : b # c => agents'[b].ranks \cap agents'[c].ranks = {}
    <3>1. \A b \in Leaves : agents'[b].ranks = agents[b].ranks
      BY <1>2
    <3> QED
      BY <3>1 DEF NetworkInv, Coverage
  <2>2. \A b \in Leaves : agents'[b].obeyed = Given => Controls(b)'
    <3> SUFFICES ASSUME NEW b \in Leaves, agents'[b].obeyed = Given PROVE Controls(b)'
      OBVIOUS
    <3>1. CASE b = a
      BY <1>6, <3>1
    <3>2. CASE b # a
      <4>1. agents'[b] = agents[b]
        BY <1>2, <3>2
      <4> QED
        BY <1>1, <4>1 DEF NetworkInv, Coverage, Controls
    <3> QED
      BY <3>1, <3>2
  <2>3. \A r \in 1 .. procs :
           /\ idmap[r] \in Nat /\ idmap[r] < nextId
           /\ \A p \in entries : p.id = idmap[r] => p.rank = r
    BY DEF NetworkInv, Coverage
  <2>4. fe' = "reinit" /\ fe' # "startup" /\ fe' # "running"
    BY <1>1
  <2> QED
    BY <1>1, <2>1, <2>2, <2>3, <2>4 DEF Coverage
<1> QED
  BY <1>7, <1>8, <1>9, <1>10, <1>11, <1>12, <1>13, <1>14 DEF NetworkInv

\* Only the last command may be a restart, of an agent that has obeyed the others.
\* Its processes are found by their new ids: as many as it has ranks are one of
\* each of them.
LEMMA ObeyReinitKeeps ==
    ASSUME NetworkInv, NEW a \in DOMAIN agents, ObeyReinit(a)
    PROVE  NetworkInv'
<1> DEFINE n == agents[a].obeyed + 1
           found == Reachable({idmap[r] : r \in agents[a].ranks})
<1>1. /\ Received(a) = "reinit"
      /\ UNCHANGED <<told, entries, tagged, heard>> /\ AgentStep
      /\ \/ /\ Cardinality(found) = Cardinality(agents[a].ranks)
            /\ agents' = [agents EXCEPT ![a] = Rejoining(agents[a], found)]
         \/ agents' = [agents EXCEPT ![a].pc = "failed"]
  BY DEF ObeyReinit
<1>2. /\ agents[a].pc = "connected" /\ a.gen \in Nat /\ a.gen <= gen
      /\ agents[a].obeyed \in Nat /\ Len(commands[a.gen]) \in Nat
      /\ n <= Len(commands[a.gen]) /\ commands[a.gen][n] = "reinit"
  BY <1>1, ReceivedFacts
<1>3. ~ Past(a)
  <2>1. n \in agents[a].obeyed + 1 .. Len(commands[a.gen])
    BY <1>2
  <2> HIDE DEF n
  <2> QED
    BY <1>2, <2>1 DEF NetworkInv, Leaving
<1>4. a \in Agents /\ a.gen = gen
  BY <1>2, <1>3 DEF NetworkInv, Stage, Past, Agents
<1>5. n <= Given /\ Given \in Nat /\ commands[gen][n] = "reinit" /\ n = agents[a].obeyed + 1
  BY <1>2, <1>4 DEF Given
<1> HIDE DEF n
<1>6. fe = "reinit"
  <2>1. fe # "aborted"
    BY <1>1 DEF AgentStep, Followed
  <2>2. fe \notin {"startup", "running"}
    BY <1>2, <1>4, <1>5 DEF NetworkInv, Progress
  <2>3. fe \notin Ending \cup {"apprestart"}
    <3> SUFFICES ASSUME fe \in Ending \cup {"apprestart"} PROVE FALSE
      OBVIOUS
    <3>1. agents[a].obeyed >= Given - 1 /\ commands[gen][Given] # "reinit"
      BY <1>4 DEF NetworkInv, Progress
    <3>2. n = Given
      BY <1>2, <1>5, <3>1
    <3> QED
      BY <1>5, <3>1, <3>2
  <2> QED
    BY <1>3, <2>1, <2>2, <2>3 DEF NetworkInv, Stage, Early, Past
<1>7. n = Given /\ agents[a].obeyed = Given - 1
  <2>1. agents[a].obeyed >= Given - 2 /\ commands[gen][Given - 1] # "reinit"
    BY <1>4, <1>6 DEF NetworkInv, Progress
  <2> QED
    BY <1>2, <1>5, <2>1
<1>8. found \subseteq entries /\ found \subseteq alive
      /\ \A p \in found : \E r \in agents[a].ranks : p.id = idmap[r]
  BY DEF Reachable
<1>9. found \subseteq Known /\ IsFiniteSet(found) /\ \A p \in found : p.run = run
  BY <1>6, <1>8, FS_Subset DEF Known, NetworkInv, Registry
<1> HIDE DEF found
<1>10. DOMAIN agents[a] = Fields
  BY DEF NetworkInv, Tree
<1>11. CASE agents' = [agents EXCEPT ![a].pc = "failed"]
  <2>1. /\ agents'[a].pc = "failed" /\ DOMAIN agents'[a] = Fields
        /\ agents'[a].level = agents[a].level /\ agents'[a].ids = agents[a].ids
        /\ agents'[a].children = agents[a].children
        /\ agents'[a].port = agents[a].port /\ agents'[a].peer = agents[a].peer
        /\ agents'[a].beat = agents[a].beat /\ agents'[a].heard = agents[a].heard
        /\ agents'[a].ranks = agents[a].ranks /\ agents'[a].control = agents[a].control
        /\ agents'[a].obeyed = agents[a].obeyed
    BY <1>10, <1>11 DEF Fields
  <2>2. Moves(a)
    BY <1>1, <1>11, <2>1 DEF Moves
  <2>3. agents'[a].control \subseteq Known
    BY <2>1 DEF Known
  <2> QED
    BY <1>1, <1>2, <1>4, <1>6, <1>7, <2>1, <2>2, <2>3, RejoiningKeeps
<1>12. CASE /\ Cardinality(found) = Cardinality(agents[a].ranks)
            /\ agents' = [agents EXCEPT ![a] = Rejoining(agents[a], found)]
  <2>1. agents'[a] = [agents[a] EXCEPT !.control = found, !.heard = {}, !.beat = FALSE,
                                       !.obeyed = n]
    BY <1>5, <1>12 DEF Rejoining
  <2>2. /\ DOMAIN agents'[a] = Fields
        /\ agents'[a].level = agents[a].level /\ agents'[a].ids = agents[a].ids
        /\ agents'[a].children = agents[a].children /\ agents'[a].pc = agents[a].pc
        /\ agents'[a].port = agents[a].port /\ agents'[a].peer = agents[a].peer
        /\ agents'[a].beat = FALSE /\ agents'[a].heard = {}
        /\ agents'[a].ranks = agents[a].ranks /\ agents'[a].control = found
        /\ agents'[a].obeyed = n
    BY <1>10, <2>1 DEF Fields
  <2>3. DOMAIN agents' = DOMAIN agents /\ \A b \in DOMAIN agents : b # a => agents'[b] = agents[b]
    BY <1>12
  <2>4. Moves(a)
    BY <1>1, <2>2, <2>3 DEF Moves
  <2>5. ASSUME a \in Leaves PROVE Controls(a)'
    <3>1. agents[a].ranks \subseteq 1 .. procs
      BY <1>6, <2>5 DEF NetworkInv, Coverage
    <3>2. IsFiniteSet(agents[a].ranks)
      <4>1. procs \in Nat
        BY ElementOfSeq DEF NetworkInv, Stage
      <4>2. IsFiniteSet(1 .. procs)
        BY <4>1, FS_Interval
      <4> QED
        BY <3>1, <4>2, FS_Subset
    <3>3. \A p \in found : p.rank \in agents[a].ranks
      BY <1>6, <1>8, <3>1 DEF NetworkInv, Coverage
    <3>4. \A p, q \in found : p.rank = q.rank => p = q
      BY <1>8, <1>9 DEF NetworkInv, Registry
    <3>5. {p.rank : p \in found} = agents[a].ranks
      BY <1>9, <1>12, <3>2, <3>3, <3>4, AllRanksFound
    <3>6. alive' = alive /\ run' = run
      BY <1>1 DEF AgentStep
    <3> QED
      BY <1>8, <1>9, <2>2, <3>5, <3>6 DEF Controls
  <2> QED
    BY <1>1, <1>2, <1>4, <1>6, <1>7, <1>9, <2>2, <2>4, <2>5, RejoiningKeeps
<1> QED
  BY <1>1, <1>11, <1>12

-----------------------------------------------------------------------------
(* All steps.                                                              *)

\* Nothing happens.
LEMMA StutterKeeps ==
    ASSUME NetworkInv, UNCHANGED vars
    PROVE  NetworkInv'
<1>1. UNCHANGED <<opt, plan, fe, procs, run, starting, alive, told, nextId, entries, idmap,
                  gen, agents, tagged, commands, heard>>
  BY DEF vars, appVars, agentVars
<1>2. Stage'
  BY <1>1 DEF NetworkInv, Stage
<1>3. Tree' /\ Links' /\ Listed' /\ Leaving' /\ Progress' /\ Heartbeats'
  BY <1>1, TreeSame, LinksSame, ListedSame, LeavingSame, ProgressSame, HeartbeatsSame DEF NetworkInv
<1>4. Registry'
  BY <1>1 DEF NetworkInv, Registry, Known
<1>5. Coverage'
  BY <1>1 DEF NetworkInv, Coverage, Leaves, Agents, Controls, Found, Given
<1> QED
  BY <1>2, <1>3, <1>4, <1>5 DEF NetworkInv

\* All steps of an agent.
LEMMA AgentKeeps ==
    ASSUME NetworkInv, NEW a \in DOMAIN agents, Agent(a) \/ GiveUpConnecting(a)
    PROVE  NetworkInv'
<1>1. CASE Register(a) \/ Attach(a) \/ FindParent(a) \/ Connect(a) \/ GiveUpConnecting(a)
  BY <1>1, RegisterKeeps, AttachKeeps, FindParentKeeps, ConnectKeeps, GiveUpConnectingKeeps
<1>2. CASE Heartbeat(a) \/ ObeyReinit(a) \/ ObeyTerminate(a)
  BY <1>2, HeartbeatKeeps, ObeyReinitKeeps, ObeyTerminateKeeps
<1>3. CASE TellTerminate(a) \/ DeleteEntry(a) \/ Released(a) \/ Leave(a)
  BY <1>3, TellTerminateKeeps, DeleteEntryKeeps, ReleasedKeeps, LeaveKeeps
<1> QED
  BY <1>1, <1>2, <1>3 DEF Agent

\* All steps.  The one assumption: a hierarchy the frontend forks is sound.
LEMMA NextKeeps ==
    ASSUME NetworkInv, [Next]_vars, [gen' # gen => Sound']_vars
    PROVE  NetworkInv'
<1>1. CASE UNCHANGED vars
  BY <1>1, StutterKeeps
<1>2. CASE Application
  <2>1. CASE \E r \in starting : ProcessRegisters(r)
    BY <2>1, RegistersKeeps
  <2>2. CASE \E p \in alive : ProcessExits(p)
    BY <2>2, ExitsKeeps
  <2> QED
    BY <1>2, <2>1, <2>2 DEF Application
<1>3. CASE LauncherFails
  BY <1>3, LauncherFailsKeeps
<1>4. CASE FrontendStep \/ StartupTimesOut \/ Restart \/ Rebuild \/ Quit
  <2>1. gen' # gen => Sound'
    BY DEF vars, agentVars
  <2> QED
    BY <1>4, <2>1, FrontendKeeps
<1>5. CASE \E a \in DOMAIN agents : Agent(a) \/ GiveUpConnecting(a)
  BY <1>5, AgentKeeps
<1> QED
  BY <1>1, <1>2, <1>3, <1>4, <1>5 DEF Next, Work

\* The invariant holds in every state, whatever the frontend reads from the
\* registry, if the hierarchies computeAgentHierarchy lays out are sound.
THEOREM NetworkInvariant == Spec /\ HierarchySound => []NetworkInv
<1>1. Init => NetworkInv
  BY InitInv
<1>2. NetworkInv /\ [Next]_vars /\ [gen' # gen => Sound']_vars => NetworkInv'
  BY NextKeeps
<1> QED
  BY <1>1, <1>2, PTL DEF Spec, HierarchySound

\* The type invariant is part of it.
LEMMA TypesFollow ==
    ASSUME NetworkInv
    PROVE  TypeOK
<1>1. /\ [opt |-> opt, plan |-> plan] \in Cases /\ procs = plan[run]
      /\ fe \in {"appstart", "startup", "running", "terminating", "apprestart", "reinit",
                 "rebuilding", "reaping", "quitting", "done", "aborted"}
      /\ gen \in 0 .. run /\ Len(commands) = gen
      /\ starting \subseteq 1 .. procs /\ heard \in BOOLEAN
  BY DEF NetworkInv, Stage, Early, Ending
<1>2. run \in DOMAIN plan
  BY LenProperties DEF NetworkInv, Stage
<1>3. \A p, q \in entries \cup alive \cup told : p.id < nextId /\ (p.id = q.id => p = q)
  BY DEF NetworkInv, Registry, Known
<1>4. \A a \in DOMAIN agents :
          /\ agents[a].pc \in {"forked", "registered", "attached", "connecting", "connected",
                               "releasing", "deleting", "leaving", "gone", "failed"}
          /\ agents[a].obeyed \in 0 .. Len(commands[a.gen])
          /\ agents[a].heard \subseteq agents[a].children
  BY DEF NetworkInv, Tree, Stages
<1> QED
  BY <1>1, <1>2, <1>3, <1>4 DEF TypeOK

\* The agent of a rank controls its process, and no other agent does.
LEMMA CompleteFollows ==
    ASSUME NetworkInv
    PROVE  ReadyMeansComplete
<1> SUFFICES ASSUME fe = "running" PROVE ReadyMeansComplete
  BY DEF ReadyMeansComplete
<1>1. \A a \in Agents : agents[a].pc = "connected" /\ agents[a].peer = TrueParent(a)
  BY DEF NetworkInv, Progress
<1>2. \A a \in Leaves : Controls(a)
  BY DEF NetworkInv, Coverage
<1>3. \A a \in Leaves : \A p \in agents[a].control : p.run = run
  BY <1>2 DEF Controls
<1>4. ASSUME NEW r \in 1 .. procs
      PROVE  \E p \in alive \ told : /\ p.run = run /\ p.rank = r
                                     /\ Cardinality({a \in Leaves : p \in agents[a].control}) = 1
  <2>1. PICK a \in Leaves : r \in agents[a].ranks
    BY DEF NetworkInv, Coverage
  <2>2. PICK p \in agents[a].control : p.rank = r
    BY <1>2, <2>1 DEF Controls
  <2>3. p \in alive /\ p.run = run
    BY <1>2, <2>1, <2>2 DEF Controls
  <2>4. p \notin told
    <3>1. run \in Nat
      BY LenProperties DEF NetworkInv, Stage
    <3> QED
      BY <2>3, <3>1 DEF NetworkInv, Registry, Early
  <2>5. \A b \in Leaves : p \in agents[b].control => b = a
    <3> SUFFICES ASSUME NEW b \in Leaves, p \in agents[b].control PROVE b = a
      OBVIOUS
    <3>1. r \in agents[b].ranks
      BY <1>2, <2>2 DEF Controls
    <3> QED
      BY <2>1, <3>1 DEF NetworkInv, Coverage
  <2>6. {b \in Leaves : p \in agents[b].control} = {a}
    BY <2>2, <2>5
  <2>7. Cardinality({a}) = 1
    BY FS_Singleton
  <2> QED
    BY <2>2, <2>3, <2>4, <2>6, <2>7
<1> QED
  BY <1>1, <1>3, <1>4 DEF ReadyMeansComplete

\* The variables keep their types, and what the registry and the agents rely on
\* holds in every state: an id is one process's (the table of registry.c), an
\* agent has not obeyed what was not sent, and has noted heartbeats of its own
\* children only (ACCL_HLAgent_Handler::on_heartbeat).
THEOREM NetworkTypeCorrect == Spec /\ HierarchySound => []TypeOK
<1>1. NetworkInv => TypeOK
  BY TypesFollow
<1> QED
  BY <1>1, NetworkInvariant, PTL

\* When the loop AGENT_STARTUP or STARTUP_REINIT of PeriscopeFrontend::handle_step
\* has ended, the network is complete: every agent is connected to its parent, and
\* every process is controlled by one analysis agent.  This holds for every plan
\* of runs, any number of processes and agents, and every order in which they
\* register, attach, connect, rejoin, release and leave.
THEOREM ReadyIsComplete == Spec /\ HierarchySound => []ReadyMeansComplete
<1>1. NetworkInv => ReadyMeansComplete
  BY CompleteFollows
<1> QED
  BY <1>1, NetworkInvariant, PTL
==============================================================================
