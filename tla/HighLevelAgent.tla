--------------------------- MODULE HighLevelAgent ---------------------------
(***************************************************************************)
(* The high-level agent: the handlers of hagent_accl_handler.cc and the    *)
(* timer of hlagent.cc.  Requests of the parent are passed to all the      *)
(* children; what the children report is combined into one report.         *)
(***************************************************************************)
EXTENDS AgentTree

CONSTANT NoCluster  \* properties are passed on as they come (--nocluster)

ASSUME ClusterAssumption == NoCluster \in BOOLEAN

VARIABLES properties,  \* properties[h]: the properties kept for clustering
          timer        \* timer[h]: the action of the agent's timer, "off" when cancelled

hlaVars == <<properties, timer>>

HLAInit ==
    /\ properties = [h \in HLAs |-> {}]
    /\ timer = [h \in HLAs |-> "off"]

-----------------------------------------------------------------------------
(* Requests of the parent.                                                 *)

\* run: wait for the children to report, looking every second.
HLARun(h) ==
    /\ alive[h] = "starting"
    /\ alive' = [alive EXCEPT ![h] = "up"]
    /\ timer' = [timer EXCEPT ![h] = "STARTUP"]
    /\ UNCHANGED <<down, up, info, properties>>

\* The children's records after f has been set to v in each of them.
SetAll(h, f, v) == [n \in Agents |-> IF Parent[n] = h THEN [info[n] EXCEPT ![f] = v] ELSE info[n]]

\* on_start, on_startexperiment: passed on as they are.
HLAOnStart(h) ==
    /\ HasRequest(h, "start") \/ HasRequest(h, "startexperiment")
    /\ down' = ForwardDown(h, Head(down[h]))
    /\ UNCHANGED <<up, info, alive, hlaVars>>

\* on_check
HLAOnCheck(h) ==
    /\ HasRequest(h, "check")
    /\ down' = ForwardDown(h, Msg("check"))
    /\ info' = SetAll(h, "properties_sent", FALSE)
    /\ UNCHANGED <<up, alive, hlaVars>>

\* on_terminate
HLAOnTerminate(h) ==
    /\ HasRequest(h, "terminate")
    /\ down' = ForwardDown(h, Msg("terminate"))
    /\ info' = SetAll(h, "appl_terminated", FALSE)
    /\ UNCHANGED <<up, alive, hlaVars>>

\* on_serializecalltree
HLAOnSerializeCalltree(h) ==
    /\ HasRequest(h, "serializecalltree")
    /\ down' = ForwardDown(h, Msg("serializecalltree"))
    /\ info' = SetAll(h, "calltree_sent", FALSE)
    /\ UNCHANGED <<up, alive, hlaVars>>

\* on_reinit: passed on, and the timer waits for the children to report again.
HLAOnReinit(h) ==
    /\ HasRequest(h, "reinit")
    /\ down' = ForwardDown(h, Msg("reinit"))
    /\ info' = SetAll(h, "status_reinit", "INITIAL")
    /\ timer' = [timer EXCEPT ![h] = "STARTUP_REINIT"]
    /\ UNCHANGED <<up, alive, properties>>

\* on_quit
HLAOnQuit(h) ==
    /\ HasRequest(h, "quit")
    /\ down' = ForwardDown(h, Msg("quit"))
    /\ alive' = [alive EXCEPT ![h] = "down"]
    /\ UNCHANGED <<up, info, hlaVars>>

HLAHandleRequest(h) ==
    /\ alive[h] = "up"
    /\ \/ HLAOnStart(h)
       \/ HLAOnCheck(h)
       \/ HLAOnTerminate(h)
       \/ HLAOnSerializeCalltree(h)
       \/ HLAOnReinit(h)
       \/ HLAOnQuit(h)

-----------------------------------------------------------------------------
(* Messages of child c.                                                    *)

\* on_heartbeat: the first one starts the child, later ones answer a reinit.
HLAOnHeartbeat(h, c) ==
    /\ HasMessage(c, "heartbeat")
    /\ info' = [info EXCEPT ![c] = IF @.status = "INITIAL"
                                   THEN [@ EXCEPT !.status = "STARTED"]
                                   ELSE [@ EXCEPT !.status_reinit = "STARTED"]]
    /\ up' = ForwardUp(c, h, <<>>)
    /\ UNCHANGED <<down, alive, hlaVars>>

\* on_foundprop through found_property
HLAOnFoundProp(h, c) ==
    /\ HasMessage(c, "foundprop")
    /\ IF NoCluster
       THEN /\ up' = ForwardUp(c, h, <<Head(up[c])>>)
            /\ UNCHANGED properties
       ELSE /\ up' = ForwardUp(c, h, <<>>)
            /\ properties' = [properties EXCEPT ![h] = @ \cup Head(up[c]).props]
    /\ UNCHANGED <<down, info, alive, timer>>

\* on_calltree
HLAOnCalltree(h, c) ==
    /\ HasMessage(c, "calltree")
    /\ up' = ForwardUp(c, h, <<Head(up[c])>>)
    /\ UNCHANGED <<down, info, alive, hlaVars>>

\* on_calltreesent: the loop over the children breaks at the sender, so that
\* only the children before it must have sent their call-tree.
HLAOnCalltreeSent(h, c) ==
    /\ HasMessage(c, "calltreesent")
    /\ info' = [info EXCEPT ![c].calltree_sent = TRUE]
    /\ up' = ForwardUp(c, h, IF \A n \in Before(c) : info[n].calltree_sent
                             THEN <<Msg("calltreesent")>>
                             ELSE <<>>)
    /\ UNCHANGED <<down, alive, hlaVars>>

\* on_searchfinished, on_reqexperiment, on_needrestart through forward_request
HLAOnSearchRequest(h, c) ==
    /\ up[c] # <<>> /\ Head(up[c]).type \in SearchRequests
    /\ LET now == [info EXCEPT ![c].search_status = StatusOf(Head(up[c]).type)]
       IN IF AllReported(Children(h), now)
          THEN /\ up' = ForwardUp(c, h, <<Msg(RequestOf(Combined(Children(h), now)))>>)
               /\ info' = SetAll(h, "search_status", "UNDEFINED")
          ELSE /\ up' = ForwardUp(c, h, <<>>)
               /\ info' = now
    /\ UNCHANGED <<down, alive, hlaVars>>

\* on_terminated
HLAOnTerminated(h, c) ==
    /\ HasMessage(c, "terminated")
    /\ info' = [info EXCEPT ![c].appl_terminated = TRUE]
    /\ up' = ForwardUp(c, h, IF \A n \in Children(h) : info'[n].appl_terminated
                             THEN <<Msg("terminated")>>
                             ELSE <<>>)
    /\ UNCHANGED <<down, alive, hlaVars>>

\* clusterProps, addHotRegionProps: everything kept is sent; which properties
\* share a cluster is left open, the message holds all of them.
ClusterProps(h) ==
    IF properties[h] = {} THEN <<>> ELSE <<[type |-> "foundprop", props |-> properties[h]]>>

\* on_propertiessent
HLAOnPropertiesSent(h, c) ==
    /\ HasMessage(c, "propertiessent")
    /\ info' = [info EXCEPT ![c].properties_sent = TRUE]
    /\ IF \A n \in Children(h) : info'[n].properties_sent
       THEN /\ up' = ForwardUp(c, h, ClusterProps(h) \o <<Msg("propertiessent")>>)
            /\ properties' = [properties EXCEPT ![h] = {}]
       ELSE /\ up' = ForwardUp(c, h, <<>>)
            /\ UNCHANGED properties
    /\ UNCHANGED <<down, alive, timer>>

HLAHandleMessage(h, c) ==
    /\ alive[h] = "up"
    /\ Parent[c] = h
    /\ \/ HLAOnHeartbeat(h, c)
       \/ HLAOnFoundProp(h, c)
       \/ HLAOnCalltree(h, c)
       \/ HLAOnCalltreeSent(h, c)
       \/ HLAOnSearchRequest(h, c)
       \/ HLAOnTerminated(h, c)
       \/ HLAOnPropertiesSent(h, c)

-----------------------------------------------------------------------------
\* Every child has reported what the timer waits for.
ChildrenReady(h) ==
    \/ timer[h] = "STARTUP" /\ \A c \in Children(h) : info[c].status = "STARTED"
    \/ timer[h] = "STARTUP_REINIT" /\ \A c \in Children(h) : info[c].status_reinit = "STARTED"

\* handle_timeout: report to the parent once every child has reported.  After
\* too long a wait for the children's reinit the agent stops; its children are
\* not told.
HLAHandleTimeout(h) ==
    /\ alive[h] = "up"
    /\ \/ /\ ChildrenReady(h)
          /\ up' = [up EXCEPT ![h] = Append(@, Msg("heartbeat"))]
          /\ timer' = [timer EXCEPT ![h] = "off"]
          /\ UNCHANGED alive
       \/ /\ TimeOuts /\ timer[h] = "STARTUP_REINIT" /\ ~ChildrenReady(h)
          /\ alive' = [alive EXCEPT ![h] = "down"]
          /\ UNCHANGED <<up, timer>>
    /\ UNCHANGED <<down, info, properties>>

HLAStep(h) == \/ HLARun(h)
              \/ HLAHandleRequest(h)
              \/ \E c \in Agents : HLAHandleMessage(h, c)
              \/ HLAHandleTimeout(h)
==============================================================================
