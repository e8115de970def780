-------------------------- MODULE ListenerBindings --------------------------
(***************************************************************************)
(* Where traps are received: the listeners chosen in the settings          *)
(* (apps/api/src/settings/settings.service.ts), and the agent on the SNMP  *)
(* host (apps/snmp/src/host-agent.ts) that reports the interfaces it sees, *)
(* writes an override file for the chosen ones and has Docker Compose      *)
(* recreate the container.                                                 *)
(***************************************************************************)
EXTENDS Integers

CONSTANTS
  Nics,          \* IPv4 interfaces the host may have
  MaxChanges,    \* changes of interfaces, choices and containers (a bound)
  MaxFailures,   \* failures of Compose, crashes of the agent (a bound)
  NoFile         \* no override file; a container without one

ASSUME ListenAssumption == MaxChanges \in Nat /\ MaxFailures \in Nat

VARIABLES
  nics,        \* the interfaces of the host
  reported,    \* rows SnmpListenerInterface: those seen within two minutes
  aged,        \* rows seen before that
  chosen,      \* row SnmpListenerConfig
  choosing,    \* the selection that updateSnmpListeners has checked
  agent,       \* performRefresh: the statement to come, and what it has read
  applied,     \* lastAppliedFingerprint
  override,    \* the override file
  container,   \* the ports it publishes
  misled,      \* Compose has acted and reported a failure
  changes, failures

listenVars == <<nics, reported, aged, chosen, choosing, agent, applied, override,
                container, misled, changes, failures>>

All == {"0.0.0.0"}
Choice == [listenAll : BOOLEAN, selected : SUBSET Nics]
NoChoice == [listenAll |-> TRUE, selected |-> {}]
Idle == [at |-> "idle", current |-> {}, existing |-> {}, want |-> {}]

(* selectedHostAddresses                                                   *)
HostAddresses(config, current) == IF config.listenAll THEN All ELSE config.selected \cap current

ListenInit ==
  /\ nics \in SUBSET Nics
  /\ reported = {} /\ aged = {} /\ chosen = NoChoice /\ choosing = NoChoice
  /\ agent = Idle /\ applied = NoFile /\ override = NoFile /\ container = NoFile
  /\ misled = FALSE /\ changes = 0 /\ failures = 0

Changes == changes < MaxChanges /\ changes' = changes + 1
Fails == failures < MaxFailures /\ failures' = failures + 1

(* An administrator selects interfaces: all have to be fresh, and the      *)
(* selection is written as it was checked.                                 *)
CheckChoice(all, ids) ==
  /\ Changes /\ choosing = NoChoice
  /\ ~all => ids # {} /\ ids \subseteq reported
  /\ choosing' = [listenAll |-> all, selected |-> IF all THEN {} ELSE ids]
  /\ UNCHANGED <<nics, reported, aged, chosen, agent, applied, override, container, misled, failures>>
WriteChoice ==
  /\ choosing # NoChoice
  /\ chosen' = choosing /\ choosing' = NoChoice
  /\ UNCHANGED <<nics, reported, aged, agent, applied, override, container, misled, changes, failures>>

(* The host: interfaces come and go, minutes pass without a refresh, and   *)
(* an operator recreates the container without the override file.          *)
Plug(on) ==
  /\ Changes /\ on # nics
  /\ nics' = on
  /\ UNCHANGED <<reported, aged, chosen, choosing, agent, applied, override, container, misled, failures>>
Age ==
  /\ reported # {} /\ agent.at # "idle"  \* a refresh that hangs
  /\ aged' = aged \cup reported /\ reported' = {}
  /\ UNCHANGED <<nics, chosen, choosing, agent, applied, override, container, misled, changes, failures>>
Redeploy ==
  /\ Changes
  /\ container' = NoFile
  /\ UNCHANGED <<nics, reported, aged, chosen, choosing, agent, applied, override, misled, failures>>

Agent == <<nics, chosen, choosing, changes>>  \* what its steps leave alone
ReadInterfaces ==
  /\ agent.at = "idle" /\ nics # {}  \* without any, the refresh throws
  /\ agent' = [Idle EXCEPT !.at = "report", !.current = nics, !.existing = reported \cup aged]
  /\ UNCHANGED <<reported, aged, applied, override, container, misled, failures, Agent>>
ReportInterfaces ==  \* one transaction
  /\ agent.at = "report"
  /\ LET gone == agent.existing \ agent.current
     IN /\ reported' = (reported \cup agent.current) \ gone
        /\ aged' = (aged \ agent.current) \ gone
  /\ agent' = [agent EXCEPT !.at = "choice"]
  /\ UNCHANGED <<applied, override, container, misled, failures, Agent>>
ReadChoice ==
  /\ agent.at = "choice"
  /\ agent' = [agent EXCEPT !.at = "compare", !.want = HostAddresses(chosen, agent.current)]
  /\ UNCHANGED <<reported, aged, applied, override, container, misled, failures, Agent>>

(* A bug: what was applied once is taken for running.                      *)
NothingToDoByMemory(want) == applied = want

(* The same file as last time, and a container made from the present file. *)
NothingToDo(want) == applied = want /\ container = override
WriteOverride ==
  /\ agent.at = "compare"
  /\ IF NothingToDo(agent.want)
     THEN agent' = Idle /\ UNCHANGED override
     ELSE agent' = [agent EXCEPT !.at = "up"] /\ override' = agent.want
  /\ UNCHANGED <<reported, aged, applied, container, misled, failures, Agent>>
InspectFails ==  \* then nothing is known to be running
  /\ agent.at = "compare" /\ applied = agent.want /\ Fails
  /\ agent' = [agent EXCEPT !.at = "up"] /\ override' = agent.want
  /\ UNCHANGED <<reported, aged, applied, container, misled, Agent>>
ComposeUp ==
  /\ agent.at = "up"
  /\ container' = override /\ applied' = agent.want
  /\ agent' = Idle /\ misled' = FALSE
  /\ UNCHANGED <<reported, aged, override, failures, Agent>>
ComposeFails(acted) ==
  /\ agent.at = "up" /\ Fails
  /\ container' = IF acted THEN override ELSE container
  /\ misled' = (misled \/ acted)
  /\ agent' = Idle
  /\ UNCHANGED <<reported, aged, applied, override, Agent>>
RefreshStops(crash) ==  \* a statement fails, or the process: it is started again
  /\ agent.at # "idle" /\ Fails
  /\ agent' = Idle
  /\ applied' = IF crash THEN NoFile ELSE applied
  /\ misled' = (misled /\ ~crash)
  /\ UNCHANGED <<reported, aged, override, container, Agent>>

AgentStep ==
  ReadInterfaces \/ ReportInterfaces \/ ReadChoice \/ WriteOverride \/ ComposeUp

ListenNext ==
  \/ AgentStep \/ InspectFails
  \/ \E bool \in BOOLEAN : ComposeFails(bool) \/ RefreshStops(bool)
  \/ \E ids \in SUBSET Nics, all \in BOOLEAN : CheckChoice(all, ids)
  \/ WriteChoice \/ Age \/ Redeploy
  \/ \E on \in SUBSET Nics : Plug(on)

ListenSpec == ListenInit /\ [][ListenNext]_listenVars
-----------------------------------------------------------------------------
ListenTypeOK ==
  /\ nics \subseteq Nics /\ reported \subseteq Nics /\ aged \subseteq Nics
  /\ reported \cap aged = {}
  /\ chosen \in Choice /\ choosing \in Choice
  /\ agent \in [at : {"idle", "report", "choice", "compare", "up"},
                current : SUBSET Nics, existing : SUBSET Nics, want : SUBSET (Nics \cup All)]
  /\ {applied, override, container} \subseteq {NoFile} \cup SUBSET (Nics \cup All)
  /\ misled \in BOOLEAN /\ changes \in 0 .. MaxChanges /\ failures \in 0 .. MaxFailures

(* Once choices, interfaces and failures stop, the container listens where *)
(* the settings say, on the interfaces there are: whatever order a failed  *)
(* command, a crash, a redeployment and a change came in, unless Compose   *)
(* had recreated the container when it reported its failure.               *)
ListenersFollowChoice ==
  <>[](nics = {} \/ misled \/ container = HostAddresses(chosen, nics))
=============================================================================
