---------------------------- MODULE MCBackground -----------------------------
(***************************************************************************)
(* Instances of the components that work on their own: on timers, queues   *)
(* and what the network sends.  They share no variable, so that a          *)
(* behaviour moves one of them: the one it chooses at its start.           *)
(***************************************************************************)
EXTENDS OperationalAlerts, QualityFindings, AlertStream, TrapPipeline, DiscoveryScans,
        ListenerBindings, TrapSockets

CONSTANTS
  s1, s2   \* two of the sites, which every fact is about

BothSites == [f \in Facts |-> {s1, s2}]

VARIABLE part

Part == {"alerts", "quality", "stream", "traps", "discovery", "listeners",
         "sockets"}
workVars == <<alertVars, qualityVars, streamVars, trapVars, discoveryVars, listenVars,
              socketVars, part>>

WorkInit ==
  /\ part \in Part
  /\ AlertInit /\ QualityInit /\ StreamInit /\ TrapInit /\ DiscoveryInit
  /\ ListenInit /\ (part # "listeners" => nics = {})
  /\ SocketsInit /\ (part # "sockets" => ingress /\ present = {})

OnlyAlerts ==
  UNCHANGED <<qualityVars, streamVars, trapVars, discoveryVars, listenVars, socketVars, part>>
OnlyQuality ==
  UNCHANGED <<alertVars, streamVars, trapVars, discoveryVars, listenVars, socketVars, part>>
OnlyStream ==
  UNCHANGED <<alertVars, qualityVars, trapVars, discoveryVars, listenVars, socketVars, part>>
OnlyTraps ==
  UNCHANGED <<alertVars, qualityVars, streamVars, discoveryVars, listenVars, socketVars, part>>
OnlyDiscovery ==
  UNCHANGED <<alertVars, qualityVars, streamVars, trapVars, listenVars, socketVars, part>>
OnlyListeners ==
  UNCHANGED <<alertVars, qualityVars, streamVars, trapVars, discoveryVars, socketVars, part>>
OnlySockets ==
  UNCHANGED <<alertVars, qualityVars, streamVars, trapVars, discoveryVars, listenVars, part>>

WorkNext ==
  \/ part = "alerts" /\ AlertNext /\ OnlyAlerts
  \/ part = "quality" /\ QualityNext /\ OnlyQuality
  \/ part = "stream" /\ StreamNext /\ OnlyStream
  \/ part = "traps" /\ TrapNext /\ OnlyTraps
  \/ part = "discovery" /\ DiscoveryNext /\ OnlyDiscovery
  \/ part = "listeners" /\ ListenNext /\ OnlyListeners
  \/ part = "sockets" /\ SocketsNext /\ OnlySockets

(* What is scheduled goes on, in the component that moves.  The reconciler *)
(* passes every ten seconds, and every statement ends.                     *)
AlertWork == \A i \in Instances : WF_alertVars(part = "alerts" /\ PassStep(i))

(* The worker runs what is queued; the scheduler queues a pass every day.  *)
QualityWork ==
  /\ WF_qualityVars(part = "quality" /\ TakeTrigger) /\ WF_qualityVars(part = "quality" /\ Daily)
  /\ \A r \in Runners : WF_qualityVars(part = "quality" /\ RunStep(r))

(* Timers fire, requests are answered, connections come back.              *)
StreamWork ==
  /\ \A w \in Writers : WF_streamVars(part = "stream" /\ Publish(w))
  /\ \A l \in Links : WF_streamVars(part = "stream" /\ Reconnect(l))
  /\ WF_streamVars(part = "stream" /\ Heartbeat) /\ WF_streamVars(part = "stream" /\ Connect)
  /\ WF_streamVars(part = "stream" /\ HearEvent) /\ WF_streamVars(part = "stream" /\ Poll)
  /\ \A v \in 0 .. MaxVersions : WF_streamVars(part = "stream" /\ Arrive(v))

(* The timers of receiver and recovery fire; the worker takes its jobs.    *)
TrapWork ==
  /\ WF_trapVars(part = "traps" /\ ReadSecrets) /\ WF_trapVars(part = "traps" /\ ApplySecrets)
  /\ \A n \in Notices :
       /\ WF_trapVars(part = "traps" /\ TakeTrap(n))
       /\ WF_trapVars(part = "traps" /\ ProcessTrap(n))
       /\ WF_trapVars(part = "traps" /\ Recover(n))

(* Requests end, schedulers fire, and the worker works on what it has.     *)
DiscoveryWork ==
  /\ WF_discoveryVars(part = "discovery" /\ SwitchScheduler)
  /\ WF_discoveryVars(part = "discovery" /\ Tick) /\ WF_discoveryVars(part = "discovery" /\ TakeTick)
  /\ \A s \in AskedScans :
       /\ WF_discoveryVars(part = "discovery" /\ AddScan(s))
       /\ WF_discoveryVars(part = "discovery" /\ TakeScan(s))
  /\ \A s \in Scans : WF_discoveryVars(part = "discovery" /\ WorkScan(s))

(* The agent refreshes every thirty seconds, and requests end.             *)
ListenerWork ==
  WF_listenVars(part = "listeners" /\ AgentStep) /\ WF_listenVars(part = "listeners" /\ WriteChoice)

(* The receiver refreshes every thirty seconds.                            *)
SocketWork == WF_socketVars(part = "sockets" /\ RefreshStep)

WorkSpec ==
  /\ WorkInit /\ [][WorkNext]_workVars
  /\ AlertWork /\ QualityWork /\ StreamWork /\ TrapWork /\ DiscoveryWork /\ ListenerWork
  /\ SocketWork

(* Every variable of every component has its type.                         *)
WorkTypeOK ==
  /\ AlertTypeOK /\ QualityTypeOK /\ StreamTypeOK /\ TrapTypeOK /\ DiscoveryTypeOK
  /\ ListenTypeOK /\ SocketsTypeOK
  /\ part \in Part

(* Traps are received where the settings say, by the container and by the  *)
(* receiver in it, which knows the sockets that it has.                    *)
ReceptionFollowsChoice ==
  /\ ListenersFollowChoice /\ []SocketsAreRemembered
  /\ part = "sockets" => SocketsFollowChoice
=============================================================================
