----------------------------- MODULE TrapSockets -----------------------------
(***************************************************************************)
(* The sockets of the trap receiver (apps/snmp/src/traps.ts): every thirty *)
(* seconds, and whenever credentials change, a refresh reads the addresses *)
(* of the machine and those that were chosen, and opens the sockets again  *)
(* when they should be others.  Behind the ports that a container          *)
(* publishes, one socket listens on them all.                              *)
(***************************************************************************)
EXTENDS FiniteSets, Integers

CONSTANTS
  SocketNics,     \* addresses the machine may have
  Any,            \* 0.0.0.0
  MaxNicTurns,    \* addresses coming and going, and choices (a bound)
  MaxSocketFaults,  \* sockets refused for another reason, secrets not read, crashes (a bound)
  NoRefresh

Refresh == [at : {"choice", "bind", "open", "secrets"}, addresses : SUBSET (SocketNics \cup {Any})]

ASSUME SocketsAssumption ==
  /\ NoRefresh \notin Refresh /\ Any \notin SocketNics
  /\ MaxNicTurns \in Nat /\ MaxSocketFaults \in Nat

VARIABLES
  ingress,    \* SNMP_LISTENER_MODE is container-ingress
  present,    \* addresses of the machine
  wanted,     \* SnmpListenerConfig: {Any}, or the addresses chosen
  inventory,  \* SnmpListenerInterface of this instance
  sockets,    \* receivers: the addresses of open sockets
  bound,      \* boundAddresses
  ready,
  refresh,    \* refreshPromise: what it does next, and with which addresses
  nicTurns, socketFaults

socketVars == <<ingress, present, wanted, inventory, sockets, bound, ready, refresh,
                nicTurns, socketFaults>>

SocketsInit ==
  /\ ingress \in BOOLEAN /\ present \in SUBSET SocketNics /\ wanted = {Any}
  /\ inventory = SocketNics
  /\ sockets = {} /\ bound = {} /\ ready = FALSE /\ refresh = NoRefresh
  /\ nicTurns = 0 /\ socketFaults = 0

NicTurns(n) ==
  /\ nicTurns < MaxNicTurns /\ nicTurns' = nicTurns + 1
  /\ present' = IF n \in present THEN present \ {n} ELSE present \cup {n}
  /\ UNCHANGED <<ingress, wanted, inventory, sockets, bound, ready, refresh, socketFaults>>
Choose(choice) ==  \* among the addresses that were seen
  /\ nicTurns < MaxNicTurns /\ nicTurns' = nicTurns + 1
  /\ choice = {Any} \/ (choice # {} /\ choice \subseteq inventory)
  /\ wanted' = choice
  /\ UNCHANGED <<ingress, present, inventory, sockets, bound, ready, refresh, socketFaults>>

Refreshing(at, addresses) == [at |-> at, addresses |-> addresses]

(* performRefresh.  A refresh that is asked for while one runs is that one.*)
StartRefresh ==
  /\ refresh = NoRefresh
  /\ inventory' = IF ingress THEN {} ELSE inventory \cup present
  /\ refresh' = IF ingress THEN Refreshing("bind", {Any}) ELSE Refreshing("choice", present)
  /\ UNCHANGED <<ingress, present, wanted, sockets, bound, ready, nicTurns, socketFaults>>

(* configuredListenerAddresses, of those the machine had                   *)
Configured(runtime) == IF wanted = {Any} THEN {Any} ELSE wanted \cap runtime
ReadListenerConfig ==
  /\ refresh # NoRefresh /\ refresh.at = "choice"
  /\ LET addresses == Configured(refresh.addresses)
     IN IF addresses = {}
        THEN /\ sockets' = {} /\ bound' = {} /\ ready' = FALSE /\ refresh' = NoRefresh
        ELSE /\ refresh' = Refreshing("bind", addresses) /\ UNCHANGED <<sockets, bound, ready>>
  /\ UNCHANGED <<ingress, present, wanted, inventory, nicTurns, socketFaults>>

(* bind: sockets that should be others are closed, and opened one by one.  *)
Rebind ==
  /\ refresh # NoRefresh /\ refresh.at = "bind"
  /\ IF refresh.addresses = bound
     THEN /\ refresh' = Refreshing("secrets", bound) /\ UNCHANGED <<sockets, bound, ready>>
     ELSE /\ ready' = FALSE /\ sockets' = {} /\ bound' = {}
          /\ refresh' = Refreshing("open", refresh.addresses)
  /\ UNCHANGED <<ingress, present, wanted, inventory, nicTurns, socketFaults>>
OpenSocket(n) ==
  /\ refresh # NoRefresh /\ refresh.at = "open" /\ n \in refresh.addresses \ sockets
  /\ n \in present \cup {Any}
  /\ sockets' = sockets \cup {n}
  /\ UNCHANGED <<ingress, present, wanted, inventory, bound, ready, refresh, nicTurns, socketFaults>>
AllOpen ==
  /\ refresh # NoRefresh /\ refresh.at = "open" /\ sockets = refresh.addresses
  /\ bound' = refresh.addresses /\ refresh' = Refreshing("secrets", refresh.addresses)
  /\ UNCHANGED <<ingress, present, wanted, inventory, sockets, ready, nicTurns, socketFaults>>
OpenFails(n) ==  \* the address is gone by now, or its port is taken
  /\ refresh # NoRefresh /\ refresh.at = "open" /\ n \in refresh.addresses \ sockets
  /\ IF n \in present \cup {Any}
     THEN socketFaults < MaxSocketFaults /\ socketFaults' = socketFaults + 1
     ELSE UNCHANGED socketFaults
  /\ sockets' = {} /\ bound' = {} /\ refresh' = NoRefresh
  /\ UNCHANGED <<ingress, present, wanted, inventory, ready, nicTurns>>
SecretsRead ==  \* reloadCredentials
  /\ refresh # NoRefresh /\ refresh.at = "secrets"
  /\ ready' = TRUE /\ refresh' = NoRefresh
  /\ UNCHANGED <<ingress, present, wanted, inventory, sockets, bound, nicTurns, socketFaults>>
SecretsFail ==
  /\ refresh # NoRefresh /\ refresh.at = "secrets"
  /\ socketFaults < MaxSocketFaults /\ socketFaults' = socketFaults + 1
  /\ refresh' = NoRefresh
  /\ UNCHANGED <<ingress, present, wanted, inventory, sockets, bound, ready, nicTurns>>

RowExpires(n) ==  \* a day after the address was last seen, by any refresh
  /\ refresh # NoRefresh /\ refresh.at = "choice" /\ n \notin refresh.addresses
  /\ inventory' = inventory \ {n}
  /\ UNCHANGED <<ingress, present, wanted, sockets, bound, ready, refresh, nicTurns, socketFaults>>
CloseAll ==  \* the process stops or dies, and is started again
  /\ socketFaults < MaxSocketFaults /\ socketFaults' = socketFaults + 1
  /\ sockets' = {} /\ bound' = {} /\ ready' = FALSE /\ refresh' = NoRefresh
  /\ UNCHANGED <<ingress, present, wanted, inventory, nicTurns>>

RefreshStep ==
  \/ StartRefresh \/ ReadListenerConfig \/ Rebind \/ AllOpen \/ SecretsRead \/ SecretsFail
  \/ \E n \in SocketNics \cup {Any} : OpenSocket(n) \/ OpenFails(n)
SocketsNext ==
  \/ RefreshStep \/ CloseAll
  \/ \E n \in SocketNics : NicTurns(n) \/ RowExpires(n)
  \/ \E choice \in {{Any}} \cup SUBSET SocketNics : Choose(choice)

SocketsSpec == SocketsInit /\ [][SocketsNext]_socketVars
-----------------------------------------------------------------------------
SocketsTypeOK ==
  /\ ingress \in BOOLEAN /\ ready \in BOOLEAN
  /\ present \subseteq SocketNics /\ inventory \subseteq SocketNics
  /\ wanted \in {{Any}} \cup SUBSET SocketNics
  /\ sockets \subseteq SocketNics \cup {Any} /\ bound \subseteq SocketNics \cup {Any}
  /\ refresh \in Refresh \cup {NoRefresh}
  /\ nicTurns \in 0 .. MaxNicTurns /\ socketFaults \in 0 .. MaxSocketFaults

(* A receiver that says it is ready, or that is not just being bound, has  *)
(* exactly the sockets it remembers, and is ready with none never.         *)
SocketsAreRemembered ==
  /\ refresh = NoRefresh \/ refresh.at # "open" => sockets = bound
  /\ ready => sockets = bound /\ sockets # {}

(* Once addresses and choice stay, the sockets are those that were chosen, *)
(* as far as the machine has them, and the receiver is ready unless there  *)
(* are none.                                                               *)
Right == IF ingress THEN {Any} ELSE Configured(present)
SocketsFollowChoice == <>[](sockets = Right /\ (ready <=> Right # {}))
=============================================================================
