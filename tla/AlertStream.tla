----------------------------- MODULE AlertStream -----------------------------
(***************************************************************************)
(* How a change of the alerts reaches the operations panel of a browser:   *)
(* publish and stream of apps/api/src/operations/operations.service.ts,    *)
(* Redis Pub/Sub between processes, and the panel's event stream with its  *)
(* fallback (apps/web/features/operations).                                *)
(*                                                                         *)
(* The panel is connected to one API process, "here". Alerts also change   *)
(* in another one, "there", and in the maintenance worker, which runs      *)
(* OperationsService without connecting it to Redis. Events only say that  *)
(* something changed: the panel then loads everything.                     *)
(***************************************************************************)
EXTENDS Integers

CONSTANTS
  Writers,       \* the processes in which alerts change, of "here", "there", "worker"
  MaxVersions,   \* changes (a bound)
  MaxCuts        \* connections lost (a bound)

ASSUME StreamAssumption == Writers \subseteq {"here", "there", "worker"} /\ MaxVersions \in Nat

Links == {"publisher", "subscriber", "publisherThere"}

VARIABLES
  version,   \* number of changes of the alerts
  owed,      \* processes that have changed alerts and not published it yet
  link,      \* which Redis connections are ready
  coming,    \* an event is on its way to the panel
  panel,     \* the panel: its stream, its fallback, what it shows
  loads,     \* versions in the answers on their way to the panel
  gap,       \* an event did not reach the panel, and it has not loaded since
  missed,    \* a heartbeat has hidden that, or an older answer has replaced a newer one
  cuts

streamVars == <<version, owed, link, coming, panel, loads, gap, missed, cuts>>

PubSubReady == link["publisher"] /\ link["subscriber"]

\* An event reaches the panel if it is connected; a panel that polls needs none.
Deliver(heard) ==
  /\ coming' = (coming \/ (heard /\ panel.on))
  /\ gap' = (gap \/ ~heard)

-----------------------------------------------------------------------------
(* The API and the worker. *)

Change(w) ==
  /\ w \in Writers /\ version < MaxVersions
  /\ version' = version + 1
  /\ owed' = owed \cup {w}
  /\ UNCHANGED <<link, coming, panel, loads, gap, missed, cuts>>

\* publish: through Redis while the process has a connection, else to its own streams.
Publish(w) ==
  /\ w \in owed
  /\ owed' = owed \ {w}
  /\ Deliver(\/ w = "here" /\ (link["publisher"] => link["subscriber"])
             \/ w = "there" /\ link["publisherThere"] /\ link["subscriber"])
  /\ UNCHANGED <<version, link, panel, loads, missed, cuts>>

Cut(l) ==
  /\ link[l] /\ cuts < MaxCuts
  /\ link' = [link EXCEPT ![l] = FALSE]
  /\ cuts' = cuts + 1
  /\ UNCHANGED <<version, owed, coming, panel, loads, gap, missed>>

\* The client reconnects, and subscribes again.
Reconnect(l) ==
  /\ ~link[l]
  /\ link' = [link EXCEPT ![l] = TRUE]
  /\ UNCHANGED <<version, owed, coming, panel, loads, gap, missed, cuts>>

-----------------------------------------------------------------------------
(* The browser: useOperationalEvents and OperationsPanel. *)

\* The answer of a load carries what the database holds when it is asked.
Loads == loads' = loads \cup {version} /\ gap' = FALSE

\* The fallback polls at once, and then every thirty seconds.
Fallback(on, polling) ==
  /\ panel' = [panel EXCEPT !.on = on, !.polling = polling]
  /\ IF polling /\ ~panel.polling THEN Loads ELSE UNCHANGED <<loads, gap>>

\* Every fifteen seconds the stream says whether Redis carries events.
Heartbeat ==
  /\ panel.on
  /\ Fallback(TRUE, ~PubSubReady)
  /\ missed' = (missed \/ (gap /\ PubSubReady))
  /\ UNCHANGED <<version, owed, link, coming, cuts>>

\* A bug: the stream opens without a snapshot.
ConnectSilently ==
  /\ ~panel.on
  /\ Fallback(TRUE, FALSE)
  /\ UNCHANGED <<version, owed, link, coming, missed, cuts>>

\* The stream opens with a snapshot, which makes the panel load.
Connect ==
  /\ ~panel.on
  /\ Fallback(TRUE, FALSE)
  /\ coming' = TRUE
  /\ UNCHANGED <<version, owed, link, missed, cuts>>

\* The stream ends, or does not open.
Disconnect ==
  /\ panel.on \/ ~panel.polling
  /\ cuts < MaxCuts
  /\ cuts' = cuts + 1
  /\ Fallback(FALSE, TRUE)
  /\ coming' = FALSE
  /\ UNCHANGED <<version, owed, link, missed>>

HearEvent ==
  /\ coming
  /\ coming' = FALSE
  /\ Loads
  /\ UNCHANGED <<version, owed, link, panel, missed, cuts>>

Poll ==
  /\ panel.polling /\ version \notin loads
  /\ Loads
  /\ UNCHANGED <<version, owed, link, coming, panel, missed, cuts>>

\* Answers arrive in any order, and the last to arrive is shown.
Arrive(v) ==
  /\ v \in loads
  /\ loads' = loads \ {v}
  /\ panel' = [panel EXCEPT !.shows = v]
  /\ missed' = (missed \/ v < panel.shows)
  /\ UNCHANGED <<version, owed, link, coming, gap, cuts>>

StreamInit ==
  /\ version = 0 /\ owed = {} /\ loads = {0}
  /\ link = [l \in Links |-> TRUE]
  /\ panel = [on |-> FALSE, polling |-> FALSE, shows |-> 0]
  /\ coming = FALSE /\ gap = FALSE /\ missed = FALSE
  /\ cuts = 0

StreamNext ==
  \/ \E w \in Writers : Change(w) \/ Publish(w)
  \/ \E l \in Links : Cut(l) \/ Reconnect(l)
  \/ Heartbeat \/ Connect \/ Disconnect \/ HearEvent \/ Poll
  \/ \E v \in 0 .. MaxVersions : Arrive(v)

StreamSpec == StreamInit /\ [][StreamNext]_streamVars
-----------------------------------------------------------------------------
(* Properties *)

\* The stream keeps its shape: what is shown, or on its way, has existed.
StreamTypeOK ==
  /\ version \in 0 .. MaxVersions /\ owed \subseteq Writers
  /\ panel.shows \in 0 .. version /\ loads \subseteq 0 .. version
  /\ coming => panel.on

\* Whatever is cut and comes back, the panel comes to show every change, unless
\* an event was lost while the heartbeats said all was well, or answers overtook
\* each other.
PanelCatchesUp ==
  [](~missed) => \A v \in 1 .. MaxVersions : (version = v) ~> (panel.shows >= v)
=============================================================================
