----------------------------- MODULE LinuxAgents -----------------------------
(***************************************************************************)
(* The agent of one host: a script that posts a heartbeat a minute with a  *)
(* token (apps/linux-agent/linux_heartbeat_agent.py, and its Windows twin) *)
(* and the row that tells whether the host is heard of                     *)
(* (apps/api/src/linux-agent/linux-agent.service.ts).                      *)
(* Time passes in quarters of a minute.  Each enrollment draws a token:    *)
(* 1, 2, ... here, and Random stands for the hash a revocation stores.     *)
(***************************************************************************)
EXTENDS Integers

CONSTANTS
  MaxEnrollments,  \* tokens drawn (a bound)
  Random, Never, NoBeat

Interval == 4      \* the agent sleeps a minute
Timeout == 1       \* and gives a request fifteen seconds
StaleAfter == 12   \* three minutes without a heartbeat

VARIABLES
  agentRow,   \* LinuxAgent: tokenHash, revokedAt, and the age of lastHeartbeatAt
  drawn,      \* tokens drawn so far
  script,      \* the script: its token file, what it does and for how long yet
  beat,       \* the request of a heartbeat in the API, with the age of its "now"
  revoking,   \* revocations that have read the row, by its id
  beatBy,     \* the token of the heartbeat the row shows
  crossed,    \* it was read before an enrollment and written after it
  unheard      \* heartbeats in a row of which the script has no good answer

agentVars == <<agentRow, drawn, script, beat, revoking, beatBy, crossed, unheard>>

Ages == 0 .. StaleAfter + 1  \* an age stays at the last, once it is reached
Older(age) == IF age = StaleAfter + 1 THEN age ELSE age + 1
Tokens == 1 .. MaxEnrollments

ASSUME EnrollmentAssumption ==
  MaxEnrollments \in Nat \ {0} /\ Random \notin Tokens /\ Never \notin Ages

(* linuxAgentState                                                         *)
State == IF agentRow.revoked THEN "REVOKED"
         ELSE IF agentRow.age = Never THEN "PENDING"
         ELSE IF agentRow.age > StaleAfter THEN "STALE" ELSE "ONLINE"

AgentInit ==
  /\ agentRow = [token |-> 1, revoked |-> FALSE, age |-> Never] /\ drawn = 1
  /\ script = [token |-> 1, does |-> "sleeps", wait |-> 0]
  /\ beat = NoBeat /\ revoking = FALSE
  /\ beatBy = Never /\ crossed = FALSE /\ unheard = 0

(* The operators.                                                          *)
Enrollment(token) == [token |-> token, revoked |-> FALSE, age |-> Never]
EnrollHost ==
  /\ drawn < MaxEnrollments
  /\ drawn' = drawn + 1 /\ agentRow' = Enrollment(drawn + 1)
  /\ crossed' = FALSE
  /\ UNCHANGED <<script, beat, revoking, beatBy, unheard>>
InstallToken ==
  /\ script' = [script EXCEPT !.token = drawn]
  /\ UNCHANGED <<agentRow, drawn, beat, revoking, beatBy, crossed, unheard>>
FindToRevoke ==
  /\ revoking' = TRUE
  /\ UNCHANGED <<agentRow, drawn, script, beat, beatBy, crossed, unheard>>
WriteRevoked ==
  /\ revoking /\ revoking' = FALSE
  /\ agentRow' = [agentRow EXCEPT !.revoked = TRUE, !.token = Random]
  /\ UNCHANGED <<drawn, script, beat, beatBy, crossed, unheard>>

(* The script: report, and sleep whatever came of it.  One request of its  *)
(* is in the API at a time (a bound).                                      *)
Sleeps == script' = [script EXCEPT !.does = "sleeps", !.wait = Interval]
Report ==
  /\ script.does = "sleeps" /\ script.wait = 0 /\ beat = NoBeat
  /\ script' = [script EXCEPT !.does = "waits", !.wait = Timeout]
  /\ beat' = [token |-> script.token, at |-> "find", age |-> 0]
  /\ UNCHANGED <<agentRow, drawn, revoking, beatBy, crossed, unheard>>
ReportFails ==  \* refused, timed out, or never received
  /\ script.does = "waits" /\ Sleeps
  /\ unheard' = unheard + 1 /\ unheard < 3
  /\ beat' \in {beat, NoBeat}
  /\ UNCHANGED <<agentRow, drawn, revoking, beatBy, crossed>>
Restart ==  \* by the service manager: it reports at once
  /\ script' = [script EXCEPT !.does = "sleeps", !.wait = 0]
  /\ unheard' = IF script.does = "waits" THEN unheard + 1 ELSE unheard
  /\ unheard < 3
  /\ UNCHANGED <<agentRow, drawn, beat, revoking, beatBy, crossed>>

(* The API: the row is found by the hash of the token, and written by id.  *)
FindAgent ==
  /\ beat # NoBeat /\ beat.at = "find"
  /\ IF agentRow.token = beat.token /\ ~agentRow.revoked
     THEN beat' = [beat EXCEPT !.at = "write", !.age = 0] ELSE beat' = NoBeat
  /\ UNCHANGED <<agentRow, drawn, script, revoking, beatBy, crossed, unheard>>
WriteHeartbeat ==
  /\ beat # NoBeat /\ beat.at = "write"
  /\ agentRow' = [agentRow EXCEPT !.age = beat.age]
  /\ beatBy' = beat.token /\ crossed' = (agentRow.token \notin {beat.token, Random})
  /\ beat' = [beat EXCEPT !.at = "answer"]
  /\ UNCHANGED <<drawn, script, revoking, unheard>>
HeartbeatAnswered ==
  /\ beat # NoBeat /\ beat.at = "answer" /\ beat' = NoBeat
  /\ IF script.does = "waits" THEN Sleeps /\ unheard' = 0 ELSE UNCHANGED <<script, unheard>>
  /\ UNCHANGED <<agentRow, drawn, revoking, beatBy, crossed>>

(* Time passes unless the script has something to do.                      *)
QuarterPasses ==
  /\ script.wait > 0
  /\ script' = [script EXCEPT !.wait = @ - 1]
  /\ agentRow' = IF agentRow.age = Never THEN agentRow ELSE [agentRow EXCEPT !.age = Older(@)]
  /\ beat' = IF beat = NoBeat THEN beat ELSE [beat EXCEPT !.age = Older(@)]
  /\ UNCHANGED <<drawn, revoking, beatBy, crossed, unheard>>

AgentNext ==
  \/ EnrollHost \/ InstallToken \/ FindToRevoke \/ WriteRevoked
  \/ Report \/ ReportFails \/ Restart \/ QuarterPasses
  \/ FindAgent \/ WriteHeartbeat \/ HeartbeatAnswered
-----------------------------------------------------------------------------
AgentTypeOK ==
  /\ agentRow \in [token : Tokens \cup {Random}, revoked : BOOLEAN, age : Ages \cup {Never}]
  /\ drawn \in Tokens
  /\ script \in [token : Tokens, does : {"sleeps", "waits"}, wait : 0 .. Interval]
  /\ beat \in {NoBeat} \cup [token : Tokens, at : {"find", "write", "answer"}, age : Ages]
  /\ revoking \in BOOLEAN /\ crossed \in BOOLEAN
  /\ beatBy \in Tokens \cup {Never} /\ unheard \in 0 .. 3

(* What the list of agents says is true: a host that is ONLINE was heard   *)
(* of with the token of its last enrollment, unless the two crossed; one   *)
(* that was heard of is not STALE for a single heartbeat that was refused, *)
(* lost, or cut short by a restart; and it is REVOKED only while no token  *)
(* opens it.                                                               *)
StateIsTrue ==
  /\ State = "ONLINE" => beatBy = agentRow.token \/ crossed
  /\ State = "STALE" => unheard > 1
  /\ State = "REVOKED" <=> agentRow.token = Random
=============================================================================
