------------------------------- MODULE Session ------------------------------
(***************************************************************************)
(* The session of one browser tab: apps/web/lib/auth/auth-provider.tsx     *)
(* with the adapter it initializes, the gate in front of the pages         *)
(* (components/layout/auth-gate.tsx) and the transport of the API          *)
(* (lib/api/client.ts), which asks it for a token before every request.    *)
(* Leaving for Keycloak and coming back is a new page.                     *)
(***************************************************************************)
EXTENDS Integers

CONSTANTS
  MaxTokenAge,  \* tokens issued to the page (a bound)
  Nobody        \* no user

ASSUME SessionAssumption == MaxTokenAge \in Nat \ {0} /\ Nobody \notin 1 .. MaxTokenAge

VARIABLES
  adapter,    \* keycloak-js: what init has come to, and the token it holds
  gate,       \* loading, authError, authenticated
  identity,   \* user: the token that its identity was asked with
  asked,      \* requests for the identity that are out: by whom, with which token
  refresh,    \* tokenRefreshPromise
  sent,       \* an API request: it waits for a token, or for its answer
  slow        \* ten seconds have passed before the init came to an end

sessionVars == <<adapter, gate, identity, asked, refresh, sent, slow>>

Askers == {"init", "refresh"}
Errors == {"none", "unreachable", "expired", "failed"}
NewPage == [init |-> "pending", token |-> 0]  \* then "profile", "signed"
NewGate == [loading |-> TRUE, error |-> "none", authenticated |-> FALSE]
NobodyAsks == [a \in Askers |-> 0]

SessionInit ==
  /\ adapter = NewPage /\ gate = NewGate /\ identity = Nobody /\ asked = NobodyAsks
  /\ refresh = "none" /\ sent = "none" /\ slow = FALSE

Open == ~gate.loading /\ gate.error = "none" /\ gate.authenticated  \* the pages are rendered

(* The timer is cleared when the identity is there, the error of its only  *)
(* when the adapter has answered.                                          *)
InitTakesLong ==
  /\ adapter.init \in {"pending", "profile"} \/ asked["init"] # 0
  /\ ~slow
  /\ gate' = [gate EXCEPT !.loading = FALSE, !.error = "unreachable"] /\ slow' = TRUE
  /\ UNCHANGED <<adapter, identity, asked, refresh, sent>>
InitAnswers(signed) ==
  /\ adapter.init = "pending"
  /\ adapter' = IF signed THEN [init |-> "profile", token |-> 1] ELSE [init |-> "anonymous", token |-> 0]
  /\ gate' = [loading |-> signed /\ gate.loading, error |-> "none", authenticated |-> signed]
  /\ UNCHANGED <<identity, asked, refresh, sent, slow>>
InitFails ==
  /\ adapter.init = "pending"
  /\ adapter' = [adapter EXCEPT !.init = "failed"]
  /\ gate' = [loading |-> FALSE, error |-> "failed", authenticated |-> FALSE]
  /\ UNCHANGED <<identity, asked, refresh, sent, slow>>

ProfileLoads ==  \* or not: the identity is asked for in any case
  /\ adapter.init = "profile"
  /\ adapter' = [adapter EXCEPT !.init = "signed"]
  /\ IF adapter.token # 0
     THEN asked' = [asked EXCEPT !["init"] = adapter.token] /\ UNCHANGED <<gate, identity>>
     ELSE /\ gate' = [gate EXCEPT !.loading = FALSE, !.authenticated = FALSE]
          /\ identity' = Nobody /\ UNCHANGED asked
  /\ UNCHANGED <<refresh, sent, slow>>

(* loadIdentity: the init marks the end of the loading, and takes the page *)
(* for anonymous if it fails; a refresh keeps what there is.               *)
IdentityArrives(a) ==
  /\ asked[a] # 0
  /\ identity' = asked[a]
  /\ asked' = [asked EXCEPT ![a] = 0]
  /\ gate' = IF a = "init" THEN [gate EXCEPT !.loading = FALSE] ELSE gate
  /\ refresh' = IF a = "refresh" THEN "none" ELSE refresh
  /\ UNCHANGED <<adapter, sent, slow>>
IdentityFails(a) ==
  /\ asked[a] # 0
  /\ asked' = [asked EXCEPT ![a] = 0]
  /\ IF a = "init"
     THEN /\ gate' = [gate EXCEPT !.loading = FALSE, !.authenticated = FALSE]
          /\ identity' = Nobody /\ UNCHANGED refresh
     ELSE UNCHANGED <<gate, identity>> /\ refresh' = "none"
  /\ UNCHANGED <<adapter, sent, slow>>

(* refreshToken: of the timer, an expired token or an API request.  Those  *)
(* that come while one is under way wait for it.                           *)
Refresh ==
  /\ adapter.token # 0 /\ refresh = "none"
  /\ refresh' = "updating"
  /\ UNCHANGED <<adapter, gate, identity, asked, sent, slow>>
StillValid ==
  /\ refresh = "updating"
  /\ refresh' = "none"
  /\ UNCHANGED <<adapter, gate, identity, asked, sent, slow>>
Refreshed ==
  /\ refresh = "updating" /\ adapter.token \in 1 .. MaxTokenAge - 1
  /\ adapter' = [adapter EXCEPT !.token = @ + 1]
  /\ refresh' = "identity" /\ asked' = [asked EXCEPT !["refresh"] = adapter'.token]
  /\ UNCHANGED <<gate, identity, sent, slow>>
(* Refused by Keycloak, the adapter clears the token and tells             *)
(* onAuthLogout; out of reach, it does not.  The page leaves for Keycloak. *)
RefreshFails(refused) ==
  /\ refresh = "updating"
  /\ refresh' = "leaving" /\ sent' = "none"
  /\ adapter' = IF refused THEN [adapter EXCEPT !.token = 0] ELSE adapter
  /\ gate' = [gate EXCEPT !.error = "expired", !.authenticated = gate.authenticated /\ ~refused]
  /\ identity' = IF refused THEN Nobody ELSE identity
  /\ UNCHANGED <<asked, slow>>
LeavePage ==
  /\ refresh = "leaving" \/ sent = "login" \/ gate.error # "none" \/ (~gate.loading /\ ~gate.authenticated)
  /\ adapter' = NewPage /\ gate' = NewGate /\ identity' = Nobody /\ asked' = NobodyAsks
  /\ refresh' = "none" /\ sent' = "none" /\ slow' = FALSE

(* apiFetch, of a page or of the gate, which asks for the state of the     *)
(* setup as soon as it is authenticated.                                   *)
Fetch ==
  /\ gate.authenticated
  /\ sent = "none" /\ adapter.token # 0 /\ refresh # "leaving"
  /\ sent' = "token"
  /\ refresh' = IF refresh = "none" THEN "updating" ELSE refresh
  /\ UNCHANGED <<adapter, gate, identity, asked, slow>>
SendRequest ==
  /\ sent = "token" /\ refresh = "none" /\ sent' = "answer"
  /\ UNCHANGED <<adapter, gate, identity, asked, refresh, slow>>
RequestAnswered(status) ==
  /\ sent = "answer"
  /\ sent' = IF status = 401 THEN "login" ELSE "none"
  /\ UNCHANGED <<adapter, gate, identity, asked, refresh, slow>>

SessionNext ==
  \/ InitTakesLong \/ InitFails \/ ProfileLoads \/ \E signed \in BOOLEAN : InitAnswers(signed)
  \/ \E a \in Askers : IdentityArrives(a) \/ IdentityFails(a)
  \/ Refresh \/ StillValid \/ Refreshed \/ \E refused \in BOOLEAN : RefreshFails(refused)
  \/ LeavePage \/ Fetch \/ SendRequest \/ \E status \in {200, 401, 500} : RequestAnswered(status)

SessionSpec == SessionInit /\ [][SessionNext]_sessionVars
-----------------------------------------------------------------------------
SessionTypeOK ==
  /\ adapter \in [init : {"pending", "profile", "signed", "anonymous", "failed"},
                token : 0 .. MaxTokenAge]
  /\ gate \in [loading : BOOLEAN, error : Errors, authenticated : BOOLEAN]
  /\ identity \in {Nobody} \cup 1 .. MaxTokenAge
  /\ asked \in [Askers -> 0 .. MaxTokenAge]
  /\ refresh \in {"none", "updating", "identity", "leaving"}
  /\ sent \in {"none", "token", "answer", "login"}
  /\ slow \in BOOLEAN

(* The pages are rendered for a user whose identity has been loaded and    *)
(* with a token at hand, unless the init has taken more than ten seconds.  *)
(* One refresh is under way at most, until its identity is here, which was *)
(* not asked for with an older token than that of the init.                *)
PagesHaveUser ==
  /\ Open /\ ~slow => identity # Nobody /\ adapter.token # 0
  /\ asked["refresh"] # 0 <=> refresh = "identity"
  /\ refresh = "identity" => asked["refresh"] >= asked["init"]
=============================================================================
