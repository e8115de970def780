---------------------------- MODULE SetupSettings ----------------------------
(***************************************************************************)
(* The first use of the application: the row of SystemSettings that the    *)
(* first request for it makes (apps/api/src/setup/setup.service.ts,        *)
(* apps/api/src/settings/settings.service.ts), the gate that asks whether  *)
(* the setup was completed (apps/web/components/layout/auth-gate.tsx), and *)
(* the wizard behind it (apps/web/features/setup/setup-page.tsx).  Nothing *)
(* keeps the row single, and findFirst reads any row there is.             *)
(***************************************************************************)
EXTENDS FiniteSets, Integers

CONSTANTS
  SetupCalls,  \* requests at a time
  Wizard,      \* those of one administrator's browser are made one by one
  MaxSettingCalls, MaxSetupSites,  \* bounds
  NoRow, NoSettingCall

ASSUME SettingAssumption ==
  /\ IsFiniteSet(SetupCalls) /\ MaxSettingCalls \in Nat /\ MaxSetupSites \in Nat
  /\ NoRow \notin [named : BOOLEAN, done : BOOLEAN]

VARIABLES
  rows,      \* SystemSettings: whether a name is in it, and setupCompleted
  sites,     \* how many there are
  call,      \* requests: what they do, the step to come, the row and what was read
  step,      \* the browser: at the gate, at a step of the wizard, or let in
  calls,
  doubled,   \* two requests have each found no row, and made one
  takenBack, \* a name was written back as it was before it was given
  siteGone, reopened  \* a site was deleted; a completed setup was not any more

setupVars == <<rows, sites, call, step, calls, doubled, takenBack, siteGone, reopened>>

AtGate == -1
LetIn == 4
SettingRows == 1 .. Cardinality(SetupCalls)
MadeRows == {r \in SettingRows : rows[r] # NoRow}
FreshRow == [named |-> FALSE, done |-> FALSE]
Does == {"status", "name", "site", "complete", "reopen", "update"}

SetupInit ==
  /\ rows = [r \in SettingRows |-> NoRow] /\ sites = 0
  /\ call = [c \in SetupCalls |-> NoSettingCall] /\ step = AtGate /\ calls = 0
  /\ doubled = FALSE /\ takenBack = FALSE /\ siteGone = FALSE /\ reopened = FALSE

IsAt(c, point) == call[c] # NoSettingCall /\ call[c].at = point
MovesOn(c, point) == call' = [call EXCEPT ![c].at = point]

(* What the wizard asks for depends on where it is; others ask anything.   *)
MayAsk(c, does) ==
  c = Wizard =>
    CASE does = "status"   -> step # LetIn
      [] does = "name"     -> step = 1
      [] does = "site"     -> step = 2
      [] does = "complete" -> step = 3
      [] OTHER -> FALSE
AskSetup(c, does) ==
  /\ call[c] = NoSettingCall /\ MayAsk(c, does)
  /\ c # Wizard => calls < MaxSettingCalls
  /\ calls' = IF c = Wizard THEN calls ELSE calls + 1
  /\ call' = [call EXCEPT ![c] =
       [does |-> does, at |-> IF does = "site" THEN "write" ELSE "find", row |-> 1, read |-> FreshRow]]
  /\ UNCHANGED <<rows, sites, step, doubled, takenBack, siteGone, reopened>>
Turn(from, to) ==  \* the buttons of the wizard that ask for nothing
  /\ step = from /\ step' = to
  /\ UNCHANGED <<rows, sites, call, calls, doubled, takenBack, siteGone, reopened>>

(* settings(), getSettings(): the first row, or one that is made.          *)
FindRow(c) ==
  /\ IsAt(c, "find")
  /\ IF MadeRows = {} THEN MovesOn(c, "create")
     ELSE \E r \in MadeRows : call' = [call EXCEPT ![c].at = "count", ![c].row = r, ![c].read = rows[r]]
  /\ UNCHANGED <<rows, sites, step, calls, doubled, takenBack, siteGone, reopened>>
CreateRow(c) ==
  /\ IsAt(c, "create")
  /\ LET r == Cardinality(MadeRows) + 1
     IN /\ rows' = [rows EXCEPT ![r] = FreshRow]
        /\ call' = [call EXCEPT ![c].at = "count", ![c].row = r, ![c].read = FreshRow]
  /\ doubled' = (doubled \/ MadeRows # {})
  /\ UNCHANGED <<sites, step, calls, takenBack, siteGone, reopened>>

(* Sites are counted: for the answer, and to complete.                     *)
MayComplete(read) == read.named /\ sites > 0
Count(c) ==
  /\ IsAt(c, "count")
  /\ call' = [call EXCEPT ![c] =
       IF call[c].does = "complete" /\ ~MayComplete(call[c].read) THEN NoSettingCall
       ELSE [@ EXCEPT !.at = IF call[c].does = "status" THEN "answer" ELSE "write"]]
  /\ UNCHANGED <<rows, sites, step, calls, doubled, takenBack, siteGone, reopened>>

(* saveOrganization, complete, reopen; updateOrganization leaves the name  *)
(* out, so that the one it has read is written back.                       *)
Written(does, row, read) ==
  CASE does = "name"     -> [named |-> TRUE, done |-> FALSE]
    [] does = "complete" -> [row EXCEPT !.done = TRUE]
    [] does = "reopen"   -> [row EXCEPT !.done = FALSE]
    [] does = "update"   -> [row EXCEPT !.named = read.named]
WriteRow(c) ==
  /\ IsAt(c, "write") /\ call[c].does # "site"
  /\ LET r == call[c].row
         row == Written(call[c].does, rows[r], call[c].read)
     IN /\ rows' = [rows EXCEPT ![r] = row]
        /\ takenBack' = (takenBack \/ (rows[r].named /\ ~row.named))
        /\ reopened' = (reopened \/ (rows[r].done /\ ~row.done))
  /\ MovesOn(c, "answer")
  /\ UNCHANGED <<sites, step, calls, doubled, siteGone>>
CreateSite(c) ==  \* one transaction, with the building, room and rack that go with it
  /\ IsAt(c, "write") /\ call[c].does = "site" /\ sites < MaxSetupSites
  /\ sites' = sites + 1 /\ MovesOn(c, "answer")
  /\ UNCHANGED <<rows, step, calls, doubled, takenBack, siteGone, reopened>>
DeleteSite ==
  /\ sites > 0 /\ sites' = sites - 1 /\ siteGone' = TRUE
  /\ UNCHANGED <<rows, call, step, calls, doubled, takenBack, reopened>>

(* The answer.  The gate and the wizard go by what was read of the row.    *)
Led(does, read) ==
  CASE does = "status"   -> IF read.done THEN LetIn ELSE IF step = AtGate THEN 0 ELSE step
    [] does = "name"     -> 2
    [] does = "site"     -> 3
    [] does = "complete" -> LetIn
AnswerCall(c) ==
  /\ IsAt(c, "answer")
  /\ call' = [call EXCEPT ![c] = NoSettingCall]
  /\ step' = IF c = Wizard THEN Led(call[c].does, call[c].read) ELSE step
  /\ UNCHANGED <<rows, sites, calls, doubled, takenBack, siteGone, reopened>>
CallFails(c) ==  \* a code that exists, a statement, or the answer on its way
  /\ call[c] # NoSettingCall
  /\ call' = [call EXCEPT ![c] = NoSettingCall]
  /\ UNCHANGED <<rows, sites, step, calls, doubled, takenBack, siteGone, reopened>>

SetupNext ==
  \/ Turn(0, 1) \/ Turn(1, 0) \/ Turn(2, 1) \/ DeleteSite
  \/ \E c \in SetupCalls :
       \/ \E does \in Does : AskSetup(c, does)
       \/ FindRow(c) \/ CreateRow(c) \/ Count(c) \/ WriteRow(c) \/ CreateSite(c)
       \/ AnswerCall(c) \/ CallFails(c)
-----------------------------------------------------------------------------
SetupTypeOK ==
  /\ rows \in [SettingRows -> {NoRow} \cup [named : BOOLEAN, done : BOOLEAN]]
  /\ sites \in 0 .. MaxSetupSites /\ calls \in 0 .. MaxSettingCalls
  /\ call \in [SetupCalls -> {NoSettingCall} \cup
       [does : Does, at : {"find", "create", "count", "write", "answer"},
        row : SettingRows, read : [named : BOOLEAN, done : BOOLEAN]]]
  /\ step \in AtGate .. LetIn
  /\ {doubled, takenBack, siteGone, reopened} \subseteq BOOLEAN

(* A setup is complete only with a name and a site; whoever is let in, is  *)
(* so because it is complete; and the last step of the wizard is reached   *)
(* only with both, so that finishing is not refused for want of them: but  *)
(* for a site that was deleted, a name that a late update took back, a     *)
(* setup that was reopened, and rows that were doubled.                    *)
SetupIsSound ==
  /\ \A r \in MadeRows : rows[r].done => (rows[r].named \/ takenBack) /\ (sites > 0 \/ siteGone)
  /\ step = LetIn /\ ~reopened => \E r \in MadeRows : rows[r].done
  /\ step = 3 /\ ~doubled =>
       /\ sites > 0 \/ siteGone
       /\ takenBack \/ \A r \in MadeRows : rows[r].named
=============================================================================
