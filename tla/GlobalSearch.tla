---------------------------- MODULE GlobalSearch -----------------------------
(***************************************************************************)
(* The palette that searches everything                                    *)
(* (apps/web/components/layout/global-search.tsx).  It asks a quarter of a *)
(* second after the last key, gives up what it asked before, and lets the  *)
(* arrows choose among what it shows.  A request first waits for a token   *)
(* (apps/web/lib/api/client.ts), and whether it was given up is only seen  *)
(* on the way to the server and back.                                      *)
(***************************************************************************)
EXTENDS Integers

CONSTANTS
  Queries,       \* of two characters and more
  Short,         \* a query of less
  MaxKeys,       \* queries typed (a bound)
  MaxHits        \* results of a search (a bound)

ASSUME SearchAssumption == MaxKeys \in Nat /\ MaxHits \in Nat

VARIABLES
  palette,   \* open
  query,
  timer,     \* the pause after the last key is not over
  searches,  \* requests, by the number of their query
  items,     \* what is shown, and the query that it was found for
  searching, failed,  \* the texts that are shown instead
  failedOf,  \* the query whose request failed
  active,    \* activeIndex
  blamed,    \* a request that was given up has failed for another reason
  keys

searchVars == <<palette, query, timer, searches, items, searching, failed, failedOf, active,
                blamed, keys>>

NoItems == [of |-> Short, hits |-> 0]
SearchInit ==
  /\ palette = FALSE /\ query = Short /\ timer = FALSE /\ searches = {}
  /\ items = NoItems /\ searching = FALSE /\ failed = FALSE /\ failedOf = Short
  /\ active = 0 /\ blamed = FALSE /\ keys = 0

(* The effect of [open, query]: what was asked is given up, or the pause   *)
(* is cut short.                                                           *)
Aborted(requests) == {[s EXCEPT !.aborted = TRUE] : s \in requests}
OpenPalette ==
  /\ ~palette /\ palette' = TRUE
  /\ UNCHANGED <<query, timer, searches, items, searching, failed, failedOf, active, blamed, keys>>
ClosePalette ==
  /\ palette /\ palette' = FALSE
  /\ query' = Short /\ timer' = FALSE /\ searches' = Aborted(searches)
  /\ items' = NoItems /\ searching' = FALSE /\ failed' = FALSE
  /\ blamed' = FALSE
  /\ UNCHANGED <<failedOf, active, keys>>
TypeQuery(q) ==
  /\ palette /\ q # query /\ keys < MaxKeys /\ keys' = keys + 1
  /\ query' = q /\ searches' = Aborted(searches)
  /\ timer' = (q # Short)
  /\ IF q = Short THEN items' = NoItems /\ searching' = FALSE ELSE UNCHANGED <<items, searching>>
  /\ UNCHANGED <<palette, failed, failedOf, active, blamed>>
TimerFires ==
  /\ timer /\ timer' = FALSE
  /\ searching' = TRUE /\ failed' = FALSE
  /\ searches' = searches \cup {[key |-> keys, of |-> query, at |-> "token", aborted |-> FALSE]}
  /\ UNCHANGED <<palette, query, items, failedOf, active, blamed, keys>>

(* A request ends: given up, with an error, or with results.               *)
GivenUp(s) ==
  /\ searches' = searches \ {s} /\ searching' = FALSE
  /\ UNCHANGED <<palette, query, timer, items, failed, failedOf, active, blamed, keys>>
Fails(s) ==
  /\ searches' = searches \ {s} /\ searching' = FALSE
  /\ items' = NoItems /\ failed' = TRUE /\ failedOf' = s.of
  /\ blamed' = s.aborted
  /\ UNCHANGED <<palette, query, timer, active, keys>>
Found(s, hits) ==
  /\ searches' = searches \ {s} /\ searching' = FALSE
  /\ items' = [of |-> s.of, hits |-> hits] /\ active' = 0
  /\ UNCHANGED <<palette, query, timer, failed, failedOf, blamed, keys>>
Proceeds(s, at) ==
  /\ searches' = (searches \ {s}) \cup {[s EXCEPT !.at = at]}
  /\ UNCHANGED <<palette, query, timer, items, searching, failed, failedOf, active, blamed, keys>>

(* The body of a refusal is read too: giving up then is one failure more.  *)
RequestStep(s) ==
  \/ s.at = "token" /\ (Fails(s) \/ IF s.aborted THEN GivenUp(s) ELSE Proceeds(s, "sent"))
  \/ s.at = "sent" /\ IF s.aborted THEN GivenUp(s)
                      ELSE Fails(s) \/ Proceeds(s, "refused") \/ \E n \in 0 .. MaxHits : Found(s, n)
  \/ s.at = "refused" /\ Fails(s)

Smaller(m, n) == IF m < n THEN m ELSE n
ArrowDown ==
  /\ palette /\ active' = Smaller(active + 1, items.hits - 1)
  /\ UNCHANGED <<palette, query, timer, searches, items, searching, failed, failedOf, blamed, keys>>
ArrowUp ==
  /\ palette /\ active' = IF active > 1 THEN active - 1 ELSE 0
  /\ UNCHANGED <<palette, query, timer, searches, items, searching, failed, failedOf, blamed, keys>>

SearchNext ==
  \/ OpenPalette \/ ClosePalette \/ TimerFires \/ ArrowDown \/ ArrowUp
  \/ \E q \in Queries \cup {Short} : TypeQuery(q)
  \/ \E s \in searches : RequestStep(s)
-----------------------------------------------------------------------------
SearchTypeOK ==
  /\ {palette, timer, searching, failed, blamed} \subseteq BOOLEAN
  /\ query \in Queries \cup {Short} /\ failedOf \in Queries \cup {Short}
  /\ searches \subseteq [key : 1 .. MaxKeys, of : Queries, at : {"token", "sent", "refused"},
                         aborted : BOOLEAN]
  /\ items \in [of : Queries \cup {Short}, hits : 0 .. MaxHits]
  /\ active \in -1 .. MaxHits /\ keys \in 0 .. MaxKeys

(* Once the pause is over and the request has ended, what is shown was     *)
(* found for the query that is typed, or that query has failed: whatever   *)
(* order the requests of earlier queries end in, unless one of those       *)
(* failed after it was given up.  A result that is marked is there.        *)
ShownIsTyped ==
  /\ palette /\ query # Short /\ ~timer /\ ~blamed /\ (\A s \in searches : s.aborted) =>
       /\ ~searching
       /\ IF failed THEN failedOf = query ELSE items.of = query
  /\ query = Short => items.hits = 0
  /\ items.hits > 0 => active \in 0 .. items.hits - 1
=============================================================================
