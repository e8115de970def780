--------------------------- MODULE NetAppSnapshots ---------------------------
(***************************************************************************)
(* The storage of each site: the NetApp integration                        *)
(* (apps/api/src/netapp/netapp.service.ts), the client that reads an ONTAP *)
(* cluster page by page (ontap-client.ts), and the page that shows the     *)
(* last snapshot (apps/web/features/netapp/netapp-page.tsx).               *)
(*                                                                         *)
(* A configuration is the cluster it leads to.  A snapshot is the site it  *)
(* was read for, the cluster, and the pages read of each collection.       *)
(***************************************************************************)
EXTENDS Naturals

CONSTANTS
  NetAppSites,
  Clusters,
  Collections,   \* cluster, nodes, aggregates, volumes
  PagesOf,       \* [Clusters \X Collections -> Nat]: the pages each has
  PageLimit,     \* 20
  StorageCalls,  \* requests that may be under way
  Unconfigured,  \* no row, or no snapshot in it
  NoStorageCall

Snapshot == [site : NetAppSites, cluster : Clusters, read : [Collections -> Nat]]

ASSUME StorageAssumption ==
  /\ PagesOf \in [Clusters \X Collections -> Nat] /\ PageLimit \in Nat
  /\ Unconfigured \notin [cluster : Clusters, snapshot : Snapshot \cup {Unconfigured}]

VARIABLES
  integrations,  \* NetAppIntegration of each site, or Unconfigured
  storageCalls,
  storageSite,   \* the site the page shows
  cached,        \* the query data of each site: a snapshot, or Unconfigured
  reconfigured,  \* sites configured after, or while, their snapshot was read (ghost)
  misplaced      \* sites that were given the answer of another one (ghost)

storageVars == <<integrations, storageCalls, storageSite, cached, reconfigured, misplaced>>

ReadingCluster(c) == storageCalls[c] # NoStorageCall /\ storageCalls[c].step = "reading"

StorageInit ==
  /\ integrations = [s \in NetAppSites |-> Unconfigured]
  /\ storageCalls = [c \in StorageCalls |-> NoStorageCall]
  /\ storageSite \in NetAppSites
  /\ cached = [s \in NetAppSites |-> Unconfigured]
  /\ reconfigured = {} /\ misplaced = {}

-----------------------------------------------------------------------------
(* The service *)

\* upsert: the snapshot of the row is kept.  A refresh under way notes it (ghost).
Overtakes(s) ==
  [c \in StorageCalls |->
     IF storageCalls[c] = NoStorageCall \/ storageCalls[c].site # s THEN storageCalls[c]
     ELSE [storageCalls[c] EXCEPT !.overtaken = TRUE]]
Configure(s, k) ==
  /\ integrations' = [integrations EXCEPT ![s] =
       [cluster |-> k,
        snapshot |-> IF integrations[s] = Unconfigured THEN Unconfigured
                     ELSE integrations[s].snapshot]]
  /\ reconfigured' = IF integrations[s] = Unconfigured THEN reconfigured ELSE reconfigured \cup {s}

\* refresh: the row is read, and the collections one page at a time, all at once.
StartReading(c, s) ==
  storageCalls' = [storageCalls EXCEPT ![c] =
    [site |-> s, step |-> "reading", cluster |-> integrations[s].cluster,
     read |-> [k \in Collections |-> 0], overtaken |-> FALSE]]

More(c, k) == storageCalls[c].read[k] < PagesOf[<<storageCalls[c].cluster, k>>]

ReadPage(c, k) ==
  /\ ReadingCluster(c) /\ More(c, k) /\ storageCalls[c].read[k] < PageLimit
  /\ storageCalls' = [storageCalls EXCEPT ![c].read[k] = @ + 1]
  /\ UNCHANGED <<integrations, storageSite, cached, reconfigured, misplaced>>

\* Timeouts, redirects, refusals and links that leave the cluster fail the call,
\* and so does a collection that goes on beyond the limit.
ReadingFails(c) ==
  /\ ReadingCluster(c)
  /\ storageCalls' = [storageCalls EXCEPT ![c].step = "failed"]
  /\ UNCHANGED <<integrations, storageSite, cached, reconfigured, misplaced>>

\* Promise.all: every collection has come to its end.
KeepSnapshot(c) ==
  /\ ReadingCluster(c) /\ \A k \in Collections : ~More(c, k)
  /\ LET s == storageCalls[c].site
         snapshot == [site |-> s, cluster |-> storageCalls[c].cluster,
                      read |-> storageCalls[c].read]
     IN /\ integrations' = [integrations EXCEPT ![s] =
             [cluster |-> integrations[s].cluster, snapshot |-> snapshot]]
        /\ storageCalls' = [storageCalls EXCEPT ![c].step = "answered"]
        /\ reconfigured' = IF storageCalls[c].overtaken THEN reconfigured \cup {s}
                           ELSE reconfigured \ {s}
  /\ UNCHANGED <<storageSite, cached, misplaced>>

-----------------------------------------------------------------------------
(* The page *)

SnapshotOf(s) == IF integrations[s] = Unconfigured THEN Unconfigured ELSE integrations[s].snapshot

ChooseStorageSite(s) ==
  /\ storageSite' = s
  /\ UNCHANGED <<integrations, storageCalls, cached, reconfigured, misplaced>>

\* The query of the site in view is fetched again.
Fetched(s) == cached' = [cached EXCEPT ![s] = SnapshotOf(s)] /\ misplaced' = misplaced \ {s}
FetchStorage ==
  /\ Fetched(storageSite)
  /\ UNCHANGED <<integrations, storageCalls, storageSite, reconfigured>>

Free(c) == storageCalls[c] = NoStorageCall
SaveConfiguration(c, k) ==
  /\ Free(c)
  /\ Configure(storageSite, k)
  /\ storageCalls' = [Overtakes(storageSite) EXCEPT ![c] =
       [site |-> storageSite, step |-> "answered", cluster |-> k,
        read |-> [n \in Collections |-> 0], overtaken |-> FALSE]]
  /\ UNCHANGED <<storageSite, cached, misplaced>>

AskRefresh(c) ==
  /\ Free(c) /\ integrations[storageSite] # Unconfigured
  /\ StartReading(c, storageSite)
  /\ UNCHANGED <<integrations, storageSite, cached, reconfigured, misplaced>>

\* A mutation that is under way takes the options of the last render: its answer
\* is put under the site then in view, and that site is fetched again.
AnswerStorage(c) ==
  /\ storageCalls[c] # NoStorageCall /\ storageCalls[c].step = "answered"
  /\ cached' = [cached EXCEPT ![storageSite] = SnapshotOf(storageCalls[c].site)]
  /\ misplaced' = IF storageSite = storageCalls[c].site THEN misplaced \ {storageSite}
                  ELSE misplaced \cup {storageSite}
  /\ storageCalls' = [storageCalls EXCEPT ![c] = NoStorageCall]
  /\ UNCHANGED <<integrations, storageSite, reconfigured>>

\* The last known snapshot is kept, and read again.
TellStorageError(c) ==
  /\ storageCalls[c] # NoStorageCall /\ storageCalls[c].step = "failed"
  /\ Fetched(storageSite)
  /\ storageCalls' = [storageCalls EXCEPT ![c] = NoStorageCall]
  /\ UNCHANGED <<integrations, storageSite, reconfigured>>

StorageNext ==
  \/ FetchStorage
  \/ \E s \in NetAppSites : ChooseStorageSite(s)
  \/ \E c \in StorageCalls :
       \/ \E k \in Clusters : SaveConfiguration(c, k)
       \/ \E k \in Collections : ReadPage(c, k)
       \/ AskRefresh(c) \/ ReadingFails(c) \/ KeepSnapshot(c)
       \/ AnswerStorage(c) \/ TellStorageError(c)

-----------------------------------------------------------------------------
(* Properties *)

\* A snapshot that is kept or shown holds every page of every collection of one
\* cluster, and none of a cluster that has more pages than are read.
SnapshotsAreWhole ==
  \A s \in NetAppSites : \A snapshot \in {SnapshotOf(s), cached[s]} \ {Unconfigured} :
    \A k \in Collections :
      /\ snapshot.read[k] = PagesOf[<<snapshot.cluster, k>>]
      /\ snapshot.read[k] <= PageLimit

\* The snapshot of a site is of the cluster the site is configured for, unless
\* it was configured again after, or while, the snapshot was read; and the page
\* shows it under that site, until the operator leaves a site whose answer is
\* still awaited.
SnapshotsAreOwn ==
  \A s \in NetAppSites :
    /\ SnapshotOf(s) # Unconfigured /\ s \notin reconfigured =>
         SnapshotOf(s).cluster = integrations[s].cluster
    /\ cached[s] # Unconfigured /\ s \notin misplaced => cached[s].site = s
=============================================================================
