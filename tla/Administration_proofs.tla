------------------------ MODULE Administration_proofs ------------------------
(***************************************************************************)
(* What MCAdministration checks, for any number of racks, people, groups,  *)
(* rows and requests: one section for each component, its invariant first. *)
(*                                                                         *)
(* The sections are on the vault of secrets (CredentialVault), requests    *)
(* for roles (RoleAdministration), sign-in (SignIn), decisions about       *)
(* access (AccessScopes), subnets (IpamSubnets) and drops in racks         *)
(* (RackDrops).  The last one puts their types together.                   *)
(***************************************************************************)
EXTENDS MCAdministration, RackPlans_proofs, FiniteSetTheorems, TLAPS

(***************************************************************************)
(* The vault (CredentialVault).  That secrets differ rests on three facts  *)
(* about requests in progress: HoldsLock, that one that compares or stores *)
(* has the advisory lock; FoundFree, that what it is to store is still in  *)
(* no other row; and ReadForGood, that an enrollment about to be accepted  *)
(* has the secret it was read with.                                        *)
(***************************************************************************)
CallAt(c, step) == call[c] # NoCall /\ call[c].at = step

\* A request compares and stores under the lock.
HoldsLock == \A c \in Callers : CallAt(c, "scanning") \/ CallAt(c, "storing") => locked = c

\* The secrets of a request: new ones for a few rows, all different.
OrderOK(order) ==
  /\ IsFiniteSet(DOMAIN order)
  /\ \A s, t \in DOMAIN order : order[s] = order[t] => s = t
OrdersOK == \A c \in Callers : CallAt(c, "scanning") \/ CallAt(c, "storing") => OrderOK(call[c].order)

\* No other row has a secret that is about to be stored.
FoundFree ==
  \A c \in Callers : CallAt(c, "storing") =>
    \A s \in DOMAIN call[c].order, t \in Guarded \ DOMAIN call[c].order :
      IsStored(t) => vault[t].secret # call[c].order[s]

\* An enrollment being accepted keeps its secret, and the data key, until it goes.
SealedAlike(e, f) == e.secret = f.secret /\ e.dek = f.dek
ReadForGood ==
  \A c \in Callers : CallAt(c, "accepting") =>
    LET e == call[c].enrollment
    IN /\ vault[e] # NoRow
       /\ IsStored(e) => SealedAlike(vault[e], call[c].envelope)

Inv == VaultTypeOK /\ HoldsLock /\ OrdersOK /\ FoundFree /\ ReadForGood /\ SecretsAreNotReused

-----------------------------------------------------------------------------
(* Rows and envelopes. *)

LEMMA RowsOfTables ==
  /\ \A e \in Enrollments : AdoptedAs[e] \in Credentials /\ AdoptedAs[e] # e
  /\ \A i \in Integrations : i \notin Guarded
  /\ Guarded \subseteq Rows
BY VaultAssumption DEF Guarded, Rows

LEMMA StoredRows ==
  ASSUME VaultTypeOK, NEW s \in Rows, IsStored(s)
  PROVE  vault[s] \in SealedRow /\ vault[s].dek \in 1..sealed
BY VaultAssumption DEF VaultTypeOK, IsStored, SealedRow

LEMMA EnvelopesAreSealed ==
  ASSUME NEW x \in Secrets, NEW d \in 1..MaxSealed, NEW k \in Keys
  PROVE  /\ Envelope(x, d, k) \in SealedRow
         /\ Envelope(x, d, k) \notin {NoRow, Gone}
         /\ Envelope(x, d, k).secret = x /\ Envelope(x, d, k).dek = d
<1>1. Envelope(x, d, k) \in SealedRow
  BY DEF Envelope, SealedRow
<1>. QED
  BY <1>1, VaultAssumption DEF Envelope

\* What requests order: one or two secrets, for rows of SNMP, all different.
LEMMA StoresAreOrders ==
  ASSUME NEW order \in Stores
  PROVE  /\ DOMAIN order \subseteq Guarded /\ \A s \in DOMAIN order : order[s] \in Secrets
         /\ OrderOK(order)
<1>1. \A t : IsFiniteSet({t})
  BY FS_Singleton
<1>2. \A s, t : IsFiniteSet({s, t})
  <2>. SUFFICES ASSUME NEW s, NEW t PROVE IsFiniteSet({s, t})
    OBVIOUS
  <2>1. IsFiniteSet({s} \cup {t})
    BY <1>1, FS_AddElement
  <2>2. {s, t} = {s} \cup {t}
    OBVIOUS
  <2>. QED
    BY <2>1, <2>2
<1>3. PICK T \in SUBSET Guarded : order \in [T -> Secrets]
  BY DEF Stores
<1>4. \A s, t \in DOMAIN order : order[s] = order[t] => s = t
  BY DEF Stores
<1>5. \/ \E s : DOMAIN order = {s}
      \/ \E s, t : DOMAIN order = {s, t}
  BY DEF Stores
<1>6. IsFiniteSet(DOMAIN order)
  BY <1>1, <1>2, <1>5
<1>. QED
  BY <1>3, <1>4, <1>6 DEF OrderOK

-----------------------------------------------------------------------------
(* Every step keeps the invariant. *)

LEMMA InvInit == VaultInit => Inv
<1>. SUFFICES ASSUME VaultInit PROVE Inv
  OBVIOUS
<1>1. VaultTypeOK
  BY VaultAssumption DEF VaultInit, VaultTypeOK, IsKeyring, IsStored, Rows
<1>2. HoldsLock /\ OrdersOK /\ FoundFree /\ ReadForGood
  BY DEF VaultInit, HoldsLock, OrdersOK, FoundFree, ReadForGood, CallAt
<1>3. SecretsAreNotReused
  BY DEF VaultInit, SecretsAreNotReused, IsStored, Rows
<1>. QED
  BY <1>1, <1>2, <1>3 DEF Inv

\* Entering: the lock is taken, and the order is for rows that have not gone.
LEMMA EnterKeeps ==
  ASSUME Inv, NEW c \in Callers, NEW order \in Stores, Enter(c, order)
  PROVE  Inv'
<1>1. /\ DOMAIN order \subseteq Guarded /\ \A s \in DOMAIN order : order[s] \in Secrets
      /\ OrderOK(order)
  BY StoresAreOrders
<1>2. /\ call' = [call EXCEPT ![c] = [at |-> "scanning", order |-> order, ring |-> ring]]
      /\ call[c] = NoCall /\ locked = Unlocked /\ locked' = c
      /\ UNCHANGED <<ring, vault, rotation, sealed, rotations>>
  BY DEF Enter
<1>3. \A d \in Callers : call'[d] =
        IF d = c THEN [at |-> "scanning", order |-> order, ring |-> ring] ELSE call[d]
  BY <1>2 DEF Inv, VaultTypeOK
<1>4. VaultTypeOK'
  <2>1. IsCall([at |-> "scanning", order |-> order, ring |-> ring])
    BY <1>1 DEF IsCall, Inv, VaultTypeOK
  <2>2. DOMAIN call' = Callers /\ \A d \in Callers : call'[d] # NoCall => IsCall(call'[d])
    BY <1>2, <1>3, <2>1 DEF Inv, VaultTypeOK
  <2>. QED
    BY <1>2, <2>2 DEF Inv, VaultTypeOK, IsStored, IsCall, IsKeyring
<1>5. HoldsLock' /\ OrdersOK'
  BY <1>1, <1>2, <1>3, VaultAssumption DEF Inv, HoldsLock, OrdersOK, CallAt
<1>6. FoundFree' /\ ReadForGood'
  BY <1>2, <1>3 DEF Inv, FoundFree, ReadForGood, CallAt, IsStored
<1>7. SecretsAreNotReused'
  BY <1>2 DEF Inv, SecretsAreNotReused, IsStored
<1>. QED
  BY <1>4, <1>5, <1>6, <1>7 DEF Inv

\* Scanning: what is found unused is in no other row, and the lock stays.
LEMMA ScanKeeps ==
  ASSUME Inv, NEW c \in Callers, Scan(c)
  PROVE  Inv'
<1>1. CallAt(c, "scanning") /\ IsCall(call[c]) /\ OrderOK(call[c].order) /\ locked = c
  BY DEF Scan, Inv, VaultTypeOK, HoldsLock, OrdersOK, CallAt
<1>2. UNCHANGED <<ring, vault, rotation, sealed, rotations>>
  BY DEF Scan
<1>3. SecretsAreNotReused' /\ DOMAIN call' = Callers
  BY <1>2 DEF Scan, Ends, Inv, VaultTypeOK, SecretsAreNotReused, IsStored
<1>4. CASE IsAvailable(call[c].order)
  <2>. DEFINE free == [at |-> "storing", order |-> call[c].order, ring |-> ring]
  <2>1. locked' = locked /\ \A d \in Callers : call'[d] = IF d = c THEN free ELSE call[d]
    BY <1>4 DEF Scan, Inv, VaultTypeOK
  <2>2. IsCall(free)
    <3>1. DOMAIN call[c].order \subseteq Guarded
          /\ \A s \in DOMAIN call[c].order : call[c].order[s] \in Secrets
      BY <1>1 DEF IsCall, CallAt
    <3>. QED
      BY <3>1 DEF IsCall, Inv, VaultTypeOK
  <2>3. VaultTypeOK'
    BY <1>2, <1>3, <2>1, <2>2 DEF Inv, VaultTypeOK, IsStored, IsCall, IsKeyring
  <2>4. HoldsLock' /\ OrdersOK'
    BY <1>1, <2>1 DEF Inv, HoldsLock, OrdersOK, CallAt
  <2>5. \A s \in DOMAIN free.order, t \in Guarded \ DOMAIN free.order :
          IsStored(t) => vault[t].secret # free.order[s]
    BY <1>4 DEF IsAvailable, OtherSecrets
  <2>6. FoundFree' /\ ReadForGood'
    BY <1>2, <2>1, <2>5 DEF Inv, FoundFree, ReadForGood, CallAt, IsStored
  <2>. QED
    BY <1>3, <2>3, <2>4, <2>6 DEF Inv
<1>5. CASE ~IsAvailable(call[c].order)
  <2>1. locked' = Unlocked /\ \A d \in Callers : call'[d] = IF d = c THEN NoCall ELSE call[d]
    BY <1>5 DEF Scan, Ends, Inv, VaultTypeOK
  <2>2. VaultTypeOK'
    BY <1>2, <1>3, <2>1 DEF Inv, VaultTypeOK, IsStored, IsCall, IsKeyring
  <2>3. \A d \in Callers : d # c => ~CallAt(d, "scanning") /\ ~CallAt(d, "storing")
    BY <1>1 DEF Inv, HoldsLock
  <2>4. HoldsLock' /\ OrdersOK' /\ FoundFree' /\ ReadForGood'
    BY <1>2, <2>1, <2>3 DEF Inv, HoldsLock, OrdersOK, FoundFree, ReadForGood, CallAt, IsStored
  <2>. QED
    BY <1>3, <2>2, <2>4 DEF Inv
<1>. QED
  BY <1>4, <1>5

\* Storing: the new secrets differ from each other and from those of all rows.
LEMMA StoreKeeps ==
  ASSUME Inv, NEW c \in Callers, Store(c)
  PROVE  Inv'
<1>. DEFINE order == call[c].order
            new == DOMAIN order
<1>1. CallAt(c, "storing") /\ IsCall(call[c]) /\ OrderOK(order) /\ locked = c
  BY DEF Store, Inv, VaultTypeOK, HoldsLock, OrdersOK, CallAt
<1>2. /\ locked' = Unlocked /\ DOMAIN call' = Callers
      /\ \A d \in Callers : call'[d] = IF d = c THEN NoCall ELSE call[d]
      /\ UNCHANGED <<ring, rotation, rotations>>
  BY DEF Store, Ends, Inv, VaultTypeOK
<1>3. \A d \in Callers : d # c => ~CallAt(d, "scanning") /\ ~CallAt(d, "storing")
  BY <1>1 DEF Inv, HoldsLock
<1>4. HoldsLock' /\ OrdersOK' /\ FoundFree'
  BY <1>2, <1>3 DEF HoldsLock, OrdersOK, FoundFree, CallAt
<1>5. CASE UNCHANGED <<vault, sealed>>
  <2>1. VaultTypeOK' /\ SecretsAreNotReused'
    BY <1>2, <1>5 DEF Inv, VaultTypeOK, IsStored, IsCall, IsKeyring, SecretsAreNotReused
  <2>2. ReadForGood'
    BY <1>2, <1>5 DEF Inv, ReadForGood, CallAt, IsStored
  <2>. QED
    BY <1>4, <2>1, <2>2 DEF Inv
<1>6. CASE ~UNCHANGED <<vault, sealed>>
  <2>1. /\ \A s \in new \cap Enrollments : vault[s] = NoRow
        /\ sealed + Cardinality(new) <= MaxSealed /\ sealed' = sealed + Cardinality(new)
    BY <1>6 DEF Store
  <2>2. PICK dek \in [new -> sealed + 1..sealed + Cardinality(new)] :
          vault' = [s \in Rows |-> IF s \in new
                      THEN Envelope(order[s], dek[s], call[c].ring.active) ELSE vault[s]]
    BY <1>6 DEF Store
  <2>3. Cardinality(new) \in Nat /\ sealed' \in 0..MaxSealed /\ sealed <= sealed'
    BY <1>1, <2>1, FS_CardinalityType, VaultAssumption DEF Inv, VaultTypeOK, OrderOK
  <2>4. new \subseteq Guarded /\ \A s \in new : order[s] \in Secrets
    BY <1>1 DEF IsCall, CallAt
  <2>5. call[c].ring.active \in Keys
    BY <1>1 DEF IsCall, IsKeyring, CallAt
  <2>6. \A s \in new : /\ vault'[s] \in SealedRow /\ vault'[s] \notin {NoRow, Gone}
                       /\ vault'[s].secret = order[s] /\ vault'[s].dek <= sealed'
    <3>. SUFFICES ASSUME NEW s \in new
                  PROVE  /\ vault'[s] \in SealedRow /\ vault'[s] \notin {NoRow, Gone}
                         /\ vault'[s].secret = order[s] /\ vault'[s].dek <= sealed'
      OBVIOUS
    <3>1. vault'[s] = Envelope(order[s], dek[s], call[c].ring.active)
      BY <2>2, <2>4, RowsOfTables
    <3>2. dek[s] \in 1..MaxSealed /\ dek[s] <= sealed'
      BY <2>1, <2>2, <2>3, VaultAssumption DEF Inv, VaultTypeOK
    <3>. QED
      BY <2>4, <2>5, <3>1, <3>2, EnvelopesAreSealed
  <2>7. \A s \in Rows \ new : vault'[s] = vault[s]
    BY <2>2
  <2>8. VaultTypeOK'
    <3>1. vault' \in [Rows -> SealedRow \cup {NoRow, Gone}]
      BY <2>2, <2>6, <2>7 DEF Inv, VaultTypeOK
    <3>2. \A s \in Rows : IsStored(s)' => vault'[s].dek <= sealed'
      <4>. SUFFICES ASSUME NEW s \in Rows, IsStored(s)', s \notin new PROVE vault'[s].dek <= sealed'
        BY <2>6
      <4>1. vault'[s].dek \in 1..sealed
        BY <2>7, StoredRows DEF Inv, IsStored
      <4>. QED
        BY <2>3, <4>1 DEF Inv, VaultTypeOK
    <3>. QED
      BY <1>2, <2>3, <3>1, <3>2 DEF Inv, VaultTypeOK, IsCall, IsKeyring
  <2>9. ReadForGood'
    <3>. SUFFICES ASSUME NEW d \in Callers, CallAt(d, "accepting")', NEW e, e = call'[d].enrollment
                  PROVE  vault'[e] # NoRow /\ (IsStored(e)' => SealedAlike(vault'[e], call'[d].envelope))
      BY DEF ReadForGood
    <3>1. d # c /\ call'[d] = call[d] /\ CallAt(d, "accepting")
      BY <1>2 DEF CallAt
    <3>2. e \in Enrollments /\ vault[e] # NoRow
          /\ (IsStored(e) => SealedAlike(vault[e], call[d].envelope))
      BY <3>1 DEF Inv, VaultTypeOK, ReadForGood, IsCall, CallAt
    <3>3. e \notin new /\ e \in Rows
      BY <2>1, <3>2 DEF Rows, Guarded
    <3>. QED
      BY <2>7, <3>1, <3>2, <3>3 DEF IsStored
  <2>10. SecretsAreNotReused'
    <3>. SUFFICES ASSUME NEW s \in Guarded, NEW t \in Guarded, IsStored(s)', IsStored(t)',
                         vault'[s].secret = vault'[t].secret, s # t
                  PROVE  FALSE
      BY DEF SecretsAreNotReused
    <3>1. \A u \in new, v \in Guarded \ new : IsStored(v) => vault[v].secret # order[u]
      BY <1>1 DEF Inv, FoundFree
    <3>2. CASE s \in new /\ t \in new
      BY <1>1, <2>6, <3>2 DEF OrderOK
    <3>3. CASE s \notin new /\ t \notin new
      BY <2>7, <3>3, RowsOfTables DEF Inv, SecretsAreNotReused, IsStored
    <3>4. CASE s \in new /\ t \notin new
      BY <2>6, <2>7, <3>1, <3>4, RowsOfTables DEF IsStored
    <3>5. CASE s \notin new /\ t \in new
      BY <2>6, <2>7, <3>1, <3>5, RowsOfTables DEF IsStored
    <3>. QED
      BY <3>2, <3>3, <3>4, <3>5
  <2>. QED
    BY <1>4, <2>8, <2>9, <2>10 DEF Inv
<1>. QED
  BY <1>5, <1>6

\* A step that stores no secret, and changes no request, keeps what they rely on.
LEMMA NothingStored ==
  ASSUME Inv, UNCHANGED <<locked, call>>,
         \A s \in Guarded : /\ IsStored(s)' => IsStored(s) /\ SealedAlike(vault'[s], vault[s])
                            /\ vault[s] # NoRow => vault'[s] # NoRow
  PROVE  HoldsLock' /\ OrdersOK' /\ FoundFree' /\ ReadForGood' /\ SecretsAreNotReused'
<1>1. HoldsLock' /\ OrdersOK'
  BY DEF Inv, HoldsLock, OrdersOK, CallAt
<1>2. FoundFree'
  <2>. SUFFICES ASSUME NEW c \in Callers, CallAt(c, "storing"), NEW s \in DOMAIN call[c].order,
                       NEW t \in Guarded \ DOMAIN call[c].order, IsStored(t)'
                PROVE  vault'[t].secret # call[c].order[s]
    BY DEF FoundFree, CallAt
  <2>. QED
    BY DEF Inv, FoundFree, SealedAlike
<1>3. ReadForGood'
  <2>. SUFFICES ASSUME NEW c \in Callers, CallAt(c, "accepting"), NEW e, e = call[c].enrollment
                PROVE  vault'[e] # NoRow /\ (IsStored(e)' => SealedAlike(vault'[e], call[c].envelope))
    BY DEF ReadForGood, CallAt
  <2>1. e \in Guarded
    BY DEF Inv, VaultTypeOK, IsCall, CallAt, Guarded
  <2>. QED
    BY <2>1 DEF Inv, ReadForGood, SealedAlike
<1>4. SecretsAreNotReused'
  BY DEF Inv, SecretsAreNotReused, SealedAlike
<1>. QED
  BY <1>1, <1>2, <1>3, <1>4

\* Reading an enrollment: the envelope is of the secret that the row has.
LEMMA ReadEnrollmentKeeps ==
  ASSUME Inv, NEW c \in Callers, NEW e \in Enrollments, ReadEnrollment(c, e)
  PROVE  Inv'
<1>. DEFINE accepting == [at |-> "accepting", enrollment |-> e, envelope |-> Rewrapped(vault[e], ring)]
<1>1. /\ IsStored(e) /\ UNCHANGED <<ring, vault, locked, rotation, sealed, rotations>>
      /\ DOMAIN call' = Callers /\ \A d \in Callers : call'[d] = IF d = c THEN accepting ELSE call[d]
  BY DEF ReadEnrollment, Inv, VaultTypeOK
<1>2. vault[e] \in SealedRow
  BY <1>1, StoredRows DEF Inv, Rows, Guarded
<1>3. Rewrapped(vault[e], ring) \in SealedRow /\ SealedAlike(Rewrapped(vault[e], ring), vault[e])
  BY <1>2 DEF SealedAlike, Rewrapped, SealedRow, Inv, VaultTypeOK, IsKeyring
<1>4. VaultTypeOK'
  BY <1>1, <1>3 DEF Inv, VaultTypeOK, IsStored, IsCall, IsKeyring
<1>5. HoldsLock' /\ OrdersOK' /\ FoundFree' /\ SecretsAreNotReused'
  BY <1>1 DEF Inv, HoldsLock, OrdersOK, FoundFree, SecretsAreNotReused, CallAt, IsStored
<1>6. ReadForGood'
  BY <1>1, <1>3 DEF Inv, ReadForGood, CallAt, IsStored, SealedAlike
<1>. QED
  BY <1>4, <1>5, <1>6 DEF Inv

\* Accepting: the secret goes from the enrollment to the credential.
LEMMA AcceptKeeps ==
  ASSUME Inv, NEW c \in Callers, AcceptSecret(c)
  PROVE  Inv'
<1>. DEFINE e == call[c].enrollment
            x == call[c].envelope
<1>1. CallAt(c, "accepting") /\ locked = Unlocked /\ e \in Enrollments /\ x \in SealedRow
  BY DEF AcceptSecret, Inv, VaultTypeOK, IsCall, CallAt
<1>2. /\ DOMAIN call' = Callers /\ \A d \in Callers : call'[d] = IF d = c THEN NoCall ELSE call[d]
      /\ UNCHANGED <<ring, locked, rotation, sealed, rotations>>
  BY DEF AcceptSecret, Ends, Inv, VaultTypeOK
<1>3. HoldsLock' /\ OrdersOK' /\ FoundFree'
  BY <1>1, <1>2, VaultAssumption DEF Inv, HoldsLock, OrdersOK, FoundFree, CallAt
<1>4. CASE UNCHANGED vault
  BY <1>2, <1>3, <1>4 DEF Inv, VaultTypeOK, ReadForGood, SecretsAreNotReused, IsStored, IsCall, IsKeyring, CallAt
<1>5. CASE ~UNCHANGED vault
  <2>. DEFINE k == AdoptedAs[e]
  <2>1. IsStored(e) /\ vault[k] = NoRow /\ vault' = [vault EXCEPT ![k] = x, ![e] = Gone]
    BY <1>5 DEF AcceptSecret
  <2>2. k \in Credentials /\ k \in Guarded /\ e \in Guarded /\ k # e
    BY <1>1, RowsOfTables DEF Guarded
  <2>3. \A s \in Rows : vault'[s] = IF s = e THEN Gone ELSE IF s = k THEN x ELSE vault[s]
    BY <2>1, <2>2 DEF Inv, VaultTypeOK
  <2>4. SealedAlike(vault[e], x)
    BY <1>1, <2>1 DEF Inv, ReadForGood
  <2>5. x.dek <= sealed /\ x \notin {NoRow, Gone}
    BY <1>1, <2>1, <2>2, <2>4, RowsOfTables, StoredRows, VaultAssumption
       DEF Inv, VaultTypeOK, SealedAlike
  <2>6. VaultTypeOK'
    <3>1. vault' \in [Rows -> SealedRow \cup {NoRow, Gone}]
      BY <1>1, <2>1 DEF Inv, VaultTypeOK
    <3>2. \A s \in Rows : IsStored(s)' => vault'[s].dek <= sealed'
      BY <1>2, <2>3, <2>5 DEF Inv, VaultTypeOK, IsStored
    <3>. QED
      BY <1>2, <3>1, <3>2 DEF Inv, VaultTypeOK, IsCall, IsKeyring
  <2>7. ReadForGood'
    <3>. SUFFICES ASSUME NEW d \in Callers, CallAt(d, "accepting")', NEW f, f = call'[d].enrollment
                  PROVE  vault'[f] # NoRow /\ (IsStored(f)' => SealedAlike(vault'[f], call'[d].envelope))
      BY DEF ReadForGood
    <3>1. d # c /\ call'[d] = call[d] /\ CallAt(d, "accepting")
      BY <1>2 DEF CallAt
    <3>2. f \in Enrollments /\ vault[f] # NoRow
          /\ (IsStored(f) => SealedAlike(vault[f], call[d].envelope))
      BY <3>1 DEF Inv, VaultTypeOK, ReadForGood, IsCall, CallAt
    <3>3. f # k /\ f \in Rows
      BY <2>2, <3>2, VaultAssumption DEF Rows, Guarded
    <3>. QED
      BY <2>3, <3>1, <3>2, <3>3, VaultAssumption DEF IsStored
  <2>8. SecretsAreNotReused'
    <3>. SUFFICES ASSUME NEW s \in Guarded, NEW t \in Guarded, IsStored(s)', IsStored(t)',
                         vault'[s].secret = vault'[t].secret, s # t
                  PROVE  FALSE
      BY DEF SecretsAreNotReused
    <3>1. s # e /\ t # e /\ s \in Rows /\ t \in Rows
      BY <2>3, RowsOfTables DEF IsStored
    <3>2. \A u \in Guarded : IsStored(u) /\ u # e => vault[u].secret # x.secret
      BY <2>1, <2>2, <2>4 DEF Inv, SecretsAreNotReused, SealedAlike
    <3>. QED
      BY <2>3, <3>1, <3>2 DEF Inv, SecretsAreNotReused, IsStored
  <2>. QED
    BY <1>3, <2>6, <2>7, <2>8 DEF Inv
<1>. QED
  BY <1>4, <1>5

\* Deleting, configuring, rotating, and editing the keyring: no secret is stored.
LEMMA DeleteKeeps ==
  ASSUME Inv, NEW s \in Rows, DeleteSecret(s)
  PROVE  Inv'
<1>1. /\ vault' = [vault EXCEPT ![s] = Gone] /\ IsStored(s)
      /\ UNCHANGED <<ring, locked, call, rotation, sealed, rotations>>
  BY DEF DeleteSecret
<1>2. \A t \in Rows : vault'[t] = IF t = s THEN Gone ELSE vault[t]
  BY <1>1 DEF Inv, VaultTypeOK
<1>3. VaultTypeOK'
  <2>1. vault' \in [Rows -> SealedRow \cup {NoRow, Gone}]
    BY <1>1 DEF Inv, VaultTypeOK
  <2>. QED
    BY <1>1, <1>2, <2>1 DEF Inv, VaultTypeOK, IsStored, IsCall, IsKeyring
<1>. QED
  BY <1>1, <1>2, <1>3, NothingStored, RowsOfTables, VaultAssumption DEF Inv, IsStored, SealedAlike

LEMMA ConfigureKeeps ==
  ASSUME Inv, NEW i \in Integrations, NEW x \in Secrets, ConfigureNetApp(i, x)
  PROVE  Inv'
<1>. DEFINE new == Envelope(x, sealed + 1, ring.active)
<1>1. /\ vault' = [vault EXCEPT ![i] = new] /\ sealed' = sealed + 1 /\ sealed < MaxSealed
      /\ UNCHANGED <<ring, locked, call, rotation, rotations>>
  BY DEF ConfigureNetApp
<1>2. sealed + 1 \in 1..MaxSealed /\ ring.active \in Keys
  BY <1>1, VaultAssumption DEF Inv, VaultTypeOK, IsKeyring
<1>3. new \in SealedRow /\ new.dek = sealed + 1
  BY <1>2, EnvelopesAreSealed
<1>4. \A t \in Rows : vault'[t] = IF t = i THEN new ELSE vault[t]
  BY <1>1 DEF Inv, VaultTypeOK
<1>5. VaultTypeOK'
  <2>1. vault' \in [Rows -> SealedRow \cup {NoRow, Gone}]
    BY <1>1, <1>3 DEF Inv, VaultTypeOK
  <2>2. \A t \in Rows : IsStored(t)' => vault'[t].dek <= sealed'
    <3>. SUFFICES ASSUME NEW t \in Rows, IsStored(t)', t # i PROVE vault'[t].dek <= sealed'
      BY <1>1, <1>2, <1>3, <1>4
    <3>1. vault[t].dek \in 1..sealed
      BY <1>4, StoredRows DEF Inv, IsStored
    <3>. QED
      BY <1>1, <1>4, <3>1 DEF Inv, VaultTypeOK
  <2>. QED
    BY <1>1, <1>2, <2>1, <2>2 DEF Inv, VaultTypeOK, IsCall, IsKeyring
<1>6. \A s \in Guarded : vault'[s] = vault[s]
  BY <1>4, RowsOfTables
<1>. QED
  BY <1>1, <1>5, <1>6, NothingStored DEF Inv, IsStored, SealedAlike

LEMMA RewrapKeeps ==
  ASSUME Inv, NEW r \in Rotators, NEW s \in Rows, RewrapRow(r, s)
  PROVE  Inv'
<1>. DEFINE t == rotation[r]
            rest == [u \in DOMAIN t.left \ {s} |-> t.left[u]]
<1>1. /\ t # NoCall /\ s \in DOMAIN t.left /\ IsKeyring(t.ring) /\ t.left[s] \in SealedRow
      /\ UNCHANGED <<ring, locked, call, sealed, rotations>>
  BY DEF RewrapRow, Inv, VaultTypeOK
<1>2. CASE IsStored(s) /\ CanRewrap(t.left[s], t.ring)
  <2>1. /\ rotation' = [rotation EXCEPT ![r] = [ring |-> t.ring, left |-> rest]]
        /\ vault' = [vault EXCEPT ![s].wrapped = t.left[s].wrapped, ![s].key = t.ring.active]
    BY <1>2 DEF RewrapRow
  <2>2. vault[s] \in SealedRow
    BY <1>2, StoredRows DEF Inv
  <2>3. /\ vault'[s] \in SealedRow /\ SealedAlike(vault'[s], vault[s])
        /\ \A u \in Rows \ {s} : vault'[u] = vault[u]
    BY <1>1, <2>1, <2>2 DEF Inv, VaultTypeOK, SealedRow, SealedAlike, IsKeyring
  <2>4. VaultTypeOK'
    <3>1. vault' \in [Rows -> SealedRow \cup {NoRow, Gone}]
      BY <2>1, <2>3 DEF Inv, VaultTypeOK
    <3>2. \A u \in Rows : IsStored(u)' => vault'[u].dek <= sealed'
      BY <1>1, <1>2, <2>3 DEF Inv, VaultTypeOK, IsStored, SealedAlike
    <3>3. \A u \in DOMAIN rest : u \in Rows /\ rest[u] \in SealedRow
      BY <1>1 DEF Inv, VaultTypeOK
    <3>4. /\ DOMAIN rotation' = Rotators
          /\ \A q \in Rotators : rotation'[q] =
               IF q = r THEN [ring |-> t.ring, left |-> rest] ELSE rotation[q]
      BY <2>1 DEF Inv, VaultTypeOK
    <3>5. \A q \in Rotators : rotation'[q] # NoCall =>
            /\ IsKeyring(rotation'[q].ring)
            /\ \A u \in DOMAIN rotation'[q].left : u \in Rows /\ rotation'[q].left[u] \in SealedRow
      BY <1>1, <3>3, <3>4 DEF Inv, VaultTypeOK
    <3>. QED
      BY <1>1, <3>1, <3>2, <3>4, <3>5 DEF Inv, VaultTypeOK, IsCall, IsKeyring
  <2>. QED
    BY <1>1, <1>2, <2>3, <2>4, NothingStored, RowsOfTables, VaultAssumption
       DEF Inv, IsStored, SealedAlike
<1>3. CASE ~(IsStored(s) /\ CanRewrap(t.left[s], t.ring))
  <2>1. rotation' = [rotation EXCEPT ![r] = NoCall] /\ UNCHANGED vault
    BY <1>3 DEF RewrapRow
  <2>2. VaultTypeOK'
    BY <1>1, <2>1 DEF Inv, VaultTypeOK, IsStored, IsCall, IsKeyring
  <2>. QED
    BY <1>1, <2>1, <2>2, NothingStored DEF Inv, IsStored, SealedAlike
<1>. QED
  BY <1>2, <1>3

LEMMA ReadVaultKeeps ==
  ASSUME Inv, NEW r \in Rotators, ReadVault(r)
  PROVE  Inv'
<1>. DEFINE left == [s \in {t \in Rows : IsStored(t) /\ vault[t].key # ring.active} |-> vault[s]]
<1>1. /\ rotation' = [rotation EXCEPT ![r] = [ring |-> ring, left |-> left]]
      /\ rotations' = rotations + 1 /\ rotations < MaxRotations
      /\ UNCHANGED <<ring, vault, locked, call, sealed>>
  BY DEF ReadVault
<1>2. \A s \in DOMAIN left : s \in Rows /\ left[s] \in SealedRow
  BY StoredRows DEF Inv
<1>3. /\ DOMAIN rotation' = Rotators
      /\ \A q \in Rotators : rotation'[q] =
           IF q = r THEN [ring |-> ring, left |-> left] ELSE rotation[q]
  BY <1>1 DEF Inv, VaultTypeOK
<1>4. rotations' \in 0..MaxRotations
  BY <1>1, VaultAssumption DEF Inv, VaultTypeOK
<1>5. VaultTypeOK'
  <2>. HIDE DEF left
  <2>1. \A q \in Rotators : rotation'[q] # NoCall =>
          /\ IsKeyring(rotation'[q].ring)
          /\ \A u \in DOMAIN rotation'[q].left : u \in Rows /\ rotation'[q].left[u] \in SealedRow
    <3>1. rotation'[r].ring = ring /\ rotation'[r].left = left
      BY <1>3
    <3>2. IsKeyring(ring)
      BY DEF Inv, VaultTypeOK
    <3>3. \A q \in Rotators \ {r} : rotation'[q] = rotation[q]
      BY <1>3
    <3>. QED
      BY <1>2, <3>1, <3>2, <3>3 DEF Inv, VaultTypeOK, IsKeyring
  <2>2. /\ IsKeyring(ring') /\ vault' \in [Rows -> SealedRow \cup {NoRow, Gone}]
        /\ \A s \in Rows : IsStored(s)' => vault'[s].dek <= sealed'
        /\ locked' \in Callers \cup {Unlocked} /\ sealed' \in 0..MaxSealed
    BY <1>1 DEF Inv, VaultTypeOK, IsStored, IsKeyring
  <2>3. DOMAIN call' = Callers /\ \A c \in Callers : call'[c] # NoCall => IsCall(call'[c])
    BY <1>1 DEF Inv, VaultTypeOK
  <2>4. DOMAIN rotation' = Rotators
    BY <1>3
  <2>. QED
    BY <1>4, <2>1, <2>2, <2>3, <2>4 DEF VaultTypeOK, IsCall, IsKeyring, IsStored
<1>. QED
  BY <1>1, <1>5, NothingStored DEF Inv, IsStored, SealedAlike

LEMMA OthersKeep ==
  ASSUME Inv,
         \/ \E r \in Rotators : EndRotation(r)
         \/ \E k \in Keys : ActivateKey(k) \/ TakeKeyOff(k)
         \/ UNCHANGED vaultVars
  PROVE  Inv'
<1>1. /\ UNCHANGED <<vault, locked, call, sealed, rotations>> /\ IsKeyring(ring')
      /\ DOMAIN rotation' = Rotators
      /\ \A r \in Rotators : rotation'[r] # NoCall => rotation'[r] = rotation[r]
  <2>1. CASE \E r \in Rotators : EndRotation(r)
    BY <2>1 DEF EndRotation, Inv, VaultTypeOK, IsKeyring
  <2>2. CASE \E k \in Keys : ActivateKey(k)
    BY <2>2 DEF ActivateKey, Inv, VaultTypeOK, IsKeyring
  <2>3. CASE \E k \in Keys : TakeKeyOff(k)
    <3>1. PICK k \in Keys : ring' = [ring EXCEPT !.keys = @ \ {k}] /\ k \in ring.keys \ {ring.active}
      BY <2>3 DEF TakeKeyOff
    <3>. QED
      BY <2>3, <3>1 DEF TakeKeyOff, Inv, VaultTypeOK, IsKeyring
  <2>4. CASE UNCHANGED vaultVars
    BY <2>4 DEF vaultVars, Inv, VaultTypeOK, IsKeyring
  <2>. QED
    BY <2>1, <2>2, <2>3, <2>4
<1>2. VaultTypeOK'
  BY <1>1 DEF Inv, VaultTypeOK, IsStored, IsCall, IsKeyring
<1>. QED
  BY <1>1, <1>2, NothingStored DEF Inv, IsStored, SealedAlike

LEMMA InvKept == Inv /\ [VaultNext]_vaultVars => Inv'
  BY EnterKeeps, ScanKeeps, StoreKeeps, ReadEnrollmentKeeps, AcceptKeeps, DeleteKeeps,
     ConfigureKeeps, RewrapKeeps, ReadVaultKeeps, OthersKeep DEF VaultNext

-----------------------------------------------------------------------------
(* Requests that store, read and accept, deletions and rotations interleave   *)
(* in any way; the invariant holds of every behaviour.                         *)
THEOREM RequestsKeepSecrets == VaultSpec => []Inv
  BY InvInit, InvKept, PTL DEF VaultSpec

\* Rows, requests and rotations keep their shapes, whatever the rows, keys and
\* secrets, and however many requests and rotations there are.
THEOREM VaultTypes == VaultSpec => []VaultTypeOK
<1>1. Inv => VaultTypeOK
  BY DEF Inv
<1>. QED
  BY RequestsKeepSecrets, <1>1, PTL

\* No two secrets of SNMP are the same: the advisory lock of createCredential,
\* createEnrollment and onboardDevice, and the check under it, suffice for any
\* number of requests, with acceptances, deletions and rotations beside them.
THEOREM SecretsStayDistinct == VaultSpec => []SecretsAreNotReused
<1>1. Inv => SecretsAreNotReused
  BY DEF Inv
<1>. QED
  BY RequestsKeepSecrets, <1>1, PTL

(***************************************************************************)
(* Requests for roles, and the roles themselves (RoleAdministration).      *)
(***************************************************************************)
Deciding == {"claimed", "granting", "posting", "verifying", "finalizing"}
Updating == {"counting", "adding", "dropping", "confirming", "restoring"}
AskingTask == [step : {"asking"}, who : People, roles : SUBSET Requestable]
DecidingTask ==
  [step : Deciding, row : RoleRequests, decision : Decided, won : BOOLEAN,
   missing : SUBSET Requestable]
UpdatingTask ==
  [step : Updating, who : People, before : SUBSET AppRoles, desired : SUBSET AppRoles,
   back : BOOLEAN, add : SUBSET AppRoles, drop : SUBSET AppRoles]
SavingTask ==
  [step : {"saving"}, previous : [Groups -> SUBSET AppRoles],
   wanted : [Groups -> SUBSET AppRoles]]
ReconcilingTask ==
  [step : {"reconciling"}, previous : [Groups -> SUBSET AppRoles],
   wanted : [Groups -> SUBSET AppRoles], left : SUBSET Groups]

\* A task is of the kind its step says.
LEMMA TaskKinds ==
  ASSUME NEW t \in RoleTask
  PROVE  /\ t.step = "asking" => t \in AskingTask
         /\ t.step \in Deciding => t \in DecidingTask
         /\ t.step \in Updating => t \in UpdatingTask
         /\ t.step = "saving" => t \in SavingTask
         /\ t.step = "reconciling" => t \in ReconcilingTask
  BY DEF RoleTask, Deciding, Updating, AskingTask, DecidingTask, UpdatingTask, SavingTask,
         ReconcilingTask

LEMMA TasksAreKinds ==
  /\ NoHandler \in RoleTask /\ NoHandler.step = "none"
  /\ AskingTask \subseteq RoleTask /\ DecidingTask \subseteq RoleTask
  /\ UpdatingTask \subseteq RoleTask /\ SavingTask \subseteq RoleTask
  /\ ReconcilingTask \subseteq RoleTask
  BY DEF RoleTask, NoHandler, Deciding, Updating, AskingTask, DecidingTask, UpdatingTask,
         SavingTask, ReconcilingTask

LEMMA DecidingTurns ==
  ASSUME NEW t \in DecidingTask, NEW s \in Deciding, NEW q, q = [t EXCEPT !.step = s]
  PROVE  q \in DecidingTask /\ q.step = s /\ q.row = t.row /\ q.decision = t.decision
  BY DEF DecidingTask

LEMMA UpdatingTurns ==
  ASSUME NEW t \in UpdatingTask, NEW s \in Updating, NEW q, q = [t EXCEPT !.step = s]
  PROVE  /\ q \in UpdatingTask /\ q.step = s /\ q.who = t.who
         /\ q.before = t.before /\ q.drop = t.drop /\ q.back = t.back
  BY DEF UpdatingTask

\* A desk that decides works on a row, which is never deleted.
RowsStand == \A d \in Desks : task[d].step \in Deciding => request[task[d].row] # NoRequest

\* What an update takes away: restoring, nothing the account had at its start;
\* the role of an administrator only while there is another one, unless raced.
Safe(d) ==
  /\ task[d].step = "counting" => ~task[d].back
  /\ task[d].step \in {"adding", "dropping"} =>
       /\ task[d].back => task[d].drop \cap task[d].before = {}
       /\ ~task[d].back /\ "ADMIN" \in task[d].drop /\ d \notin raced =>
            \E p \in People \ {task[d].who} : IsAdmin(p)

RoleInv == RoleTypeOK /\ RowsStand

LEMMA TaskSet ==
  ASSUME RoleTypeOK, NEW d \in Desks, NEW t \in RoleTask, BecomesTask(d, t)
  PROVE  /\ task' \in [Desks -> RoleTask] /\ task'[d] = t
         /\ \A e \in Desks \ {d} : task'[e] = task[e]
  BY DEF RoleTypeOK, BecomesTask

LEMMA SpentOnOpening ==
  ASSUME RoleTypeOK, NEW d \in Desks, NEW t \in RoleTask, Opens(d, t)
  PROVE  /\ spent' \in [tasks : 0..MaxTasks, refusals : 0..MaxRefusals, saves : 0..MaxSaves]
         /\ BecomesTask(d, t) /\ task[d] = NoHandler
<1>1. /\ spent.tasks \in 0..MaxTasks /\ spent.refusals \in 0..MaxRefusals
      /\ spent.saves \in 0..MaxSaves /\ spent.tasks < MaxTasks
      /\ spent' = [spent EXCEPT !.tasks = @ + 1]
      /\ spent = [tasks |-> spent.tasks, refusals |-> spent.refusals, saves |-> spent.saves]
  BY DEF RoleTypeOK, Opens
<1>2. spent.tasks + 1 \in 0..MaxTasks
  BY <1>1, RoleAssumption
<1>3. spent' = [tasks |-> spent.tasks + 1, refusals |-> spent.refusals, saves |-> spent.saves]
  BY <1>1
<1>4. QED BY <1>1, <1>2, <1>3 DEF Opens, BecomesTask

LEMMA EffectiveTypes ==
  ASSUME RoleTypeOK, NEW p \in People
  PROVE  Effective(p) \in SUBSET AppRoles /\ Inherited(p) \in SUBSET AppRoles
  BY DEF RoleTypeOK, Effective, Inherited

\* What the handler of a role request may touch, and what it leaves.
RequestTyped == request' \in [RoleRequests -> RequestRow \cup {NoRequest}]
RowsKept == \A r \in RoleRequests : request[r] # NoRequest => request'[r] # NoRequest
ToldTyped == told' \in [RoleRequests -> Seq(Decided)]
RolesTyped ==
  /\ direct' \in [People -> SUBSET AppRoles]
  /\ groupRoles' \in [Groups -> SUBSET AppRoles]
  /\ mapping' \in [Groups -> SUBSET AppRoles]
SpentTyped == spent' \in [tasks : 0..MaxTasks, refusals : 0..MaxRefusals, saves : 0..MaxSaves]

\* A step of the handler at a desk: its task is of a kind, and if it goes on
\* deciding it has a row.
HandlerGoes(d) ==
  /\ task' \in [Desks -> RoleTask]
  /\ \A e \in Desks \ {d} : task'[e] = task[e]
  /\ task'[d].step \in Deciding => request'[task'[d].row] # NoRequest
  /\ RolesTyped /\ RequestTyped /\ RowsKept /\ ToldTyped /\ SpentTyped

LEMMA AsksFor ==
  ASSUME RoleInv, NEW d \in Desks, NEW p \in People, NEW roles \in SUBSET Requestable,
         AskForRoles(d, p, roles)
  PROVE  HandlerGoes(d)
<1> DEFINE t == [step |-> "asking", who |-> p, roles |-> roles]
<1>1. t \in RoleTask /\ t.step \notin Deciding
  BY TasksAreKinds DEF AskingTask, Deciding
<1>2. Opens(d, t) /\ UNCHANGED <<keycloak, rows>>
  BY DEF AskForRoles
<1> HIDE DEF t
<1>3. SpentTyped /\ BecomesTask(d, t)
  BY <1>1, <1>2, SpentOnOpening DEF RoleInv, SpentTyped
<1>4. QED
  BY <1>1, <1>2, <1>3, TaskSet
  DEF HandlerGoes, RoleInv, RoleTypeOK, RolesTyped, RequestTyped, RowsKept, ToldTyped, keycloak, rows

LEMMA Creates ==
  ASSUME RoleInv, NEW d \in Desks, NEW r \in RoleRequests, CreateRequest(d, r)
  PROVE  /\ HandlerGoes(d)
         /\ \A q \in RoleRequests : q # r => request'[q] = request[q]
         /\ request[r] = NoRequest
         /\ request'[r] # NoRequest => request'[r].status = "PENDING"
<1>1. task[d] \in AskingTask
  BY TaskKinds DEF RoleInv, RoleTypeOK, CreateRequest, At
<1> DEFINE row == [status |-> "PENDING", who |-> task[d].who, roles |-> task[d].roles]
<1>2. row \in RequestRow /\ row # NoRequest /\ row.status = "PENDING"
  BY <1>1, NoRequestAssumption DEF AskingTask, RequestRow, Undecided
<1>3. /\ request[r] = NoRequest /\ (request' = request \/ request' = [request EXCEPT ![r] = row])
      /\ UNCHANGED <<keycloak, told, spent>> /\ BecomesTask(d, NoHandler)
  BY DEF CreateRequest, At, Closes
<1> HIDE DEF row
<1>4. RequestTyped /\ RowsKept /\ (\A q \in RoleRequests : q # r => request'[q] = request[q])
  BY <1>2, <1>3 DEF RoleInv, RoleTypeOK, RequestTyped, RowsKept
<1>5. request'[r] # NoRequest => request'[r].status = "PENDING"
  BY <1>2, <1>3 DEF RoleInv, RoleTypeOK
<1>6. /\ task' \in [Desks -> RoleTask] /\ task'[d] = NoHandler
      /\ \A e \in Desks \ {d} : task'[e] = task[e]
  BY <1>3, TaskSet, TasksAreKinds DEF RoleInv
<1>7. QED
  BY <1>3, <1>4, <1>5, <1>6, TasksAreKinds
  DEF HandlerGoes, RoleInv, RoleTypeOK, RolesTyped, ToldTyped, SpentTyped, Deciding, keycloak

LEMMA RowMarked ==
  ASSUME RoleTypeOK, NEW r \in RoleRequests, request[r] # NoRequest,
         NEW s \in Decided \cup Undecided, request' = [request EXCEPT ![r].status = s]
  PROVE  /\ RequestTyped /\ RowsKept
         /\ \A q \in RoleRequests : q # r => request'[q] = request[q]
         /\ request'[r] # NoRequest /\ request'[r].status = s
<1>1. request[r] \in RequestRow
  BY DEF RoleTypeOK
<1> DEFINE row == [request[r] EXCEPT !.status = s]
<1>2. row \in RequestRow /\ row # NoRequest /\ row.status = s
  BY <1>1, NoRequestAssumption DEF RequestRow
<1>3. request' = [request EXCEPT ![r] = row]
  OBVIOUS
<1> HIDE DEF row
<1>4. QED BY <1>2, <1>3 DEF RequestTyped, RowsKept, RoleTypeOK

LEMMA Claims ==
  ASSUME RoleInv, NEW d \in Desks, NEW r \in RoleRequests, NEW decision \in Decided,
         Claim(d, r, decision)
  PROVE  /\ HandlerGoes(d)
         /\ \A q \in RoleRequests : request'[q] = request[q] \/
              (/\ request[q] # NoRequest /\ request[q].status = "PENDING"
               /\ request'[q] # NoRequest /\ request'[q].status = "PROCESSING")
<1> DEFINE t == [step |-> "claimed", row |-> r, decision |-> decision,
                 won |-> request[r].status = "PENDING", missing |-> {}]
<1>1. t \in RoleTask /\ t.step = "claimed" /\ t.row = r
  <2>1. (request[r].status = "PENDING") \in BOOLEAN
    OBVIOUS
  <2>2. PICK won \in BOOLEAN : won = (request[r].status = "PENDING")
    BY <2>1
  <2>3. [step |-> "claimed", row |-> r, decision |-> decision, won |-> won, missing |-> {}]
          \in DecidingTask
    BY DEF DecidingTask, Deciding
  <2>4. QED BY <2>2, <2>3, TasksAreKinds
<1>2. /\ Opens(d, t) /\ request[r] # NoRequest /\ UNCHANGED <<keycloak, told>>
      /\ request' = IF request[r].status = "PENDING"
                    THEN [request EXCEPT ![r].status = "PROCESSING"] ELSE request
  BY DEF Claim
<1> HIDE DEF t
<1>3. SpentTyped /\ BecomesTask(d, t)
  BY <1>1, <1>2, SpentOnOpening DEF RoleInv, SpentTyped
<1>4. /\ RequestTyped /\ RowsKept
      /\ \A q \in RoleRequests : request'[q] = request[q] \/
              (/\ request[q] # NoRequest /\ request[q].status = "PENDING"
               /\ request'[q] # NoRequest /\ request'[q].status = "PROCESSING")
  <2>1. CASE request[r].status = "PENDING"
    BY <1>2, <2>1, RowMarked DEF RoleInv, Undecided
  <2>2. CASE request[r].status # "PENDING"
    BY <1>2, <2>2 DEF RoleInv, RoleTypeOK, RequestTyped, RowsKept
  <2>3. QED BY <2>1, <2>2
<1>5. QED
  BY <1>1, <1>2, <1>3, <1>4, TaskSet
  DEF HandlerGoes, RoleInv, RoleTypeOK, RolesTyped, RowsKept, ToldTyped, keycloak

\* The steps that read: of a decision, and of an update.
LEMMA DecisionReads ==
  ASSUME RoleInv, NEW d \in Desks, Reread(d) \/ ReadMissing(d) \/ VerifyGrant(d)
  PROVE  HandlerGoes(d) /\ UNCHANGED <<keycloak, rows>>
<1>1. task[d].step \in Deciding /\ UNCHANGED <<keycloak, rows, spent>>
  BY DEF Reread, ReadMissing, VerifyGrant, At, Deciding
<1>2. task[d] \in DecidingTask /\ request[task[d].row] \in RequestRow
  BY <1>1, TaskKinds DEF RoleInv, RoleTypeOK, RowsStand, DecidingTask
<1>3. \/ BecomesTask(d, NoHandler)
      \/ \E s \in Deciding : BecomesTask(d, [task[d] EXCEPT !.step = s])
      \/ ReadMissing(d)
  BY DEF Reread, VerifyGrant, TurnsTo, Closes, Deciding
<1>4. CASE BecomesTask(d, NoHandler)
  BY <1>1, <1>4, TaskSet, TasksAreKinds
  DEF HandlerGoes, RoleInv, RoleTypeOK, RolesTyped, RequestTyped, RowsKept, ToldTyped, SpentTyped,
      keycloak, rows, Deciding
<1>5. CASE \E s \in Deciding : BecomesTask(d, [task[d] EXCEPT !.step = s])
  <2>1. PICK s \in Deciding : BecomesTask(d, [task[d] EXCEPT !.step = s])
    BY <1>5
  <2> DEFINE t == [task[d] EXCEPT !.step = s]
  <2>2. t \in RoleTask /\ t.step = s /\ t.row = task[d].row
    BY <1>2, DecidingTurns, TasksAreKinds
  <2>3. BecomesTask(d, t)
    BY <2>1
  <2> HIDE DEF t
  <2>4. QED
    BY <1>1, <2>2, <2>3, TaskSet
    DEF HandlerGoes, RoleInv, RoleTypeOK, RowsStand, RolesTyped, RequestTyped, RowsKept, ToldTyped,
        SpentTyped, keycloak, rows
<1>6. CASE ReadMissing(d)
  <2> DEFINE q == request[task[d].row]
             m == q.roles \ Effective(q.who)
             t == [task[d] EXCEPT !.step = "posting", !.missing = m]
  <2>1. m \in SUBSET Requestable
    BY <1>2 DEF RequestRow
  <2>2. t \in DecidingTask /\ t.step = "posting" /\ t.row = task[d].row
    BY <1>2, <2>1 DEF DecidingTask, Deciding
  <2>3. BecomesTask(d, t)
    BY <1>6 DEF ReadMissing
  <2> HIDE DEF t
  <2>4. QED
    BY <1>1, <2>2, <2>3, TaskSet, TasksAreKinds
    DEF HandlerGoes, RoleInv, RoleTypeOK, RowsStand, RolesTyped, RequestTyped, RowsKept, ToldTyped,
        SpentTyped, keycloak, rows
<1>7. QED BY <1>1, <1>3, <1>4, <1>5, <1>6

LEMMA Posts ==
  ASSUME RoleInv, NEW d \in Desks, PostMissing(d)
  PROVE  /\ HandlerGoes(d) /\ UNCHANGED <<groupRoles, mapping, rows>>
         /\ \A p \in People : direct[p] \subseteq direct'[p]
         /\ task'[d].step = "verifying"
<1>1. task[d] \in DecidingTask /\ request[task[d].row] \in RequestRow
  BY TaskKinds DEF RoleInv, RoleTypeOK, RowsStand, DecidingTask, PostMissing, At, Deciding
<1> DEFINE t == [task[d] EXCEPT !.step = "verifying"]
           p == request[task[d].row].who
<1>2. t \in RoleTask /\ t.step = "verifying" /\ t.row = task[d].row /\ t.step \in Deciding
  BY <1>1, DecidingTurns, TasksAreKinds DEF Deciding
<1>3. /\ BecomesTask(d, t) /\ UNCHANGED <<spent, groupRoles, mapping, rows>>
      /\ direct' = [direct EXCEPT ![p] = @ \cup task[d].missing]
  BY DEF PostMissing, At, TurnsTo, Grants
<1>4. task[d].missing \subseteq AppRoles /\ p \in People
  BY <1>1 DEF DecidingTask, RequestRow, AppRoles
<1> HIDE DEF t, p
<1>5. direct' \in [People -> SUBSET AppRoles] /\ \A q \in People : direct[q] \subseteq direct'[q]
  BY <1>3, <1>4 DEF RoleInv, RoleTypeOK
<1>6. QED
  BY <1>2, <1>3, <1>5, TaskSet
  DEF HandlerGoes, RoleInv, RoleTypeOK, RowsStand, RolesTyped, RequestTyped, RowsKept, ToldTyped,
      SpentTyped, rows, PostMissing, At, Deciding

LEMMA Finalizes ==
  ASSUME RoleInv, NEW d \in Desks, Finalize(d)
  PROVE  /\ HandlerGoes(d) /\ UNCHANGED keycloak
         /\ \/ UNCHANGED rows
            \/ \E r \in RoleRequests, decision \in Decided :
                 /\ request[r] # NoRequest /\ request[r].status = "PROCESSING"
                 /\ request'[r] # NoRequest /\ request'[r].status = decision
                 /\ told' = [told EXCEPT ![r] = Append(@, decision)]
                 /\ \A q \in RoleRequests : q # r => request'[q] = request[q]
<1>1. /\ task[d] \in DecidingTask /\ request[task[d].row] # NoRequest
      /\ UNCHANGED <<keycloak, spent>> /\ BecomesTask(d, NoHandler)
  BY TaskKinds DEF RoleInv, RoleTypeOK, RowsStand, DecidingTask, Finalize, At, Closes, Deciding
<1>2. /\ task' \in [Desks -> RoleTask] /\ task'[d] = NoHandler
      /\ \A e \in Desks \ {d} : task'[e] = task[e]
  BY <1>1, TaskSet, TasksAreKinds DEF RoleInv
<1>3. CASE request[task[d].row].status = "PROCESSING"
  <2> DEFINE r == task[d].row
             decision == task[d].decision
  <2>1. r \in RoleRequests /\ decision \in Decided
    BY <1>1 DEF DecidingTask
  <2>2. /\ request' = [request EXCEPT ![r].status = decision]
        /\ told' = [told EXCEPT ![r] = Append(@, decision)]
    BY <1>3 DEF Finalize
  <2> HIDE DEF r, decision
  <2>3. /\ RequestTyped /\ RowsKept
        /\ \A q \in RoleRequests : q # r => request'[q] = request[q]
        /\ request'[r] # NoRequest /\ request'[r].status = decision
    BY <1>1, <2>1, <2>2, RowMarked DEF RoleInv, r
  <2>4. ToldTyped
    BY <2>1, <2>2 DEF RoleInv, RoleTypeOK, ToldTyped
  <2>5. request[r] # NoRequest /\ request[r].status = "PROCESSING"
    BY <1>1, <1>3 DEF r
  <2>6. HandlerGoes(d)
    BY <1>1, <1>2, <2>3, <2>4, TasksAreKinds
    DEF HandlerGoes, RoleInv, RoleTypeOK, RolesTyped, SpentTyped, Deciding, keycloak
  <2>7. QED BY <1>1, <2>1, <2>2, <2>3, <2>5, <2>6
<1>4. CASE request[task[d].row].status # "PROCESSING"
  BY <1>1, <1>2, <1>4, TasksAreKinds
  DEF Finalize, HandlerGoes, RoleInv, RoleTypeOK, RolesTyped, RequestTyped, RowsKept, ToldTyped,
      SpentTyped, Deciding, keycloak, rows
<1>5. QED BY <1>3, <1>4

LEMMA StartsUpdate ==
  ASSUME RoleInv, NEW d \in Desks, NEW p \in People, NEW desired \in SUBSET AppRoles,
         UpdateRoles(d, p, desired)
  PROVE  HandlerGoes(d) /\ UNCHANGED <<keycloak, rows>> /\ Safe(d)'
<1>1. direct[p] \in SUBSET AppRoles /\ Inherited(p) \in SUBSET AppRoles
  BY EffectiveTypes DEF RoleInv, RoleTypeOK
<1> DEFINE step == IF IsAdmin(p) /\ "ADMIN" \notin desired \cup (Inherited(p) \ direct[p])
                   THEN "counting" ELSE "adding"
           t == [step |-> step, who |-> p, before |-> direct[p], desired |-> desired,
                 back |-> FALSE, add |-> desired \ direct[p], drop |-> direct[p] \ desired]
<1>2. /\ t \in UpdatingTask /\ t.step \in {"counting", "adding"} /\ t.back = FALSE
      /\ t.step = "adding" => "ADMIN" \notin t.drop
  <2>1. step \in Updating /\ step \in {"counting", "adding"}
    BY DEF Updating
  <2>2. step = "adding" => "ADMIN" \notin direct[p] \ desired
    BY DEF IsAdmin, Effective
  <2> HIDE DEF step
  <2>3. QED BY <1>1, <2>1, <2>2 DEF UpdatingTask
<1>3. Opens(d, t) /\ UNCHANGED <<keycloak, rows>>
  BY DEF UpdateRoles
<1> HIDE DEF t
<1>4. SpentTyped /\ BecomesTask(d, t)
  BY <1>2, <1>3, SpentOnOpening, TasksAreKinds DEF RoleInv, SpentTyped
<1>5. /\ task' \in [Desks -> RoleTask] /\ task'[d] = t
      /\ \A e \in Desks \ {d} : task'[e] = task[e]
  BY <1>2, <1>4, TaskSet, TasksAreKinds DEF RoleInv
<1>6. HandlerGoes(d)
  BY <1>2, <1>3, <1>4, <1>5
  DEF HandlerGoes, RoleInv, RoleTypeOK, RolesTyped, RequestTyped, RowsKept, ToldTyped, Deciding,
      keycloak, rows
<1>7. Safe(d)'
  BY <1>2, <1>5 DEF Safe
<1>8. QED BY <1>3, <1>6, <1>7

LEMMA ReadsOfUpdate ==
  ASSUME RoleInv, NEW d \in Desks, Safe(d), AssertAnotherAdmin(d) \/ ConfirmRoles(d)
  PROVE  HandlerGoes(d) /\ UNCHANGED <<keycloak, rows>> /\ Safe(d)'
<1>1. task[d] \in UpdatingTask /\ UNCHANGED <<keycloak, rows, spent>>
  BY TaskKinds DEF RoleInv, RoleTypeOK, AssertAnotherAdmin, ConfirmRoles, At, Updating
<1>2. \/ BecomesTask(d, NoHandler)
      \/ BecomesTask(d, [task[d] EXCEPT !.step = "restoring"])
      \/ /\ task[d].step = "counting" /\ BecomesTask(d, [task[d] EXCEPT !.step = "adding"])
         /\ \E p \in People \ {task[d].who} : IsAdmin(p)
  BY DEF AssertAnotherAdmin, ConfirmRoles, At, TurnsTo, Closes
<1>3. CASE BecomesTask(d, NoHandler)
  BY <1>1, <1>3, TaskSet, TasksAreKinds
  DEF HandlerGoes, RoleInv, RoleTypeOK, RolesTyped, RequestTyped, RowsKept, ToldTyped, SpentTyped,
      keycloak, rows, Deciding, Safe
<1>4. CASE BecomesTask(d, [task[d] EXCEPT !.step = "restoring"])
  <2> DEFINE t == [task[d] EXCEPT !.step = "restoring"]
  <2>1. t \in RoleTask /\ t.step = "restoring"
    BY <1>1, UpdatingTurns, TasksAreKinds DEF Updating
  <2>2. BecomesTask(d, t)
    BY <1>4
  <2> HIDE DEF t
  <2>3. QED
    BY <1>1, <2>1, <2>2, TaskSet
    DEF HandlerGoes, RoleInv, RoleTypeOK, RolesTyped, RequestTyped, RowsKept, ToldTyped, SpentTyped,
        keycloak, rows, Deciding, Safe
<1>5. CASE /\ task[d].step = "counting" /\ BecomesTask(d, [task[d] EXCEPT !.step = "adding"])
           /\ \E p \in People \ {task[d].who} : IsAdmin(p)
  <2> DEFINE t == [task[d] EXCEPT !.step = "adding"]
  <2>1. /\ t \in RoleTask /\ t.step = "adding" /\ t.who = task[d].who
        /\ t.back = task[d].back /\ ~task[d].back
    BY <1>1, <1>5, UpdatingTurns, TasksAreKinds DEF Updating, Safe
  <2>2. BecomesTask(d, t)
    BY <1>5
  <2> HIDE DEF t
  <2>3. /\ task' \in [Desks -> RoleTask] /\ task'[d] = t
        /\ \A e \in Desks \ {d} : task'[e] = task[e]
    BY <2>1, <2>2, TaskSet DEF RoleInv
  <2>4. HandlerGoes(d)
    BY <1>1, <2>1, <2>3
    DEF HandlerGoes, RoleInv, RoleTypeOK, RolesTyped, RequestTyped, RowsKept, ToldTyped, SpentTyped,
        keycloak, rows, Deciding
  <2>5. \E p \in People \ {t.who} : IsAdmin(p)'
    BY <1>1, <1>5, <2>1 DEF IsAdmin, Effective, Inherited, keycloak
  <2>6. Safe(d)'
    BY <2>1, <2>3, <2>5 DEF Safe
  <2>7. QED BY <1>1, <2>4, <2>6
<1>6. QED BY <1>2, <1>3, <1>4, <1>5

LEMMA Restores ==
  ASSUME RoleInv, NEW d \in Desks, RestoreDirectRoles(d)
  PROVE  HandlerGoes(d) /\ UNCHANGED <<keycloak, rows>> /\ Safe(d)'
<1>1. task[d] \in UpdatingTask /\ UNCHANGED <<keycloak, rows, spent>>
  BY TaskKinds DEF RoleInv, RoleTypeOK, RestoreDirectRoles, At, Updating
<1> DEFINE t == task[d]
           now == direct[t.who]
           add == t.before \ now
           drop == now \ t.before
           u == [t EXCEPT !.step = "adding", !.back = TRUE, !.add = add, !.drop = drop]
<1>2. add \in SUBSET AppRoles /\ drop \in SUBSET AppRoles /\ drop \cap t.before = {}
  BY <1>1 DEF UpdatingTask, RoleInv, RoleTypeOK
<1>3. BecomesTask(d, u)
  BY DEF RestoreDirectRoles
<1> HIDE DEF add, drop
<1>4. /\ u \in UpdatingTask /\ u.step = "adding" /\ u.back = TRUE
      /\ u.drop = drop /\ u.before = t.before
  BY <1>1, <1>2 DEF UpdatingTask, Updating
<1> HIDE DEF u
<1>5. /\ task' \in [Desks -> RoleTask] /\ task'[d] = u
      /\ \A e \in Desks \ {d} : task'[e] = task[e]
  BY <1>3, <1>4, TaskSet, TasksAreKinds DEF RoleInv
<1>6. HandlerGoes(d)
  BY <1>1, <1>4, <1>5
  DEF HandlerGoes, RoleInv, RoleTypeOK, RolesTyped, RequestTyped, RowsKept, ToldTyped, SpentTyped,
      keycloak, rows, Deciding
<1>7. Safe(d)'
  BY <1>2, <1>4, <1>5 DEF Safe
<1>8. QED BY <1>1, <1>6, <1>7

LEMMA Adds ==
  ASSUME RoleInv, NEW d \in Desks, AddRoles(d)
  PROVE  /\ HandlerGoes(d) /\ UNCHANGED <<groupRoles, mapping, rows>>
         /\ \A p \in People : direct[p] \subseteq direct'[p]
         /\ task[d].step = "adding" /\ task'[d].step = "dropping"
         /\ task'[d].who = task[d].who /\ task'[d].drop = task[d].drop
         /\ task'[d].before = task[d].before /\ task'[d].back = task[d].back
<1>1. task[d] \in UpdatingTask
  BY TaskKinds DEF RoleInv, RoleTypeOK, AddRoles, At, Updating
<1> DEFINE t == [task[d] EXCEPT !.step = "dropping"]
           p == task[d].who
<1>2. /\ t \in RoleTask /\ t.step = "dropping" /\ t.who = task[d].who
      /\ t.before = task[d].before /\ t.drop = task[d].drop /\ t.back = task[d].back
  BY <1>1, UpdatingTurns, TasksAreKinds DEF Updating
<1>3. /\ BecomesTask(d, t) /\ UNCHANGED <<spent, groupRoles, mapping, rows>>
      /\ direct' = [direct EXCEPT ![p] = @ \cup task[d].add] /\ task[d].step = "adding"
  BY DEF AddRoles, At, TurnsTo, Grants
<1>4. task[d].add \subseteq AppRoles /\ p \in People
  BY <1>1 DEF UpdatingTask
<1> HIDE DEF t, p
<1>5. direct' \in [People -> SUBSET AppRoles] /\ \A q \in People : direct[q] \subseteq direct'[q]
  BY <1>3, <1>4 DEF RoleInv, RoleTypeOK
<1>6. /\ task' \in [Desks -> RoleTask] /\ task'[d] = t
      /\ \A e \in Desks \ {d} : task'[e] = task[e]
  BY <1>2, <1>3, TaskSet DEF RoleInv
<1>7. HandlerGoes(d)
  BY <1>2, <1>3, <1>5, <1>6
  DEF HandlerGoes, RoleInv, RoleTypeOK, RolesTyped, RequestTyped, RowsKept, ToldTyped, SpentTyped,
      rows, Deciding
<1>8. QED BY <1>2, <1>3, <1>5, <1>6, <1>7

LEMMA Drops ==
  ASSUME RoleInv, NEW d \in Desks, DropRoles(d)
  PROVE  /\ HandlerGoes(d) /\ UNCHANGED <<groupRoles, mapping, rows>> /\ Safe(d)'
         /\ direct' = [direct EXCEPT ![task[d].who] = @ \ task[d].drop]
         /\ task[d].step = "dropping" /\ task'[d].step # "dropping" /\ task[d].who \in People
<1>1. task[d] \in UpdatingTask
  BY TaskKinds DEF RoleInv, RoleTypeOK, DropRoles, At, Updating
<1> DEFINE p == task[d].who
<1>2. /\ \/ BecomesTask(d, NoHandler)
         \/ BecomesTask(d, [task[d] EXCEPT !.step = "confirming"])
      /\ UNCHANGED <<spent, groupRoles, mapping, rows>>
      /\ direct' = [direct EXCEPT ![p] = @ \ task[d].drop] /\ task[d].step = "dropping"
  BY DEF DropRoles, At, TurnsTo, Closes, Revokes
<1>3. p \in People /\ direct' \in [People -> SUBSET AppRoles]
  BY <1>1, <1>2 DEF UpdatingTask, RoleInv, RoleTypeOK
<1>4. \E t \in RoleTask : BecomesTask(d, t) /\ t.step \in {"none", "confirming"}
  BY <1>1, <1>2, UpdatingTurns, TasksAreKinds DEF Updating
<1>5. PICK t \in RoleTask : BecomesTask(d, t) /\ t.step \in {"none", "confirming"}
  BY <1>4
<1>6. /\ task' \in [Desks -> RoleTask] /\ task'[d] = t
      /\ \A e \in Desks \ {d} : task'[e] = task[e]
  BY <1>5, TaskSet DEF RoleInv
<1>7. HandlerGoes(d)
  BY <1>2, <1>3, <1>5, <1>6
  DEF HandlerGoes, RoleInv, RoleTypeOK, RolesTyped, RequestTyped, RowsKept, ToldTyped, SpentTyped,
      rows, Deciding
<1>8. Safe(d)'
  BY <1>5, <1>6 DEF Safe
<1>9. QED BY <1>2, <1>3, <1>5, <1>6, <1>7, <1>8

\* updateDirectoryFederation: its handler has no task of the other kinds.
LEMMA Saves ==
  ASSUME RoleInv, NEW d \in Desks, NEW wanted \in [Groups -> SUBSET AppRoles],
         SaveFederation(d, wanted)
  PROVE  HandlerGoes(d) /\ UNCHANGED <<keycloak, rows>> /\ Safe(d)'
<1> DEFINE t == [step |-> "saving", previous |-> mapping, wanted |-> wanted]
<1>1. t \in RoleTask /\ t.step = "saving"
  BY TasksAreKinds DEF SavingTask, RoleInv, RoleTypeOK
<1>2. /\ BecomesTask(d, t) /\ UNCHANGED <<keycloak, rows>>
      /\ spent' = [spent EXCEPT !.saves = @ + 1, !.tasks = @ + 1]
      /\ spent.saves < MaxSaves /\ spent.tasks < MaxTasks
  BY DEF SaveFederation
<1> HIDE DEF t
<1>3. SpentTyped
  <2>1. /\ spent.tasks \in 0..MaxTasks /\ spent.refusals \in 0..MaxRefusals
        /\ spent.saves \in 0..MaxSaves
        /\ spent = [tasks |-> spent.tasks, refusals |-> spent.refusals, saves |-> spent.saves]
    BY DEF RoleInv, RoleTypeOK
  <2>2. spent.tasks + 1 \in 0..MaxTasks /\ spent.saves + 1 \in 0..MaxSaves
    BY <1>2, <2>1, RoleAssumption
  <2>3. spent' = [tasks |-> spent.tasks + 1, refusals |-> spent.refusals,
                  saves |-> spent.saves + 1]
    BY <1>2, <2>1
  <2>4. QED BY <2>1, <2>2, <2>3 DEF SpentTyped
<1>4. QED
  BY <1>1, <1>2, <1>3, TaskSet
  DEF HandlerGoes, RoleInv, RoleTypeOK, RolesTyped, RequestTyped, RowsKept, ToldTyped,
      keycloak, rows, Deciding, Safe

LEMMA Puts ==
  ASSUME RoleInv, NEW d \in Desks, PutMapping(d)
  PROVE  HandlerGoes(d) /\ UNCHANGED <<direct, groupRoles, rows>> /\ Safe(d)'
<1>1. task[d] \in SavingTask
  BY TaskKinds DEF RoleInv, RoleTypeOK, PutMapping, At
<1> DEFINE s == task[d]
           t == [step |-> "reconciling", previous |-> s.previous, wanted |-> s.wanted,
                 left |-> {g \in Groups : s.previous[g] \cup s.wanted[g] # {}}]
<1>2. t \in RoleTask /\ t.step = "reconciling"
  BY <1>1, TasksAreKinds DEF SavingTask, ReconcilingTask
<1>3. BecomesTask(d, t) /\ mapping' = task[d].wanted /\ UNCHANGED <<direct, groupRoles, rows, spent>>
  BY DEF PutMapping, At
<1> HIDE DEF t
<1>4. mapping' \in [Groups -> SUBSET AppRoles]
  BY <1>1, <1>3 DEF SavingTask
<1>5. QED
  BY <1>2, <1>3, <1>4, TaskSet
  DEF HandlerGoes, RoleInv, RoleTypeOK, RolesTyped, RequestTyped, RowsKept, ToldTyped, SpentTyped,
      rows, Deciding, Safe

LEMMA Reconciles ==
  ASSUME RoleInv, NEW d \in Desks, ReconcileGroup(d)
  PROVE  /\ HandlerGoes(d) /\ UNCHANGED <<direct, mapping, rows>> /\ Safe(d)'
         /\ task[d].step = "reconciling" /\ (groupRoles' # groupRoles => task'[d] # task[d])
<1>1. task[d] \in ReconcilingTask /\ task[d].step = "reconciling" /\ UNCHANGED <<direct, mapping, rows, spent>>
  BY TaskKinds DEF RoleInv, RoleTypeOK, ReconcileGroup, At
<1> DEFINE t == task[d]
<1>2. CASE BecomesTask(d, NoHandler) /\ UNCHANGED groupRoles
  BY <1>1, <1>2, TaskSet, TasksAreKinds
  DEF HandlerGoes, RoleInv, RoleTypeOK, RolesTyped, RequestTyped, RowsKept, ToldTyped, SpentTyped,
      rows, Deciding, Safe
<1>3. CASE \E g \in t.left :
             /\ groupRoles' = [groupRoles EXCEPT
                  ![g] = (@ \ (t.previous[g] \ t.wanted[g])) \cup t.wanted[g]]
             /\ BecomesTask(d, [t EXCEPT !.left = @ \ {g}])
  <2>1. PICK g \in t.left :
             /\ groupRoles' = [groupRoles EXCEPT
                  ![g] = (@ \ (t.previous[g] \ t.wanted[g])) \cup t.wanted[g]]
             /\ BecomesTask(d, [t EXCEPT !.left = @ \ {g}])
    BY <1>3
  <2> DEFINE u == [t EXCEPT !.left = @ \ {g}]
  <2>2. u \in ReconcilingTask /\ u.step = "reconciling" /\ u.left = t.left \ {g}
    BY <1>1 DEF ReconcilingTask
  <2>3. u # t
    BY <2>1, <2>2
  <2>4. BecomesTask(d, u)
    BY <2>1
  <2>5. groupRoles' \in [Groups -> SUBSET AppRoles]
    <3>1. g \in Groups /\ t.previous[g] \in SUBSET AppRoles /\ t.wanted[g] \in SUBSET AppRoles
      BY <1>1, <2>1 DEF ReconcilingTask
    <3>2. QED BY <2>1, <3>1 DEF RoleInv, RoleTypeOK
  <2> HIDE DEF u
  <2>6. /\ task' \in [Desks -> RoleTask] /\ task'[d] = u
        /\ \A e \in Desks \ {d} : task'[e] = task[e]
    BY <2>2, <2>4, TaskSet, TasksAreKinds DEF RoleInv
  <2>7. QED
    BY <1>1, <2>2, <2>3, <2>5, <2>6
    DEF HandlerGoes, RoleInv, RoleTypeOK, RolesTyped, RequestTyped, RowsKept, ToldTyped, SpentTyped,
        rows, Deciding, Safe
<1>4. QED BY <1>2, <1>3 DEF ReconcileGroup, Closes

LEMMA Refused ==
  ASSUME RoleInv, NEW d \in Desks, Fails(d)
  PROVE  /\ HandlerGoes(d) /\ UNCHANGED <<direct, mapping, rows>> /\ Safe(d)'
         /\ groupRoles' # groupRoles => task[d].step = "reconciling" /\ task'[d] # task[d]
<1>1. /\ task[d] # NoHandler /\ UNCHANGED <<direct, mapping, rows>>
      /\ spent' = [spent EXCEPT !.refusals = @ + 1] /\ spent.refusals < MaxRefusals
  BY DEF Fails
<1>2. SpentTyped
  <2>1. /\ spent.tasks \in 0..MaxTasks /\ spent.refusals \in 0..MaxRefusals
        /\ spent.saves \in 0..MaxSaves
        /\ spent = [tasks |-> spent.tasks, refusals |-> spent.refusals, saves |-> spent.saves]
    BY DEF RoleInv, RoleTypeOK
  <2>2. spent.refusals + 1 \in 0..MaxRefusals
    BY <1>1, <2>1, RoleAssumption
  <2>3. spent' = [tasks |-> spent.tasks, refusals |-> spent.refusals + 1,
                  saves |-> spent.saves]
    BY <1>1, <2>1
  <2>4. QED BY <2>1, <2>2, <2>3 DEF SpentTyped
<1>3. CASE /\ task[d].step \in {"adding", "dropping", "confirming"} /\ ~task[d].back
           /\ TurnsTo(d, "restoring") /\ UNCHANGED groupRoles
  <2>1. task[d] \in UpdatingTask
    BY <1>3, TaskKinds DEF RoleInv, RoleTypeOK, Updating
  <2> DEFINE t == [task[d] EXCEPT !.step = "restoring"]
  <2>2. t \in RoleTask /\ t.step = "restoring"
    BY <2>1, UpdatingTurns, TasksAreKinds DEF Updating
  <2>3. BecomesTask(d, t) /\ UNCHANGED groupRoles
    BY <1>3 DEF TurnsTo
  <2> HIDE DEF t
  <2>4. QED
    BY <1>1, <1>2, <2>2, <2>3, TaskSet
    DEF HandlerGoes, RoleInv, RoleTypeOK, RolesTyped, RequestTyped, RowsKept, ToldTyped,
        rows, Deciding, Safe
<1>4. CASE BecomesTask(d, NoHandler) /\ UNCHANGED groupRoles
  BY <1>1, <1>2, <1>4, TaskSet, TasksAreKinds
  DEF HandlerGoes, RoleInv, RoleTypeOK, RolesTyped, RequestTyped, RowsKept, ToldTyped,
      rows, Deciding, Safe
<1>5. CASE /\ task[d].step = "reconciling" /\ BecomesTask(d, NoHandler)
           /\ \E g \in task[d].left : groupRoles' = [groupRoles EXCEPT
                ![g] = @ \ (task[d].previous[g] \ task[d].wanted[g])]
  <2>1. groupRoles' \in [Groups -> SUBSET AppRoles]
    BY <1>5 DEF RoleInv, RoleTypeOK
  <2>2. /\ task' \in [Desks -> RoleTask] /\ task'[d] = NoHandler
        /\ \A e \in Desks \ {d} : task'[e] = task[e]
    BY <1>5, TaskSet, TasksAreKinds DEF RoleInv
  <2>3. QED
    BY <1>1, <1>2, <1>5, <2>1, <2>2, TasksAreKinds
    DEF HandlerGoes, RoleInv, RoleTypeOK, RolesTyped, RequestTyped, RowsKept, ToldTyped,
        rows, Deciding, Safe
<1>6. QED BY <1>3, <1>4, <1>5 DEF Fails, Closes

\* Each step of a desk is one of these.
LEMMA DeskGoes ==
  ASSUME RoleInv, NEW d \in Desks, Safe(d), RoleStep(d)
  PROVE  HandlerGoes(d)
<1>1. CASE \/ \E p \in People, roles \in SUBSET Requestable \ {{}} : AskForRoles(d, p, roles)
           \/ \E r \in RoleRequests : CreateRequest(d, r)
           \/ \E r \in RoleRequests, decision \in Decided : Claim(d, r, decision)
           \/ Reread(d) \/ ReadMissing(d) \/ PostMissing(d) \/ VerifyGrant(d) \/ Finalize(d)
  BY <1>1, AsksFor, Creates, Claims, DecisionReads, Posts, Finalizes
<1>2. CASE \/ \E p \in People, desired \in SUBSET AppRoles : UpdateRoles(d, p, desired)
           \/ AssertAnotherAdmin(d) \/ AddRoles(d) \/ DropRoles(d) \/ ConfirmRoles(d)
           \/ RestoreDirectRoles(d)
  BY <1>2, StartsUpdate, ReadsOfUpdate, Adds, Drops, Restores
<1>3. CASE \/ \E wanted \in [Groups -> SUBSET AppRoles] : SaveFederation(d, wanted)
           \/ PutMapping(d) \/ ReconcileGroup(d) \/ Fails(d)
  BY <1>3, Saves, Puts, Reconciles, Refused
<1>4. QED BY <1>1, <1>2, <1>3 DEF RoleStep

RaisedBy(d) ==
  raced' = {e \in IF keycloak' = keycloak THEN raced ELSE raced \cup (Desks \ {d}) :
              task'[e] # NoHandler}
RoleSafe == RoleInv /\ (\A d \in Desks : Safe(d))

LEMMA RoleInvKept ==
  ASSUME RoleSafe, NEW d \in Desks, RoleStep(d), RaisedBy(d)
  PROVE  RoleInv'
<1>1. HandlerGoes(d)
  BY DeskGoes DEF RoleSafe
<1>2. raced' \in SUBSET Desks
  BY DEF RaisedBy, RoleSafe, RoleInv, RoleTypeOK
<1>3. RoleTypeOK'
  BY <1>1, <1>2 DEF HandlerGoes, RolesTyped, RequestTyped, ToldTyped, SpentTyped, RoleTypeOK
<1>4. ASSUME NEW e \in Desks, task'[e].step \in Deciding
      PROVE  request'[task'[e].row] # NoRequest
  <2>1. CASE e = d
    BY <1>1, <1>4, <2>1 DEF HandlerGoes
  <2>2. CASE e # d
    <3>1. task'[e] = task[e] /\ task[e] \in DecidingTask /\ request[task[e].row] # NoRequest
      BY <1>1, <1>4, <2>2, TaskKinds DEF HandlerGoes, RoleSafe, RoleInv, RowsStand, RoleTypeOK
    <3>2. QED BY <1>1, <3>1 DEF HandlerGoes, RowsKept, DecidingTask
  <2>3. QED BY <2>1, <2>2
<1>5. QED BY <1>3, <1>4 DEF RoleInv, RowsStand

\* Which steps change roles, and how.
LEMMA RolesChange ==
  ASSUME RoleSafe, NEW d \in Desks, RoleStep(d)
  PROVE  \/ UNCHANGED keycloak /\ (AddRoles(d) \/ Safe(d)' \/ task'[d].step \in Deciding)
         \/ /\ PostMissing(d) \/ AddRoles(d)
            /\ groupRoles' = groupRoles /\ \A p \in People : direct[p] \subseteq direct'[p]
         \/ DropRoles(d) /\ Safe(d)'
         \/ /\ UNCHANGED direct /\ Safe(d)'
            /\ groupRoles' # groupRoles => task[d].step = "reconciling" /\ task'[d] # task[d]
<1>1. CASE \/ \E p \in People, roles \in SUBSET Requestable \ {{}} : AskForRoles(d, p, roles)
           \/ \E r \in RoleRequests : CreateRequest(d, r)
  <2>1. UNCHANGED keycloak
    BY <1>1 DEF AskForRoles, CreateRequest
  <2>2. task'[d].step \in {"asking", "none"}
    BY <1>1 DEF AskForRoles, CreateRequest, Opens, Closes, BecomesTask, NoHandler, RoleSafe, RoleInv,
                RoleTypeOK
  <2>3. QED BY <2>1, <2>2 DEF Safe
<1>2. CASE \E r \in RoleRequests, decision \in Decided : Claim(d, r, decision)
  <2>1. UNCHANGED keycloak /\ task'[d].step = "claimed"
    BY <1>2 DEF Claim, Opens, RoleSafe, RoleInv, RoleTypeOK
  <2>2. QED BY <2>1 DEF Deciding
<1>3. CASE Reread(d) \/ ReadMissing(d) \/ VerifyGrant(d)
  <2>1. /\ UNCHANGED keycloak
        /\ task[d] \in DecidingTask /\ task \in [Desks -> RoleTask]
    BY <1>3, TaskKinds DEF Reread, ReadMissing, VerifyGrant, At, Deciding, RoleSafe, RoleInv, RoleTypeOK
  <2>2. \/ task'[d] = NoHandler
        \/ \E s \in Deciding : task'[d] = [task[d] EXCEPT !.step = s]
        \/ ReadMissing(d)
    BY <1>3, <2>1 DEF Reread, VerifyGrant, TurnsTo, Closes, BecomesTask, Deciding
  <2>3. CASE task'[d] = NoHandler
    BY <2>1, <2>3 DEF Safe, NoHandler
  <2>4. CASE \E s \in Deciding : task'[d] = [task[d] EXCEPT !.step = s]
    BY <2>1, <2>4, DecidingTurns
  <2>5. CASE ReadMissing(d)
    <3>1. task'[d].step = "posting"
      BY <2>1, <2>5 DEF ReadMissing, BecomesTask, DecidingTask
    <3>2. QED BY <2>1, <3>1 DEF Deciding
  <2>6. QED BY <2>2, <2>3, <2>4, <2>5
<1>4. CASE Finalize(d)
  <2>1. UNCHANGED keycloak /\ task'[d] = NoHandler
    BY <1>4 DEF Finalize, Closes, BecomesTask, RoleSafe, RoleInv, RoleTypeOK
  <2>2. QED BY <2>1 DEF Safe, NoHandler
<1>5. CASE PostMissing(d)
  BY <1>5, Posts DEF RoleSafe
<1>6. CASE AddRoles(d)
  BY <1>6, Adds DEF RoleSafe
<1>7. CASE DropRoles(d)
  BY <1>7, Drops DEF RoleSafe
<1>8. CASE \/ \E p \in People, desired \in SUBSET AppRoles : UpdateRoles(d, p, desired)
           \/ AssertAnotherAdmin(d) \/ ConfirmRoles(d) \/ RestoreDirectRoles(d)
           \/ \E wanted \in [Groups -> SUBSET AppRoles] : SaveFederation(d, wanted)
  BY <1>8, StartsUpdate, ReadsOfUpdate, Restores, Saves DEF RoleSafe
<1>9. CASE PutMapping(d) \/ ReconcileGroup(d) \/ Fails(d)
  BY <1>9, Puts, Reconciles, Refused DEF RoleSafe
<1>10. QED
  BY <1>1, <1>2, <1>3, <1>4, <1>5, <1>6, <1>7, <1>8, <1>9 DEF RoleStep

LEMMA MoreRolesMoreAdmins ==
  ASSUME groupRoles' = groupRoles, \A p \in People : direct[p] \subseteq direct'[p],
         NEW p \in People, IsAdmin(p)
  PROVE  IsAdmin(p)'
  BY DEF IsAdmin, Effective, Inherited

\* The steps of one desk leave the updates of the others safe, or race them.
LEMMA RoleSafeKept ==
  ASSUME RoleSafe, NEW d \in Desks, RoleStep(d), RaisedBy(d)
  PROVE  RoleSafe'
<1>1. RoleInv' /\ HandlerGoes(d)
  BY RoleInvKept, DeskGoes DEF RoleSafe
<1>2. ASSUME NEW e \in Desks, e # d
      PROVE  Safe(e)'
  <2>1. task'[e] = task[e] /\ Safe(e)
    BY <1>1, <1>2 DEF HandlerGoes, RoleSafe
  <2>2. CASE keycloak' = keycloak
    <3>1. \A p : IsAdmin(p)' <=> IsAdmin(p)
      BY <2>2 DEF IsAdmin, Effective, Inherited, keycloak
    <3>2. task[e].step # "none" => (e \in raced' <=> e \in raced)
      BY <2>1, <2>2 DEF RaisedBy, NoHandler
    <3>3. QED BY <2>1, <3>1, <3>2 DEF Safe
  <2>3. CASE keycloak' # keycloak
    <3>1. task[e].step # "none" => e \in raced'
      BY <1>2, <2>1, <2>3 DEF RaisedBy, NoHandler
    <3>2. QED BY <2>1, <3>1 DEF Safe
  <2>4. QED BY <2>2, <2>3
<1>3. Safe(d)'
  <2>1. CASE Safe(d)'
    BY <2>1
  <2>2. CASE task'[d].step \in Deciding
    BY <2>2 DEF Safe, Deciding
  <2>3. CASE PostMissing(d)
    BY <2>3, Posts DEF Safe, RoleSafe
  <2>4. CASE AddRoles(d)
    <3>1. /\ groupRoles' = groupRoles
          /\ \A p \in People : direct[p] \subseteq direct'[p]
          /\ task[d].step = "adding" /\ task'[d].step = "dropping"
          /\ task'[d].who = task[d].who /\ task'[d].drop = task[d].drop
          /\ task'[d].before = task[d].before /\ task'[d].back = task[d].back
      BY <2>4, Adds DEF RoleSafe
    <3>2. d \in raced => d \in raced'
      BY <3>1 DEF RaisedBy, NoHandler
    <3>3. \A p \in People : IsAdmin(p) => IsAdmin(p)'
      BY <3>1, MoreRolesMoreAdmins
    <3>4. QED BY <3>1, <3>2, <3>3 DEF Safe, RoleSafe
  <2>5. QED BY <2>1, <2>2, <2>3, <2>4, RolesChange
<1>4. QED BY <1>1, <1>2, <1>3 DEF RoleSafe

LEMMA RoleSafeInit == RoleInit => RoleSafe
<1> SUFFICES ASSUME RoleInit PROVE RoleSafe
  OBVIOUS
<1>1. direct \in [People -> SUBSET AppRoles] /\ groupRoles \in [Groups -> SUBSET AppRoles]
  BY DEF RoleInit, AppRoles, Requestable
<1>2. /\ mapping \in [Groups -> SUBSET AppRoles]
      /\ request \in [RoleRequests -> RequestRow \cup {NoRequest}]
      /\ told \in [RoleRequests -> Seq(Decided)]
  BY <1>1 DEF RoleInit
<1>3. /\ task \in [Desks -> RoleTask] /\ (\A d \in Desks : task[d].step = "none")
      /\ raced \in SUBSET Desks
  BY TasksAreKinds DEF RoleInit
<1>4. spent \in [tasks : 0..MaxTasks, refusals : 0..MaxRefusals, saves : 0..MaxSaves]
  BY RoleAssumption DEF RoleInit
<1>5. QED
  BY <1>1, <1>2, <1>3, <1>4 DEF RoleSafe, RoleInv, RoleTypeOK, RowsStand, Safe, Deciding

LEMMA RoleSafeStays == RoleSafe /\ [RoleNext]_roleVars => RoleSafe'
<1>1. RoleSafe /\ RoleNext => RoleSafe'
  BY RoleSafeKept DEF RoleNext, RaisedBy
<1>2. RoleSafe /\ UNCHANGED roleVars => RoleSafe'
  BY DEF RoleSafe, RoleInv, RoleTypeOK, RowsStand, Safe, IsAdmin, Effective, Inherited, roleVars
<1>3. QED BY <1>1, <1>2

LEMMA RoleSafeAlways == RoleSpec => []RoleSafe
  BY RoleSafeInit, RoleSafeStays, PTL DEF RoleSpec

\* finalize writes the decision and the notification in one transaction, and only
\* on a row that is being decided: so a person hears once, what the row keeps.
THEOREM HeardOnce == RoleSpec => []ToldOnce
<1>1. RoleInit => ToldOnce
  BY DEF RoleInit, ToldOnce
<1>2. ASSUME RoleSafe, ToldOnce, NEW d \in Desks, RoleStep(d), HandlerGoes(d)
      PROVE  ToldOnce'
  <2>1. CASE UNCHANGED rows
    BY <1>2, <2>1 DEF ToldOnce, rows
  <2>2. CASE \E r \in RoleRequests : CreateRequest(d, r)
    <3>1. PICK r \in RoleRequests : CreateRequest(d, r)
      BY <2>2
    <3>2. /\ \A q \in RoleRequests : q # r => request'[q] = request[q]
          /\ request[r] = NoRequest /\ told' = told
          /\ request'[r] # NoRequest => request'[r].status = "PENDING"
      BY <1>2, <3>1, Creates DEF RoleSafe, CreateRequest
    <3>3. QED BY <1>2, <3>2 DEF ToldOnce, Decided
  <2>3. CASE \E r \in RoleRequests, decision \in Decided : Claim(d, r, decision)
    <3>1. \A q \in RoleRequests : request'[q] = request[q] \/
             (/\ request[q] # NoRequest /\ request[q].status = "PENDING"
              /\ request'[q] # NoRequest /\ request'[q].status = "PROCESSING")
      BY <1>2, <2>3, Claims DEF RoleSafe
    <3>2. told' = told
      BY <2>3 DEF Claim
    <3>3. QED BY <1>2, <3>1, <3>2 DEF ToldOnce, Decided
  <2>4. CASE Finalize(d)
    <3>1. CASE \E r \in RoleRequests, decision \in Decided :
                 /\ request[r] # NoRequest /\ request[r].status = "PROCESSING"
                 /\ request'[r] # NoRequest /\ request'[r].status = decision
                 /\ told' = [told EXCEPT ![r] = Append(@, decision)]
                 /\ \A q \in RoleRequests : q # r => request'[q] = request[q]
      <4>1. PICK r \in RoleRequests, decision \in Decided :
                 /\ request[r] # NoRequest /\ request[r].status = "PROCESSING"
                 /\ request'[r] # NoRequest /\ request'[r].status = decision
                 /\ told' = [told EXCEPT ![r] = Append(@, decision)]
                 /\ \A q \in RoleRequests : q # r => request'[q] = request[q]
        BY <3>1
      <4>2. told[r] = <<>> /\ \A q \in RoleRequests : q # r => told'[q] = told[q]
        BY <1>2, <4>1 DEF ToldOnce, Decided, RoleSafe, RoleInv, RoleTypeOK
      <4>3. told'[r] = Append(<<>>, decision)
        BY <1>2, <4>1, <4>2 DEF RoleSafe, RoleInv, RoleTypeOK
      <4>4. told'[r] = << decision >>
        BY <4>3
      <4>5. QED BY <1>2, <4>1, <4>2, <4>4 DEF ToldOnce
    <3>2. QED BY <1>2, <2>1, <2>4, <3>1, Finalizes DEF RoleSafe
  <2>5. CASE \/ \E p \in People, roles \in SUBSET Requestable \ {{}} : AskForRoles(d, p, roles)
             \/ Reread(d) \/ ReadMissing(d) \/ PostMissing(d) \/ VerifyGrant(d)
             \/ \E p \in People, desired \in SUBSET AppRoles : UpdateRoles(d, p, desired)
             \/ AssertAnotherAdmin(d) \/ AddRoles(d) \/ DropRoles(d) \/ ConfirmRoles(d)
             \/ RestoreDirectRoles(d)
             \/ \E wanted \in [Groups -> SUBSET AppRoles] : SaveFederation(d, wanted)
             \/ PutMapping(d) \/ ReconcileGroup(d) \/ Fails(d)
    <3>1. UNCHANGED rows
      BY <2>5 DEF AskForRoles, Reread, ReadMissing, PostMissing, VerifyGrant, UpdateRoles,
           AssertAnotherAdmin, AddRoles, DropRoles, ConfirmRoles, RestoreDirectRoles,
           SaveFederation, PutMapping, ReconcileGroup, Fails
    <3>2. QED BY <2>1, <3>1
  <2>6. QED BY <1>2, <2>2, <2>3, <2>4, <2>5 DEF RoleStep
<1>3. RoleSafe /\ ToldOnce /\ [RoleNext]_roleVars => ToldOnce'
  <2>1. RoleSafe /\ ToldOnce /\ RoleNext => ToldOnce'
    BY <1>2, DeskGoes DEF RoleNext, RoleSafe
  <2>2. ToldOnce /\ UNCHANGED roleVars => ToldOnce'
    BY DEF ToldOnce, roleVars
  <2>3. QED BY <2>1, <2>2
<1>4. QED BY <1>1, <1>3, RoleSafeAlways, PTL DEF RoleSpec

\* "role updates cannot remove the last active administrator": an update that
\* took the count of the others alone leaves one of them, or what it has given.
THEOREM AnAdminStays == RoleSpec => LastAdminFallsInARace
<1> DEFINE Falls == (\E p \in People : IsAdmin(p)) /\ ~(\E p \in People : IsAdmin(p)')
           Blame(d) == /\ task[d] # task'[d]
                       /\ \/ task[d].step = "reconciling" \/ d \in raced
                          \/ task[d].step = "dropping" /\ task[d].back /\ "ADMIN" \notin task[d].before
<1>1. ASSUME RoleSafe, NEW d \in Desks, RoleStep(d), Falls
      PROVE  Blame(d)
  <2>1. PICK p \in People : IsAdmin(p) /\ ~IsAdmin(p)'
    BY <1>1
  <2>2. CASE UNCHANGED keycloak
    BY <2>1, <2>2 DEF IsAdmin, Effective, Inherited, keycloak
  <2>3. CASE groupRoles' = groupRoles /\ \A q \in People : direct[q] \subseteq direct'[q]
    BY <2>1, <2>3, MoreRolesMoreAdmins
  <2>4. CASE UNCHANGED direct /\ (groupRoles' # groupRoles => task[d].step = "reconciling" /\ task'[d] # task[d])
    <3>1. groupRoles' # groupRoles
      BY <2>1, <2>4 DEF IsAdmin, Effective, Inherited
    <3>2. QED BY <2>4, <3>1
  <2>5. CASE DropRoles(d)
    <3>1. /\ groupRoles' = groupRoles /\ task[d].step = "dropping" /\ task'[d].step # "dropping"
          /\ direct' = [direct EXCEPT ![task[d].who] = @ \ task[d].drop] /\ task[d].who \in People
      BY <1>1, <2>5, Drops DEF RoleSafe
    <3>2. \A q \in People \ {task[d].who} : IsAdmin(q) => IsAdmin(q)'
      BY <1>1, <3>1 DEF IsAdmin, Effective, Inherited, RoleSafe, RoleInv, RoleTypeOK
    <3>3. "ADMIN" \in task[d].drop
      BY <1>1, <2>1, <3>1, <3>2 DEF IsAdmin, Effective, Inherited, RoleSafe, RoleInv, RoleTypeOK
    <3>4. CASE ~task[d].back
      BY <1>1, <3>1, <3>2, <3>3, <3>4 DEF RoleSafe, Safe
    <3>5. CASE task[d].back
      BY <1>1, <3>1, <3>3, <3>5 DEF RoleSafe, Safe
    <3>6. QED BY <3>4, <3>5
  <2>6. QED BY <1>1, <2>2, <2>3, <2>4, <2>5, RolesChange
<1>2. RoleSafe /\ RoleNext /\ Falls => \E d \in Desks : Blame(d)
  BY <1>1 DEF RoleNext
<1>3. UNCHANGED roleVars => ~Falls
  BY DEF IsAdmin, Effective, Inherited, roleVars
<1>4. RoleSafe /\ [RoleNext]_roleVars => [Falls => \E d \in Desks : Blame(d)]_roleVars
  BY <1>2, <1>3
<1>5. QED
  BY <1>4, RoleSafeAlways, PTL DEF RoleSpec, LastAdminFallsInARace
-----------------------------------------------------------------------------
(***************************************************************************)
(* What requests write of their bearers (SignIn).                          *)
(***************************************************************************)
SignInSteps ==
  {"away", "external", "name", "rename", "adopt", "create", "cut", "wait", "fill"}
Bearer ==
  [at : SignInSteps, token : {NoToken} \cup Token, row : {NoUser} \cup UserRows,
   cut : SUBSET UNION TokenRoles]

\* A request has a token that was issued, and a row once it has found one.
BearersStand ==
  \A c \in Bearers :
    /\ bearers[c].at # "away" => bearers[c].token \in tokens
    /\ bearers[c].at \in {"rename", "adopt", "cut", "wait", "fill"} => bearers[c].row \in UserRows
    /\ bearers[c].at \in {"rename", "adopt"} => userRow[bearers[c].row] # NoUser

RowsAreUnique ==
  \A u, v \in Users : u # v =>
    userRow[u].external # userRow[v].external /\ userRow[u].name # userRow[v].name

\* Where no two transactions met, the one that has deleted has deleted what its
\* token lacks of the roles as they are stored.
CutsAreExact ==
  /\ \A c \in Bearers : bearers[c].at = "wait" => bearers[c].row \in crossed
  /\ \A c, d \in Bearers :
       bearers[c].at = "fill" /\ bearers[d].at = "fill" /\ bearers[c].row = bearers[d].row
         => c = d \/ bearers[c].row \in crossed
  /\ \A c \in Bearers : bearers[c].at = "fill" /\ bearers[c].row \notin crossed
       => bearers[c].cut = userRole[bearers[c].row] \ bearers[c].token.roles

OneTokenEach ==
  \A u \in UserRows \ crossed : userRole[u] = {} \/ \E t \in tokens : userRole[u] = t.roles

SignInInv == SignInTypeOK /\ BearersStand /\ RowsAreUnique /\ CutsAreExact /\ OneTokenEach

LEMMA AwayIsBearer == Away \in Bearer /\ Away.at = "away"
  BY DEF Bearer, Away, SignInSteps

LEMMA BearerTypes ==
  ASSUME SignInTypeOK
  PROVE  bearers \in [Bearers -> Bearer] /\ userRow \in [UserRows -> {NoUser} \cup UserRecord]
  BY DEF SignInTypeOK, Bearer, SignInSteps, UserRecord

LEMMA BearerSet ==
  ASSUME SignInTypeOK, NEW c \in Bearers, NEW q \in Bearer, bearers' = [bearers EXCEPT ![c] = q]
  PROVE  /\ bearers' \in [Bearers -> Bearer] /\ bearers'[c] = q
         /\ \A d \in Bearers \ {c} : bearers'[d] = bearers[d]
  BY BearerTypes

\* A request that neither fills nor waits, before nor after, changes nothing of
\* what is said of transactions.
LEMMA Aside ==
  ASSUME SignInInv, NEW c \in Bearers, NEW q \in Bearer,
         bearers' = [bearers EXCEPT ![c] = q],
         q.at \notin {"wait", "fill"},
         q.at # "away" => q.token \in tokens,
         q.at \in {"rename", "adopt", "cut"} => q.row \in UserRows,
         q.at \in {"rename", "adopt"} => userRow[q.row] # NoUser,
         UNCHANGED <<accounts, tokens, userRow, userRole, crossed>>
  PROVE  SignInInv'
<1>1. /\ bearers' \in [Bearers -> Bearer] /\ bearers'[c] = q
      /\ \A d \in Bearers \ {c} : bearers'[d] = bearers[d]
  BY BearerSet DEF SignInInv
<1>2. SignInTypeOK'
  BY <1>1 DEF SignInInv, SignInTypeOK, Bearer, SignInSteps
<1>3. BearersStand'
  BY <1>1 DEF SignInInv, BearersStand
<1>4. RowsAreUnique' /\ OneTokenEach'
  BY DEF SignInInv, RowsAreUnique, OneTokenEach, Users
<1>5. CutsAreExact'
  BY <1>1 DEF SignInInv, CutsAreExact
<1>6. QED BY <1>2, <1>3, <1>4, <1>5 DEF SignInInv

LEMMA Looks ==
  ASSUME SignInInv, NEW c \in Bearers, FindByExternal(c) \/ FindByName(c)
  PROVE  SignInInv'
<1>1. /\ bearers[c] \in Bearer /\ bearers[c].at # "away" /\ bearers[c].token \in tokens
      /\ UNCHANGED <<accounts, tokens, userRow, userRole, crossed>>
  BY BearerTypes DEF SignInInv, BearersStand, FindByExternal, FindByName, Sync
<1>2. CASE Goes(c, "name") \/ Goes(c, "create")
  <2>1. PICK at \in {"name", "create"} : bearers' = [bearers EXCEPT ![c].at = at]
    BY <1>2 DEF Goes
  <2> DEFINE q == [bearers[c] EXCEPT !.at = at]
  <2>2. q \in Bearer /\ q.at = at /\ q.token = bearers[c].token
    BY <1>1 DEF Bearer, SignInSteps
  <2>3. bearers' = [bearers EXCEPT ![c] = q]
    BY <2>1
  <2> HIDE DEF q
  <2>4. QED BY <1>1, <2>2, <2>3, Aside
<1>3. CASE \E u \in Users : Finds(c, "rename", u) \/ Finds(c, "adopt", u)
  <2>1. PICK at \in {"rename", "adopt"}, u \in Users :
          bearers' = [bearers EXCEPT ![c].at = at, ![c].row = u]
    BY <1>3 DEF Finds
  <2> DEFINE q == [bearers[c] EXCEPT !.at = at, !.row = u]
  <2>2. u \in UserRows /\ userRow[u] # NoUser
    BY DEF Users
  <2>3. q \in Bearer /\ q.at = at /\ q.token = bearers[c].token /\ q.row = u
    BY <1>1, <2>2 DEF Bearer, SignInSteps
  <2>4. bearers' = [bearers EXCEPT ![c] = q]
    BY <1>1, <2>1, BearerTypes DEF SignInInv
  <2> HIDE DEF q
  <2>5. QED BY <1>1, <2>2, <2>3, <2>4, Aside
<1>4. QED BY <1>2, <1>3 DEF FindByExternal, FindByName, ByExternal, ByName

\* A row is written where no other row has its account or its name.
LEMMA Kept ==
  ASSUME SignInInv, NEW c \in Bearers, NEW u \in UserRows, NEW row \in UserRecord,
         bearers[c].at \in {"rename", "adopt", "create"}, Keeps(c, u, row)
  PROVE  SignInInv'
<1>1. /\ bearers[c] \in Bearer /\ bearers[c].token \in tokens
      /\ UNCHANGED <<accounts, tokens, userRole, crossed>>
  BY BearerTypes DEF SignInInv, BearersStand, Keeps, Sync
<1>2. CASE UNCHANGED userRow /\ bearers' = [bearers EXCEPT ![c] = Away]
  BY <1>1, <1>2, AwayIsBearer, Aside
<1>3. CASE /\ \A v \in Users \ {u} : userRow[v].external # row.external /\ userRow[v].name # row.name
           /\ userRow' = [userRow EXCEPT ![u] = row] /\ Finds(c, "cut", u)
  <2> DEFINE q == [bearers[c] EXCEPT !.at = "cut", !.row = u]
  <2>1. q \in Bearer /\ q.at = "cut" /\ q.token = bearers[c].token /\ q.row = u
    BY <1>1 DEF Bearer, SignInSteps
  <2>2. bearers' = [bearers EXCEPT ![c] = q]
    BY <1>1, <1>3, BearerTypes DEF SignInInv, Finds
  <2> HIDE DEF q
  <2>3. /\ bearers' \in [Bearers -> Bearer] /\ bearers'[c] = q
        /\ \A d \in Bearers \ {c} : bearers'[d] = bearers[d]
    BY <2>1, <2>2, BearerSet DEF SignInInv
  <2>4. /\ userRow' \in [UserRows -> {NoUser} \cup UserRecord] /\ userRow'[u] = row
        /\ \A v \in UserRows \ {u} : userRow'[v] = userRow[v]
    BY <1>3, BearerTypes DEF SignInInv
  <2>5. SignInTypeOK'
    BY <1>1, <2>3, <2>4 DEF SignInInv, SignInTypeOK, Bearer, SignInSteps, UserRecord
  <2>6. row # NoUser \/ NoUser \in UserRecord
    OBVIOUS
  <2>7. BearersStand'
    <3>1. ASSUME NEW d \in Bearers, bearers'[d].at \in {"rename", "adopt"}
          PROVE  userRow'[bearers'[d].row] # NoUser
      BY <1>3, <2>1, <2>3, <2>4, <3>1, NoUserAssumption DEF SignInInv, BearersStand, UserRecord
    <3>2. QED BY <1>1, <2>1, <2>3, <3>1 DEF SignInInv, BearersStand
  <2>8. RowsAreUnique'
    BY <1>3, <2>4 DEF SignInInv, RowsAreUnique, Users
  <2>9. CutsAreExact' /\ OneTokenEach'
    BY <1>1, <2>1, <2>3 DEF SignInInv, CutsAreExact, OneTokenEach
  <2>10. QED BY <2>5, <2>7, <2>8, <2>9 DEF SignInInv
<1>4. QED BY <1>2, <1>3 DEF Keeps

LEMMA KeepsRows ==
  ASSUME SignInInv, NEW c \in Bearers, Rename(c) \/ Adopt(c) \/ Upsert(c)
  PROVE  SignInInv'
<1>1. /\ bearers[c] \in Bearer /\ bearers[c].token \in Token
      /\ bearers[c].at \in {"rename", "adopt", "create"}
  BY BearerTypes DEF SignInInv, SignInTypeOK, BearersStand, Rename, Adopt, Upsert
<1> DEFINE u == bearers[c].row
           token == bearers[c].token
<1>2. token.sub \in Subjects /\ token.name \in Names
  BY <1>1 DEF Token
<1>3. CASE Rename(c)
  <2>1. u \in UserRows /\ userRow[u] \in UserRecord /\ bearers[c].at = "rename"
    BY <1>3, BearerTypes DEF SignInInv, BearersStand, Rename
  <2> DEFINE row == [userRow[u] EXCEPT !.name = token.name]
  <2>2. row \in UserRecord
    BY <1>2, <2>1 DEF UserRecord
  <2>3. Keeps(c, u, row)
    BY <1>3 DEF Rename
  <2> HIDE DEF row, u
  <2>4. QED BY <1>1, <2>1, <2>2, <2>3, Kept
<1>4. CASE Adopt(c)
  <2>1. u \in UserRows /\ userRow[u] \in UserRecord /\ bearers[c].at = "adopt"
    BY <1>4, BearerTypes DEF SignInInv, BearersStand, Adopt
  <2> DEFINE row == [userRow[u] EXCEPT !.external = token.sub]
  <2>2. row \in UserRecord
    BY <1>2, <2>1 DEF UserRecord
  <2>3. Keeps(c, u, row)
    BY <1>4 DEF Adopt
  <2> HIDE DEF row, u
  <2>4. QED BY <1>1, <2>1, <2>2, <2>3, Kept
<1>5. CASE Upsert(c)
  <2> DEFINE row == [external |-> token.sub, name |-> token.name]
  <2>1. row \in UserRecord
    BY <1>2 DEF UserRecord
  <2>2. \E v \in UserRows : Keeps(c, v, row)
    BY <1>5 DEF Upsert, ByExternal, Users
  <2> HIDE DEF row
  <2>3. QED BY <1>1, <2>1, <2>2, Kept
<1>6. QED BY <1>3, <1>4, <1>5

\* A step of a transaction moves one request, and writes no row and no token.
LEMMA Transacts ==
  ASSUME SignInInv, NEW c \in Bearers, NEW q \in Bearer,
         bearers' = [bearers EXCEPT ![c] = q],
         q.at # "away" => q.token \in tokens /\ q.row \in UserRows,
         q.at \in {"away", "wait", "fill"},
         UNCHANGED <<accounts, tokens, userRow>>,
         userRole' \in [UserRows -> SUBSET UNION TokenRoles], crossed' \subseteq UserRows
  PROVE  /\ SignInTypeOK' /\ BearersStand' /\ RowsAreUnique'
         /\ bearers' \in [Bearers -> Bearer] /\ bearers'[c] = q
         /\ \A d \in Bearers \ {c} : bearers'[d] = bearers[d]
<1>1. /\ bearers' \in [Bearers -> Bearer] /\ bearers'[c] = q
      /\ \A d \in Bearers \ {c} : bearers'[d] = bearers[d]
  BY BearerSet DEF SignInInv
<1>2. SignInTypeOK'
  BY <1>1 DEF SignInInv, SignInTypeOK, Bearer, SignInSteps
<1>3. BearersStand'
  BY <1>1 DEF SignInInv, BearersStand
<1>4. RowsAreUnique'
  BY DEF SignInInv, RowsAreUnique, Users
<1>5. QED BY <1>1, <1>2, <1>3, <1>4

LEMMA Cuts ==
  ASSUME SignInInv, NEW c \in Bearers, CutRoles(c)
  PROVE  SignInInv'
<1> DEFINE u == bearers[c].row
           gone == userRole[u] \ bearers[c].token.roles
           at == IF gone \cap Held(c, u) = {} THEN "fill" ELSE "wait"
           q == [bearers[c] EXCEPT !.at = at, !.cut = gone]
<1>1. /\ bearers[c] \in Bearer /\ bearers[c].token \in tokens /\ u \in UserRows
      /\ UNCHANGED <<accounts, tokens, userRow, userRole>> /\ bearers[c].at = "cut"
      /\ crossed' = IF Cutting(u) = {} THEN crossed ELSE crossed \cup {u}
  BY BearerTypes DEF SignInInv, BearersStand, CutRoles, Sync
<1>2. /\ gone \in SUBSET UNION TokenRoles /\ userRole \in [UserRows -> SUBSET UNION TokenRoles]
      /\ crossed' \subseteq UserRows
  BY <1>1 DEF SignInInv, SignInTypeOK
<1>3. at \in {"wait", "fill"}
  OBVIOUS
<1>4. Cutting(u) = {} => at = "fill"
  BY DEF Held, Cutting
<1>5. bearers' = [bearers EXCEPT ![c] = q]
  BY <1>1, BearerTypes DEF SignInInv, CutRoles
<1> HIDE DEF gone, at
<1>6. /\ q \in Bearer /\ q.at = at /\ q.cut = gone /\ q.row = u /\ q.token = bearers[c].token
  BY <1>1, <1>2, <1>3 DEF Bearer, SignInSteps
<1> HIDE DEF q
<1>7. /\ SignInTypeOK' /\ BearersStand' /\ RowsAreUnique'
      /\ bearers' \in [Bearers -> Bearer] /\ bearers'[c] = q
      /\ \A d \in Bearers \ {c} : bearers'[d] = bearers[d]
  BY <1>1, <1>2, <1>3, <1>5, <1>6, Transacts
<1>8. OneTokenEach' /\ crossed \subseteq crossed'
  BY <1>1 DEF SignInInv, OneTokenEach
<1>9. \A d \in Bearers : bearers[d].at = "fill" /\ bearers[d].row = u => u \in crossed'
  BY <1>1 DEF Cutting
<1>10. at = "wait" => u \in crossed'
  BY <1>1, <1>4
<1>11. CutsAreExact'
  <2>1. \A d \in Bearers : bearers'[d].at = "wait" => bearers'[d].row \in crossed'
    BY <1>6, <1>7, <1>8, <1>10 DEF SignInInv, CutsAreExact
  <2>2. \A d, e \in Bearers :
          bearers'[d].at = "fill" /\ bearers'[e].at = "fill" /\ bearers'[d].row = bearers'[e].row
            => d = e \/ bearers'[d].row \in crossed'
    BY <1>6, <1>7, <1>8, <1>9 DEF SignInInv, CutsAreExact
  <2>3. ASSUME NEW d \in Bearers, bearers'[d].at = "fill", bearers'[d].row \notin crossed'
        PROVE  bearers'[d].cut = userRole'[bearers'[d].row] \ bearers'[d].token.roles
    BY <1>1, <1>6, <1>7, <1>8, <2>3 DEF SignInInv, CutsAreExact, gone
  <2>4. QED BY <2>1, <2>2, <2>3 DEF CutsAreExact
<1>12. QED BY <1>7, <1>8, <1>11 DEF SignInInv

LEMMA WaitsEnd ==
  ASSUME SignInInv, NEW c \in Bearers, CutAfterWait(c) \/ GiveUp(c)
  PROVE  SignInInv'
<1>1. /\ bearers[c] \in Bearer /\ bearers[c].token \in tokens /\ bearers[c].row \in UserRows
      /\ UNCHANGED <<accounts, tokens, userRow, userRole, crossed>>
      /\ bearers[c].at \in {"wait", "fill"}
  BY BearerTypes DEF SignInInv, BearersStand, CutAfterWait, GiveUp, Sync
<1>2. /\ userRole \in [UserRows -> SUBSET UNION TokenRoles] /\ crossed \subseteq UserRows
  BY DEF SignInInv, SignInTypeOK
<1>3. CASE CutAfterWait(c)
  <2> DEFINE cut == bearers[c].cut \cap userRole[bearers[c].row]
             q == [bearers[c] EXCEPT !.at = "fill", !.cut = cut]
  <2>1. cut \in SUBSET UNION TokenRoles /\ bearers[c].row \in crossed
    BY <1>1, <1>3 DEF Bearer, SignInInv, CutsAreExact, CutAfterWait
  <2>2. bearers' = [bearers EXCEPT ![c] = q]
    BY <1>1, <1>3, BearerTypes DEF SignInInv, CutAfterWait
  <2> HIDE DEF cut
  <2>3. q \in Bearer /\ q.at = "fill" /\ q.row = bearers[c].row /\ q.token = bearers[c].token
    BY <1>1, <2>1 DEF Bearer, SignInSteps
  <2> HIDE DEF q
  <2>4. /\ SignInTypeOK' /\ BearersStand' /\ RowsAreUnique'
        /\ bearers' \in [Bearers -> Bearer] /\ bearers'[c] = q
        /\ \A d \in Bearers \ {c} : bearers'[d] = bearers[d]
    BY <1>1, <1>2, <2>2, <2>3, Transacts
  <2>5. CutsAreExact'
    BY <1>1, <2>1, <2>3, <2>4 DEF SignInInv, CutsAreExact
  <2>6. QED BY <1>1, <2>4, <2>5 DEF SignInInv, OneTokenEach
<1>4. CASE GiveUp(c)
  <2>1. bearers' = [bearers EXCEPT ![c] = Away]
    BY <1>4 DEF GiveUp
  <2>2. QED BY <1>1, <2>1, AwayIsBearer, Aside
<1>5. QED BY <1>3, <1>4

\* The insertion: alone on its row, what it leaves are the roles of its token.
LEMMA Fills ==
  ASSUME SignInInv, NEW c \in Bearers, FillRoles(c)
  PROVE  SignInInv'
<1> DEFINE u == bearers[c].row
           roles == bearers[c].token.roles
<1>1. /\ bearers[c] \in Bearer /\ bearers[c].token \in tokens /\ u \in UserRows
      /\ UNCHANGED <<accounts, tokens, userRow, crossed>> /\ bearers[c].at = "fill"
      /\ bearers' = [bearers EXCEPT ![c] = Away]
      /\ userRole' = [userRole EXCEPT ![u] = (@ \ bearers[c].cut) \cup roles]
  BY BearerTypes DEF SignInInv, BearersStand, FillRoles, Filled, Sync
<1>2. roles \in SUBSET UNION TokenRoles
  BY <1>1 DEF SignInInv, SignInTypeOK, Token
<1>3. /\ userRole' \in [UserRows -> SUBSET UNION TokenRoles] /\ crossed' \subseteq UserRows
      /\ userRole'[u] = (userRole[u] \ bearers[c].cut) \cup roles
      /\ \A v \in UserRows \ {u} : userRole'[v] = userRole[v]
  BY <1>1, <1>2 DEF SignInInv, SignInTypeOK
<1>4. /\ SignInTypeOK' /\ BearersStand' /\ RowsAreUnique'
      /\ bearers' \in [Bearers -> Bearer] /\ bearers'[c] = Away
      /\ \A d \in Bearers \ {c} : bearers'[d] = bearers[d]
  BY <1>1, <1>3, AwayIsBearer, Transacts
<1>5. u \notin crossed => userRole'[u] = roles
  BY <1>1, <1>3 DEF SignInInv, CutsAreExact
<1>6. OneTokenEach'
  BY <1>1, <1>3, <1>5 DEF SignInInv, OneTokenEach
<1>7. CutsAreExact'
  <2>1. \A d \in Bearers : bearers'[d].at \in {"wait", "fill"} =>
          d # c /\ bearers'[d] = bearers[d]
    BY <1>4, AwayIsBearer
  <2>2. \A d \in Bearers : bearers'[d].at = "fill" /\ bearers'[d].row \notin crossed' =>
          bearers'[d].row # u /\ bearers'[d].row \in UserRows
    BY <1>1, <2>1 DEF SignInInv, CutsAreExact, BearersStand
  <2>3. QED BY <1>1, <1>3, <2>1, <2>2 DEF SignInInv, CutsAreExact
<1>8. QED BY <1>4, <1>6, <1>7 DEF SignInInv

LEMMA TokensComeAndGo ==
  ASSUME SignInInv,
         \/ \E s \in Subjects, account \in Account : EditAccount(s, account)
         \/ \E s \in Subjects : Issue(s)
  PROVE  SignInInv'
<1>1. UNCHANGED <<userRow, userRole, bearers, crossed>> /\ tokens \subseteq tokens'
  BY DEF EditAccount, Issue
<1>2. accounts' \in [Subjects -> Account] /\ tokens' \subseteq Token
  <2>1. accounts \in [Subjects -> Account] /\ tokens \subseteq Token
    BY DEF SignInInv, SignInTypeOK
  <2>2. CASE \E s \in Subjects, account \in Account : EditAccount(s, account)
    BY <2>1, <2>2 DEF EditAccount
  <2>3. CASE \E s \in Subjects : Issue(s)
    <3>1. \A s \in Subjects : TokenOf(s) \in Token
      BY <2>1 DEF TokenOf, Account, Token
    <3>2. QED BY <2>1, <2>3, <3>1 DEF Issue
  <2>4. QED BY <2>2, <2>3
<1>3. SignInTypeOK'
  BY <1>1, <1>2 DEF SignInInv, SignInTypeOK
<1>4. BearersStand' /\ RowsAreUnique' /\ CutsAreExact' /\ OneTokenEach'
  BY <1>1 DEF SignInInv, BearersStand, RowsAreUnique, CutsAreExact, OneTokenEach, Users
<1>5. QED BY <1>3, <1>4 DEF SignInInv

LEMMA Verifies ==
  ASSUME SignInInv, NEW c \in Bearers, NEW token \in tokens, Verify(c, token)
  PROVE  SignInInv'
<1> DEFINE q == [Away EXCEPT !.at = "external", !.token = token]
<1>1. q \in Bearer /\ q.at = "external" /\ q.token = token
  BY DEF Away, Bearer, SignInSteps, SignInInv, SignInTypeOK
<1>2. bearers' = [bearers EXCEPT ![c] = q] /\ UNCHANGED <<accounts, tokens, userRow, userRole, crossed>>
  BY DEF Verify, Sync
<1> HIDE DEF q
<1>3. QED BY <1>1, <1>2, Aside

LEMMA SignInInvInit == SignInInit => SignInInv
<1> SUFFICES ASSUME SignInInit PROVE SignInInv
  OBVIOUS
<1>1. PICK s \in Subjects, u \in UserRows :
     /\ tokens = {TokenOf(s)}
     /\ userRow = [v \in UserRows |-> IF v = u THEN [external |-> s, name |-> accounts[s].name] ELSE NoUser]
     /\ userRole = [v \in UserRows |-> IF v = u THEN accounts[s].roles ELSE {}]
  BY DEF SignInInit
<1>2. /\ accounts \in [Subjects -> Account] /\ accounts[s].roles \in TokenRoles
      /\ TokenOf(s) \in Token /\ accounts[s].name \in Names
      /\ TokenOf(s).roles = accounts[s].roles
  BY DEF SignInInit, Account, Token, TokenOf
<1>3. bearers \in [Bearers -> Bearer] /\ (\A c \in Bearers : bearers[c].at = "away") /\ crossed = {}
  BY AwayIsBearer DEF SignInInit
<1>4. /\ userRow \in [UserRows -> {NoUser} \cup UserRecord]
      /\ userRole \in [UserRows -> SUBSET UNION TokenRoles]
  BY <1>1, <1>2 DEF UserRecord
<1>5. SignInTypeOK
  BY <1>1, <1>2, <1>3, <1>4 DEF SignInTypeOK, Bearer, SignInSteps
<1>6. OneTokenEach
  BY <1>1, <1>2 DEF OneTokenEach
<1>7. RowsAreUnique
  BY <1>1 DEF RowsAreUnique, Users
<1>8. BearersStand /\ CutsAreExact
  BY <1>3 DEF BearersStand, CutsAreExact
<1>9. QED BY <1>5, <1>6, <1>7, <1>8 DEF SignInInv

LEMMA SignInInvKept == SignInInv /\ [SignInNext]_signVars => SignInInv'
<1>1. SignInInv /\ SignInNext => SignInInv'
  BY TokensComeAndGo, Verifies, Looks, KeepsRows, Cuts, WaitsEnd, Fills DEF SignInNext
<1>2. SignInInv /\ UNCHANGED signVars => SignInInv'
  BY DEF SignInInv, SignInTypeOK, BearersStand, RowsAreUnique, CutsAreExact, OneTokenEach, Users,
         signVars
<1>3. QED BY <1>1, <1>2

LEMMA SignInAlways == SignInSpec => []SignInInv
  BY SignInInvInit, SignInInvKept, PTL DEF SignInSpec

\* syncUser replaces the roles of a row by those of the token it has verified,
\* whole, unless another transaction was replacing them; and the unique
\* constraints keep one row for an account and for a name.
THEOREM RolesComeFromOneToken == SignInSpec => []RolesOfOneToken
<1>1. SignInInv => RolesOfOneToken
  BY DEF SignInInv, OneTokenEach, RowsAreUnique, RolesOfOneToken
<1>2. QED BY <1>1, SignInAlways, PTL
-----------------------------------------------------------------------------
(***************************************************************************)
(* Decisions about access (AccessScopes).                                  *)
(***************************************************************************)
Edit ==
  [do : {"rule"}, old : SUBSET Rule, new : Rule] \cup [do : {"site"}, pair : AccessGroups \X Sites]
  \cup [do : {"group"}, group : AccessGroups]

\* A grant in IPAM goes with the assignment of the group to the site: nothing
\* else in the decisions about IPAM looks at both.
GrantsAreAssigned == \A t \in ipamGrant : <<t[1], t[2]>> \in assigned

ScopesInv ==
  /\ ScopesTypeOK /\ GrantsAreAssigned
  /\ edit \in [Clerks -> {NoEdit} \cup Edit]

LEMMA EditKinds ==
  ASSUME NEW e \in Edit
  PROVE  /\ e.do = "rule" => e.new \in Rule /\ e.old \subseteq Rule
         /\ e.do = "site" => e.pair \in AccessGroups \X Sites
         /\ e.do = "group" => e.group \in AccessGroups
  BY DEF Edit

LEMMA EditsCount ==
  ASSUME ScopesTypeOK, Edits
  PROVE  edits' \in 0..MaxEdits
  BY ScopeAssumption DEF ScopesTypeOK, Edits

LEMMA Members ==
  ASSUME ScopesInv, UNCHANGED userRoles, NEW g \in AccessGroups, AddMember(g) \/ RemoveMember(g)
  PROVE  ScopesInv'
<1>1. edits' \in 0..MaxEdits
  BY EditsCount DEF ScopesInv, AddMember, RemoveMember
<1>2. /\ memberOf' \subseteq existing /\ UNCHANGED <<existing, assigned, ipamGrant, rule, edit>>
  BY DEF ScopesInv, ScopesTypeOK, AddMember, RemoveMember
<1>3. QED BY <1>1, <1>2 DEF ScopesInv, ScopesTypeOK, GrantsAreAssigned

LEMMA Assigns ==
  ASSUME ScopesInv, UNCHANGED userRoles, NEW g \in AccessGroups, NEW s \in Sites,
         NEW permissions \in SUBSET ScopedAction, AssignSite(g, s, permissions)
  PROVE  ScopesInv'
<1>1. edits' \in 0..MaxEdits
  BY EditsCount DEF ScopesInv, AssignSite
<1>2. /\ g \in existing /\ UNCHANGED <<memberOf, existing, rule, edit>>
      /\ assigned' = assigned \cup {<<g, s>>}
      /\ ipamGrant' = {t \in ipamGrant : t[1] # g \/ t[2] # s} \cup {<<g, s, p>> : p \in permissions}
  BY DEF AssignSite
<1>3. assigned' \subseteq existing \X Sites
  BY <1>2 DEF ScopesInv, ScopesTypeOK
<1>4. ipamGrant' \subseteq existing \X Sites \X ScopedAction
  BY <1>2 DEF ScopesInv, ScopesTypeOK
<1>5. GrantsAreAssigned'
  <2>1. ASSUME NEW t \in ipamGrant PROVE <<t[1], t[2]>> \in assigned'
    BY <1>2 DEF ScopesInv, GrantsAreAssigned
  <2>2. ASSUME NEW p \in permissions, NEW t, t = <<g, s, p>> PROVE <<t[1], t[2]>> \in assigned'
    BY <1>2, <2>2
  <2>3. QED BY <1>2, <2>1, <2>2 DEF GrantsAreAssigned
<1>6. QED BY <1>1, <1>2, <1>3, <1>4, <1>5 DEF ScopesInv, ScopesTypeOK

LEMMA Checks ==
  ASSUME ScopesInv, UNCHANGED userRoles, NEW c \in Clerks, NEW e \in Edit, Checked(c, e),
         UnchangedRows
  PROVE  ScopesInv'
<1>1. edits' \in 0..MaxEdits /\ edit' \in [Clerks -> {NoEdit} \cup Edit]
  BY EditsCount DEF ScopesInv, Checked
<1>2. QED BY <1>1 DEF ScopesInv, ScopesTypeOK, GrantsAreAssigned, UnchangedRows

LEMMA Checking ==
  ASSUME ScopesInv, UNCHANGED userRoles, NEW c \in Clerks,
         \/ \E new \in Rule, old \in {{}} \cup {{r} : r \in rule} : CheckRule(c, old, new)
         \/ \E g \in AccessGroups, s \in Sites : CheckSite(c, g, s)
         \/ \E g \in AccessGroups : CheckGroup(c, g)
  PROVE  ScopesInv'
<1>1. ASSUME NEW new \in Rule, NEW old \in {{}} \cup {{r} : r \in rule}, CheckRule(c, old, new)
      PROVE  ScopesInv'
  <2>1. old \in SUBSET Rule
    BY DEF ScopesInv, ScopesTypeOK
  <2>2. [do |-> "rule", old |-> old, new |-> new] \in Edit
    BY <2>1 DEF Edit
  <2>3. QED BY <1>1, <2>2, Checks DEF CheckRule
<1>2. ASSUME NEW g \in AccessGroups, NEW s \in Sites, CheckSite(c, g, s)
      PROVE  ScopesInv'
  <2>1. [do |-> "site", pair |-> <<g, s>>] \in Edit
    BY DEF Edit
  <2>2. QED BY <1>2, <2>1, Checks DEF CheckSite
<1>3. ASSUME NEW g \in AccessGroups, CheckGroup(c, g)
      PROVE  ScopesInv'
  <2>1. [do |-> "group", group |-> g] \in Edit
    BY DEF Edit
  <2>2. QED BY <1>3, <2>1, Checks DEF CheckGroup
<1>4. QED BY <1>1, <1>2, <1>3

LEMMA Applies ==
  ASSUME ScopesInv, UNCHANGED userRoles, NEW c \in Clerks,
         WriteRule(c) \/ DeleteAssignment(c) \/ DeleteGroup(c)
  PROVE  ScopesInv'
<1>1. /\ edit[c] \in Edit /\ edit' \in [Clerks -> {NoEdit} \cup Edit] /\ UNCHANGED edits
  BY DEF ScopesInv, WriteRule, DeleteAssignment, DeleteGroup, EditWritten
<1>2. CASE WriteRule(c)
  <2>1. edit[c].new \in Rule /\ UNCHANGED <<memberOf, existing, assigned, ipamGrant>>
    BY <1>1, <1>2, EditKinds DEF WriteRule
  <2>2. rule' \subseteq Rule
    BY <1>2, <2>1 DEF WriteRule, ScopesInv, ScopesTypeOK
  <2>3. QED BY <1>1, <2>1, <2>2 DEF ScopesInv, ScopesTypeOK, GrantsAreAssigned
<1>3. CASE DeleteAssignment(c)
  <2>1. /\ UNCHANGED <<memberOf, existing, rule>> /\ assigned' = assigned \ {edit[c].pair}
        /\ ipamGrant' = {t \in ipamGrant : <<t[1], t[2]>> # edit[c].pair}
    BY <1>3 DEF DeleteAssignment
  <2>2. GrantsAreAssigned'
    BY <2>1 DEF ScopesInv, GrantsAreAssigned
  <2>3. QED BY <1>1, <2>1, <2>2 DEF ScopesInv, ScopesTypeOK
<1>4. CASE DeleteGroup(c)
  <2> DEFINE g == edit[c].group
  <2>1. /\ existing' = existing \ {g} /\ memberOf' = memberOf \ {g}
        /\ assigned' = {t \in assigned : t[1] # g}
        /\ ipamGrant' = {t \in ipamGrant : t[1] # g}
        /\ rule' = {r \in rule : r.group # g}
    BY <1>4 DEF DeleteGroup
  <2> HIDE DEF g
  <2>2. GrantsAreAssigned'
    BY <2>1 DEF ScopesInv, GrantsAreAssigned
  <2>3. assigned' \subseteq existing' \X Sites
    BY <2>1 DEF ScopesInv, ScopesTypeOK
  <2>4. ipamGrant' \subseteq existing' \X Sites \X ScopedAction
    BY <2>1 DEF ScopesInv, ScopesTypeOK
  <2>5. QED BY <1>1, <2>1, <2>2, <2>3, <2>4 DEF ScopesInv, ScopesTypeOK
<1>5. QED BY <1>2, <1>3, <1>4

LEMMA Deletes ==
  ASSUME ScopesInv, UNCHANGED userRoles, NEW r \in rule, DeletePermission(r)
  PROVE  ScopesInv'
<1>1. edits' \in 0..MaxEdits
  BY EditsCount DEF ScopesInv, DeletePermission
<1>2. QED BY <1>1 DEF ScopesInv, ScopesTypeOK, GrantsAreAssigned, DeletePermission

LEMMA ScopesInvInit == ScopesInit => ScopesInv
  BY ScopeAssumption DEF ScopesInit, ScopesInv, ScopesTypeOK, GrantsAreAssigned

LEMMA ScopesInvKept == ScopesInv /\ [ScopesNext]_scopeVars => ScopesInv'
<1>1. ScopesInv /\ ScopesNext => ScopesInv'
  BY Members, Assigns, Checking, Applies, Deletes DEF ScopesNext
<1>2. ScopesInv /\ UNCHANGED scopeVars => ScopesInv'
  BY DEF ScopesInv, ScopesTypeOK, GrantsAreAssigned, scopeVars
<1>3. QED BY <1>1, <1>2

LEMMA ScopesAlways == ScopesSpec => []ScopesInv
  BY ScopesInvInit, ScopesInvKept, PTL DEF ScopesSpec

\* The roles that manage can read, and who may write may read.
LEMMA ManagersRead ==
  /\ \A kind \in Kind : CanManage("UPDATE", kind) => CanManage("READ", kind)
  /\ \A kind \in Kind : CanManage("READ", kind) <=> CanReadScoped
  /\ \A act \in ScopedAction : CanManage(act, "PHYSICAL") => CanManage(act, "SWITCH")
  /\ IsAdministrator => CanReadScoped
  /\ \A act \in ScopedAction : CanUseIpam(act) => CanReadScoped
  /\ CanUseIpam("UPDATE") => CanUseIpam("READ")
  BY DEF CanManage, CanReadScoped, IsAdministrator, CanUseIpam, Everyone, Kind, ScopedAction

LEMMA WritersRead ==
  ASSUME NEW rules, NEW s, NEW act
  PROVE  /\ Allowed(rules, act, s) => Allowed(rules, "READ", s)
         /\ Allowed(rules, act, s) => CanReadScoped
  BY ManagersRead DEF Allowed, GroupIds

LEMMA RoomsAgree ==
  \A r \in Rooms : r \in VisibleRooms <=> RoomAsserts("READ", r, "PHYSICAL")
  BY ManagersRead, WritersRead DEF VisibleRooms, RoomAsserts, Kind, Allowed

LEMMA BuildingsAgree ==
  \A h \in Buildings : h \in VisibleBuildings(SiteOf[h]) <=> BuildingAsserts("READ", h, "PHYSICAL")
  BY ManagersRead, WritersRead DEF VisibleBuildings, BuildingAsserts, Kind, Allowed

LEMMA SitesAgree == VisibleUnplacedSites \subseteq {s \in Sites : SiteAsserts("READ", s, "SWITCH")}
  BY ManagersRead, WritersRead DEF VisibleUnplacedSites, SiteAsserts, Kind, Allowed

LEMMA DevicesAgree ==
  \A x \in Sites \cup Rooms, k \in Kind : DeviceAsserts("UPDATE", x, k) => DeviceAsserts("READ", x, k)
  BY ManagersRead, WritersRead DEF DeviceAsserts, RoomAsserts, SiteAsserts

LEMMA HostsAgree ==
  \A hostSites \in SUBSET Sites :
    /\ HostAsserts("UPDATE", hostSites) => HostAsserts("READ", hostSites)
    /\ HostAsserts("READ", hostSites) => HostListed(hostSites)
<1>1. \A s : ContextAsserts("UPDATE", s) => ContextAsserts("READ", s)
  BY ManagersRead DEF ContextAsserts, IpamSites
<1>2. \A s : ContextAsserts("READ", s) => IsAdministrator \/ s \in IpamWhere("READ")
  BY DEF ContextAsserts, IpamWhere
<1>3. QED BY <1>1, <1>2 DEF HostAsserts, HostListed

LEMMA IpamOffersAgree ==
  ASSUME GrantsAreAssigned
  PROVE  \A s \in Sites : \A act \in OfferedInIpam(s) : ContextAsserts(act, s)
<1> SUFFICES ASSUME NEW s \in Sites, NEW act \in OfferedInIpam(s), ~IsAdministrator
             PROVE  ContextAsserts(act, s)
  BY DEF ContextAsserts
<1>1. \A p \in GrantedInIpam(s) : CanReadScoped => s \in IpamSites(p) /\ s \in IpamSites("READ")
  BY DEF GrantedInIpam, IpamSites, GrantsAreAssigned, ScopedAction
<1>2. CASE CanUseIpam("UPDATE")
  <2>1. act \in GrantedInIpam(s) /\ act \in ScopedAction
    BY <1>2 DEF OfferedInIpam, GrantedInIpam
  <2>2. CanReadScoped /\ CanUseIpam(act)
    BY <1>2, <2>1, ManagersRead DEF ScopedAction
  <2>3. QED BY <1>1, <2>1, <2>2 DEF ContextAsserts
<1>3. CASE ~CanUseIpam("UPDATE")
  <2>1. act = "READ" /\ CanUseIpam("READ") /\ GrantedInIpam(s) # {}
    BY <1>3 DEF OfferedInIpam
  <2>2. CanReadScoped
    BY <2>1, ManagersRead DEF ScopedAction
  <2>3. QED BY <1>1, <2>1, <2>2 DEF ContextAsserts
<1>4. QED BY <1>2, <1>3

LEMMA OffersAgree ==
  /\ \A r \in Rooms : \A act \in OfferedAt(r) : RoomAsserts(act, r, "SWITCH")
  /\ \A h \in Buildings : \A act \in OfferedAt(h) : BuildingAsserts(act, h, "SWITCH")
  /\ \A s \in Sites : \A act \in OfferedAt(s) : SiteAsserts(act, s, "SWITCH")
<1>1. \A x : \A act \in OfferedAt(x) : act \in ScopedAction /\ CanManage(act, "SWITCH")
  BY ManagersRead DEF OfferedAt, Offerable
<1>2. \A r \in Rooms : r \notin Sites /\ r \notin Buildings
  BY ScopeAssumption
<1>3. \A h \in Buildings : h \notin Sites /\ h \notin Rooms
  BY ScopeAssumption
<1>4. \A r \in Rooms : \A act \in OfferedAt(r) : RoomAsserts(act, r, "SWITCH")
  BY <1>1, <1>2 DEF OfferedAt, RoomAsserts
<1>5. \A h \in Buildings : \A act \in OfferedAt(h) : BuildingAsserts(act, h, "SWITCH")
  BY <1>1, <1>3 DEF OfferedAt, BuildingAsserts
<1>6. \A s \in Sites : \A act \in OfferedAt(s) : SiteAsserts(act, s, "SWITCH")
  BY <1>1, <1>2, <1>3 DEF OfferedAt, SiteAsserts
<1>7. QED BY <1>4, <1>5, <1>6

\* The decisions that access-policy.service.ts, the lists and effectiveAccess
\* make apart agree, whatever rules, groups and roles there are.
THEOREM AccessDecisionsAgree == ScopesSpec => []DecisionsAgree
<1>1. ScopesInv => DecisionsAgree
  BY RoomsAgree, BuildingsAgree, SitesAgree, DevicesAgree, HostsAgree, IpamOffersAgree, OffersAgree
  DEF ScopesInv, DecisionsAgree
<1>2. QED BY <1>1, ScopesAlways, PTL
-----------------------------------------------------------------------------
(***************************************************************************)
(* Subnets (IpamSubnets).                                                  *)
(***************************************************************************)
\* A power of two counts the subsets of a finite set: so it is a natural number,
\* and not zero.
LEMMA PowersOfTwo == ASSUME NEW n \in Nat PROVE 2^n \in Nat \ {0}
<1> DEFINE S == 1 .. n
<1>1. IsFiniteSet(S) /\ Cardinality(S) = n
  BY FS_Interval
<1>2. IsFiniteSet(SUBSET S) /\ Cardinality(SUBSET S) = 2^n
  BY <1>1, FS_SUBSET
<1>3. Cardinality(SUBSET S) \in Nat /\ Cardinality(SUBSET S) # 0
  <2>1. {} \in SUBSET S
    OBVIOUS
  <2>2. SUBSET S # {}
    BY <2>1
  <2>3. QED BY <1>2, <2>2, FS_CardinalityType, FS_EmptySet
<1>4. QED BY <1>2, <1>3

LEMMA NetworkTypes ==
  ASSUME NEW P \in SUBSET (0 .. Bits), NEW n \in Networks(P)
  PROVE  n.base \in Int /\ Broadcast(n) \in Int /\ n.prefix \in P
<1>1. PICK p \in P, x \in Addresses : n = NetworkOf(x, p)
  BY DEF Networks
<1>2. Bits - p \in Nat
  BY BitsAssumption
<1>3. SizeOf(p) \in Nat \ {0}
  BY <1>2, PowersOfTwo DEF SizeOf
<1>4. 2^Bits \in Nat
  BY BitsAssumption, PowersOfTwo
<1>5. x \in Int
  BY <1>4 DEF Addresses
<1>6. x % SizeOf(p) \in Int
  BY <1>3, <1>5
<1>7. x - (x % SizeOf(p)) \in Int
  BY <1>5, <1>6
<1>8. n.base \in Int /\ n.prefix = p
  BY <1>1, <1>7 DEF NetworkOf
<1>9. QED BY <1>3, <1>8 DEF Broadcast

\* Of two networks that share an address, one holds the first address of the other.
LEMMA SharedIsOverlap ==
  ASSUME NEW P \in SUBSET (0 .. Bits), NEW n \in Networks(P), NEW m \in Networks(P),
         NEW x \in Addresses, InNetwork(x, n), InNetwork(x, m)
  PROVE  Overlaps(n, m)
<1>1. x \in Int
  <2>1. 2^Bits \in Nat
    BY BitsAssumption, PowersOfTwo
  <2>2. QED BY <2>1 DEF Addresses
<1>2. n.base \in Int /\ m.base \in Int /\ Broadcast(n) \in Int /\ Broadcast(m) \in Int
  BY NetworkTypes
<1>3. QED BY <1>1, <1>2 DEF InNetwork, Overlaps

AskingStep == {"vlan", "overlap", "write"}
AskedSubnet == [step : AskingStep, row : SubnetRows, create : BOOLEAN, new : SubnetRecord]
AskedVrf == [step : {"vrf"}, vrf : Vrfs]

LEMMA WritingKinds ==
  ASSUME NEW w \in Writing, w # NoWriting
  PROVE  /\ w.step \in AskingStep => w \in AskedSubnet
         /\ w.step = "vrf" => w \in AskedVrf
  BY DEF Writing, AskingStep, AskedSubnet, AskedVrf

\* What a handler has looked up stands, but for the rows written since.
VlanLooked(c) ==
  LET w == writing[c] IN
  w # NoWriting /\ w.step \in {"overlap", "write"} /\ w.new.vlan # NoVlan =>
    \/ w.row \in fresh[c]
    \/ subnet[w.row] # NoSubnet /\ subnet[w.row].vlan = w.new.vlan
    \/ \A s \in Others(c) \ fresh[c] : subnet[s].vlan # w.new.vlan
OverlapLooked(c) ==
  LET w == writing[c] IN
  w # NoWriting /\ w.step = "write" =>
    \A s \in Others(c) \ fresh[c] : ~(subnet[s].vrf = w.new.vrf /\ Overlaps(w.new.net, subnet[s].net))
VrfLooked(c) ==
  LET w == writing[c] IN
  w # NoWriting /\ w.step = "vrf" => \A s \in Existing \ fresh[c] : subnet[s].vrf # w.vrf

Looked(c) == VlanLooked(c) /\ OverlapLooked(c) /\ VrfLooked(c)
SubnetsInv == SubnetsTypeOK /\ \A c \in Planners : Looked(c)

\* A handler's writes leave what the others looked up standing.
LEMMA WritesKeep ==
  ASSUME SubnetsTypeOK, NEW c \in Planners, NEW d \in Planners, Looked(d), c # d,
         writing'[d] = writing[d],
         \/ \E new : Writes(c, new)
         \/ subnet' = subnet /\ fresh'[d] = fresh[d]
  PROVE  Looked(d)'
<1>1. /\ fresh[d] \subseteq fresh'[d]
      /\ \A s \in SubnetRows : s \notin fresh'[d] => subnet'[s] = subnet[s]
  BY DEF Writes
<1>2. writing[d] # NoWriting => writing[d] \in AskedSubnet \/ writing[d] \in AskedVrf
  BY WritingKinds DEF SubnetsTypeOK, Writing, AskingStep, AskedSubnet, AskedVrf
<1>3. VlanLooked(d)'
  BY <1>1, <1>2 DEF Looked, VlanLooked, Others, Existing, AskedSubnet, AskedVrf
<1>4. OverlapLooked(d)'
  BY <1>1, <1>2 DEF Looked, OverlapLooked, Others, Existing, AskedSubnet, AskedVrf
<1>5. VrfLooked(d)'
  BY <1>1, <1>2 DEF Looked, VrfLooked, Existing
<1>6. QED BY <1>3, <1>4, <1>5 DEF Looked

\* The types of what one handler does.
LEMMA HandlerTypes ==
  ASSUME SubnetsTypeOK, NEW c \in Planners, NEW w \in Writing, writing' = [writing EXCEPT ![c] = w],
         subnet' \in [SubnetRows -> SubnetRecord \cup {NoSubnet}], vrf' \in SUBSET Vrfs,
         fresh' \in [Planners -> SUBSET SubnetRows], writings' \in 0 .. MaxWritings
  PROVE  /\ SubnetsTypeOK' /\ writing'[c] = w
         /\ \A d \in Planners \ {c} : writing'[d] = writing[d]
  BY DEF SubnetsTypeOK

LEMMA FreshTypes ==
  ASSUME SubnetsTypeOK, NEW c \in Planners
  PROVE  /\ \A new : Writes(c, new) => fresh' \in [Planners -> SUBSET SubnetRows]
         /\ [fresh EXCEPT ![c] = {}] \in [Planners -> SUBSET SubnetRows]
         /\ \A d \in Planners \ {c} : [fresh EXCEPT ![c] = {}][d] = fresh[d]
  BY DEF SubnetsTypeOK, Writes

LEMMA WritingsCount ==
  ASSUME SubnetsTypeOK, NEW c, NEW w, Begins(c, w)
  PROVE  writings' \in 0 .. MaxWritings
  BY SubnetAssumption DEF SubnetsTypeOK, Begins

LEMMA AsksSubnet ==
  ASSUME SubnetsInv, NEW c \in Planners, NEW s \in SubnetRows, NEW r \in SubnetRecord,
         AskSubnet(c, s, r)
  PROVE  SubnetsInv'
<1> DEFINE step == IF r.vlan # NoVlan /\ (subnet[s] = NoSubnet \/ subnet[s].vlan # r.vlan)
                   THEN "vlan" ELSE "overlap"
           w == [step |-> step, row |-> s, create |-> subnet[s] = NoSubnet, new |-> r]
<1>1. /\ w \in Writing /\ w.step \in {"vlan", "overlap"} /\ w.row = s /\ w.new = r
      /\ w.step = "overlap" /\ r.vlan # NoVlan => subnet[s] # NoSubnet /\ subnet[s].vlan = r.vlan
  <2>1. PICK create \in BOOLEAN : create = (subnet[s] = NoSubnet)
    OBVIOUS
  <2>2. step \in {"vlan", "overlap"}
    OBVIOUS
  <2>3. step = "overlap" /\ r.vlan # NoVlan => subnet[s] # NoSubnet /\ subnet[s].vlan = r.vlan
    OBVIOUS
  <2>4. w = [step |-> step, row |-> s, create |-> create, new |-> r]
    BY <2>1
  <2> HIDE DEF step
  <2>5. w \in AskedSubnet
    BY <2>2, <2>4 DEF AskedSubnet, AskingStep
  <2>6. QED BY <2>2, <2>3, <2>5 DEF Writing, AskedSubnet, AskingStep
<1>2. /\ writing' = [writing EXCEPT ![c] = w] /\ fresh' = [fresh EXCEPT ![c] = {}]
      /\ UNCHANGED <<subnet, vrf>> /\ Begins(c, w)
  BY DEF AskSubnet, Begins
<1> HIDE DEF w
<1>3. /\ SubnetsTypeOK' /\ writing'[c] = w
      /\ \A d \in Planners \ {c} : writing'[d] = writing[d]
      /\ \A d \in Planners \ {c} : fresh'[d] = fresh[d]
  BY <1>1, <1>2, HandlerTypes, FreshTypes, WritingsCount DEF SubnetsInv, SubnetsTypeOK
<1>4. \A d \in Planners \ {c} : Looked(d)'
  BY <1>2, <1>3, WritesKeep DEF SubnetsInv
<1>5. Looked(c)'
  BY <1>1, <1>2, <1>3 DEF Looked, VlanLooked, OverlapLooked, VrfLooked
<1>6. QED BY <1>3, <1>4, <1>5 DEF SubnetsInv

LEMMA LooksUp ==
  ASSUME SubnetsInv, NEW c \in Planners, CheckVlan(c) \/ CheckOverlap(c)
  PROVE  SubnetsInv'
<1>1. /\ writing[c] \in AskedSubnet /\ UNCHANGED <<subnet, vrf, writings>> /\ writing[c] # NoWriting
  BY WritingKinds DEF SubnetsInv, SubnetsTypeOK, CheckVlan, CheckOverlap, AtStep, Reads, AskingStep
<1> DEFINE u == writing[c]
<1>2. CASE writing' = [writing EXCEPT ![c] = NoWriting] /\ fresh' = [fresh EXCEPT ![c] = {}]
  <2>1. /\ SubnetsTypeOK' /\ writing'[c] = NoWriting
        /\ \A d \in Planners \ {c} : writing'[d] = writing[d]
        /\ \A d \in Planners \ {c} : fresh'[d] = fresh[d]
    BY <1>1, <1>2, HandlerTypes, FreshTypes DEF SubnetsInv, SubnetsTypeOK, Writing
  <2>2. Looked(c)'
    BY <2>1 DEF Looked, VlanLooked, OverlapLooked, VrfLooked
  <2>3. QED BY <1>1, <2>1, <2>2, WritesKeep DEF SubnetsInv
<1>3. ASSUME NEW s \in {"overlap", "write"}, writing' = [writing EXCEPT ![c] = [@ EXCEPT !.step = s]],
             fresh' = fresh,
             s = "overlap" => \A o \in Others(c) : subnet[o].vlan # u.new.vlan,
             s = "write" => /\ u.step = "overlap"
                            /\ \A o \in Others(c) :
                                 ~(subnet[o].vrf = u.new.vrf /\ Overlaps(u.new.net, subnet[o].net))
      PROVE  SubnetsInv'
  <2> DEFINE w == [u EXCEPT !.step = s]
  <2>1. w \in AskedSubnet /\ w.step = s /\ w.row = u.row /\ w.new = u.new
    BY <1>1 DEF AskedSubnet, AskingStep
  <2>2. writing' = [writing EXCEPT ![c] = w]
    BY <1>3
  <2> HIDE DEF w
  <2>3. w \in Writing
    BY <2>1 DEF AskedSubnet, Writing, AskingStep
  <2>4. /\ SubnetsTypeOK' /\ writing'[c] = w
        /\ \A d \in Planners \ {c} : writing'[d] = writing[d]
    BY <1>1, <1>3, <2>2, <2>3, HandlerTypes DEF SubnetsInv, SubnetsTypeOK
  <2>5. VlanLooked(c)'
    BY <1>1, <1>3, <2>1, <2>4 DEF SubnetsInv, Looked, VlanLooked, Others, Existing
  <2>6. OverlapLooked(c)' /\ VrfLooked(c)'
    BY <1>1, <1>3, <2>1, <2>4 DEF SubnetsInv, Looked, OverlapLooked, VrfLooked, Others, Existing
  <2>7. QED BY <1>1, <1>3, <2>4, <2>5, <2>6, WritesKeep DEF SubnetsInv, Looked
<1>4. fresh = [fresh EXCEPT ![c] = fresh[c]]
  BY DEF SubnetsInv, SubnetsTypeOK
<1>5. CASE CheckVlan(c)
  <2>1. CASE \E s \in Others(c) : subnet[s].vlan = u.new.vlan
    BY <1>2, <1>5, <2>1 DEF CheckVlan, Reads, GoesTo
  <2>2. CASE ~\E s \in Others(c) : subnet[s].vlan = u.new.vlan
    <3>1. writing' = [writing EXCEPT ![c] = [@ EXCEPT !.step = "overlap"]] /\ fresh' = fresh
      BY <1>4, <1>5, <2>2 DEF CheckVlan, Reads, GoesTo
    <3>2. QED BY <1>3, <2>2, <3>1
  <2>3. QED BY <2>1, <2>2
<1>6. CASE CheckOverlap(c)
  <2> DEFINE Found == \/ \E s \in Others(c) :
                           subnet[s].vrf = u.new.vrf /\ Overlaps(u.new.net, subnet[s].net)
                      \/ u.create /\ \E s \in Others(c) : subnet[s].net = u.new.net
  <2>1. CASE Found
    BY <1>2, <1>6, <2>1 DEF CheckOverlap, Reads, GoesTo
  <2>2. CASE ~Found
    <3>1. writing' = [writing EXCEPT ![c] = [@ EXCEPT !.step = "write"]] /\ fresh' = fresh
          /\ u.step = "overlap"
      BY <1>4, <1>6, <2>2 DEF CheckOverlap, Reads, GoesTo, AtStep
    <3>2. QED BY <1>3, <2>2, <3>1
  <2>3. QED BY <2>1, <2>2
<1>7. QED BY <1>5, <1>6

LEMMA AsksVrf ==
  ASSUME SubnetsInv, NEW c \in Planners, NEW v \in Vrfs, AskVrfAway(c, v)
  PROVE  SubnetsInv'
<1> DEFINE w == [step |-> "vrf", vrf |-> v]
<1>1. w \in Writing /\ w.step = "vrf" /\ w.vrf = v
  BY DEF Writing
<1>2. /\ writing' = [writing EXCEPT ![c] = w] /\ fresh' = [fresh EXCEPT ![c] = {}]
      /\ UNCHANGED <<subnet, vrf>> /\ Begins(c, w) /\ \A s \in Existing : subnet[s].vrf # v
  BY DEF AskVrfAway, Begins
<1> HIDE DEF w
<1>3. /\ SubnetsTypeOK' /\ writing'[c] = w
      /\ \A d \in Planners \ {c} : writing'[d] = writing[d]
      /\ \A d \in Planners \ {c} : fresh'[d] = fresh[d]
  BY <1>1, <1>2, HandlerTypes, FreshTypes, WritingsCount DEF SubnetsInv, SubnetsTypeOK
<1>4. \A d \in Planners \ {c} : Looked(d)'
  BY <1>2, <1>3, WritesKeep DEF SubnetsInv
<1>5. Looked(c)'
  BY <1>1, <1>2, <1>3 DEF Looked, VlanLooked, OverlapLooked, VrfLooked, Existing
<1>6. QED BY <1>3, <1>4, <1>5 DEF SubnetsInv

\* The rows that a handler writes.
LEMMA WrittenTypes ==
  ASSUME SubnetsTypeOK, NEW c \in Planners
  PROVE  /\ WriteSubnet(c) => subnet' \in [SubnetRows -> SubnetRecord \cup {NoSubnet}]
         /\ \A s \in SubnetRows : DeleteSubnet(c, s) =>
              subnet' \in [SubnetRows -> SubnetRecord \cup {NoSubnet}]
         /\ DeleteVrf(c) => subnet' \in [SubnetRows -> SubnetRecord \cup {NoSubnet}]
<1>1. ASSUME WriteSubnet(c) PROVE subnet' \in [SubnetRows -> SubnetRecord \cup {NoSubnet}]
  <2>1. writing[c] \in AskedSubnet
    BY <1>1, WritingKinds DEF SubnetsTypeOK, WriteSubnet, AtStep, AskingStep
  <2>2. subnet' = subnet \/ subnet' = [subnet EXCEPT ![writing[c].row] = writing[c].new]
    BY <1>1 DEF WriteSubnet, Writes
  <2>3. QED BY <2>1, <2>2 DEF SubnetsTypeOK, AskedSubnet
<1>2. ASSUME NEW s \in SubnetRows, DeleteSubnet(c, s)
      PROVE  subnet' \in [SubnetRows -> SubnetRecord \cup {NoSubnet}]
  BY <1>2 DEF SubnetsTypeOK, DeleteSubnet, Writes
<1>3. ASSUME DeleteVrf(c) PROVE subnet' \in [SubnetRows -> SubnetRecord \cup {NoSubnet}]
  <2>1. \A r \in SubnetRecord : [r EXCEPT !.vrf = NoVrf] \in SubnetRecord
    BY DEF SubnetRecord
  <2>2. subnet' = [s \in SubnetRows |->
       IF subnet[s] # NoSubnet /\ subnet[s].vrf = writing[c].vrf
       THEN [subnet[s] EXCEPT !.vrf = NoVrf] ELSE subnet[s]]
    BY <1>3 DEF DeleteVrf, Writes
  <2>3. QED BY <2>1, <2>2 DEF SubnetsTypeOK
<1>4. QED BY <1>1, <1>2, <1>3

LEMMA WritesOut ==
  ASSUME SubnetsInv, NEW c \in Planners,
         WriteSubnet(c) \/ DeleteVrf(c) \/ (\E s \in SubnetRows : DeleteSubnet(c, s))
  PROVE  SubnetsInv'
<1>1. subnet' \in [SubnetRows -> SubnetRecord \cup {NoSubnet}] /\ vrf' \in SUBSET Vrfs /\ writings' = writings
  BY WrittenTypes DEF SubnetsInv, SubnetsTypeOK, WriteSubnet, DeleteVrf, DeleteSubnet, AtStep
<1>2. (\E new : Writes(c, new)) /\ fresh' \in [Planners -> SUBSET SubnetRows]
  BY FreshTypes DEF SubnetsInv, WriteSubnet, DeleteVrf, DeleteSubnet
<1>3. writing' = [writing EXCEPT ![c] = NoWriting]
  BY DEF SubnetsInv, SubnetsTypeOK, WriteSubnet, DeleteVrf, DeleteSubnet, GoesTo
<1>4. /\ SubnetsTypeOK' /\ writing'[c] = NoWriting
      /\ \A d \in Planners \ {c} : writing'[d] = writing[d]
  BY <1>1, <1>2, <1>3, HandlerTypes DEF SubnetsInv, SubnetsTypeOK, Writing
<1>5. \A d \in Planners \ {c} : Looked(d)'
  BY <1>2, <1>4, WritesKeep DEF SubnetsInv
<1>6. Looked(c)'
  BY <1>4 DEF Looked, VlanLooked, OverlapLooked, VrfLooked
<1>7. QED BY <1>4, <1>5, <1>6 DEF SubnetsInv

LEMMA SubnetsInvInit == SubnetsInit => SubnetsInv
  BY SubnetAssumption DEF SubnetsInit, SubnetsInv, SubnetsTypeOK, Writing, Looked, VlanLooked,
     OverlapLooked, VrfLooked

LEMMA SubnetsInvKept == SubnetsInv /\ [SubnetsNext]_subnetVars => SubnetsInv'
<1>1. SubnetsInv /\ SubnetsNext => SubnetsInv'
  BY AsksSubnet, LooksUp, AsksVrf, WritesOut DEF SubnetsNext
<1>2. SubnetsInv /\ UNCHANGED subnetVars => SubnetsInv'
  BY DEF SubnetsInv, SubnetsTypeOK, Looked, VlanLooked, OverlapLooked, VrfLooked, Others, Existing,
     subnetVars
<1>3. QED BY <1>1, <1>2

LEMMA SubnetsAlways == SubnetsSpec => []SubnetsInv
  BY SubnetsInvInit, SubnetsInvKept, PTL DEF SubnetsSpec

LEMMA ClashIsMutual ==
  ASSUME NEW table, NEW s, NEW t, Clash(table, s, t)
  PROVE  Clash(table, t, s)
  BY DEF Clash

\* A row written where its handler has looked clashes with none that stayed.
LEMMA WrittenClash ==
  ASSUME SubnetsInv, NEW c \in Planners, WriteSubnet(c),
         NEW o \in SubnetRows, Clash(subnet', writing[c].row, o), ~Clash(subnet, writing[c].row, o),
         subnet' = [subnet EXCEPT ![writing[c].row] = writing[c].new]
  PROVE  {writing[c].row, o} \cap fresh[c] # {}
<1> SUFFICES ASSUME writing[c].row \notin fresh[c], o \notin fresh[c] PROVE FALSE
  OBVIOUS
<1> DEFINE w == writing[c]
           r == w.row
<1>1. /\ w \in AskedSubnet /\ w # NoWriting /\ w.step = "write" /\ r \in SubnetRows
      /\ w.new \in SubnetRecord
  BY WritingKinds DEF SubnetsInv, SubnetsTypeOK, WriteSubnet, AtStep, AskingStep, AskedSubnet
<1>2. /\ r # o /\ subnet'[r] = w.new /\ subnet'[o] = subnet[o] /\ subnet[o] # NoSubnet
      /\ subnet[o] \in SubnetRecord /\ o \in Others(c)
  BY <1>1 DEF SubnetsInv, SubnetsTypeOK, Clash, Others, Existing
<1>3. CASE w.new.vlan = subnet[o].vlan /\ w.new.vlan # NoVlan
  <2>1. VlanLooked(c)
    BY DEF SubnetsInv, Looked
  <2>2. subnet[r] # NoSubnet /\ subnet[r].vlan = w.new.vlan
    BY <1>1, <1>2, <1>3, <2>1 DEF VlanLooked
  <2>3. QED BY <1>2, <1>3, <2>2 DEF Clash
<1>4. CASE /\ w.new.vrf = subnet[o].vrf
           /\ \E x \in Addresses : InNetwork(x, w.new.net) /\ InNetwork(x, subnet[o].net)
  <2>1. Overlaps(w.new.net, subnet[o].net)
    BY <1>1, <1>2, <1>4, SharedIsOverlap, SubnetAssumption DEF SubnetRecord
  <2>2. OverlapLooked(c)
    BY DEF SubnetsInv, Looked
  <2>3. QED BY <1>1, <1>2, <1>4, <2>1, <2>2 DEF OverlapLooked
<1>5. QED BY <1>1, <1>2, <1>3, <1>4 DEF Clash

\* A subnet falls out of the VRF it came to while the VRF was being deleted.
LEMMA FallenClash ==
  ASSUME SubnetsInv, NEW c \in Planners, DeleteVrf(c),
         NEW s \in SubnetRows, NEW t \in SubnetRows,
         Clash(subnet', s, t), ~Clash(subnet, s, t)
  PROVE  {s, t} \cap fresh[c] # {}
<1> DEFINE v == writing[c].vrf
           Falls(x) == subnet[x] # NoSubnet /\ subnet[x].vrf = v
<1>1. \A x \in SubnetRows : subnet'[x] = IF Falls(x) THEN [subnet[x] EXCEPT !.vrf = NoVrf] ELSE subnet[x]
  BY DEF DeleteVrf, Writes
<1>2. \A x \in SubnetRows : Falls(x) => x \in fresh[c]
  BY DEF SubnetsInv, Looked, VrfLooked, DeleteVrf, AtStep, Existing
<1>3. CASE Falls(s) \/ Falls(t)
  BY <1>2, <1>3
<1>4. CASE ~Falls(s) /\ ~Falls(t)
  <2>1. subnet'[s] = subnet[s] /\ subnet'[t] = subnet[t]
    BY <1>1, <1>4
  <2>2. QED BY <2>1 DEF Clash
<1>5. QED BY <1>3, <1>4

\* createSubnet, updateSubnet and deleteVrf look first and write later: what
\* they looked up holds at the write but for the rows that others wrote since.
THEOREM ClashesAreRaces == SubnetsSpec => ClashesNeedARace
<1> DEFINE New(s, t) == Clash(subnet', s, t) /\ ~Clash(subnet, s, t)
           Raced(s, t) == \E c \in Planners : writing[c] # NoWriting /\ writing'[c] = NoWriting
                            /\ {s, t} \cap fresh[c] # {}
<1>1. ASSUME SubnetsInv, SubnetsNext, NEW s \in SubnetRows, NEW t \in SubnetRows, New(s, t)
      PROVE  Raced(s, t)
  <2>1. subnet' # subnet
    BY <1>1
  <2>2. PICK c \in Planners : \/ WriteSubnet(c) \/ DeleteVrf(c)
                              \/ \E x \in SubnetRows : DeleteSubnet(c, x)
    BY <1>1, <2>1 DEF SubnetsNext, AskSubnet, CheckVlan, CheckOverlap, AskVrfAway, Reads
  <2>3. CASE WriteSubnet(c)
    <3>1. /\ writing[c] # NoWriting /\ writing'[c] = NoWriting
          /\ subnet' = [subnet EXCEPT ![writing[c].row] = writing[c].new]
      BY <1>1, <2>1, <2>3 DEF WriteSubnet, AtStep, GoesTo, Writes, SubnetsInv, SubnetsTypeOK
    <3>2. CASE s = writing[c].row
      BY <1>1, <2>3, <3>1, <3>2, WrittenClash
    <3>3. CASE t = writing[c].row
      <4>1. Clash(subnet', t, s) /\ ~Clash(subnet, t, s)
        BY <1>1, ClashIsMutual
      <4>2. QED BY <1>1, <2>3, <3>1, <3>3, <4>1, WrittenClash
    <3>4. CASE s # writing[c].row /\ t # writing[c].row
      <4>1. subnet'[s] = subnet[s] /\ subnet'[t] = subnet[t]
        BY <1>1, <3>1, <3>4 DEF SubnetsInv, SubnetsTypeOK
      <4>2. QED BY <1>1, <4>1 DEF Clash
    <3>5. QED BY <3>2, <3>3, <3>4
  <2>4. CASE DeleteVrf(c)
    <3>1. writing[c] # NoWriting /\ writing'[c] = NoWriting
      BY <1>1, <2>4 DEF DeleteVrf, AtStep, GoesTo, SubnetsInv, SubnetsTypeOK
    <3>2. QED BY <1>1, <2>4, <3>1, FallenClash
  <2>5. CASE \E x \in SubnetRows : DeleteSubnet(c, x)
    <3>1. PICK x \in SubnetRows : subnet' = [subnet EXCEPT ![x] = NoSubnet]
      BY <2>5 DEF DeleteSubnet, Writes
    <3>2. \A y \in SubnetRows : subnet'[y] = subnet[y] \/ subnet'[y] = NoSubnet
      BY <1>1, <3>1 DEF SubnetsInv, SubnetsTypeOK
    <3>3. QED BY <1>1, <3>2 DEF Clash
  <2>6. QED BY <2>2, <2>3, <2>4, <2>5
<1>2. UNCHANGED subnetVars => \A s, t \in SubnetRows : ~New(s, t)
  BY DEF subnetVars
<1>3. SubnetsInv /\ [SubnetsNext]_subnetVars =>
        [\A s, t \in SubnetRows : New(s, t) => Raced(s, t)]_subnetVars
  BY <1>1, <1>2
<1>4. QED BY <1>3, SubnetsAlways, PTL DEF SubnetsSpec, ClashesNeedARace

\* The addresses of a subnet and its plan keep their types.
LEMMA PlanTypesInit == PlanInit => PlanTypeOK
  BY DEF PlanInit, PlanTypeOK

LEMMA PlanTypesKept == PlanTypeOK /\ [PlanNext]_planVars => PlanTypeOK'
  BY DEF PlanTypeOK, PlanNext, CreateIp, UpdateIp, DeleteIp, ApproveHost, ChangeCidr, IpStates, planVars

LEMMA PlanTypes == PlanSpec => []PlanTypeOK
  BY PlanTypesInit, PlanTypesKept, PTL DEF PlanSpec

\* A finite set of numbers has a greatest one.
LEMMA FiniteSetsHaveMaxima ==
  ASSUME NEW S, S \subseteq Int, IsFiniteSet(S), S # {}
  PROVE  \E m \in S : \A x \in S : x <= m
<1>. DEFINE T == {n \in Nat : \A U \in SUBSET S : Cardinality(U) = n /\ U # {} =>
                                \E m \in U : \A x \in U : x <= m}
<1>1. 0 \in T
  BY FS_EmptySet, FS_Subset
<1>2. ASSUME NEW n \in Nat, n \in T PROVE n + 1 \in T
  <2>1. ASSUME NEW U \in SUBSET S, Cardinality(U) = n + 1, U # {}
        PROVE  \E m \in U : \A x \in U : x <= m
    <3>1. PICK e \in U : TRUE
      BY <2>1
    <3>2. Cardinality(U \ {e}) = n
      <4>1. IsFiniteSet(U)
        BY FS_Subset
      <4>2. Cardinality(U \ {e}) = Cardinality(U) - 1
        BY <3>1, <4>1, FS_RemoveElement
      <4>. QED BY <2>1, <4>2
    <3>3. CASE U \ {e} = {}
      BY <3>1, <3>3
    <3>4. CASE U \ {e} # {}
      <4>1. PICK m \in U \ {e} : \A x \in U \ {e} : x <= m
        BY <1>2, <3>2, <3>4
      <4>2. m \in Int /\ e \in Int /\ \A x \in U : x \in Int
        OBVIOUS
      <4>3. CASE e <= m
        BY <4>1, <4>3
      <4>4. CASE m <= e
        BY <4>1, <4>2, <4>4
      <4>. QED BY <4>2, <4>3, <4>4
    <3>. QED BY <3>3, <3>4
  <2>. QED BY <2>1
<1>. HIDE DEF T
<1>3. Nat \subseteq T
  BY <1>1, <1>2, SetInduction
<1>4. Cardinality(S) \in T
  BY <1>3, FS_CardinalityType
<1>. QED BY <1>4 DEF T

Ordered(order, S) ==
  /\ order \in [1 .. Cardinality(S) -> S]
  /\ \A i, j \in 1 .. Cardinality(S) : i < j => order[i] < order[j]
  /\ \A x \in S : \E i \in 1 .. Cardinality(S) : order[i] = x

\* It can be put in order.
LEMMA FiniteSetsHaveOrders ==
  ASSUME NEW S, S \subseteq Int, IsFiniteSet(S)
  PROVE  \E order : Ordered(order, S)
<1>. DEFINE T == {n \in Nat : \A U \in SUBSET S : Cardinality(U) = n => \E order : Ordered(order, U)}
<1>1. 0 \in T
  <2>1. ASSUME NEW U \in SUBSET S, Cardinality(U) = 0 PROVE \E order : Ordered(order, U)
    <3>1. U = {}
      BY <2>1, FS_EmptySet, FS_Subset
    <3>2. 1 .. Cardinality(U) = {}
      BY <2>1
    <3>3. [i \in {} |-> 0] \in [{} -> U]
      OBVIOUS
    <3>. QED BY <3>1, <3>2, <3>3 DEF Ordered
  <2>. QED BY <2>1
<1>2. ASSUME NEW n \in Nat, n \in T PROVE n + 1 \in T
  <2>1. ASSUME NEW U \in SUBSET S, Cardinality(U) = n + 1 PROVE \E order : Ordered(order, U)
    <3>1. IsFiniteSet(U) /\ U # {} /\ U \subseteq Int
      <4>1. IsFiniteSet(U)
        BY FS_Subset
      <4>2. Cardinality(U) # 0
        BY <2>1
      <4>. QED BY <4>1, <4>2, FS_EmptySet
    <3>2. PICK m \in U : \A x \in U : x <= m
      BY <3>1, FiniteSetsHaveMaxima
    <3>3. Cardinality(U \ {m}) = n
      <4>1. Cardinality(U \ {m}) = Cardinality(U) - 1
        BY <3>1, FS_RemoveElement
      <4>. QED BY <2>1, <4>1
    <3>4. PICK o : Ordered(o, U \ {m})
      BY <1>2, <3>3
    <3>5. /\ o \in [1 .. n -> U \ {m}]
          /\ \A i, j \in 1 .. n : i < j => o[i] < o[j]
          /\ \A x \in U \ {m} : \E i \in 1 .. n : o[i] = x
      BY <3>3, <3>4 DEF Ordered
    <3>. DEFINE order == [i \in 1 .. n + 1 |-> IF i = n + 1 THEN m ELSE o[i]]
    <3>6. \A i \in 1 .. n : i \in 1 .. n + 1 /\ order[i] = o[i] /\ o[i] \in U /\ o[i] < m
      <4>1. ASSUME NEW i \in 1 .. n PROVE o[i] \in U /\ o[i] < m
        <5>1. o[i] \in U \ {m}
          BY <3>5
        <5>2. o[i] \in Int /\ m \in Int /\ o[i] <= m /\ o[i] # m
          BY <3>1, <3>2, <5>1
        <5>. QED BY <5>1, <5>2
      <4>. QED BY <4>1
    <3>7. order[n + 1] = m /\ n + 1 \in 1 .. n + 1
      OBVIOUS
    <3>8. \A i \in 1 .. n + 1 : i \in 1 .. n \/ i = n + 1
      OBVIOUS
    <3>9. order \in [1 .. n + 1 -> U]
      BY <3>6, <3>7, <3>8
    <3>. HIDE DEF order
    <3>10. \A i, j \in 1 .. n + 1 : i < j => order[i] < order[j]
      BY <3>5, <3>6, <3>7, <3>8
    <3>11. \A x \in U : \E i \in 1 .. n + 1 : order[i] = x
      BY <3>5, <3>6, <3>7
    <3>12. Ordered(order, U)
      BY <2>1, <3>9, <3>10, <3>11 DEF Ordered
    <3>. QED BY <3>12
  <2>. QED BY <2>1
<1>. HIDE DEF T
<1>3. Nat \subseteq T
  BY <1>1, <1>2, SetInduction
<1>4. Cardinality(S) \in T
  BY <1>3, FS_CardinalityType
<1>. QED BY <1>4 DEF T

\* And Ascending puts it in order.
LEMMA AscendingIs ==
  ASSUME NEW S, S \subseteq Int, IsFiniteSet(S)
  PROVE  Ordered(Ascending(S), S)
<1>. DEFINE N == Cardinality(S)
            Rises(order) == \A i, j \in DOMAIN order : i < j => order[i] < order[j]
            order == CHOOSE o \in [1 .. N -> S] : Rises(o)
<1>1. N \in Nat
  BY FS_CardinalityType
<1>2. PICK o : Ordered(o, S)
  BY FiniteSetsHaveOrders
<1>3. o \in [1 .. N -> S] /\ Rises(o)
  BY <1>2 DEF Ordered
<1>4. order \in [1 .. N -> S] /\ Rises(order)
  <2>. HIDE DEF Rises, N
  <2>. QED BY <1>3
<1>5. Ascending(S) = order
  BY DEF Ascending
<1>. HIDE DEF order
<1>6. \A i, j \in 1 .. N : i < j => order[i] < order[j]
  BY <1>4
<1>7. \A i, j \in 1 .. N : order[i] = order[j] => i = j
  <2>1. ASSUME NEW i \in 1 .. N, NEW j \in 1 .. N, i < j PROVE order[i] # order[j]
    <3>1. order[i] < order[j] /\ order[i] \in S /\ order[j] \in S
      BY <1>4, <1>6, <2>1
    <3>2. order[i] \in Int /\ order[j] \in Int
      BY <3>1
    <3>. QED BY <3>1, <3>2
  <2>2. \A i, j \in 1 .. N : i < j \/ j < i \/ i = j
    BY <1>1
  <2>. QED BY <2>1, <2>2
<1>8. order \in Injection(1 .. N, S)
  BY <1>4, <1>7 DEF Injection, IsInjective
<1>9. Cardinality(1 .. N) = N
  BY <1>1, FS_Interval
<1>10. order \in Surjection(1 .. N, S)
  BY <1>8, <1>9, FS_Injection
<1>11. \A x \in S : \E i \in 1 .. N : order[i] = x
  BY <1>10 DEF Surjection
<1>. QED BY <1>4, <1>5, <1>6, <1>11 DEF Ordered

Passage == [cursor : Int, gaps : Seq(Int \X Int)]

LEMMA PassingIs ==
  ASSUME NEW acc \in Passage, NEW ip \in Int
  PROVE  Passing(acc, ip) \in Passage
<1>1. <<acc.cursor, ip - 1>> \in Int \X Int /\ acc.gaps \in Seq(Int \X Int)
  BY DEF Passage
<1>2. Append(acc.gaps, <<acc.cursor, ip - 1>>) \in Seq(Int \X Int)
  BY <1>1
<1>. QED BY <1>1, <1>2 DEF Passing, Passage

\* The loop, as its turns one after the other.
StepByStep(after, order, count) ==
  /\ after[0] = [cursor |-> FirstUsable(cidr), gaps |-> <<>>]
  /\ \A n \in 1 .. count : after[n] = Passing(after[n - 1], order[n])
  /\ Passed(order, count) = after[count]
LEMMA LoopOfPassings ==
  ASSUME NEW count \in Nat, NEW order \in [1 .. count -> Int], FirstUsable(cidr) \in Int
  PROVE  \E after : StepByStep(after, order, count)
<1>. DEFINE first == [cursor |-> FirstUsable(cidr), gaps |-> <<>>]
            turn == [p \in (1 .. count) \X Passage |-> Passing(p[2], order[p[1]])]
<1>1. first \in Passage
  BY DEF Passage
<1>2. \A n \in 1 .. count, acc \in Passage : Passing(acc, order[n]) \in Passage
  BY PassingIs
<1>. HIDE DEF first
<1>3. turn \in [(1 .. count) \X Passage -> Passage]
  BY <1>2
<1>4. PICK f \in [0 .. count -> Passage] : f[0] = first /\ \A n \in 1 .. count : f[n] = turn[<<n, f[n - 1]>>]
  <2>. HIDE DEF turn
  <2>1. PICK f : IsRun(f, count, Passage, first, turn)
    BY <1>1, <1>3, LoopRuns
  <2>. QED BY <2>1 DEF IsRun
<1>5. \A n \in 1 .. count : f[n] = Passing(f[n - 1], order[n])
  <2>1. \A n \in 1 .. count : n - 1 \in 0 .. count /\ f[n - 1] \in Passage
    OBVIOUS
  <2>2. \A n \in 1 .. count : <<n, f[n - 1]>> \in (1 .. count) \X Passage
    BY <2>1
  <2>. QED BY <1>4, <2>2
<1>6. f = [n \in 0 .. count |-> IF n = 0 THEN first ELSE Passing(f[n - 1], order[n])]
  <2>1. \A n \in 0 .. count : f[n] = IF n = 0 THEN first ELSE Passing(f[n - 1], order[n])
    BY <1>4, <1>5
  <2>. QED BY <2>1
<1>. DEFINE after == CHOOSE g : g = [n \in 0 .. count |-> IF n = 0 THEN first ELSE Passing(g[n - 1], order[n])]
<1>7. after = [n \in 0 .. count |-> IF n = 0 THEN first ELSE Passing(after[n - 1], order[n])]
  BY <1>6
<1>8. Passed(order, count) = after[count]
  BY DEF Passed, first
<1>. HIDE DEF after
<1>9. after[0] = first
  BY <1>7
<1>10. \A n \in 1 .. count : after[n] = Passing(after[n - 1], order[n])
  BY <1>7
<1>. QED BY <1>8, <1>9, <1>10 DEF first, StepByStep

\* Ranges in order, one or more addresses between one and the next.
Apart(gaps) ==
  \A i \in 1 .. Len(gaps) :
    /\ gaps[i][1] <= gaps[i][2]
    /\ i > 1 => gaps[i - 1][2] + 1 < gaps[i][1]
Lies(x, gaps) == \E i \in 1 .. Len(gaps) : gaps[i][1] <= x /\ x <= gaps[i][2]

\* A range that is added behind the others.
LEMMA RangeAdded ==
  ASSUME NEW gaps \in Seq(Int \X Int), NEW ip \in Int, NEW upto \in Int, ip <= upto, Apart(gaps),
         Len(gaps) > 0 => gaps[Len(gaps)][2] + 1 < ip
  PROVE  LET more == Append(gaps, <<ip, upto>>)
         IN /\ more \in Seq(Int \X Int) /\ Apart(more)
            /\ Len(more) > 0 /\ more[Len(more)][2] = upto
            /\ \A x \in Int : Lies(x, more) <=> Lies(x, gaps) \/ (ip <= x /\ x <= upto)
<1>. DEFINE more == Append(gaps, <<ip, upto>>)
            L == Len(gaps)
<1>1. /\ more \in Seq(Int \X Int) /\ L \in Nat /\ Len(more) = L + 1
      /\ more[L + 1] = <<ip, upto>> /\ \A i \in 1 .. L : more[i] = gaps[i]
  OBVIOUS
<1>2. \A i \in 1 .. L : gaps[i][1] \in Int /\ gaps[i][2] \in Int
  OBVIOUS
<1>. HIDE DEF more
<1>3. 1 .. L + 1 = (1 .. L) \cup {L + 1}
  BY <1>1
<1>4. more[L + 1][1] = ip /\ more[L + 1][2] = upto
  BY <1>1
<1>5. Apart(more)
  <2>1. ASSUME NEW i \in 1 .. L + 1
        PROVE  more[i][1] <= more[i][2] /\ (i > 1 => more[i - 1][2] + 1 < more[i][1])
    <3>1. CASE i = L + 1
      <4>1. more[i][1] = ip /\ more[i][2] = upto
        BY <1>4, <3>1
      <4>2. ASSUME i > 1 PROVE more[i - 1][2] + 1 < more[i][1]
        <5>1. L \in 1 .. L /\ L > 0 /\ i - 1 = L
          BY <1>1, <3>1, <4>2
        <5>2. more[i - 1][2] = gaps[L][2]
          BY <1>1, <5>1
        <5>. QED BY <4>1, <5>1, <5>2
      <4>. QED BY <4>1, <4>2
    <3>2. CASE i \in 1 .. L
      <4>1. i > 1 => i - 1 \in 1 .. L
        BY <1>1, <3>2
      <4>. QED BY <1>1, <3>2, <4>1 DEF Apart
    <3>. QED BY <1>3, <3>1, <3>2
  <2>. QED BY <1>1, <2>1 DEF Apart
<1>6. \A x \in Int : Lies(x, more) <=> Lies(x, gaps) \/ (ip <= x /\ x <= upto)
  BY <1>1, <1>3, <1>4 DEF Lies
<1>. QED BY <1>1, <1>4, <1>5, <1>6 DEF more

\* What the loop has after its first n addresses: every free one so far.
Stage(acc, order, n) ==
  /\ acc \in Passage
  /\ acc.cursor = IF n = 0 THEN FirstUsable(cidr) ELSE order[n] + 1
  /\ Apart(acc.gaps)
  /\ Len(acc.gaps) > 0 => acc.gaps[Len(acc.gaps)][2] + 1 < acc.cursor
  /\ \A x \in Int : Lies(x, acc.gaps) <=>
       FirstUsable(cidr) <= x /\ x < acc.cursor /\ \A i \in 1 .. n : order[i] # x

\* One more address keeps it so.
LEMMA StagesFollow ==
  ASSUME FirstUsable(cidr) \in Int, NEW count \in Nat, NEW order \in [1 .. count -> Int],
         \A i, j \in 1 .. count : i < j => order[i] < order[j],
         \A i \in 1 .. count : order[i] >= FirstUsable(cidr),
         NEW n \in Nat, n + 1 <= count, NEW acc, Stage(acc, order, n)
  PROVE  Stage(Passing(acc, order[n + 1]), order, n + 1)
<1>. DEFINE ip == order[n + 1]
            new == Passing(acc, ip)
            first == FirstUsable(cidr)
<1>1. n + 1 \in 1 .. count /\ ip \in Int /\ first \in Int /\ 1 .. n \subseteq 1 .. count
      /\ 1 .. n + 1 = (1 .. n) \cup {n + 1}
  <2>1. n + 1 \in 1 .. count /\ 1 .. n \subseteq 1 .. count /\ 1 .. n + 1 = (1 .. n) \cup {n + 1}
    OBVIOUS
  <2>2. order[n + 1] \in Int
    BY <2>1
  <2>. QED BY <2>1, <2>2
<1>2. /\ acc \in Passage /\ acc.cursor \in Int /\ acc.gaps \in Seq(Int \X Int) /\ Len(acc.gaps) \in Nat
      /\ acc.cursor = IF n = 0 THEN first ELSE order[n] + 1
      /\ Apart(acc.gaps)
      /\ Len(acc.gaps) > 0 => acc.gaps[Len(acc.gaps)][2] + 1 < acc.cursor
      /\ \A x \in Int : Lies(x, acc.gaps) <=> first <= x /\ x < acc.cursor /\ \A i \in 1 .. n : order[i] # x
  BY DEF Stage, Passage
<1>3. acc.cursor <= ip
  <2>1. CASE n = 0
    BY <1>1, <1>2, <2>1
  <2>2. CASE n # 0
    <3>1. n \in 1 .. count /\ n < n + 1 /\ order[n] \in Int
      BY <1>1, <2>2
    <3>2. order[n] < ip
      BY <1>1, <3>1
    <3>. QED BY <1>1, <1>2, <2>2, <3>1, <3>2
  <2>. QED BY <2>1, <2>2
<1>4. \A i \in 1 .. n : order[i] \in Int /\ order[i] < ip
  <2>1. ASSUME NEW i \in 1 .. n PROVE order[i] \in Int /\ order[i] < ip
    <3>1. i \in 1 .. count /\ i < n + 1
      BY <1>1
    <3>. QED BY <1>1, <3>1
  <2>. QED BY <2>1
<1>5. new \in Passage /\ new.cursor = ip + 1
      /\ new.gaps = IF ip > acc.cursor THEN Append(acc.gaps, <<acc.cursor, ip - 1>>) ELSE acc.gaps
  BY <1>1, <1>2, PassingIs DEF Passing
<1>6. new.cursor = IF n + 1 = 0 THEN first ELSE order[n + 1] + 1
  BY <1>5
<1>7. \A x \in Int : (\A i \in 1 .. n + 1 : order[i] # x) <=> (\A i \in 1 .. n : order[i] # x) /\ ip # x
  BY <1>1
<1>. HIDE DEF ip, new, first
<1>8. CASE ip > acc.cursor
  <2>. DEFINE upto == ip - 1
  <2>1. /\ Apart(new.gaps)
        /\ Len(new.gaps) > 0 /\ new.gaps[Len(new.gaps)][2] = upto
        /\ \A x \in Int : Lies(x, new.gaps) <=> Lies(x, acc.gaps) \/ (acc.cursor <= x /\ x <= upto)
    <3>1. upto \in Int /\ acc.cursor <= upto
      BY <1>1, <1>2, <1>8
    <3>2. new.gaps = Append(acc.gaps, <<acc.cursor, upto>>)
      BY <1>5, <1>8
    <3>. HIDE DEF upto
    <3>3. LET more == Append(acc.gaps, <<acc.cursor, upto>>)
          IN /\ more \in Seq(Int \X Int) /\ Apart(more)
             /\ Len(more) > 0 /\ more[Len(more)][2] = upto
             /\ \A x \in Int : Lies(x, more) <=> Lies(x, acc.gaps) \/ (acc.cursor <= x /\ x <= upto)
      BY <1>2, <3>1, RangeAdded
    <3>. QED BY <3>2, <3>3
  <2>2. Len(new.gaps) > 0 => new.gaps[Len(new.gaps)][2] + 1 < new.cursor
    BY <1>1, <1>5, <2>1
  <2>3. ASSUME NEW x \in Int
        PROVE  Lies(x, new.gaps) <=> first <= x /\ x < new.cursor /\ \A i \in 1 .. n + 1 : order[i] # x
    <3>1. CASE x < acc.cursor
      <4>1. ~(acc.cursor <= x) /\ x < new.cursor /\ ip # x
        BY <1>1, <1>2, <1>3, <1>5, <3>1
      <4>2. Lies(x, new.gaps) <=> Lies(x, acc.gaps)
        BY <2>1, <4>1
      <4>. QED BY <1>2, <1>7, <3>1, <4>1, <4>2
    <3>2. CASE acc.cursor <= x
      <4>1. first <= acc.cursor
        <5>1. CASE n = 0
          BY <1>1, <1>2, <5>1
        <5>2. CASE n # 0
          <6>1. n \in 1 .. count /\ order[n] \in Int /\ order[n] >= first
            BY <1>1, <5>2 DEF first
          <6>. QED BY <1>1, <1>2, <5>2, <6>1
        <5>. QED BY <5>1, <5>2
      <4>2. \A i \in 1 .. n : order[i] < acc.cursor
        <5>1. ASSUME NEW i \in 1 .. n PROVE order[i] < acc.cursor
          <6>1. n # 0 /\ n \in 1 .. count /\ i \in 1 .. count /\ order[n] \in Int /\ order[i] \in Int
            BY <1>1
          <6>2. i = n \/ order[i] < order[n]
            BY <6>1
          <6>. QED BY <1>2, <6>1, <6>2
        <5>. QED BY <5>1
      <4>3. \A i \in 1 .. n : order[i] # x
        BY <1>2, <1>4, <3>2, <4>2
      <4>4. ~Lies(x, acc.gaps)
        BY <1>2, <3>2
      <4>5. first <= x /\ (x <= upto <=> x < new.cursor /\ ip # x)
        BY <1>1, <1>2, <1>5, <3>2, <4>1
      <4>6. Lies(x, new.gaps) <=> x <= upto
        BY <2>1, <3>2, <4>4
      <4>. QED BY <1>7, <4>3, <4>5, <4>6
    <3>. QED BY <1>2, <3>1, <3>2
  <2>. QED BY <1>5, <1>6, <2>1, <2>2, <2>3 DEF Stage, ip, new, first
<1>9. CASE ~(ip > acc.cursor)
  <2>1. ip = acc.cursor /\ new.gaps = acc.gaps
    BY <1>1, <1>2, <1>3, <1>5, <1>9
  <2>2. Len(new.gaps) > 0 => new.gaps[Len(new.gaps)][2] + 1 < new.cursor
    <3>1. ASSUME Len(acc.gaps) > 0 PROVE acc.gaps[Len(acc.gaps)][2] + 1 < new.cursor
      <4>1. Len(acc.gaps) \in 1 .. Len(acc.gaps)
        BY <1>2, <3>1
      <4>2. acc.gaps[Len(acc.gaps)] \in Int \X Int
        BY <1>2, <4>1
      <4>3. acc.gaps[Len(acc.gaps)][2] \in Int /\ acc.gaps[Len(acc.gaps)][2] + 1 < acc.cursor
        BY <1>2, <3>1, <4>2
      <4>4. new.cursor = acc.cursor + 1
        BY <1>5, <2>1
      <4>5. ASSUME NEW y \in Int, y = acc.gaps[Len(acc.gaps)][2] PROVE y + 1 < new.cursor
        <5>1. y + 1 < acc.cursor /\ acc.cursor \in Int
          BY <1>2, <4>3, <4>5
        <5>. QED BY <4>4, <5>1
      <4>. QED BY <4>3, <4>5
    <3>. QED BY <2>1, <3>1
  <2>3. ASSUME NEW x \in Int
        PROVE  Lies(x, new.gaps) <=> first <= x /\ x < new.cursor /\ \A i \in 1 .. n + 1 : order[i] # x
    <3>1. x < new.cursor <=> x < acc.cursor \/ x = ip
      BY <1>1, <1>5, <2>1
    <3>2. x < acc.cursor => x # ip
      BY <1>1, <2>1
    <3>. QED BY <1>2, <1>7, <2>1, <3>1, <3>2
  <2>. QED BY <1>2, <1>5, <1>6, <2>1, <2>2, <2>3 DEF Stage, ip, new, first
<1>. QED BY <1>8, <1>9 DEF ip, new

\* So it is what the loop ends with.
LEMMA LastStage ==
  ASSUME FirstUsable(cidr) \in Int, NEW count \in Nat, NEW order \in [1 .. count -> Int],
         \A i, j \in 1 .. count : i < j => order[i] < order[j],
         \A i \in 1 .. count : order[i] >= FirstUsable(cidr)
  PROVE  Stage(Passed(order, count), order, count)
<1>1. PICK after : StepByStep(after, order, count)
  BY LoopOfPassings
<1>2. /\ after[0] = [cursor |-> FirstUsable(cidr), gaps |-> <<>>]
      /\ \A n \in 1 .. count : after[n] = Passing(after[n - 1], order[n])
      /\ Passed(order, count) = after[count]
  BY <1>1 DEF StepByStep
<1>. DEFINE T == {n \in Nat : n <= count => Stage(after[n], order, n)}
<1>3. 0 \in T
  <2>1. after[0] \in Passage /\ after[0].cursor = FirstUsable(cidr) /\ after[0].gaps = <<>>
    BY <1>2 DEF Passage
  <2>2. Len(<<>>) = 0 /\ 1 .. 0 = {}
    OBVIOUS
  <2>3. Apart(after[0].gaps) /\ \A x \in Int : ~Lies(x, after[0].gaps)
    BY <2>1, <2>2 DEF Apart, Lies
  <2>4. \A x \in Int : ~(FirstUsable(cidr) <= x /\ x < FirstUsable(cidr))
    OBVIOUS
  <2>5. Stage(after[0], order, 0)
    BY <2>1, <2>2, <2>3, <2>4 DEF Stage
  <2>. QED BY <2>5
<1>4. ASSUME NEW n \in Nat, n \in T PROVE n + 1 \in T
  <2>1. ASSUME n + 1 <= count PROVE Stage(after[n + 1], order, n + 1)
    <3>1. Stage(after[n], order, n)
      BY <1>4, <2>1
    <3>2. after[n + 1] = Passing(after[n], order[n + 1])
      <4>1. n + 1 \in 1 .. count /\ n + 1 - 1 = n
        BY <2>1
      <4>. QED BY <1>2, <4>1
    <3>. QED BY <2>1, <3>1, <3>2, StagesFollow
  <2>. QED BY <2>1
<1>. HIDE DEF T
<1>5. count \in T
  BY <1>3, <1>4, SetInduction
<1>. QED BY <1>2, <1>5 DEF T

\* The ranges that are left, once the last of the usable addresses is passed.
LEMMA GapsAreExact ==
  ASSUME PlanTypeOK
  PROVE  PlanIsExact
<1>. DEFINE U == Unavailable
            count == Cardinality(U)
            order == Ascending(U)
            end == Passed(order, count)
            first == FirstUsable(cidr)
            last == LastUsable(cidr)
<1>1. first \in Int /\ last \in Int
  <2>1. cidr.base \in Int /\ Broadcast(cidr) \in Int
    BY NetworkTypes DEF PlanTypeOK
  <2>. QED BY <2>1 DEF FirstUsable, LastUsable
<1>2. Usable(cidr) = first .. last /\ IsFiniteSet(Usable(cidr)) /\ Usable(cidr) \subseteq Int
  BY <1>1, FS_Interval DEF Usable
<1>3. U \subseteq Usable(cidr)
  BY DEF Unavailable
<1>4. U \subseteq Int /\ IsFiniteSet(U) /\ count \in Nat
  BY <1>2, <1>3, FS_Subset, FS_CardinalityType
<1>5. Ordered(order, U)
  BY <1>4, AscendingIs
<1>. HIDE DEF U
<1>. HIDE DEF order
<1>6. /\ order \in [1 .. count -> Int]
      /\ \A i, j \in 1 .. count : i < j => order[i] < order[j]
      /\ \A i \in 1 .. count : first <= order[i] /\ order[i] <= last
      /\ \A x \in Int : x \in U <=> \E i \in 1 .. count : order[i] = x
  <2>1. /\ order \in [1 .. count -> U]
        /\ \A i, j \in 1 .. count : i < j => order[i] < order[j]
        /\ \A x \in U : \E i \in 1 .. count : order[i] = x
    BY <1>5 DEF Ordered
  <2>2. order \in [1 .. count -> Int]
    BY <1>4, <2>1
  <2>3. \A i \in 1 .. count : order[i] \in first .. last
    BY <1>2, <1>3, <2>1
  <2>4. \A i \in 1 .. count : order[i] \in U /\ order[i] \in Int
    BY <2>1, <2>2
  <2>. QED BY <2>1, <2>2, <2>3, <2>4
<1>. HIDE DEF count
<1>. HIDE DEF first
<1>. HIDE DEF last
<1>7. Stage(end, order, count)
  <2>1. ASSUME NEW n \in Nat, n = count PROVE Stage(Passed(order, n), order, n)
    <3>1. order \in [1 .. n -> Int] /\ \A i, j \in 1 .. n : i < j => order[i] < order[j]
      BY <1>6, <2>1
    <3>2. FirstUsable(cidr) \in Int /\ \A i \in 1 .. n : order[i] >= FirstUsable(cidr)
      BY <1>1, <1>6, <2>1 DEF first
    <3>. QED BY <3>1, <3>2, LastStage
  <2>. QED BY <1>4, <2>1
<1>. HIDE DEF end
<1>8. /\ end.cursor \in Int /\ end.gaps \in Seq(Int \X Int) /\ Apart(end.gaps)
      /\ end.cursor = IF count = 0 THEN first ELSE order[count] + 1
      /\ Len(end.gaps) > 0 => end.gaps[Len(end.gaps)][2] + 1 < end.cursor
      /\ \A x \in Int : Lies(x, end.gaps) <=> first <= x /\ x < end.cursor /\ x \notin U
  BY <1>6, <1>7 DEF Stage, Passage, first
<1>9. \A x \in U : x \in Int /\ x < end.cursor /\ first <= x
  <2>1. ASSUME NEW x \in U PROVE x \in Int /\ x < end.cursor /\ first <= x
    <3>1. PICK i \in 1 .. count : order[i] = x
      BY <1>4, <1>6
    <3>2. count \in 1 .. count /\ count # 0 /\ order[count] \in Int /\ x \in Int
      BY <1>4, <1>6, <3>1
    <3>3. i = count \/ x < order[count]
      BY <1>4, <1>6, <3>1, <3>2
    <3>. QED BY <1>6, <1>8, <3>1, <3>2, <3>3
  <2>. QED BY <2>1
<1>. DEFINE gaps == UsableGaps
<1>10. /\ gaps \in Seq(Int \X Int) /\ Apart(gaps)
       /\ \A x \in Int : Lies(x, gaps) <=> first <= x /\ x <= last /\ x \notin U
  <2>1. gaps = IF end.cursor <= last THEN Append(end.gaps, <<end.cursor, last>>) ELSE end.gaps
    BY DEF UsableGaps, end, order, count, U, last
  <2>. HIDE DEF gaps
  <2>2. CASE end.cursor <= last
    <3>1. LET more == Append(end.gaps, <<end.cursor, last>>)
          IN /\ more \in Seq(Int \X Int) /\ Apart(more)
             /\ \A x \in Int : Lies(x, more) <=> Lies(x, end.gaps) \/ (end.cursor <= x /\ x <= last)
      BY <1>1, <1>8, <2>2, RangeAdded
    <3>2. /\ gaps \in Seq(Int \X Int) /\ Apart(gaps)
          /\ \A x \in Int : Lies(x, gaps) <=> Lies(x, end.gaps) \/ (end.cursor <= x /\ x <= last)
      BY <2>1, <2>2, <3>1
    <3>3. first <= end.cursor
      <4>1. count # 0 => count \in 1 .. count /\ order[count] \in Int /\ first <= order[count]
        BY <1>4, <1>6
      <4>. QED BY <1>1, <1>8, <4>1
    <3>4. \A x \in Int : Lies(x, gaps) <=> first <= x /\ x <= last /\ x \notin U
      BY <1>1, <1>8, <1>9, <2>2, <3>2, <3>3
    <3>. QED BY <3>2, <3>4
  <2>3. CASE ~(end.cursor <= last)
    <3>1. \A x \in Int : first <= x /\ x \notin U => (x < end.cursor <=> x <= last)
      <4>1. count # 0 => order[count] \in Int /\ order[count] <= last /\ order[count] \in U
        <5>1. count # 0 => count \in 1 .. count
          BY <1>4
        <5>. QED BY <1>6, <5>1
      <4>2. count = 0 \/ end.cursor = last + 1
        BY <1>1, <1>8, <2>3, <4>1
      <4>3. CASE count = 0
        BY <1>1, <1>8, <2>3, <4>3
      <4>4. CASE end.cursor = last + 1
        BY <1>1, <4>4
      <4>. QED BY <4>2, <4>3, <4>4
    <3>. QED BY <1>8, <2>1, <2>3, <3>1
  <2>. QED BY <2>2, <2>3
<1>. HIDE DEF gaps
<1>11. DOMAIN gaps = 1 .. Len(gaps) /\ \A i \in 1 .. Len(gaps) : gaps[i][1] \in Int /\ gaps[i][2] \in Int
  BY <1>10
<1>12. UNION {gaps[i][1] .. gaps[i][2] : i \in DOMAIN gaps} = Usable(cidr) \ U
  <2>1. ASSUME NEW x PROVE x \in UNION {gaps[i][1] .. gaps[i][2] : i \in DOMAIN gaps}
                           <=> x \in Int /\ Lies(x, gaps)
    BY <1>11 DEF Lies
  <2>2. ASSUME NEW x PROVE x \in Usable(cidr) \ U <=> x \in Int /\ Lies(x, gaps)
    BY <1>1, <1>2, <1>10
  <2>. QED BY <2>1, <2>2
<1>13. \A i \in DOMAIN gaps : gaps[i][1] .. gaps[i][2] # {} /\ (i > 1 => gaps[i - 1][2] + 1 < gaps[i][1])
  <2>1. ASSUME NEW i \in DOMAIN gaps
        PROVE  gaps[i][1] .. gaps[i][2] # {} /\ (i > 1 => gaps[i - 1][2] + 1 < gaps[i][1])
    <3>1. i \in 1 .. Len(gaps) /\ gaps[i][1] \in Int /\ gaps[i][2] \in Int
      BY <1>11
    <3>2. gaps[i][1] <= gaps[i][2] /\ (i > 1 => gaps[i - 1][2] + 1 < gaps[i][1])
      BY <1>10, <3>1 DEF Apart
    <3>3. gaps[i][1] \in gaps[i][1] .. gaps[i][2]
      BY <3>1, <3>2
    <3>. QED BY <3>2, <3>3
  <2>. QED BY <2>1
<1>14. FreeCount = Cardinality(Usable(cidr) \ U)
  <2>1. Usable(cidr) \cap U = U
    BY <1>3 DEF U
  <2>2. Cardinality(Usable(cidr) \ U) = Cardinality(Usable(cidr)) - Cardinality(Usable(cidr) \cap U)
    BY <1>2, FS_Difference
  <2>. QED BY <2>1, <2>2 DEF FreeCount, U
<1>. QED BY <1>12, <1>13, <1>14 DEF PlanIsExact, gaps, U

\* The plan of a subnet offers every address that can still be given out, and
\* no other, in ranges that are in order and apart, and counts as many.
THEOREM PlansAreExact == PlanSpec => []PlanIsExact
<1>1. PlanTypeOK => PlanIsExact
  BY GapsAreExact
<1>. QED BY <1>1, PlanTypes, PTL
-----------------------------------------------------------------------------
(***************************************************************************)
(* Drops in racks (RackDrops).                                             *)
(***************************************************************************)
LEMMA SlotsFit ==
  ASSUME NEW s
  PROVE  s \in Slots <=> s \in Slot /\ s.size \in Heights /\ Fits(s)
<1>1. ASSUME s \in Slots PROVE s \in Slot /\ s.size \in Heights /\ Fits(s)
  <2>1. PICK r \in Racks : s \in [rack : {r}, start : 1 .. Units[r], size : Heights] /\ Fits(s)
    BY <1>1 DEF Slots
  <2>2. Units[r] \in Nat
    BY UnitsAssumption
  <2>3. 1 .. Units[r] \subseteq Int /\ Heights \subseteq Int
    BY <2>2, DropAssumption
  <2>4. s.size \in Heights /\ s.rack = r /\ s.start \in 1 .. Units[r]
        /\ s = [rack |-> s.rack, start |-> s.start, size |-> s.size]
    BY <2>1
  <2>5. QED BY <2>1, <2>3, <2>4 DEF Slot
<1>2. ASSUME s \in Slot, s.size \in Heights, Fits(s) PROVE s \in Slots
  <2>1. s.rack \in Racks /\ Units[s.rack] \in Nat /\ s.start \in Int /\ s.size \in Nat \ {0}
    BY <1>2, UnitsAssumption, DropAssumption DEF Slot
  <2>2. s.start \in 1 .. Units[s.rack]
    BY <1>2, <2>1 DEF Fits, Top
  <2>3. s = [rack |-> s.rack, start |-> s.start, size |-> s.size]
    BY <1>2 DEF Slot
  <2>4. s \in [rack : {s.rack}, start : 1 .. Units[s.rack], size : Heights]
    BY <1>2, <2>2, <2>3
  <2>5. QED BY <1>2, <2>1, <2>4 DEF Slots
<1>3. QED BY <1>1, <1>2

LEMMA OverlapIsMutual == ASSUME NEW s, NEW t, Overlap(s, t) PROVE Overlap(t, s)
  BY DEF Overlap

\* What a drop does, on any layout.
LEMMA DropIsSound ==
  ASSUME TypeOK, NEW moving \in Devices, NEW t \in Targets, Drop(moving, t.rack, t.start)
  PROVE  /\ TypeOK'
         /\ \A d, e \in Devices : d # e /\ Overlap(layout'[d], layout'[e]) =>
              layout'[d] = layout[d] /\ layout'[e] = layout[e]
<1> DEFINE plan == Plan(layout, moving, t.rack, t.start)
<1>1. plan # NoPlan /\ layout' = Over(plan, layout)
  BY DEF Drop
<1>2. t.rack \in Racks /\ t.start \in Int
  BY UnitsAssumption DEF Targets
<1>3. layout \in [Devices -> Slot] /\ \A d \in Devices : layout[d].size \in Heights
  BY SlotsFit DEF TypeOK
<1>4. /\ DOMAIN plan \subseteq Devices
      /\ \A d \in DOMAIN plan : plan[d] \in Slot /\ plan[d].size = layout[d].size /\ Fits(plan[d])
      /\ \A d \in DOMAIN plan : \A e \in Devices \ {d} : ~Overlap(plan[d], Over(plan, layout)[e])
  BY <1>1, <1>2, <1>3, PlanIsSound
<1> HIDE DEF plan
<1>5. layout' = [d \in Devices |-> IF d \in DOMAIN plan THEN plan[d] ELSE layout[d]]
  BY <1>1, <1>3 DEF Over
<1>6. \A d \in DOMAIN plan : plan[d] \in Slots
  BY <1>3, <1>4, SlotsFit
<1>7. TypeOK'
  BY <1>5, <1>6 DEF TypeOK
<1>8. \A d \in DOMAIN plan : \A e \in Devices \ {d} :
        ~Overlap(layout'[d], layout'[e]) /\ ~Overlap(layout'[e], layout'[d])
  BY <1>1, <1>4, <1>5, OverlapIsMutual
<1>9. QED BY <1>5, <1>7, <1>8

LEMMA DropInit == Init => TypeOK
  BY DEF Init, TypeOK

LEMMA DropKept == TypeOK /\ [Next]_layout => TypeOK'
  BY DropIsSound DEF Next, TypeOK

LEMMA DropTypes == Spec => []TypeOK
  BY DropInit, DropKept, PTL DEF Spec

\* placeDevice brings no two devices together, in whatever disorder it finds them.
THEOREM DropsKeepApart == Spec => DropsSeparate
<1>1. TypeOK /\ [Next]_layout =>
        [\A d, e \in Devices : d # e /\ Overlap(layout'[d], layout'[e]) =>
           layout'[d] = layout[d] /\ layout'[e] = layout[e]]_layout
  BY DropIsSound DEF Next
<1>2. QED BY <1>1, DropTypes, PTL DEF Spec, DropsSeparate

\* A drop carried out twice is carried out once: dropped where it stands, clear
\* of the others, a device stays and moves none.
LEMMA DropSettled == TypeOK => DroppingAgain
<1>1. ASSUME TypeOK, NEW d \in Devices, \A e \in Devices \ {d} : ~Overlap(layout[d], layout[e])
      PROVE  Over(Plan(layout, d, layout[d].rack, layout[d].start), layout) = layout
  <2> DEFINE s == layout[d]
             target == Snapped(s, s.rack, s.start)
             collided == Collided(layout, d, target)
             plan == Plan(layout, d, s.rack, s.start)
  <2>1. /\ s \in Slot /\ Fits(s) /\ DOMAIN layout = Devices /\ Units[s.rack] \in Nat
        /\ s.start \in Int /\ s.size \in Nat \ {0}
    BY <1>1, SlotsFit, UnitsAssumption, DropAssumption DEF TypeOK, Slot
  <2>2. target = s
    <3>1. s = [rack |-> s.rack, start |-> s.start, size |-> s.size]
      BY <2>1 DEF Slot
    <3>2. s.start <= Units[s.rack] - s.size + 1 /\ s.start >= 1
      BY <2>1 DEF Fits, Top
    <3>3. target = [s EXCEPT !.rack = s.rack, !.start = s.start]
      <4> DEFINE highest == Units[s.rack] - s.size + 1
                 first == IF s.start > highest THEN highest ELSE IF s.start < 1 THEN 1 ELSE s.start
      <4>1. highest \in Int /\ first = s.start
        BY <2>1, <3>2
      <4>2. target = [s EXCEPT !.rack = s.rack, !.start = first]
        BY DEF Snapped
      <4> HIDE DEF first
      <4>3. QED BY <4>1, <4>2
    <3>4. QED BY <2>1, <3>1, <3>3 DEF Slot
  <2>3. collided = {}
    BY <1>1, <2>1, <2>2, OverlapIsMutual DEF Collided
  <2>4. CanDisplace(layout, d, target, collided)
    BY <2>3 DEF CanDisplace
  <2>5. ~(Units[s.rack] < s.size)
    BY <2>1 DEF Fits, Top
  <2>6. plan = [e \in collided \cup {d} |-> IF e = d THEN target ELSE Lowered(layout, collided)[e]]
    BY <2>4, <2>5 DEF Plan
  <2> HIDE DEF plan, target, collided
  <2>7. DOMAIN plan = {d} /\ plan[d] = layout[d]
    BY <2>2, <2>3, <2>6
  <2>8. Over(plan, layout) = [e \in Devices |-> layout[e]]
    BY <2>1, <2>7 DEF Over
  <2>9. layout = [e \in Devices |-> layout[e]]
    BY <1>1 DEF TypeOK
  <2>10. QED BY <2>8, <2>9 DEF plan
<1>2. QED BY <1>1 DEF DroppingAgain

\* placeDevice may be sent again: what was dropped stays where it is.
THEOREM DropsSettle == Spec => []DroppingAgain
  BY DropSettled, DropTypes, PTL

\* What the loop holds after a turn.
Acc(occ, dis) == [clear : BOOLEAN, occupied : SUBSET occ, displaced : SUBSET dis]

LEMMA TurnOfAcc ==
  ASSUME NEW occ, NEW dis, NEW acc \in Acc(occ, dis), NEW d,
         [layout[d] EXCEPT !.start = @ - layout[d].size] \in occ,
         <<d, [layout[d] EXCEPT !.start = @ - layout[d].size]>> \in dis
  PROVE  Turn(acc, d) \in Acc(occ, dis)
  BY DEF Turn, Acc

\* The loop, as its turns one after the other.
TurnByTurn(after, occupied, order, count) ==
  /\ after[0] = [clear |-> TRUE, occupied |-> occupied, displaced |-> {}]
  /\ \A n \in 1 .. count : after[n] = Turn(after[n - 1], order[n])
  /\ Looped(occupied, order, count) = after[count]
LEMMA LoopOfTurns ==
  ASSUME NEW occupied, NEW D, NEW count \in Nat, NEW order \in [1 .. count -> D]
  PROVE  \E after : TurnByTurn(after, occupied, order, count)
<1>. DEFINE first == [clear |-> TRUE, occupied |-> occupied, displaced |-> {}]
            lowered(d) == [layout[d] EXCEPT !.start = @ - layout[d].size]
            occ == occupied \cup {lowered(d) : d \in D}
            dis == {<<d, lowered(d)>> : d \in D}
            S == Acc(occ, dis)
            turn == [p \in (1 .. count) \X S |-> Turn(p[2], order[p[1]])]
<1>1. first \in S
  BY DEF Acc
<1>2. \A n \in 1 .. count, acc \in S : Turn(acc, order[n]) \in S
  <2>1. ASSUME NEW n \in 1 .. count, NEW acc \in S PROVE Turn(acc, order[n]) \in S
    <3>1. order[n] \in D
      OBVIOUS
    <3>2. lowered(order[n]) \in occ /\ <<order[n], lowered(order[n])>> \in dis
      BY <3>1
    <3>. HIDE DEF occ, dis
    <3>. QED BY <3>2, TurnOfAcc
  <2>. QED BY <2>1
<1>. HIDE DEF S, first
<1>3. turn \in [(1 .. count) \X S -> S]
  BY <1>2
<1>4. PICK f \in [0 .. count -> S] : f[0] = first /\ \A n \in 1 .. count : f[n] = turn[<<n, f[n - 1]>>]
  <2>. HIDE DEF turn
  <2>1. PICK f : IsRun(f, count, S, first, turn)
    BY <1>1, <1>3, LoopRuns
  <2>. QED BY <2>1 DEF IsRun
<1>5. \A n \in 1 .. count : f[n] = Turn(f[n - 1], order[n])
  <2>1. \A n \in 1 .. count : n - 1 \in 0 .. count /\ f[n - 1] \in S
    OBVIOUS
  <2>2. \A n \in 1 .. count : <<n, f[n - 1]>> \in (1 .. count) \X S
    BY <2>1
  <2>. QED BY <1>4, <2>2
<1>6. f = [n \in 0 .. count |-> IF n = 0 THEN first ELSE Turn(f[n - 1], order[n])]
  <2>1. \A n \in 0 .. count : f[n] = IF n = 0 THEN first ELSE Turn(f[n - 1], order[n])
    BY <1>4, <1>5
  <2>. QED BY <2>1
<1>. DEFINE after == CHOOSE g : g = [n \in 0 .. count |-> IF n = 0 THEN first ELSE Turn(g[n - 1], order[n])]
<1>7. after = [n \in 0 .. count |-> IF n = 0 THEN first ELSE Turn(after[n - 1], order[n])]
  BY <1>6
<1>8. Looped(occupied, order, count) = after[count]
  BY DEF Looped, first
<1>. HIDE DEF after
<1>9. after[0] = first
  BY <1>7
<1>10. \A n \in 1 .. count : after[n] = Turn(after[n - 1], order[n])
  BY <1>7
<1>. QED BY <1>8, <1>9, <1>10 DEF first, TurnByTurn

LoweredOf(d) == [layout[d] EXCEPT !.start = @ - layout[d].size]

\* A turn, field by field.
Steps(acc, d) ==
  acc.clear /\ Fits(LoweredOf(d)) /\ \A s \in acc.occupied : ~Overlap(LoweredOf(d), s)
LEMMA TurnIs ==
  ASSUME NEW occ, NEW dis, NEW acc \in Acc(occ, dis), NEW d
  PROVE  /\ Steps(acc, d) => /\ Turn(acc, d).clear
                             /\ Turn(acc, d).occupied = acc.occupied \cup {LoweredOf(d)}
                             /\ Turn(acc, d).displaced = acc.displaced \cup {<<d, LoweredOf(d)>>}
         /\ ~Steps(acc, d) => ~Turn(acc, d).clear
<1>. DEFINE low == LoweredOf(d)
<1>1. Turn(acc, d) = IF Steps(acc, d)
        THEN [acc EXCEPT !.occupied = @ \cup {low}, !.displaced = @ \cup {<<d, low>>}]
        ELSE [acc EXCEPT !.clear = FALSE]
  BY DEF Turn, Steps, LoweredOf
<1>. HIDE DEF low
<1>2. CASE Steps(acc, d)
  <2>1. acc.clear
    BY <1>2 DEF Steps
  <2>. QED BY <1>1, <1>2, <2>1 DEF Acc, low
<1>3. CASE ~Steps(acc, d)
  BY <1>1, <1>3 DEF Acc
<1>. QED BY <1>2, <1>3

\* The loop goes through to its end when every device steps down clear of what
\* was there and of those before it, and it has then moved them all.
AllLowered(order, count) == {<<order[i], LoweredOf(order[i])>> : i \in 1 .. count}
ClearOfAll(occupied, order, count) ==
  \A i \in 1 .. count :
    /\ Fits(LoweredOf(order[i]))
    /\ \A s \in occupied : ~Overlap(LoweredOf(order[i]), s)
    /\ \A j \in 1 .. i - 1 : ~Overlap(LoweredOf(order[i]), LoweredOf(order[j]))
LEMMA LoopGoesThrough ==
  ASSUME NEW occupied, NEW D, NEW count \in Nat, NEW order \in [1 .. count -> D]
  PROVE  LET end == Looped(occupied, order, count)
         IN /\ end.clear <=> ClearOfAll(occupied, order, count)
            /\ end.clear => end.displaced = AllLowered(order, count)
<1>. DEFINE Clear(i) == /\ Fits(LoweredOf(order[i]))
                        /\ \A s \in occupied : ~Overlap(LoweredOf(order[i]), s)
                        /\ \A j \in 1 .. i - 1 : ~Overlap(LoweredOf(order[i]), LoweredOf(order[j]))
            occ == occupied \cup {LoweredOf(d) : d \in D}
            dis == {<<d, LoweredOf(d)>> : d \in D}
<1>0. PICK after : TurnByTurn(after, occupied, order, count)
  BY LoopOfTurns
<1>1. /\ after[0] = [clear |-> TRUE, occupied |-> occupied, displaced |-> {}]
      /\ \A n \in 1 .. count : after[n] = Turn(after[n - 1], order[n])
      /\ Looped(occupied, order, count) = after[count]
  BY <1>0 DEF TurnByTurn
<1>. DEFINE T == {n \in Nat : n <= count =>
                    /\ after[n] \in Acc(occ, dis)
                    /\ after[n].clear <=> \A i \in 1 .. n : Clear(i)
                    /\ after[n].clear =>
                         /\ after[n].occupied = occupied \cup {LoweredOf(order[i]) : i \in 1 .. n}
                         /\ after[n].displaced = {<<order[i], LoweredOf(order[i])>> : i \in 1 .. n}}
<1>2. 0 \in T
  <2>1. after[0] \in Acc(occ, dis)
    BY <1>1 DEF Acc
  <2>2. after[0].clear /\ after[0].occupied = occupied /\ after[0].displaced = {}
    BY <1>1
  <2>3. 1 .. 0 = {}
    OBVIOUS
  <2>. HIDE DEF Clear, occ, dis
  <2>. QED BY <2>1, <2>2, <2>3
<1>3. ASSUME NEW n \in Nat, n \in T PROVE n + 1 \in T
  <2>. SUFFICES ASSUME n + 1 <= count PROVE n + 1 \in T
    OBVIOUS
  <2>. DEFINE acc == after[n]
              d == order[n + 1]
              new == after[n + 1]
  <2>1. n + 1 \in 1 .. count /\ d \in D /\ n <= count /\ 1 .. n + 1 = (1 .. n) \cup {n + 1}
    OBVIOUS
  <2>2. new = Turn(acc, d)
    BY <1>1, <2>1
  <2>3. /\ acc \in Acc(occ, dis)
        /\ acc.clear <=> \A i \in 1 .. n : Clear(i)
        /\ acc.clear =>
             /\ acc.occupied = occupied \cup {LoweredOf(order[i]) : i \in 1 .. n}
             /\ acc.displaced = {<<order[i], LoweredOf(order[i])>> : i \in 1 .. n}
    BY <1>3, <2>1
  <2>4. new \in Acc(occ, dis)
    <3>1. LoweredOf(d) \in occ /\ <<d, LoweredOf(d)>> \in dis
      BY <2>1
    <3>. HIDE DEF occ, dis, acc, d, new
    <3>. QED BY <2>2, <2>3, <3>1, TurnOfAcc DEF LoweredOf
  <2>5. CASE Steps(acc, d)
    <3>1. /\ new.clear
          /\ new.occupied = acc.occupied \cup {LoweredOf(d)}
          /\ new.displaced = acc.displaced \cup {<<d, LoweredOf(d)>>}
      <4>. HIDE DEF occ, dis, acc, d, new
      <4>. QED BY <2>2, <2>3, <2>5, TurnIs
    <3>2. /\ acc.occupied = occupied \cup {LoweredOf(order[i]) : i \in 1 .. n}
          /\ acc.displaced = {<<order[i], LoweredOf(order[i])>> : i \in 1 .. n}
          /\ \A i \in 1 .. n : Clear(i)
      BY <2>3, <2>5 DEF Steps
    <3>3. Clear(n + 1)
      <4>1. Fits(LoweredOf(d)) /\ \A s \in acc.occupied : ~Overlap(LoweredOf(d), s)
        BY <2>5 DEF Steps
      <4>2. n + 1 - 1 = n
        OBVIOUS
      <4>. QED BY <3>2, <4>1, <4>2
    <3>4. \A i \in 1 .. n + 1 : Clear(i)
      <4>. HIDE DEF Clear
      <4>. QED BY <3>2, <3>3, <2>1
    <3>5. /\ new.occupied = occupied \cup {LoweredOf(order[i]) : i \in 1 .. n + 1}
          /\ new.displaced = {<<order[i], LoweredOf(order[i])>> : i \in 1 .. n + 1}
      <4>. HIDE DEF new, acc
      <4>. QED BY <3>1, <3>2, <2>1
    <3>. HIDE DEF Clear, occ, dis
    <3>. QED BY <2>4, <3>1, <3>4, <3>5
  <2>6. CASE ~Steps(acc, d)
    <3>1. ~new.clear
      <4>. HIDE DEF occ, dis, acc, d, new
      <4>. QED BY <2>2, <2>3, <2>6, TurnIs
    <3>2. ~ \A i \in 1 .. n + 1 : Clear(i)
      <4>. SUFFICES ASSUME \A i \in 1 .. n + 1 : Clear(i) PROVE FALSE
        OBVIOUS
      <4>1. \A i \in 1 .. n : Clear(i)
        <5>. HIDE DEF Clear
        <5>. QED BY <2>1
      <4>2. acc.clear /\ acc.occupied = occupied \cup {LoweredOf(order[i]) : i \in 1 .. n}
        BY <2>3, <4>1
      <4>3. Clear(n + 1) /\ n + 1 - 1 = n
        <5>. HIDE DEF Clear
        <5>. QED BY <2>1
      <4>4. Fits(LoweredOf(d)) /\ \A s \in acc.occupied : ~Overlap(LoweredOf(d), s)
        BY <4>2, <4>3
      <4>. QED BY <2>6, <4>2, <4>4 DEF Steps
    <3>. HIDE DEF Clear, occ, dis
    <3>. QED BY <2>4, <3>1, <3>2
  <2>. QED BY <2>5, <2>6
<1>4. count \in T
  <2>. HIDE DEF T
  <2>. QED BY <1>2, <1>3, SetInduction
<1>. HIDE DEF occ, dis
<1>. QED BY <1>1, <1>4 DEF ClearOfAll, AllLowered

\* Each order takes every device once.
LEMMA OrdersTakeAll ==
  ASSUME NEW S, IsFiniteSet(S), NEW order \in Orders(S)
  PROVE  /\ Cardinality(S) \in Nat /\ order \in [1 .. Cardinality(S) -> S]
         /\ \A i, j \in 1 .. Cardinality(S) : order[i] = order[j] => i = j
         /\ \A d \in S : \E i \in 1 .. Cardinality(S) : order[i] = d
<1>. DEFINE N == Cardinality(S)
<1>1. N \in Nat
  BY FS_CardinalityType
<1>2. order \in [1 .. N -> S] /\ \A i, j \in 1 .. N : order[i] = order[j] => i = j
  BY DEF Orders
<1>3. order \in Injection(1 .. N, S)
  BY <1>2 DEF Injection, IsInjective
<1>4. Cardinality(1 .. N) = N
  BY <1>1, FS_Interval
<1>5. order \in Surjection(1 .. N, S)
  BY <1>3, <1>4, FS_Injection
<1>6. \A d \in S : \E i \in 1 .. N : order[i] = d
  BY <1>5 DEF Surjection
<1>. QED BY <1>1, <1>2, <1>6

\* There is such an order.
LEMMA SomeOrder ==
  ASSUME NEW S, IsFiniteSet(S)
  PROVE  Orders(S) # {}
<1>1. PICK f : f \in Bijection(1 .. Cardinality(S), S)
  BY FS_CardinalityType DEF ExistsBijection
<1>2. f \in [1 .. Cardinality(S) -> S] /\ \A i, j \in 1 .. Cardinality(S) : f[i] = f[j] => i = j
  BY <1>1 DEF Bijection, Injection, IsInjective
<1>. QED BY <1>2 DEF Orders

\* The loop goes through when Plan would displace, and displaces the same.
LEMMA LoopDisplaces ==
  ASSUME TypeOK, NEW moving \in Devices, NEW target, NEW collided,
         collided \subseteq Devices \ {moving}, NEW order \in Orders(collided)
  PROVE  LET others == {layout[d] : d \in Devices \ (collided \cup {moving})}
             end == Looped(others \cup {target}, order, Cardinality(collided))
         IN /\ end.clear <=> CanDisplace(layout, moving, target, collided)
            /\ end.clear => end.displaced = {<<d, LoweredOf(d)>> : d \in collided}
<1>. DEFINE N == Cardinality(collided)
            others == {layout[d] : d \in Devices \ (collided \cup {moving})}
            end == Looped(others \cup {target}, order, N)
            low(i) == LoweredOf(order[i])
<1>1. IsFiniteSet(collided)
  BY DropAssumption, FS_Subset
<1>2. /\ N \in Nat /\ order \in [1 .. N -> collided]
      /\ \A i, j \in 1 .. N : order[i] = order[j] => i = j
      /\ \A d \in collided : \E i \in 1 .. N : order[i] = d
  BY <1>1, OrdersTakeAll
<1>3. /\ end.clear <=> \A i \in 1 .. N :
                 /\ Fits(low(i))
                 /\ \A s \in others \cup {target} : ~Overlap(low(i), s)
                 /\ \A j \in 1 .. i - 1 : ~Overlap(low(i), low(j))
      /\ end.clear => end.displaced = {<<order[i], low(i)>> : i \in 1 .. N}
  <2>1. /\ end.clear <=> ClearOfAll(others \cup {target}, order, N)
        /\ end.clear => end.displaced = AllLowered(order, N)
    <3>1. ASSUME NEW count \in Nat, count = N
          PROVE  /\ end.clear <=> ClearOfAll(others \cup {target}, order, count)
                 /\ end.clear => end.displaced = AllLowered(order, count)
      <4>1. order \in [1 .. count -> collided] /\ end = Looped(others \cup {target}, order, count)
        BY <1>2, <3>1
      <4>. HIDE DEF others, N, end
      <4>. QED BY <4>1, LoopGoesThrough
    <3>. HIDE DEF others, N, end
    <3>. QED BY <1>2, <3>1
  <2>. HIDE DEF others, N, end
  <2>. QED BY <2>1 DEF ClearOfAll, AllLowered
<1>4. \A d \in collided : Lowered(layout, collided)[d] = LoweredOf(d)
  BY DEF Lowered, LoweredOf
<1>5. DOMAIN layout = Devices
  BY DEF TypeOK
<1>. HIDE DEF end, N
<1>6. ASSUME \A i \in 1 .. N :
                 /\ Fits(low(i))
                 /\ \A s \in others \cup {target} : ~Overlap(low(i), s)
                 /\ \A j \in 1 .. i - 1 : ~Overlap(low(i), low(j))
      PROVE  CanDisplace(layout, moving, target, collided)
  <2>1. ASSUME NEW d \in collided
        PROVE  /\ Fits(LoweredOf(d)) /\ ~Overlap(LoweredOf(d), target)
               /\ \A e \in Devices \ (collided \cup {moving}) : ~Overlap(LoweredOf(d), layout[e])
               /\ \A e \in collided \ {d} : ~Overlap(LoweredOf(d), LoweredOf(e))
    <3>1. PICK i \in 1 .. N : order[i] = d
      BY <1>2
    <3>2. Fits(LoweredOf(d)) /\ \A s \in others \cup {target} : ~Overlap(LoweredOf(d), s)
      BY <1>6, <3>1
    <3>3. ASSUME NEW e \in collided \ {d} PROVE ~Overlap(LoweredOf(d), LoweredOf(e))
      <4>1. PICK j \in 1 .. N : order[j] = e
        BY <1>2
      <4>2. i # j
        BY <3>1, <4>1
      <4>3. CASE j \in 1 .. i - 1
        BY <1>6, <3>1, <4>1, <4>3
      <4>4. CASE i \in 1 .. j - 1
        <5>1. ~Overlap(LoweredOf(e), LoweredOf(d))
          BY <1>6, <3>1, <4>1, <4>4
        <5>. QED BY <5>1, OverlapIsMutual
      <4>5. j \in 1 .. i - 1 \/ i \in 1 .. j - 1
        BY <1>2, <4>2
      <4>. QED BY <4>3, <4>4, <4>5
    <3>. QED BY <3>2, <3>3
  <2>. QED BY <2>1, <1>4, <1>5 DEF CanDisplace
<1>7. ASSUME CanDisplace(layout, moving, target, collided), NEW i \in 1 .. N
      PROVE  /\ Fits(low(i))
             /\ \A s \in others \cup {target} : ~Overlap(low(i), s)
             /\ \A j \in 1 .. i - 1 : ~Overlap(low(i), low(j))
  <2>1. order[i] \in collided
    BY <1>2
  <2>2. /\ Fits(low(i)) /\ ~Overlap(low(i), target)
        /\ \A e \in Devices \ (collided \cup {moving}) : ~Overlap(low(i), layout[e])
        /\ \A e \in collided \ {order[i]} : ~Overlap(low(i), LoweredOf(e))
    BY <1>7, <1>4, <1>5, <2>1 DEF CanDisplace
  <2>3. ASSUME NEW j \in 1 .. i - 1 PROVE ~Overlap(low(i), low(j))
    <3>1. j \in 1 .. N /\ j # i
      BY <1>2
    <3>2. order[j] \in collided \ {order[i]}
      BY <1>2, <3>1
    <3>. QED BY <2>2, <3>2
  <2>. QED BY <2>2, <2>3
<1>8. {<<order[i], low(i)>> : i \in 1 .. N} = {<<d, LoweredOf(d)>> : d \in collided}
  BY <1>2
<1>9. end.clear <=> CanDisplace(layout, moving, target, collided)
  <2>. HIDE DEF others
  <2>. QED BY <1>3, <1>6, <1>7
<1>10. end.clear => end.displaced = {<<d, LoweredOf(d)>> : d \in collided}
  BY <1>3, <1>8
<1>. QED BY <1>9, <1>10 DEF end, N

\* The pairs of a plan.
Pairs(plan) == {<<e, plan[e]>> : e \in DOMAIN plan}

\* Plan and the loop make the same changes, on any layout.
LEMMA PlansLoop == TypeOK => PlanIsTheLoop
<1>1. ASSUME TypeOK, NEW moving \in Devices, NEW t \in Targets,
             NEW order \in Orders(Collided(layout, moving, Snapped(layout[moving], t.rack, t.start)))
      PROVE  Pairs(Plan(layout, moving, t.rack, t.start)) = LoopPlan(moving, t.rack, t.start, order)
  <2>. DEFINE s == layout[moving]
              target == Snapped(s, t.rack, t.start)
              collided == Collided(layout, moving, target)
              others == {layout[d] : d \in Devices \ (collided \cup {moving})}
              end == Looped(others \cup {target}, order, Cardinality(collided))
              vacated(d) == [layout[d] EXCEPT !.rack = s.rack, !.start = s.start]
              swap == {<<d, vacated(d)>> : d \in collided}
              plan == Plan(layout, moving, t.rack, t.start)
              loop == LoopPlan(moving, t.rack, t.start, order)
  <2>1. /\ s.size \in Int /\ Units[t.rack] \in Int /\ DOMAIN layout = Devices
    <3>1. s \in Slot /\ t.rack \in Racks
      BY <1>1, SlotsFit DEF TypeOK, Targets
    <3>. QED BY <1>1, <3>1, UnitsAssumption DEF TypeOK, Slot
  <2>2. collided \subseteq Devices \ {moving} /\ IsFiniteSet(collided)
    <3>1. collided \subseteq Devices \ {moving}
      BY <2>1 DEF Collided
    <3>. QED BY <3>1, DropAssumption, FS_Subset
  <2>3. order \in Orders(collided)
    BY <1>1
  <2>4. /\ end.clear <=> CanDisplace(layout, moving, target, collided)
        /\ end.clear => end.displaced = {<<d, LoweredOf(d)>> : d \in collided}
    <3>. HIDE DEF target, collided
    <3>. QED BY <1>1, <2>2, <2>3, LoopDisplaces
  <2>5. loop = IF Units[t.rack] - s.size + 1 < 1 THEN {}
               ELSE IF collided = {} THEN {<<moving, target>>} \cup {}
               ELSE IF end.clear THEN {<<moving, target>>} \cup end.displaced
               ELSE IF Cardinality(collided) # 1 THEN {}
               ELSE IF \A p \in swap : Fits(p[2]) /\ \A u \in others \cup {target} : ~Overlap(p[2], u)
                 THEN {<<moving, target>>} \cup swap
               ELSE {}
    BY DEF LoopPlan
  <2>6. plan = IF Units[t.rack] < s.size THEN NoPlan
               ELSE IF CanDisplace(layout, moving, target, collided)
                 THEN [d \in collided \cup {moving} |->
                         IF d = moving THEN target ELSE Lowered(layout, collided)[d]]
               ELSE IF CanSwap(layout, moving, target, collided)
                 THEN [d \in collided \cup {moving} |->
                         IF d = moving THEN target ELSE Vacated(layout, moving, d)]
               ELSE NoPlan
    BY DEF Plan
  <2>7. Pairs(NoPlan) = {}
    BY DEF Pairs, NoPlan
  <2>8. \A d \in collided : Lowered(layout, collided)[d] = LoweredOf(d) /\ Vacated(layout, moving, d) = vacated(d)
    BY DEF Lowered, LoweredOf, Vacated
  <2>9. CanSwap(layout, moving, target, collided)
          <=> /\ Cardinality(collided) = 1
              /\ \A p \in swap : Fits(p[2]) /\ \A u \in others \cup {target} : ~Overlap(p[2], u)
    <3>1. Cardinality(collided) = 1 <=> \E d : collided = {d}
      <4>. HIDE DEF collided
      <4>. QED BY <2>2, FS_Singleton
    <3>2. ASSUME NEW o \in collided, collided = {o}
          PROVE  CanSwap(layout, moving, target, collided)
                   <=> \A p \in swap : Fits(p[2]) /\ \A u \in others \cup {target} : ~Overlap(p[2], u)
      <4>1. swap = {<<o, vacated(o)>>}
        BY <3>2
      <4>2. others = {layout[e] : e \in Devices \ {o, moving}}
        BY <3>2
      <4>. HIDE DEF collided, target, others, swap, vacated
      <4>3. CanSwap(layout, moving, target, collided)
              <=> /\ Fits(vacated(o)) /\ ~Overlap(vacated(o), target)
                  /\ \A e \in Devices \ {o, moving} : ~Overlap(vacated(o), layout[e])
        BY <3>2, <2>1, <2>8 DEF CanSwap
      <4>. QED BY <4>1, <4>2, <4>3
    <3>3. CanSwap(layout, moving, target, collided) => \E d \in collided : collided = {d}
      BY DEF CanSwap
    <3>. HIDE DEF collided, target, others, swap
    <3>. QED BY <3>1, <3>2, <3>3
  <2>. SUFFICES Pairs(plan) = loop
    OBVIOUS
  <2>. HIDE DEF target, collided, others, end, swap, vacated, plan, loop
  <2>11. CASE Units[t.rack] < s.size
    BY <2>1, <2>5, <2>6, <2>7, <2>11
  <2>12. CASE ~(Units[t.rack] < s.size) /\ CanDisplace(layout, moving, target, collided)
    <3>1. plan = [d \in collided \cup {moving} |-> IF d = moving THEN target ELSE LoweredOf(d)]
      BY <2>6, <2>8, <2>12
    <3>2. Pairs(plan) = {<<moving, target>>} \cup {<<d, LoweredOf(d)>> : d \in collided}
      BY <2>2, <3>1 DEF Pairs
    <3>3. collided = {} => {<<d, LoweredOf(d)>> : d \in collided} = {}
      OBVIOUS
    <3>4. loop = {<<moving, target>>} \cup {<<d, LoweredOf(d)>> : d \in collided}
      BY <2>1, <2>4, <2>5, <2>12, <3>3
    <3>. QED BY <3>2, <3>4
  <2>13. CASE ~(Units[t.rack] < s.size) /\ ~CanDisplace(layout, moving, target, collided)
    <3>1. ~(Units[t.rack] - s.size + 1 < 1) /\ collided # {} /\ ~end.clear
      BY <2>1, <2>4, <2>13 DEF CanDisplace
    <3>2. CASE CanSwap(layout, moving, target, collided)
      <4>1. plan = [d \in collided \cup {moving} |-> IF d = moving THEN target ELSE vacated(d)]
        BY <2>6, <2>8, <2>13, <3>2
      <4>2. Pairs(plan) = {<<moving, target>>} \cup {<<d, vacated(d)>> : d \in collided}
        BY <2>2, <4>1 DEF Pairs
      <4>3. loop = {<<moving, target>>} \cup swap
        BY <2>5, <2>9, <3>1, <3>2
      <4>. QED BY <4>2, <4>3 DEF swap
    <3>3. CASE ~CanSwap(layout, moving, target, collided)
      <4>1. plan = NoPlan
        BY <2>6, <2>13, <3>3
      <4>2. loop = {}
        BY <2>5, <2>9, <3>1, <3>3
      <4>. QED BY <4>1, <4>2, <2>7
    <3>. QED BY <3>2, <3>3
  <2>. QED BY <2>11, <2>12, <2>13
<1>. QED BY <1>1 DEF PlanIsTheLoop, Pairs

\* planRackPlacement, as conditions and as its loop, makes the same changes: in
\* particular it does not matter in which order devices are displaced.
THEOREM PlansAreLoops == Spec => []PlanIsTheLoop
  BY PlansLoop, DropTypes, PTL
-----------------------------------------------------------------------------
(***************************************************************************)
(* The components together (MCAdministration).                             *)
(***************************************************************************)
AdminInv ==
  /\ part \in Part
  /\ part = "drops" => TypeOK
  /\ part = "roles" => RoleSafe
  /\ part = "vault" => Inv
  /\ part = "scopes" => ScopesInv
  /\ part = "subnets" => SubnetsInv
  /\ part = "plan" => PlanTypeOK
  /\ part = "signin" => SignInInv

LEMMA AdminInvAlways == AdminSpec => []AdminInv
<1>1. AdminInit => AdminInv
  BY DropInit, RoleSafeInit, InvInit, ScopesInvInit, SubnetsInvInit, PlanTypesInit, SignInInvInit
  DEF AdminInit, AdminInv
<1>2. ASSUME AdminInv, AdminNext PROVE AdminInv'
  <2>1. CASE part = "drops" /\ Next /\ OnlyDrops
    <3>1. part' = "drops" /\ TypeOK'
      BY <1>2, <2>1, DropKept DEF AdminInv, OnlyDrops
    <3>2. QED BY <3>1 DEF AdminInv, Part
  <2>2. CASE part = "roles" /\ RoleNext /\ OnlyRoles
    <3>1. part' = "roles" /\ RoleSafe'
      BY <1>2, <2>2, RoleSafeStays DEF AdminInv, OnlyRoles
    <3>2. QED BY <3>1 DEF AdminInv, Part
  <2>3. CASE part = "vault" /\ VaultNext /\ OnlyVault
    <3>1. part' = "vault" /\ Inv'
      BY <1>2, <2>3, InvKept DEF AdminInv, OnlyVault
    <3>2. QED BY <3>1 DEF AdminInv, Part
  <2>4. CASE part = "scopes" /\ ScopesNext /\ OnlyScopes
    <3>1. part' = "scopes" /\ ScopesInv'
      BY <1>2, <2>4, ScopesInvKept DEF AdminInv, OnlyScopes
    <3>2. QED BY <3>1 DEF AdminInv, Part
  <2>5. CASE part = "subnets" /\ SubnetsNext /\ OnlySubnets
    <3>1. part' = "subnets" /\ SubnetsInv'
      BY <1>2, <2>5, SubnetsInvKept DEF AdminInv, OnlySubnets
    <3>2. QED BY <3>1 DEF AdminInv, Part
  <2>6. CASE part = "plan" /\ PlanNext /\ OnlyPlan
    <3>1. part' = "plan" /\ PlanTypeOK'
      BY <1>2, <2>6, PlanTypesKept DEF AdminInv, OnlyPlan
    <3>2. QED BY <3>1 DEF AdminInv, Part
  <2>7. CASE part = "signin" /\ SignInNext /\ OnlySignIn
    <3>1. part' = "signin" /\ SignInInv'
      BY <1>2, <2>7, SignInInvKept DEF AdminInv, OnlySignIn
    <3>2. QED BY <3>1 DEF AdminInv, Part
  <2>8. QED BY <1>2, <2>1, <2>2, <2>3, <2>4, <2>5, <2>6, <2>7 DEF AdminNext
<1>3. ASSUME AdminInv, UNCHANGED adminVars PROVE AdminInv'
  <2>1. /\ part' = part /\ UNCHANGED layout /\ UNCHANGED roleVars /\ UNCHANGED vaultVars
        /\ UNCHANGED scopeVars /\ UNCHANGED subnetVars /\ UNCHANGED planVars /\ UNCHANGED signVars
    BY <1>3 DEF adminVars
  <2>2. part = "drops" => TypeOK'
    BY <1>3, <2>1, DropKept DEF AdminInv
  <2>3. part = "roles" => RoleSafe'
    BY <1>3, <2>1, RoleSafeStays DEF AdminInv
  <2>4. part = "vault" => Inv'
    BY <1>3, <2>1, InvKept DEF AdminInv
  <2>5. part = "scopes" => ScopesInv'
    BY <1>3, <2>1, ScopesInvKept DEF AdminInv
  <2>6. part = "subnets" => SubnetsInv'
    BY <1>3, <2>1, SubnetsInvKept DEF AdminInv
  <2>7. part = "plan" => PlanTypeOK'
    BY <1>3, <2>1, PlanTypesKept DEF AdminInv
  <2>8. part = "signin" => SignInInv'
    BY <1>3, <2>1, SignInInvKept DEF AdminInv
  <2>9. QED BY <1>3, <2>1, <2>2, <2>3, <2>4, <2>5, <2>6, <2>7, <2>8 DEF AdminInv
<1>4. QED BY <1>1, <1>2, <1>3, PTL DEF AdminSpec

\* The rows, requests and tasks of every component keep their shapes, whichever
\* of them the behaviour moves.
THEOREM AdminTypes == AdminSpec => []AdminTypeOK
<1>1. AdminInv => AdminTypeOK
  BY DEF AdminInv, AdminTypeOK, RoleSafe, RoleInv, Inv, ScopesInv, SubnetsInv, SignInInv
<1>2. QED BY <1>1, AdminInvAlways, PTL

\* A drop is planned as the loop of planRackPlacement plans it, and one that is
\* sent again moves nothing, on whatever layout the drops before it have left.
THEOREM DropsStay == AdminSpec => []DropsAreStable
<1>1. AdminInv => DropsAreStable
  BY PlansLoop, DropSettled DEF AdminInv, DropsAreStable
<1>2. QED BY <1>1, AdminInvAlways, PTL
=============================================================================
