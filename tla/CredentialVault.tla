--------------------------- MODULE CredentialVault --------------------------
(***************************************************************************)
(* The secrets of SNMP and NetApp, and the rotation of the keys that wrap  *)
(* them: apps/api/src/snmp/snmp.service.ts, apps/api/src/netapp/           *)
(* netapp.service.ts and packages/snmp-core/src/crypto.ts.                 *)
(*                                                                         *)
(* A secret is sealed with a data key of its own; the data key is wrapped  *)
(* with the active key of the keyring, a file that operators edit.  SNMP   *)
(* secrets must differ from each other, so every transaction that stores   *)
(* one first takes one advisory lock.  Rotation takes no lock at all.      *)
(***************************************************************************)
EXTENDS Integers, FiniteSets

CONSTANTS
  Credentials,   \* SnmpCredential rows, each created at most once (a bound)
  Enrollments,   \* SnmpTrapEnrollment rows, likewise
  Integrations,  \* NetAppIntegration rows
  AdoptedAs,     \* the TRAP credential that accepting an enrollment creates
  Secrets,       \* communities and keys that operators may type
  Keys,          \* keys an operator may put on the ring
  FirstKey,      \* the one on it at the start
  Callers,       \* API requests that store secrets
  Rotators,      \* API requests that rotate
  MaxSealed,     \* secrets sealed, each with its data key (a bound)
  MaxRotations,  \* rotations (a bound)
  Unlocked,      \* nobody holds the advisory lock
  NoRow, Gone, NoCall

Guarded == Credentials \cup Enrollments
Rows == Guarded \cup Integrations

VARIABLES
  ring,      \* the keyring file: the active key and all its keys
  vault,     \* the envelope of each row
  locked,    \* who holds pg_advisory_xact_lock(830129037)
  call,      \* what each caller has asked and read
  rotation,  \* what each rotation has read and has yet to write
  sealed,    \* data keys drawn so far
  rotations

vaultVars == <<ring, vault, locked, call, rotation, sealed, rotations>>

IsStored(s) == vault[s] \notin {NoRow, Gone}

(* encryptCredential, decryptCredential and rewrapCredential: an envelope  *)
(* opens when its key is on the ring and the data key wrapped in it is the *)
(* one its secret was sealed with.                                         *)
Envelope(secret, dek, k) == [secret |-> secret, dek |-> dek, wrapped |-> dek, key |-> k]
CanOpen(e, keyring) == e.key \in keyring.keys /\ e.wrapped = e.dek
CanRewrap(e, keyring) == e.key \in keyring.keys
Rewrapped(e, keyring) == [e EXCEPT !.key = keyring.active]

VaultInit ==
  /\ ring = [active |-> FirstKey, keys |-> {FirstKey}]
  /\ vault = [s \in Rows |-> NoRow]
  /\ locked = Unlocked
  /\ call = [c \in Callers |-> NoCall]
  /\ rotation = [r \in Rotators |-> NoCall]
  /\ sealed = 0 /\ rotations = 0

Ends(c) == call' = [call EXCEPT ![c] = NoCall]

(* createCredential (which replaces), createEnrollment and onboardDevice   *)
(* (which creates one or two credentials): the secrets each row is to hold.*)
Stores ==
  {order \in UNION {[T -> Secrets] : T \in SUBSET Guarded} :
     /\ \A s, t \in DOMAIN order : order[s] = order[t] => s = t
     /\ \/ \E s \in Credentials : DOMAIN order = {s}
        \/ \E s, t \in {u \in Credentials : vault[u] = NoRow} : DOMAIN order = {s, t}
        \/ \E e \in Enrollments : DOMAIN order = {e} /\ vault[e] = NoRow}
EnterWithoutLock(c, order) ==
  /\ call[c] = NoCall /\ locked = Unlocked
  /\ \A s \in DOMAIN order : vault[s] # Gone
  /\ call' = [call EXCEPT ![c] = [at |-> "scanning", order |-> order, ring |-> ring]]
  /\ UNCHANGED <<ring, vault, locked, rotation, sealed, rotations>>
Enter(c, order) ==
  /\ call[c] = NoCall /\ locked = Unlocked
  /\ \A s \in DOMAIN order : vault[s] # Gone
  /\ locked' = c
  /\ call' = [call EXCEPT ![c] = [at |-> "scanning", order |-> order, ring |-> ring]]
  /\ UNCHANGED <<ring, vault, rotation, sealed, rotations>>

(* assertSecretAvailable: every other secret has to open, and to differ.   *)
OtherSecrets(order) == {s \in Guarded \ DOMAIN order : IsStored(s)}
IsAvailable(order) ==
  \A s \in OtherSecrets(order) :
    CanOpen(vault[s], ring) /\ \A t \in DOMAIN order : vault[s].secret # order[t]
Scan(c) ==
  /\ call[c] # NoCall /\ call[c].at = "scanning"
  /\ IF IsAvailable(call[c].order)
     THEN /\ call' = [call EXCEPT ![c] = [at |-> "storing", order |-> @.order, ring |-> ring]]
          /\ UNCHANGED locked
     ELSE Ends(c) /\ locked' = Unlocked
  /\ UNCHANGED <<ring, vault, rotation, sealed, rotations>>
Store(c) ==
  /\ call[c] # NoCall /\ call[c].at = "storing"
  /\ Ends(c) /\ locked' = Unlocked
  /\ LET order == call[c].order
         new == DOMAIN order
     IN IF \E s \in new \cap Enrollments : vault[s] # NoRow  \* P2002
        THEN UNCHANGED <<vault, sealed>>
        ELSE /\ sealed + Cardinality(new) <= MaxSealed
             /\ sealed' = sealed + Cardinality(new)
             /\ \E dek \in [new -> sealed + 1..sealed + Cardinality(new)] :
                  /\ \A s, t \in new : dek[s] = dek[t] => s = t
                  /\ vault' = [s \in Rows |-> IF s \in new
                       THEN Envelope(order[s], dek[s], call[c].ring.active) ELSE vault[s]]
  /\ UNCHANGED <<ring, rotation, rotations>>

(* acceptEnrollment: the envelope is read and rewrapped before the         *)
(* transaction, which moves it to the credential of the new device.        *)
ReadEnrollment(c, e) ==
  /\ call[c] = NoCall /\ IsStored(e) /\ CanRewrap(vault[e], ring)
  /\ call' = [call EXCEPT ![c] =
       [at |-> "accepting", enrollment |-> e, envelope |-> Rewrapped(vault[e], ring)]]
  /\ UNCHANGED <<ring, vault, locked, rotation, sealed, rotations>>
AcceptSecret(c) ==
  /\ call[c] # NoCall /\ call[c].at = "accepting" /\ locked = Unlocked
  /\ Ends(c)
  /\ LET e == call[c].enrollment
     IN vault' = IF IsStored(e) /\ vault[AdoptedAs[e]] = NoRow
                 THEN [vault EXCEPT ![AdoptedAs[e]] = call[c].envelope, ![e] = Gone]
                 ELSE vault
  /\ UNCHANGED <<ring, locked, rotation, sealed, rotations>>

(* deleteCredential, deleteEnrollment, and the enrollments that expire.    *)
DeleteSecret(s) ==
  /\ s \in Guarded /\ IsStored(s)
  /\ vault' = [vault EXCEPT ![s] = Gone]
  /\ UNCHANGED <<ring, locked, call, rotation, sealed, rotations>>

(* NetAppService.configure: an upsert, outside the policy of SNMP secrets. *)
ConfigureNetApp(i, x) ==
  /\ sealed < MaxSealed
  /\ sealed' = sealed + 1
  /\ vault' = [vault EXCEPT ![i] = Envelope(x, sealed + 1, ring.active)]
  /\ UNCHANGED <<ring, locked, call, rotation, rotations>>

(* rotateCredentials: the three tables are read once; then row after row,  *)
(* by its id, gets the data key that was read, wrapped with the active key.*)
ReadVault(r) ==
  /\ rotation[r] = NoCall /\ rotations < MaxRotations
  /\ rotations' = rotations + 1
  /\ rotation' = [rotation EXCEPT ![r] = [ring |-> ring, left |->
       [s \in {t \in Rows : IsStored(t) /\ vault[t].key # ring.active} |-> vault[s]]]]
  /\ UNCHANGED <<ring, vault, locked, call, sealed>>
RewrapRow(r, s) ==
  /\ rotation[r] # NoCall /\ s \in DOMAIN rotation[r].left
  /\ LET t == rotation[r]
     IN IF IsStored(s) /\ CanRewrap(t.left[s], t.ring)
        THEN /\ rotation' = [rotation EXCEPT ![r] = [ring |-> t.ring, left |->
                               [u \in DOMAIN t.left \ {s} |-> t.left[u]]]]
             /\ vault' = [vault EXCEPT ![s].wrapped = t.left[s].wrapped,
                                       ![s].key = t.ring.active]
        ELSE /\ rotation' = [rotation EXCEPT ![r] = NoCall]
             /\ UNCHANGED vault
  /\ UNCHANGED <<ring, locked, call, sealed, rotations>>
EndRotation(r) ==
  /\ rotation[r] # NoCall /\ DOMAIN rotation[r].left = {}
  /\ rotation' = [rotation EXCEPT ![r] = NoCall]
  /\ UNCHANGED <<ring, vault, locked, call, sealed, rotations>>

(* Operators edit the keyring file: a new active key, and a key taken off  *)
(* once no row is wrapped with it.                                         *)
ActivateKey(k) ==
  /\ k \notin ring.keys
  /\ ring' = [active |-> k, keys |-> ring.keys \cup {k}]
  /\ UNCHANGED <<vault, locked, call, rotation, sealed, rotations>>
TakeKeyOff(k) ==
  /\ k \in ring.keys \ {ring.active}
  /\ \A s \in Rows : IsStored(s) => vault[s].key # k
  /\ ring' = [ring EXCEPT !.keys = @ \ {k}]
  /\ UNCHANGED <<vault, locked, call, rotation, sealed, rotations>>

VaultNext ==
  \/ \E c \in Callers : \/ \E order \in Stores : Enter(c, order)
                        \/ Scan(c)
                        \/ Store(c)
                        \/ \E e \in Enrollments : ReadEnrollment(c, e)
                        \/ AcceptSecret(c)
  \/ \E s \in Rows : DeleteSecret(s)
  \/ \E i \in Integrations, x \in Secrets : ConfigureNetApp(i, x)
  \/ \E r \in Rotators : \/ ReadVault(r)
                         \/ \E s \in Rows : RewrapRow(r, s)
                         \/ EndRotation(r)
  \/ \E k \in Keys : ActivateKey(k) \/ TakeKeyOff(k)

VaultSpec == VaultInit /\ [][VaultNext]_vaultVars
-----------------------------------------------------------------------------
SealedRow == [secret : Secrets, dek : 1..MaxSealed, wrapped : 1..MaxSealed, key : Keys]
IsKeyring(k) == k.active \in k.keys /\ k.keys \subseteq Keys
IsCall(t) ==
  \/ t.at \in {"scanning", "storing"} /\ IsKeyring(t.ring)
       /\ DOMAIN t.order \subseteq Guarded /\ \A s \in DOMAIN t.order : t.order[s] \in Secrets
  \/ t.at = "accepting" /\ t.enrollment \in Enrollments /\ t.envelope \in SealedRow

ASSUME VaultAssumption ==
  /\ Credentials \cap Enrollments = {} /\ Guarded \cap Integrations = {}
  /\ AdoptedAs \in [Enrollments -> Credentials]
  /\ FirstKey \in Keys /\ MaxSealed \in Nat /\ MaxRotations \in Nat
  /\ Unlocked \notin Callers /\ NoRow # Gone /\ {NoRow, Gone} \cap SealedRow = {}

(* Every variable has its type, and data keys are never drawn twice.       *)
VaultTypeOK ==
  /\ IsKeyring(ring)
  /\ vault \in [Rows -> SealedRow \cup {NoRow, Gone}]
  /\ \A s \in Rows : IsStored(s) => vault[s].dek <= sealed
  /\ locked \in Callers \cup {Unlocked}
  /\ DOMAIN call = Callers /\ \A c \in Callers : call[c] # NoCall => IsCall(call[c])
  /\ DOMAIN rotation = Rotators
  /\ \A r \in Rotators : rotation[r] # NoCall =>
       /\ IsKeyring(rotation[r].ring)
       /\ \A s \in DOMAIN rotation[r].left : s \in Rows /\ rotation[r].left[s] \in SealedRow
  /\ sealed \in 0..MaxSealed /\ rotations \in 0..MaxRotations

(* No two SNMP secrets are the same, whoever stores, onboards, accepts,    *)
(* deletes and rotates at the same time: the READ, WRITE and TRAP secrets  *)
(* of every device and of every enrollment are all distinct.               *)
SecretsAreNotReused ==
  \A s, t \in {u \in Guarded : IsStored(u)} : vault[s].secret = vault[t].secret => s = t
=============================================================================
