----------------------------- MODULE DeviceMutex ------------------------------
(* What the per-device lock of apps/snmp/src/locks.ts promises: at any time  *)
(* at most one handler talks to a device on behalf of a poll or a write, a   *)
(* handler talks to one device at a time, and no device is kept for ever.    *)
CONSTANTS Devices, Workers, None
VARIABLE holder   \* per device, the handler inside withLock, or None

Init == holder = [d \in Devices |-> None]

Enter(d, w) ==
  /\ holder[d] = None
  /\ \A e \in Devices : holder[e] # w
  /\ holder' = [holder EXCEPT ![d] = w]

Leave(d) ==
  /\ holder[d] # None
  /\ holder' = [holder EXCEPT ![d] = None]

Next == \E d \in Devices : Leave(d) \/ \E w \in Workers : Enter(d, w)

Safe == Init /\ [][Next]_holder
Spec == Safe /\ \A d \in Devices : WF_holder(Leave(d))
=============================================================================
