----------------------------- MODULE IpamSubnets -----------------------------
(***************************************************************************)
(* Subnets and VRFs of a site (apps/api/src/ipam/ipam-advanced.service.ts).*)
(* Two subnets of one VRF may not overlap and a VLAN has one subnet: every *)
(* handler asks the database before it writes, and holds nothing between   *)
(* the questions and the write.                                            *)
(*                                                                         *)
(* IPv4 networks are as apps/api computes with them, for addresses of Bits *)
(* bits: a prefix and the first address (ipv4Cidr and addressInCidr of     *)
(* ipam-advanced.service.ts, and parseCidr of ipam.service.ts, whose       *)
(* network is the signed result of JavaScript's & operator).               *)
(***************************************************************************)
EXTENDS Integers, Sequences, FiniteSets

CONSTANTS
  Bits,         \* bits of an address; 32 in the program
  SubnetRows,   \* Subnet rows that may exist
  Vrfs, Vlans,  \* the VRFs and VLANs of the site
  NoVrf, NoVlan,\* a subnet outside of any
  AskedPrefixes,     \* the prefixes asked for
  Planners,     \* API requests that may be handled at once
  MaxWritings,  \* handlers started (a bound)
  NoSubnet, NoWriting

ASSUME BitsAssumption == Bits \in Nat \ {0}

Addresses == 0 .. 2^Bits - 1
SizeOf(prefix) == 2^(Bits - prefix)
NetworkOf(address, prefix) ==
  [prefix |-> prefix, base |-> address - (address % SizeOf(prefix))]
Networks(prefixes) == UNION {{NetworkOf(a, p) : a \in Addresses} : p \in prefixes}

Broadcast(n) == n.base + SizeOf(n.prefix) - 1
InNetwork(a, n) == n.base <= a /\ a <= Broadcast(n)

(* A network keeps its two outer addresses to itself, but for the last two *)
(* prefixes.                                                               *)
Smallest(n) == n.prefix >= Bits - 1
FirstUsable(n) == IF Smallest(n) THEN n.base ELSE n.base + 1
LastUsable(n) == IF Smallest(n) THEN Broadcast(n) ELSE Broadcast(n) - 1
Usable(n) == FirstUsable(n) .. LastUsable(n)

(* A value of Bits bits read as a signed one.                              *)
Signed(v) == IF v >= 2^(Bits - 1) THEN v - 2^Bits ELSE v

-----------------------------------------------------------------------------
(* Subnets.                                                                *)
ASSUME SubnetAssumption == AskedPrefixes \subseteq 0 .. Bits /\ MaxWritings \in Nat

SubnetRecord == [net : Networks(AskedPrefixes), vrf : Vrfs \cup {NoVrf}, vlan : Vlans \cup {NoVlan}]

ASSUME NoSubnetAssumption == NoSubnet \notin SubnetRecord

VARIABLES
  subnet,    \* the rows
  vrf,       \* the VRFs that exist
  writing,   \* the handler of each request
  fresh,     \* rows that others have written since it began (history)
  writings   \* handlers started

subnetVars == <<subnet, vrf, writing, fresh, writings>>

Existing == {s \in SubnetRows : subnet[s] # NoSubnet}

SubnetsInit ==
  /\ subnet = [s \in SubnetRows |-> NoSubnet]
  /\ vrf = Vrfs
  /\ writing = [c \in Planners |-> NoWriting]
  /\ fresh = [c \in Planners |-> {}]
  /\ writings = 0

Begins(c, w) ==
  /\ writing[c] = NoWriting /\ writings < MaxWritings
  /\ writing' = [writing EXCEPT ![c] = w]
  /\ writings' = writings + 1
AtStep(c, step) == writing[c] # NoWriting /\ writing[c].step = step /\ UNCHANGED writings
GoesTo(c, step) ==
  writing' = [writing EXCEPT ![c] = IF step = "end" THEN NoWriting ELSE [@ EXCEPT !.step = step]]
Writes(c, new) ==
  /\ subnet' = new
  /\ fresh' = [d \in Planners |-> IF d = c THEN {} ELSE
                 fresh[d] \cup {s \in SubnetRows : new[s] # subnet[s]}]
Reads(c, step) ==
  /\ GoesTo(c, step)
  /\ fresh' = [fresh EXCEPT ![c] = IF step = "end" THEN {} ELSE @]
  /\ UNCHANGED <<subnet, vrf>>

(* createSubnet takes a row of its own; updateSubnet reads the row first   *)
(* and writes every field back, those the request did not name as read.    *)
AskSubnet(c, s, r) ==
  /\ r.vrf \in vrf \cup {NoVrf}
  /\ Begins(c, [step |-> IF r.vlan # NoVlan /\ (subnet[s] = NoSubnet \/ subnet[s].vlan # r.vlan)
                         THEN "vlan" ELSE "overlap",
                row |-> s, create |-> subnet[s] = NoSubnet, new |-> r])
  /\ fresh' = [fresh EXCEPT ![c] = {}]
  /\ UNCHANGED <<subnet, vrf>>
Others(c) == Existing \ {writing[c].row}
CheckVlan(c) ==
  /\ AtStep(c, "vlan")
  /\ Reads(c, IF \E s \in Others(c) : subnet[s].vlan = writing[c].new.vlan
              THEN "end" ELSE "overlap")

(* A plausible slip: only the asked network's own address is looked up.    *)
OverlapsUpward(n, m) == InNetwork(n.base, m)
Overlaps(n, m) == InNetwork(n.base, m) \/ InNetwork(m.base, n)
CheckOverlap(c) ==
  /\ AtStep(c, "overlap")
  /\ LET new == writing[c].new
     IN Reads(c, IF \/ \E s \in Others(c) :
                         subnet[s].vrf = new.vrf /\ Overlaps(new.net, subnet[s].net)
                    \/ writing[c].create /\ \E s \in Others(c) : subnet[s].net = new.net
                 THEN "end" ELSE "write")

(* The write: cidr is unique, and the VRF must still exist.                *)
WriteSubnet(c) ==
  /\ AtStep(c, "write") /\ GoesTo(c, "end")
  /\ LET w == writing[c]
         taken == \/ w.create # (subnet[w.row] = NoSubnet)
                  \/ w.new.vrf \notin vrf \cup {NoVrf}
                  \/ \E s \in Others(c) : subnet[s].net = w.new.net
     IN Writes(c, IF taken THEN subnet ELSE [subnet EXCEPT ![w.row] = w.new])
  /\ UNCHANGED vrf

DeleteSubnet(c, s) ==
  /\ writing[c] = NoWriting
  /\ s \in Existing
  /\ Writes(c, [subnet EXCEPT ![s] = NoSubnet])
  /\ UNCHANGED <<vrf, writing, writings>>

(* deleteVrf: a VRF with subnets is refused; a subnet that came meanwhile  *)
(* falls out of it (onDelete: SetNull).                                    *)
AskVrfAway(c, v) ==
  /\ v \in vrf /\ \A s \in Existing : subnet[s].vrf # v
  /\ Begins(c, [step |-> "vrf", vrf |-> v])
  /\ fresh' = [fresh EXCEPT ![c] = {}]
  /\ UNCHANGED <<subnet, vrf>>
DeleteVrf(c) ==
  /\ AtStep(c, "vrf") /\ GoesTo(c, "end")
  /\ vrf' = vrf \ {writing[c].vrf}
  /\ Writes(c, [s \in SubnetRows |->
       IF subnet[s] # NoSubnet /\ subnet[s].vrf = writing[c].vrf
       THEN [subnet[s] EXCEPT !.vrf = NoVrf] ELSE subnet[s]])

SubnetsNext == \E c \in Planners :
  \/ \E s \in SubnetRows, r \in SubnetRecord : AskSubnet(c, s, r)
  \/ CheckVlan(c)
  \/ CheckOverlap(c)
  \/ WriteSubnet(c)
  \/ \E s \in SubnetRows : DeleteSubnet(c, s)
  \/ \E v \in Vrfs : AskVrfAway(c, v)
  \/ DeleteVrf(c)

SubnetsSpec == SubnetsInit /\ [][SubnetsNext]_subnetVars
-----------------------------------------------------------------------------
Writing ==
  {NoWriting} \cup [step : {"vrf"}, vrf : Vrfs]
  \cup [step : {"vlan", "overlap", "write"}, row : SubnetRows, create : BOOLEAN,
        new : SubnetRecord]
SubnetsTypeOK ==
  /\ subnet \in [SubnetRows -> SubnetRecord \cup {NoSubnet}]
  /\ vrf \in SUBSET Vrfs
  /\ writing \in [Planners -> Writing]
  /\ fresh \in [Planners -> SUBSET SubnetRows]
  /\ writings \in 0 .. MaxWritings

(* Two subnets clash when they share a VLAN, or an address of one VRF.     *)
Clash(rows, s, t) ==
  /\ s # t /\ NoSubnet \notin {rows[s], rows[t]}
  /\ \/ rows[s].vlan = rows[t].vlan /\ rows[s].vlan # NoVlan
     \/ /\ rows[s].vrf = rows[t].vrf
        /\ \E a \in Addresses : InNetwork(a, rows[s].net) /\ InNetwork(a, rows[t].net)

(* "conflitos são impedidos no mesmo Site/VRF" (docs/architecture.md:16):  *)
(* a step that brings two subnets into conflict ends a handler since whose *)
(* start another one has written a row of the two.  So what the checks do  *)
(* not prevent is a race, and nothing but a race.                          *)
ClashesNeedARace ==
  [][\A s, t \in SubnetRows : Clash(subnet', s, t) /\ ~Clash(subnet, s, t) =>
       \E c \in Planners : writing[c] # NoWriting /\ writing'[c] = NoWriting
                           /\ {s, t} \cap fresh[c] # {}]_subnetVars

-----------------------------------------------------------------------------
(***************************************************************************)
(* The addresses recorded in one subnet, and the plan of its free ranges   *)
(* (apps/api/src/ipam/ipam.service.ts and calculateIpv4SubnetPlan of       *)
(* ipam-advanced.service.ts).  The subnet may be given another CIDR while  *)
(* it has addresses: nothing looks at them then.                           *)
(***************************************************************************)
CONSTANTS
  MaxAddresses,  \* IpAddress rows of the subnet (a bound)
  NoAddress      \* no row for an address

VARIABLES
  cidr,      \* Subnet.cidr
  recorded   \* the state of the row of each address

planVars == <<cidr, recorded>>

(* UNKNOWN stands for every state but FREE: nothing here tells them apart. *)
IpStates == {"FREE", "UNKNOWN"}
Known == {a \in Addresses : recorded[a] # NoAddress}
HasRoom == Cardinality(Known) < MaxAddresses

PlanInit ==
  /\ cidr \in Networks(0 .. Bits)
  /\ recorded = [a \in Addresses |-> NoAddress]

(* assertAddressInSubnet: the network is compared as a signed value.       *)
Accepted(a) == Signed(cidr.base) <= a /\ a <= Broadcast(cidr)

CreateIp(a, state) ==
  /\ Accepted(a) /\ recorded[a] = NoAddress /\ HasRoom
  /\ recorded' = [recorded EXCEPT ![a] = state]
  /\ UNCHANGED cidr
(* updateIp: another address, another state, or both; subnet and address   *)
(* are a key, so that an address in use is refused.                        *)
UpdateIp(a, b, state) ==
  /\ a \in Known /\ Accepted(b) /\ (b = a \/ recorded[b] = NoAddress)
  /\ recorded' = [[recorded EXCEPT ![a] = NoAddress] EXCEPT ![b] = state]
  /\ UNCHANGED cidr
DeleteIp(a) ==
  /\ a \in Known
  /\ recorded' = [recorded EXCEPT ![a] = NoAddress]
  /\ UNCHANGED cidr
(* reviewResult: a host the scan found (hostsFor) is approved; a row the   *)
(* address has already keeps its state.                                    *)
ApproveHost(a) ==
  /\ a \in Usable(cidr) /\ recorded[a] = NoAddress /\ HasRoom
  /\ recorded' = [recorded EXCEPT ![a] = "UNKNOWN"]
  /\ UNCHANGED cidr
ChangeCidr(n) == cidr' = n /\ UNCHANGED recorded

PlanNext ==
  \/ \E a \in Addresses, state \in IpStates : CreateIp(a, state)
  \/ \E a, b \in Addresses, state \in IpStates : UpdateIp(a, b, state)
  \/ \E a \in Addresses : DeleteIp(a) \/ ApproveHost(a)
  \/ \E n \in Networks(0 .. Bits) : ChangeCidr(n)

PlanSpec == PlanInit /\ [][PlanNext]_planVars
-----------------------------------------------------------------------------
(* calculateIpv4SubnetPlan: the loop over the unavailable addresses, in    *)
(* ascending order, with its cursor.                                       *)
Unavailable == {a \in Known : recorded[a] # "FREE" /\ a \in Usable(cidr)}

(* A plausible slip: the cursor stays on the address it has just met.      *)
PassingSlowly(acc, a) ==
  [cursor |-> a,
   gaps |-> IF a > acc.cursor THEN Append(acc.gaps, <<acc.cursor, a - 1>>) ELSE acc.gaps]
Passing(acc, a) ==
  [cursor |-> a + 1,
   gaps |-> IF a > acc.cursor THEN Append(acc.gaps, <<acc.cursor, a - 1>>) ELSE acc.gaps]

(* What the loop has got after the first of the addresses, and in the end. *)
Ascending(S) ==
  CHOOSE order \in [1 .. Cardinality(S) -> S] :
    \A i, j \in DOMAIN order : i < j => order[i] < order[j]
Passed(order, count) ==
  LET after[n \in 0 .. count] ==
        IF n = 0 THEN [cursor |-> FirstUsable(cidr), gaps |-> <<>>]
                 ELSE Passing(after[n - 1], order[n])
  IN after[count]
UsableGaps ==
  LET end == Passed(Ascending(Unavailable), Cardinality(Unavailable))
  IN IF end.cursor <= LastUsable(cidr)
     THEN Append(end.gaps, <<end.cursor, LastUsable(cidr)>>) ELSE end.gaps
FreeCount == Cardinality(Usable(cidr)) - Cardinality(Unavailable)
-----------------------------------------------------------------------------
PlanTypeOK ==
  /\ cidr \in Networks(0 .. Bits)
  /\ recorded \in [Addresses -> IpStates \cup {NoAddress}]

(* The ranges offered hold every address that can still be given out and   *)
(* no other, in order and none next to another, and as many as the plan    *)
(* counts as free: whatever rows a change of the CIDR has left outside.    *)
PlanIsExact ==
  LET gaps == UsableGaps
      In(i) == gaps[i][1] .. gaps[i][2]
  IN /\ UNION {In(i) : i \in DOMAIN gaps} = Usable(cidr) \ Unavailable
     /\ \A i \in DOMAIN gaps : In(i) # {} /\ (i > 1 => gaps[i - 1][2] + 1 < gaps[i][1])
     /\ FreeCount = Cardinality(Usable(cidr) \ Unavailable)

(* "O IP não pertence à subnet indicada" (ipam.service.ts:32): an address  *)
(* recorded in a subnet lies in it.                                        *)
AddressesLieInTheirSubnet ==
  [][\A a \in Addresses : recorded[a] = NoAddress /\ recorded'[a] # NoAddress
       => InNetwork(a, cidr')]_planVars
=============================================================================
