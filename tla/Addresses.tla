------------------------------ MODULE Addresses ------------------------------
(***************************************************************************)
(* The management subnet of a lab and the addresses of its VDs             *)
(* (services/config.py, services/mgmt_ips.py), over edits of the topology, *)
(* deploys, live additions and the other labs of the system.  An address   *)
(* is a pair of the number of a subnet and an offset in it; VDs are        *)
(* numbers, in the order of the topology and of their names.               *)
(***************************************************************************)
EXTENDS Naturals, FiniteSets, FiniteSetsExt, Functions

CONSTANTS
    AddrVd,     \* VDs the topology may have
    NetSize,    \* addresses of a subnet, a power of two
    OtherNets,  \* subnets that other labs may take; 0 is mgmt_defaults
    Wishes      \* offsets in subnet 0 that a mgmt-ipv4 may ask for

ASSUME AddressAssumption == AddrVd \subseteq Nat /\ NetSize \in Nat /\ OtherNets \subseteq Nat

VARIABLES
    topoVds,    \* VDs of the topology
    wish,       \* their mgmt-ipv4, as far as they have one
    fixed,      \* the topology has its own mgmt.ipv4-subnet (subnet 0)
    others,     \* subnets of the other labs that are deployed
    running,    \* the VDs of the state file; {} without one
    subnet,     \* mgmt.subnet of the state file
    reserved    \* mgmt_ip_reservations of the state file

addrVars == <<topoVds, wish, fixed, others, running, subnet, reserved>>

\* ipv4_reservations: bridge, anchor, DNS and jump host.  hosts() leaves out both ends.
Infra(s) == {<<s, 1>>, <<s, NetSize - 4>>, <<s, NetSize - 3>>, <<s, NetSize - 2>>}
HostsOf(s) == {<<s, k>> : k \in 1..(NetSize - 2)}

\* _resolve_mgmt_config: the next subnet that no deployed lab has, the lab itself left out;
\* one that the topology asks for must be free.
FreeNet == Min((0..Cardinality(OtherNets)) \ others)
Resolves(s) == IF fixed THEN s = 0 /\ 0 \notin others ELSE s = FreeNet

\* assign_sticky_mgmt_ipv4: reservations that still lie in the subnet, ...
Sticky(s) == Restrict(reserved, {n \in DOMAIN reserved : reserved[n][1] = s /\ reserved[n] \notin Infra(s)})

\* ... less those that a VD asks for: whoever had the address loses what it has by then,
\* its own wish too when that came earlier in the topology ...
Ousted(s, n) == n \in DOMAIN Sticky(s) /\ \E w \in DOMAIN wish \ {n} :
    wish[w] = Sticky(s)[n] /\ (n \in DOMAIN wish => n < w)
Claimed(s) == [n \in {m \in DOMAIN Sticky(s) \cup DOMAIN wish : ~Ousted(s, m)} |->
                 IF n \in DOMAIN wish THEN wish[n] ELSE Sticky(s)[n]]

\* (mutant) only what VDs of the topology have is used
UsedByNodes(s) == Infra(s) \cup Range(Restrict(Sticky(s), DOMAIN Sticky(s) \cap topoVds)) \cup Range(wish)

\* ... an address is used while anyone has or had it here ...
Used(s) == Infra(s) \cup Range(Sticky(s)) \cup Range(wish)

\* ... and the VDs without one, by name, take the free ones in order.
Unplaced(s) == topoVds \ (DOMAIN Claimed(s) \cup DOMAIN wish)
FreeAddresses(s) == HostsOf(s) \ Used(s)
NextFree(s, n) == CHOOSE a \in FreeAddresses(s) :
    Cardinality({b \in FreeAddresses(s) : b[2] < a[2]}) = Cardinality({m \in Unplaced(s) : m < n})
Assigned(s) == [n \in DOMAIN Claimed(s) \cup Unplaced(s) |->
                  IF n \in Unplaced(s) THEN NextFree(s, n) ELSE Claimed(s)[n]]

\* The ConfigErrors: a wish outside the subnet, of the infrastructure or of two VDs, and
\* a subnet without a free address.
Assignable(s) ==
    /\ \A n \in DOMAIN wish : wish[n][1] = s /\ wish[n] \notin Infra(s)
    /\ \A n, m \in DOMAIN wish : wish[n] = wish[m] => n = m
    /\ Cardinality(Unplaced(s)) <= Cardinality(FreeAddresses(s))

Assign(s) == Resolves(s) /\ Assignable(s) /\ reserved' = Assigned(s)

\* PlanController.run, and the state file of the deploy it is for.
PlanAddresses ==
    /\ topoVds # {} /\ running' = topoVds
    /\ \E s \in 0..Cardinality(OtherNets) : Assign(s) /\ subnet' = s
    /\ UNCHANGED <<topoVds, wish, fixed, others>>

\* NodeController.add: the topology is parsed again and its subnet found again; the state
\* file keeps the subnet it has.
AddLive(n) ==
    /\ running # {} /\ n \in topoVds \ running /\ running' = running \cup {n}
    /\ \E s \in 0..Cardinality(OtherNets) : Assign(s)
    /\ UNCHANGED <<topoVds, wish, fixed, others, subnet>>

\* NodeController.remove: the reservation stays.  The last VD is not removed here, since
\* no running VD stands for no state file.
RemoveLive(n) ==
    /\ n \in running /\ running # {n} /\ running' = running \ {n}
    /\ UNCHANGED <<topoVds, wish, fixed, others, subnet, reserved>>

\* DestroyController: the reservations go with the state file.
DropState ==
    /\ running # {} /\ running' = {} /\ reserved' = Restrict(reserved, {})
    /\ UNCHANGED <<topoVds, wish, fixed, others, subnet>>

\* The user draws a VD or takes it away.
EditVd(n) ==
    /\ \/ n \notin topoVds /\ topoVds' = topoVds \cup {n} /\ UNCHANGED wish
       \/ n \in topoVds /\ topoVds' = topoVds \ {n} /\ wish' = Restrict(wish, DOMAIN wish \ {n})
    /\ UNCHANGED <<fixed, others, running, subnet, reserved>>

\* set_node_mgmt_ipv4 sets or clears the mgmt-ipv4 of a VD, and checks nothing.
SetNodeMgmtIpv4(n) ==
    /\ n \in topoVds
    /\ \/ wish' = Restrict(wish, DOMAIN wish \ {n})
       \/ \E k \in Wishes : wish' = [m \in DOMAIN wish \cup {n} |-> IF m = n THEN <<0, k>> ELSE wish[m]]
    /\ UNCHANGED <<topoVds, fixed, others, running, subnet, reserved>>

\* set_mgmt_config sets or clears the subnet of the topology, whatever runs.
SetMgmtConfig ==
    /\ fixed' = ~fixed
    /\ UNCHANGED <<topoVds, wish, others, running, subnet, reserved>>

\* Other labs are deployed and destroyed.
OtherLab(s) ==
    /\ others' = IF s \in others THEN others \ {s} ELSE others \cup {s}
    /\ s \in others' => running = {} \/ s # subnet
    /\ UNCHANGED <<topoVds, wish, fixed, running, subnet, reserved>>

AddressInit ==
    /\ topoVds = {} /\ wish = [n \in {} |-> <<0, 0>>] /\ fixed = FALSE
    /\ others = {} /\ running = {} /\ subnet = 0 /\ reserved = [n \in {} |-> <<0, 0>>]

AddressNext ==
    \/ PlanAddresses \/ DropState \/ SetMgmtConfig
    \/ \E n \in AddrVd : AddLive(n) \/ RemoveLive(n) \/ EditVd(n) \/ SetNodeMgmtIpv4(n)
    \/ \E s \in OtherNets : OtherLab(s)

AddressSpec == AddressInit /\ [][AddressNext]_addrVars

-----------------------------------------------------------------------------
(* Properties.                                                             *)

\* n has its address in the subnet of the lab, nobody asks for it, nor n for another.
Uncontested(n) == reserved[n][1] = subnet /\ n \notin DOMAIN wish /\ reserved[n] \notin Range(wish)

\* Addresses are not recycled while the state file exists: as long as the topology still
\* resolves to the subnet of the lab, an assignment leaves every reservation, those of
\* removed VDs too, where no mgmt-ipv4 contests it, and no two VDs ever share one.
AddressesStay ==
    [][/\ running # {} /\ running' # {} /\ Resolves(subnet) =>
            \A n \in DOMAIN reserved : Uncontested(n) =>
                n \in DOMAIN reserved' /\ reserved'[n] = reserved[n]
       /\ \A n, m \in DOMAIN reserved' : n # m => reserved'[n] # reserved'[m]]_addrVars
=============================================================================
