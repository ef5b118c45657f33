------------------------------ MODULE Services ------------------------------
(***************************************************************************)
(* What stands beside the runtime of the labs: image builds, the console   *)
(* relay of a lab, image synchronisation, and the two plans of a deploy,   *)
(* that of hosts and disks and that of addresses.  They share no state     *)
(* with one another, so a behaviour of all of them is a behaviour of each  *)
(* beside steps that leave it alone; `part` says which one a behaviour is  *)
(* about.                                                                  *)
(***************************************************************************)
EXTENDS ImageBuild, ConsoleRelay, ImageSync, Placement, Addresses

VARIABLE part

servicesVars == <<buildVars, relayVars, syncVars, placeVars, addrVars, part>>

\* Every part starts as it does alone; those that rest start in one way only.
ServicesInit ==
    /\ part \in {"build", "relay", "sync", "placement", "addresses"}
    /\ BuildInit /\ RelayInit /\ SyncInit /\ PlacementInit /\ AddressInit
    /\ part # "relay" => vd = "boots" /\ serial
    /\ part # "sync" => Present(master) = {} /\ Present(worker) = {}

ServicesNext ==
    \/ /\ part = "build" /\ BuildNext
       /\ UNCHANGED <<relayVars, syncVars, placeVars, addrVars, part>>
    \/ /\ part = "relay" /\ RelayNext
       /\ UNCHANGED <<buildVars, syncVars, placeVars, addrVars, part>>
    \/ /\ part = "sync" /\ SyncNext
       /\ UNCHANGED <<buildVars, relayVars, placeVars, addrVars, part>>
    \/ /\ part = "placement" /\ PlacementNext
       /\ UNCHANGED <<buildVars, relayVars, syncVars, addrVars, part>>
    \/ /\ part = "addresses" /\ AddressNext
       /\ UNCHANGED <<buildVars, relayVars, syncVars, placeVars, part>>

ServicesSpec == ServicesInit /\ [][ServicesNext]_servicesVars
=============================================================================
