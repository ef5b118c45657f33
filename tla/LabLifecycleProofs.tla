------------------------- MODULE LabLifecycleProofs -------------------------
(* What deploys, rollbacks and destroys leave on the hosts and what a cleanup
   pass may remove, for every set of hosts, VDs and settings. *)
EXTENDS LabCleanup, TLAPS

-----------------------------------------------------------------------------
(* The artifacts *)

\* Everything a deploy makes itself; containerlab adds the docker networks.
Whole == SetupMgmt \cup SetupRealnets \cup DeployAnchors \cup DeployClab \cup DeployLinks
           \cup DeployRelays \cup DeployDns \cup DeployJumphost

Dnets == On("dnet", Host)

\* No removal of a host that answers goes wrong.
Steady == Faults \cap {"loss", "silent"} = {}

\* The placement and the setting are among those considered.
Chosen == place \in Placements /\ setting \in Settings

LEMMA ChosenTypes ==
    ASSUME Chosen
    PROVE  place \in [Vd -> Host] /\ RealHosts \subseteq Host /\ Busy(place) \subseteq Host
<1>1. place \in [Vd -> Host]
    BY PlaceAssumption DEF Chosen
<1>2. setting \in Setting
    BY LabSettingsAssumption DEF Chosen
<1>3. RealHosts \subseteq Host
    BY <1>2 DEF Setting, RealHosts
<1> QED BY <1>1, <1>3 DEF Busy

\* The kinds of what each phase makes
LEMMA KindsMade ==
    ASSUME Chosen
    PROVE  /\ \A a \in SetupMgmt : Kind(a) = "net" /\ HostOf(a) \in Host
           /\ \A a \in SetupRealnets : Kind(a) \in {"real", "router"} /\ HostOf(a) \in Host
           /\ \A a \in DeployAnchors : Kind(a) = "anchor" /\ HostOf(a) \in Host
           /\ \A a \in DeployClab : Kind(a) = "vd" /\ HostOf(a) \in Host
           /\ \A a \in DeployLinks : Kind(a) = "link" /\ HostOf(a) \in Host
           /\ \A a \in DeployRelays : Kind(a) = "relay" /\ HostOf(a) \in Host
           /\ \A a \in DeployDns : Kind(a) = "dns" /\ HostOf(a) \in Host
           /\ \A a \in DeployJumphost : Kind(a) = "jump" /\ HostOf(a) \in Host
<1>1. place \in [Vd -> Host] /\ RealHosts \subseteq Host /\ Busy(place) \subseteq Host
    BY ChosenTypes
<1>2. \A k, hs : \A a \in On(k, hs) : Kind(a) = k /\ HostOf(a) \in hs
    BY DEF On, Kind, HostOf
<1>3. \A a \in SetupMgmt : Kind(a) = "net" /\ HostOf(a) \in Host
    BY <1>2 DEF SetupMgmt
<1>4. \A a \in SetupRealnets : Kind(a) \in {"real", "router"} /\ HostOf(a) \in Host
  <2>1. \A a \in On("real", RealHosts) : Kind(a) = "real" /\ HostOf(a) \in Host
    BY <1>1, <1>2
  <2>2. Kind(<<"router", Master>>) = "router" /\ HostOf(<<"router", Master>>) \in Host
    BY HostAssumption DEF Kind, HostOf
  <2> QED BY <2>1, <2>2 DEF SetupRealnets
<1>5. \A a \in DeployAnchors : Kind(a) = "anchor" /\ HostOf(a) \in Host
    BY <1>1, <1>2 DEF DeployAnchors
<1>6. \A a \in DeployClab : Kind(a) = "vd" /\ HostOf(a) \in Host
  <2>1. \A v \in Vd : Kind(<<"vd", place[v], v>>) = "vd" /\ HostOf(<<"vd", place[v], v>>) \in Host
    BY <1>1 DEF Kind, HostOf
  <2> QED BY <2>1 DEF DeployClab
<1>7. \A a \in DeployLinks : Kind(a) = "link" /\ HostOf(a) \in Host
    BY <1>1, <1>2 DEF DeployLinks
<1>8. \A a \in DeployRelays : Kind(a) = "relay" /\ HostOf(a) \in Host
    BY <1>1, <1>2 DEF DeployRelays
<1>9. \A a \in DeployDns \cup DeployJumphost : HostOf(a) \in Host
    BY HostAssumption DEF HostOf, DeployDns, DeployJumphost
<1>10. \A a \in DeployDns : Kind(a) = "dns"
    BY DEF Kind, DeployDns
<1>11. \A a \in DeployJumphost : Kind(a) = "jump"
    BY DEF Kind, DeployJumphost
<1> QED BY <1>3, <1>4, <1>5, <1>6, <1>7, <1>8, <1>9, <1>10, <1>11

LEMMA DnetKinds ==
    /\ \A a \in Dnets : Kind(a) = "dnet" /\ HostOf(a) \in Host /\ a = <<"dnet", HostOf(a)>>
    /\ \A h \in Host : <<"dnet", h>> \in Dnets /\ Kind(<<"dnet", h>>) = "dnet" /\ HostOf(<<"dnet", h>>) = h
BY DEF Dnets, On, Kind, HostOf

\* Nothing a deploy makes is a docker network, and all of it is on a host.
LEMMA WholeOnHosts ==
    ASSUME Chosen
    PROVE  \A a \in Whole : HostOf(a) \in Host /\ Kind(a) # "dnet"
<1> HIDE DEF SetupMgmt, SetupRealnets, DeployAnchors, DeployClab, DeployLinks, DeployRelays,
             DeployDns, DeployJumphost
<1> QED BY KindsMade DEF Whole

LEMMA PhaseOrder ==
    /\ Len(Phases) = 11 /\ Len(DestroyOrder) = 9
    /\ Phases[1] = "connect" /\ Phases[2] = "mgmt" /\ Phases[3] = "realnet" /\ Phases[4] = "anchor"
    /\ Phases[5] = "vd" /\ Phases[6] = "health" /\ Phases[7] = "links" /\ Phases[8] = "relay"
    /\ Phases[9] = "dns" /\ Phases[10] = "jump" /\ Phases[11] = "verify"
BY DEF Phases, DestroyOrder

\* The phases make the whole between them.
LEMMA PhasesMakeWhole ==
    /\ \A p : Makes(p) \subseteq Whole
    /\ \A a \in Whole : \E i \in 1..11 : a \in Makes(Phases[i])
<1>1. \A p : Makes(p) \subseteq Whole
    BY DEF Makes, Whole
<1>2. /\ SetupMgmt = Makes(Phases[2]) /\ SetupRealnets = Makes(Phases[3])
      /\ DeployAnchors = Makes(Phases[4]) /\ DeployClab = Makes(Phases[5])
      /\ DeployLinks = Makes(Phases[7]) /\ DeployRelays = Makes(Phases[8])
      /\ DeployDns = Makes(Phases[9]) /\ DeployJumphost = Makes(Phases[10])
    BY PhaseOrder DEF Makes
<1> QED BY <1>1, <1>2 DEF Whole

\* containerlab adds docker networks only.
LEMMA Created ==
    ASSUME Chosen
    PROVE  /\ \A a \in Whole : a \in CreateSet(a) /\ CreateSet(a) \subseteq {a} \cup Dnets
           /\ \A a \in Dnets : CreateSet(a) = {a}
           /\ \A A \in SUBSET Whole : CreateAll(A) \subseteq A \cup Dnets
<1>1. \A a \in Whole : a \in CreateSet(a) /\ CreateSet(a) \subseteq {a} \cup Dnets
    BY WholeOnHosts, DnetKinds DEF CreateSet
<1>2. \A a \in Dnets : CreateSet(a) = {a}
    BY DnetKinds DEF CreateSet
<1> QED BY <1>1, <1>2 DEF CreateAll

LEMMA PartialIn ==
    ASSUME Chosen
    PROVE  \A part \in Partial : part \subseteq Missing \cup Dnets /\ CreateAll(part) = part
<1>1. Missing \subseteq Whole /\ Reachable(Missing) \subseteq Missing
    BY PhasesMakeWhole DEF Missing, Reachable
<1> QED BY <1>1, Created DEF Partial

-----------------------------------------------------------------------------
(* Removals *)

LEMMA StripIn == \A A, T : Strip(A, T) \subseteq A
BY DEF Strip

LEMMA StripPlain ==
    ASSUME NEW A, NEW T, NEW a \in T, Kind(a) \notin {"dnet", "net"}
    PROVE  a \notin Strip(A, T)
BY DEF Strip, Of

LEMMA StripDnet ==
    ASSUME NEW A, NEW T, NEW a \in T, Kind(a) = "dnet", Attached(A, HostOf(a)) = {}
    PROVE  a \notin Strip(A, T)
BY DEF Strip, Of

LEMMA StripNet ==
    ASSUME NEW A, NEW T, NEW a \in T, Kind(a) = "net", <<"dnet", HostOf(a)>> \notin A
    PROVE  a \notin Strip(A, T)
BY DEF Strip, Of

\* With nothing lost and nothing silent, what is on a host that answers goes,
\* unless the first error stops the rest.
LEMMA SteadyRemoval ==
    ASSUME Steady, NEW T, NEW stops
    PROVE  /\ \A gone \in Removed(T, stops) :
                gone = Reachable(T) \/ (stops /\ Reachable(T) # T /\ gone \subseteq Reachable(T))
           /\ Silently(T) = {}
BY DEF Steady, Removed, Silently

-----------------------------------------------------------------------------
(* The state file *)

\* The state file names everything a deploy makes, and a deploy in progress has
\* it on record phase by phase.
NamesInv ==
    /\ art \subseteq Whole \cup Dnets
    /\ reg \subseteq Whole
    /\ st = NoState \/ st = [on |-> TRUE, names |-> Whole]
    /\ step \in Nat \ {0}
    /\ job = "deploy" => /\ step <= 13
                         /\ \A i \in 1..11 : i < step => Makes(Phases[i]) \subseteq reg
    /\ job = "destroy" => st.on

\* What the phases make depends on the placement and the setting only.
LEMMA SamePlace ==
    ASSUME UNCHANGED <<place, setting>>
    PROVE  UNCHANGED Whole /\ (\A p : Makes(p)' = Makes(p)) /\ Faults' = Faults
<1>1. RealHosts' = RealHosts /\ Faults' = Faults
    BY DEF RealHosts, Faults
<1>2. UNCHANGED <<SetupMgmt, SetupRealnets, DeployAnchors, DeployClab, DeployLinks, DeployRelays,
                  DeployDns, DeployJumphost>>
    BY <1>1 DEF SetupMgmt, SetupRealnets, DeployAnchors, DeployClab, DeployLinks, DeployRelays,
                DeployDns, DeployJumphost, On, Busy
<1> QED BY <1>1, <1>2 DEF Whole, Makes

LEMMA ChosenStep == Chosen /\ [LabNext]_labVars => Chosen'
<1> SUFFICES ASSUME Chosen, [LabNext]_labVars PROVE Chosen'
    OBVIOUS
<1>1. setting' = setting
    BY DEF LabNext, labVars
<1>2. place' = place \/ RequestDeploy
    BY DEF LabNext, Work, Request, Environment, Make, PhaseDone, PhaseFails, SaveState, SaveHistory,
       RollbackPhase, RollbackEnds, DestroyStep, DestroyEnds, RequestDestroy, StopVd, StartVd, Crash,
       Age, HostLost, HostBack, labVars
<1> QED BY <1>1, <1>2 DEF Chosen, RequestDeploy

LEMMA NamesStep == OnePlacement /\ Chosen /\ NamesInv /\ [LabNext]_labVars => NamesInv'
<1> SUFFICES ASSUME OnePlacement, Chosen, NamesInv, [LabNext]_labVars PROVE NamesInv'
    OBVIOUS
<1>c. Chosen' /\ UNCHANGED <<place, setting>>
  <2>1. Chosen' /\ setting' = setting
    BY ChosenStep DEF LabNext, labVars
  <2> QED BY <2>1 DEF Chosen, OnePlacement
<1>w. UNCHANGED Whole /\ (\A p : Makes(p)' = Makes(p))
    BY <1>c, SamePlace
<1>n. /\ art \subseteq Whole \cup Dnets /\ reg \subseteq Whole /\ step \in Nat \ {0}
      /\ st = NoState \/ st = [on |-> TRUE, names |-> Whole]
      /\ job = "deploy" => /\ step <= 13
                           /\ \A i \in 1..11 : i < step => Makes(Phases[i]) \subseteq reg
      /\ job = "destroy" => st.on
    BY DEF NamesInv
\* Steps that only take artifacts away.
<1>l. ASSUME art' \subseteq art, UNCHANGED reg, st' = st \/ st' = NoState, step' \in Nat \ {0},
             job' = "deploy" => job = "deploy" /\ UNCHANGED step,
             job' = "destroy" => job = "destroy" /\ UNCHANGED st
      PROVE  NamesInv'
    BY <1>l, <1>n, <1>w DEF NamesInv, Dnets, On
<1>p. job = "deploy" /\ step <= 11 => phase = Phases[step] /\ step \in 1..11
    BY <1>n, PhaseOrder DEF phase
<1>1. ASSUME NEW a, Make(a) PROVE NamesInv'
  <2>1. a \in Makes(phase) /\ a \in Whole
    BY <1>1, PhasesMakeWhole DEF Make, Missing
  <2>2. art' \subseteq Whole \cup Dnets
    BY <1>1, <1>n, <2>1, Created DEF Make
  <2>3. reg' = reg \cup {a} /\ UNCHANGED <<st, job, step>>
    BY <1>1 DEF Make
  <2> QED BY <1>n, <1>w, <2>1, <2>2, <2>3 DEF NamesInv, Dnets, On
<1>2. CASE PhaseDone
  <2>1. /\ art' \subseteq art /\ UNCHANGED <<st, job, reg>> /\ step' = step + 1
        /\ job = "deploy" /\ step \in 1..11 /\ Makes(Phases[step]) \subseteq reg
    BY <1>2, <1>p, <1>n, PhaseOrder DEF PhaseDone, Missing
  <2>2. \A i \in 1..11 : i < step' => Makes(Phases[i]) \subseteq reg
    BY <2>1, <1>n
  <2> QED BY <1>n, <1>w, <2>1, <2>2 DEF NamesInv, Dnets, On
<1>3. CASE PhaseFails
  <2>1. PICK part \in Partial : art' \subseteq art \cup part
    BY <1>3 DEF PhaseFails
  <2>2. part \subseteq Whole \cup Dnets
    BY PartialIn, PhasesMakeWhole DEF Missing
  <2>3. UNCHANGED <<st, reg, step>> /\ job' = "rollback"
    BY <1>3 DEF PhaseFails
  <2> QED BY <1>n, <1>w, <2>1, <2>2, <2>3 DEF NamesInv, Dnets, On
<1>4. CASE SaveState
  <2>1. /\ UNCHANGED <<art, reg, job>> /\ step' = step + 1 /\ job = "deploy" /\ step = 12
        /\ st' = [on |-> TRUE, names |-> reg]
    BY <1>4, PhaseOrder DEF SaveState
  <2>2. reg = Whole
    BY <2>1, <1>n, PhasesMakeWhole
  <2>3. \A i \in 1..11 : Makes(Phases[i]) \subseteq reg
    BY <2>2, PhasesMakeWhole
  <2> QED BY <1>n, <1>w, <2>1, <2>2, <2>3 DEF NamesInv, Dnets, On
<1>5. CASE RequestDeploy
  <2>1. /\ UNCHANGED <<art, st>> /\ job' = "deploy" /\ step' = 1 /\ reg' = {}
    BY <1>5 DEF RequestDeploy, Begin
  <2> QED BY <1>n, <1>w, <2>1 DEF NamesInv, Dnets, On
<1>6. CASE RequestDestroy
  <2>1. /\ UNCHANGED <<art, st>> /\ job' = "destroy" /\ step' = 1 /\ reg' = {} /\ st.on
    BY <1>6 DEF RequestDestroy, Begin
  <2> QED BY <1>n, <1>w, <2>1 DEF NamesInv, Dnets, On
<1>7. ASSUME NEW a \in Of({"vd"}, st.names), StartVd(a) PROVE NamesInv'
  <2>1. a \in Whole
    BY <1>n, <1>7 DEF Of, NoState
  <2>2. /\ art' = art \cup CreateSet(a) /\ UNCHANGED <<st, job, step, reg>>
    BY <1>7 DEF StartVd
  <2> QED BY <1>n, <1>w, <2>1, <2>2, Created DEF NamesInv, Dnets, On
<1>8. CASE RollbackPhase
  <2>1. art' \subseteq art
    <3>1. \E gone, brs : art' = Strip(art, gone) \/ art' = Strip(Strip(art, gone), brs)
      BY <1>8 DEF RollbackPhase
    <3> QED BY <3>1, StripIn, Zenon
  <2>2. UNCHANGED <<reg, st, step>> /\ job' = "rollback"
    BY <1>8 DEF RollbackPhase
  <2> QED BY <1>l, <1>n, <2>1, <2>2
<1>9. CASE DestroyStep
  <2>1. art' \subseteq art
    BY <1>9, StripIn DEF DestroyStep
  <2> QED BY <1>9, <1>l, <1>n, <2>1 DEF DestroyStep
<1>10. CASE SaveHistory \/ RollbackEnds \/ DestroyEnds \/ Crash \/ Age
    BY <1>10, <1>l, <1>n DEF SaveHistory, RollbackEnds, DestroyEnds, Crash, Age
<1>11. ASSUME NEW h, HostLost(h) \/ HostBack(h) PROVE NamesInv'
    BY <1>11, <1>l, <1>n DEF HostLost, HostBack
<1>12. ASSUME NEW a, StopVd(a) PROVE NamesInv'
    BY <1>12, <1>l, <1>n DEF StopVd
<1>13. CASE UNCHANGED labVars
    BY <1>13, <1>l, <1>n DEF labVars
<1> QED BY <1>1, <1>2, <1>3, <1>4, <1>5, <1>6, <1>7, <1>8, <1>9, <1>10, <1>11, <1>12, <1>13
        DEF LabNext, Work, Request, Environment

\* A behaviour keeps the placement and setting it chose.
LEMMA ChosenAlways == LabSpec => []Chosen
<1>1. LabInit => Chosen
    BY DEF LabInit, Chosen
<1> QED BY <1>1, ChosenStep, PTL DEF LabSpec

LEMMA NamesAlways == LabSpec => [](OnePlacement => NamesInv)
<1>1. LabInit => NamesInv
    BY DEF LabInit, NamesInv
<1>2. (OnePlacement => NamesInv) /\ Chosen /\ [LabNext]_labVars => (OnePlacement => NamesInv)'
    BY NamesStep DEF OnePlacement
<1> QED BY <1>1, <1>2, ChosenAlways, PTL DEF LabSpec

\* As long as the placement is the same, the state file names every container of the lab,
\* whatever deploys, rollbacks, crashes and lost hosts came before (DeployController.run).
THEOREM NamesAreComplete == LabSpec => []StateNamesContainers
<1>1. Chosen /\ (OnePlacement => NamesInv) => StateNamesContainers
  <2> SUFFICES ASSUME Chosen, NamesInv, st.on, NEW a \in Of(Container, art) PROVE a \in st.names
    BY DEF StateNamesContainers
  <2>1. a \in art /\ Kind(a) # "dnet" /\ a \in Whole \cup Dnets
    BY DEF Of, Container, NamesInv
  <2>2. st.names = Whole
    BY DEF NamesInv, NoState
  <2> QED BY <2>1, <2>2, DnetKinds
<1> QED BY <1>1, ChosenAlways, NamesAlways, PTL

-----------------------------------------------------------------------------
(* The destroy *)

\* The kinds a step of the destroy removes
KindsAt(i) == IF DestroyOrder[i] = "realnet" THEN {"router", "real"} ELSE {DestroyOrder[i]}

\* A destroy without an error so far has left nothing of what its steps remove
\* but the relays and docker networks of hosts lost meanwhile: their errors are
\* dropped, and the last step still has to reach those hosts.
DestroyInv ==
    /\ errs \in BOOLEAN
    /\ job = "destroy" /\ ~ errs => \A a \in art : \A i \in 1..9 :
         i < step /\ Kind(a) \in KindsAt(i)
           => Kind(a) \in {"relay", "dnet"} /\ HostOf(a) \in down /\ step <= 9
    /\ Idle /\ outcome = "clean" => art = {} /\ ~ st.on

LEMMA DestroyKinds ==
    /\ KindsAt(1) = {"jump"} /\ KindsAt(2) = {"dns"} /\ KindsAt(3) = {"relay"} /\ KindsAt(4) = {"link"}
    /\ KindsAt(5) = {"vd"} /\ KindsAt(6) = {"anchor"} /\ KindsAt(7) = {"router", "real"}
    /\ KindsAt(8) = {"dnet"} /\ KindsAt(9) = {"net"}
BY DEF KindsAt, DestroyOrder

\* Every kind has its step.
LEMMA KindsCovered ==
    ASSUME Chosen, NEW a \in Whole \cup Dnets
    PROVE  \E i \in 1..9 : Kind(a) \in KindsAt(i)
<1>1. Kind(a) \in {"net", "real", "router", "anchor", "vd", "link", "relay", "dns", "jump", "dnet"}
    BY KindsMade, DnetKinds DEF Whole
<1> QED BY <1>1, DestroyKinds

\* The targets of a step are all there is of its kinds.
LEMMA TargetsCover ==
    ASSUME Chosen, st.names = Whole, NEW a \in Whole \cup Dnets, NEW i \in 1..9, Kind(a) \in KindsAt(i)
    PROVE  a \in Targets(DestroyOrder[i])
<1>1. Kind(a) = "dnet" => a \in Dnets
    BY WholeOnHosts
<1>2. Kind(a) # "dnet" => a \in Whole
    BY DnetKinds
<1>3. Kind(a) = "net" => a \in SetupMgmt
    BY <1>2, KindsMade DEF Whole
<1>4. Kind(a) = "relay" => a \in DestroyRelays
  <2>1. Kind(a) = "relay" => a \in DeployRelays
    BY <1>2, KindsMade DEF Whole
  <2>2. Busy(place) \subseteq Host
    BY ChosenTypes
  <2> QED BY <2>1, <2>2 DEF DeployRelays, DestroyRelays, On
<1>5. i = 3 \/ i = 8 \/ i = 9 \/ i = 7 \/ i \in {1, 2, 4, 5, 6}
    OBVIOUS
<1>6. CASE i = 3
    BY <1>6, <1>4, DestroyKinds DEF Targets, DestroyOrder
<1>7. CASE i = 8
    BY <1>7, <1>1, DestroyKinds DEF Targets, DestroyOrder, DestroyNetwork, Dnets
<1>8. CASE i = 9
    BY <1>8, <1>3, DestroyKinds DEF Targets, DestroyOrder, TeardownMgmt, SetupMgmt
<1>9. CASE i = 7
    BY <1>9, <1>2, DestroyKinds DEF Targets, DestroyOrder, DestroyRealnets, Of
<1>10. CASE i \in {1, 2, 4, 5, 6}
    BY <1>10, <1>2, DestroyKinds DEF Targets, DestroyOrder, Of
<1> QED BY <1>5, <1>6, <1>7, <1>8, <1>9, <1>10

\* A step of the destroy that meets no error removes all of its kinds, those of
\* the relays and docker networks on the hosts that answer.
LEMMA DestroyStepClears ==
    ASSUME Chosen, NamesInv, DestroyInv, Steady, DestroyStep, ~ errs'
    PROVE  \A a \in art' : \A i \in 1..9 :
             i < step' /\ Kind(a) \in KindsAt(i)
               => Kind(a) \in {"relay", "dnet"} /\ HostOf(a) \in down' /\ step' <= 9
<1> DEFINE k == DestroyOrder[step]
<1> DEFINE T == Targets(k)
<1>0. /\ job = "destroy" /\ step \in 1..9 /\ step' = step + 1 /\ down' = down /\ errs \in BOOLEAN
      /\ art \subseteq Whole \cup Dnets /\ st.names = Whole
    BY PhaseOrder DEF DestroyStep, NamesInv, DestroyInv, NoState
<1>1. PICK gone \in Removed(T, k = "realnet") :
        art' = Strip(art, gone) /\ errs' = (errs \/ (gone # T /\ k \notin {"relay", "dnet"}))
    BY SteadyRemoval DEF DestroyStep
<1>2. ~ errs /\ (gone = T \/ k \in {"relay", "dnet"})
    BY <1>0, <1>1
<1>3. gone = Reachable(T)
  <2>1. CASE k = "realnet"
    <3>1. gone = T
      BY <1>2, <2>1
    <3>2. gone \subseteq Reachable(T) /\ Reachable(T) \subseteq T
      BY <1>1 DEF Removed, Reachable
    <3> QED BY <3>1, <3>2
  <2>2. CASE k # "realnet"
    BY <1>1, <2>2, SteadyRemoval
  <2> QED BY <2>1, <2>2
<1>4. /\ k = "relay" <=> step = 3
      /\ k = "dnet" <=> step = 8
      /\ k = "net" <=> step = 9
    BY <1>0 DEF DestroyOrder
<1>5. \A a \in art : \A i \in 1..9 : i < step /\ Kind(a) \in KindsAt(i)
        => Kind(a) \in {"relay", "dnet"} /\ HostOf(a) \in down
    BY <1>0, <1>2 DEF DestroyInv
<1>6. step = 9 => \A h \in Host : h \notin down
  <2> SUFFICES ASSUME step = 9, NEW h \in Host PROVE h \notin down
    OBVIOUS
  <2>1. k = "net" /\ Reachable(T) = T
    BY <1>2, <1>3, <1>4
  <2>2. T = On("net", Host)
    BY <2>1 DEF Targets, TeardownMgmt
  <2>3. <<"net", h>> \in T /\ HostOf(<<"net", h>>) = h
    BY <2>2 DEF On, HostOf
  <2> HIDE DEF T, k
  <2> QED BY <2>1, <2>3 DEF Reachable
<1> SUFFICES ASSUME NEW a \in art', NEW i \in 1..9, i < step', Kind(a) \in KindsAt(i)
             PROVE  Kind(a) \in {"relay", "dnet"} /\ HostOf(a) \in down' /\ step' <= 9
    OBVIOUS
<1>7. a \in art /\ a \in Whole \cup Dnets /\ HostOf(a) \in Host
  <2>1. a \in art
    BY <1>1, StripIn
  <2> QED BY <2>1, <1>0, WholeOnHosts, DnetKinds
<1>8. CASE i < step
  <2>1. Kind(a) \in {"relay", "dnet"} /\ HostOf(a) \in down
    BY <1>5, <1>7, <1>8
  <2>2. step # 9
    BY <1>6, <1>7, <2>1
  <2> QED BY <1>0, <2>1, <2>2
<1>9. CASE i = step
  <2>1. a \in T
    BY <1>0, <1>7, <1>9, TargetsCover
  <2>2. HostOf(a) \notin down => a \in gone
    BY <1>3, <2>1 DEF Reachable
  <2> HIDE DEF T, k
  <2>3. CASE i = 3
    <3>1. Kind(a) = "relay"
      BY <2>3, DestroyKinds
    <3>2. HostOf(a) \in down
      BY <1>1, <2>2, <3>1, StripPlain
    <3> QED BY <1>0, <1>9, <2>3, <3>1, <3>2
  <2>4. CASE i = 8
    <3>1. Kind(a) = "dnet"
      BY <2>4, DestroyKinds
    <3>2. Attached(art, HostOf(a)) = {}
      <4> SUFFICES ASSUME NEW b \in art, Kind(b) \in {"anchor", "vd"} PROVE FALSE
        BY DEF Attached, Of
      <4> QED BY <1>5, <1>9, <2>4, DestroyKinds
    <3>3. HostOf(a) \in down
      BY <1>1, <2>2, <3>1, <3>2, StripDnet
    <3> QED BY <1>0, <1>9, <2>4, <3>1, <3>3
  <2>5. CASE i = 9
    <3>1. Kind(a) = "net" /\ a \in gone
      BY <2>5, <1>6, <1>7, <1>9, <2>2, DestroyKinds
    <3>2. <<"dnet", HostOf(a)>> \notin art
      BY <1>5, <1>6, <1>7, <1>9, <2>5, DnetKinds, DestroyKinds
    <3> QED BY <1>1, <3>1, <3>2, StripNet
  <2>6. CASE i \notin {3, 8, 9}
    <3>1. Kind(a) \notin {"net", "dnet", "relay"}
      BY <2>6, DestroyKinds
    <3>2. a \in gone
      BY <1>2, <1>4, <1>9, <2>1, <2>6
    <3> QED BY <1>1, <3>1, <3>2, StripPlain
  <2> QED BY <2>3, <2>4, <2>5, <2>6
<1> QED BY <1>0, <1>8, <1>9

LEMMA DestroyStepKeeps ==
    OnePlacement /\ Chosen /\ NamesInv /\ Steady /\ DestroyInv /\ [LabNext]_labVars => DestroyInv'
<1> SUFFICES ASSUME OnePlacement, Chosen, NamesInv, Steady, DestroyInv, [LabNext]_labVars
             PROVE  DestroyInv'
    OBVIOUS
<1>n. art \subseteq Whole \cup Dnets /\ step \in Nat \ {0} /\ (st = NoState \/ st.on)
    BY DEF NamesInv
<1>k. \A i : KindsAt(i)' = KindsAt(i)
    BY DEF KindsAt
\* Other jobs, and a job that begins.
<1>o. ASSUME job' # "destroy", errs' \in BOOLEAN, job' # "idle" \/ outcome' # "clean" PROVE DestroyInv'
    BY <1>o DEF DestroyInv, Idle
<1>1. CASE UNCHANGED <<art, job, step, errs, outcome, st>> /\ (down \subseteq down' \/ Idle)
    BY <1>1, <1>k DEF DestroyInv, Idle
<1>2. CASE DestroyStep
  <2>1. errs' \in BOOLEAN
    BY <1>2 DEF DestroyStep, DestroyInv
  <2>2. job' = "destroy" /\ outcome' = outcome
    BY <1>2 DEF DestroyStep
  <2>3. ~ errs' => \A a \in art' : \A i \in 1..9 :
             i < step' /\ Kind(a) \in KindsAt(i)
               => Kind(a) \in {"relay", "dnet"} /\ HostOf(a) \in down' /\ step' <= 9
    BY <1>2, DestroyStepClears
  <2> QED BY <2>1, <2>2, <2>3, <1>k DEF DestroyInv, Idle
<1>3. CASE DestroyEnds
  <2>1. /\ job = "destroy" /\ step > 9 /\ st' = NoState /\ job' = "idle" /\ UNCHANGED <<art, errs>>
        /\ outcome' = IF errs THEN "errors" ELSE "clean"
    BY <1>3, PhaseOrder DEF DestroyEnds
  <2>2. ~ errs => art = {}
    <3> SUFFICES ASSUME ~ errs, NEW a \in art PROVE FALSE
      OBVIOUS
    <3>1. PICK i \in 1..9 : Kind(a) \in KindsAt(i)
      BY <1>n, KindsCovered
    <3> QED BY <2>1, <3>1, <1>n DEF DestroyInv
  <2> QED BY <2>1, <2>2 DEF DestroyInv, NoState, Idle
<1>4. CASE RequestDestroy
  <2>1. job' = "destroy" /\ step' = 1 /\ errs' \in BOOLEAN
    BY <1>4 DEF RequestDestroy, Begin
  <2> QED BY <2>1 DEF DestroyInv, Idle
<1>5. CASE RequestDeploy \/ PhaseDone \/ PhaseFails \/ SaveState
    BY <1>5, <1>o DEF RequestDeploy, Begin, PhaseDone, PhaseFails, SaveState, DestroyInv
<1>6. CASE SaveHistory \/ RollbackEnds \/ Crash
    BY <1>6, <1>o DEF SaveHistory, RollbackEnds, Crash, DestroyInv, Idle
<1>7. CASE RollbackPhase
    BY <1>7, <1>o DEF RollbackPhase, DestroyInv
<1>8. ASSUME NEW a, Make(a) PROVE DestroyInv'
    BY <1>8, <1>o DEF Make, DestroyInv
<1>9. ASSUME NEW a, StopVd(a) \/ StartVd(a) PROVE DestroyInv'
  <2>1. job' = "idle" /\ st.on /\ UNCHANGED <<outcome, errs>> /\ Idle
    BY <1>9 DEF StopVd, StartVd, Idle
  <2> QED BY <2>1 DEF DestroyInv, Idle
<1>10. ASSUME NEW h, HostLost(h) \/ HostBack(h) PROVE DestroyInv'
    BY <1>10, <1>1 DEF HostLost, HostBack
<1>11. CASE Age \/ UNCHANGED labVars
    BY <1>11, <1>1 DEF Age, labVars
<1> QED BY <1>2, <1>3, <1>4, <1>5, <1>6, <1>7, <1>8, <1>9, <1>10, <1>11
        DEF LabNext, Work, Request, Environment

\* "Lab destroyed cleanly": a destroy that reports no error leaves nothing of the lab on any
\* host, also when hosts are lost while it runs and earlier deploys failed or were
\* interrupted (DestroyController.run).
THEOREM CleanLeavesNothing == LabSpec => []CleanDestroyIsComplete
<1> DEFINE Inv == OnePlacement /\ Steady => DestroyInv
<1>1. LabInit => Inv
    BY DEF LabInit, DestroyInv, Idle
<1>2. Inv /\ Chosen /\ (OnePlacement => NamesInv) /\ [LabNext]_labVars => Inv'
  <2> SUFFICES ASSUME Inv, Chosen, OnePlacement => NamesInv, [LabNext]_labVars PROVE Inv'
    OBVIOUS
  <2>1. (OnePlacement /\ Steady)' => OnePlacement /\ Steady
    BY DEF LabNext, labVars, OnePlacement, Steady, Faults
  <2> QED BY <2>1, DestroyStepKeeps
<1>3. Inv => CleanDestroyIsComplete
    BY DEF DestroyInv, CleanDestroyIsComplete, Steady
<1> QED BY <1>1, <1>2, <1>3, ChosenAlways, NamesAlways, PTL DEF LabSpec

-----------------------------------------------------------------------------
(* The rollback *)

\* The first deploy: what is on the hosts is on record, but for the docker
\* networks, and the phases on record are those before the current one.
FirstDeploy ==
    /\ step \in 1..13
    /\ done = 1..(IF step <= 11 THEN step - 1 ELSE 11)
    /\ art \subseteq reg \cup Dnets
    /\ step < 4 => art \cap Dnets = {}
    /\ \A a \in reg : \E i \in 1..11 : i <= step /\ a \in Makes(Phases[i])

\* Its rollback: what the failed phase did not make is of a phase still on
\* record, or of a network that containers of the failed phase hold once the
\* management phase is undone.
FirstRollback ==
    /\ \E k \in 0..11 : done = 1..k
    /\ \A a \in art \ Makes(phase) :
        \/ \E i \in done : a \in Makes(Phases[i]) /\ (i = 2 \/ a \in reg)
        \/ a \in Dnets /\ 2 \in done
        \/ 2 \notin done /\ a \in Dnets \cup SetupMgmt /\ Attached(art, HostOf(a)) \cap Makes(phase) # {}

FirstInv ==
    /\ jobs \in Nat /\ downs \in Nat
    /\ downs = 0 => down = {}
    /\ jobs = 0 => art = {} /\ st = NoState /\ Idle
    /\ jobs = 1 => job # "destroy"
    /\ jobs = 1 /\ job = "deploy" => FirstDeploy
    /\ jobs = 1 /\ job = "rollback" /\ downs = 0 /\ Steady => FirstRollback

\* Only the phases of anchors and VDs make docker networks.
LEMMA NetworkMakers ==
    ASSUME Chosen, NEW p, NEW a \in Makes(p)
    PROVE  /\ CreateSet(a) \cap Dnets # {} => p \in {"anchor", "vd"}
           /\ Kind(a) \in {"anchor", "vd"} => p \in {"anchor", "vd"}
<1>1. a \in Whole /\ Kind(a) # "dnet"
    BY PhasesMakeWhole, WholeOnHosts
<1>2. CreateSet(a) \cap Dnets # {} => Kind(a) \in {"anchor", "vd"}
    BY <1>1, DnetKinds DEF CreateSet
<1>3. Kind(a) \in {"anchor", "vd"} => p \in {"anchor", "vd"}
    BY KindsMade DEF Makes
<1> QED BY <1>2, <1>3

LEMMA StripKeeps ==
    ASSUME NEW A, NEW T, NEW a \in A, a \notin T
    PROVE  a \in Strip(A, T)
BY DEF Strip, Of

\* The rollback of a phase on record removes what is on record of it.
LEMMA UndoCovers ==
    ASSUME Chosen, NEW p, p # "mgmt", NEW a \in Makes(p), a \in reg
    PROVE  a \in Undo(p) /\ Kind(a) \notin {"dnet", "net"}
<1>1. Kind(a) \notin {"dnet", "net"}
    BY KindsMade DEF Makes
<1>2. Busy(place) \subseteq Host
    BY ChosenTypes
<1>3. a \in Undo(p)
    BY <1>2 DEF Undo, Makes, DestroyRelays, DeployRelays, DestroyDns, DeployDns, DestroyJumphost,
                DeployJumphost, On
<1> QED BY <1>1, <1>3

\* On hosts that answer, a phase is undone in full.
LEMMA UndoneInFull ==
    ASSUME Steady, down = {}, RollbackPhase, NEW k \in 1..11, done = 1..k
    PROVE  /\ done' = 1..(k - 1)
           /\ k = 2 => art' = Strip(Strip(art, Dnets), TeardownMgmt)
           /\ k # 2 => art' = Strip(art, Undo(Phases[k]))
<1>1. Latest = k
  <2>1. k \in done /\ \A j \in done : j <= k
    OBVIOUS
  <2> QED BY <2>1 DEF Latest
<1>2. \A T, stops : Reachable(T) = T /\ (\A gone \in Removed(T, stops) : gone = T) /\ Silently(T) = {}
  <2>1. \A T : Reachable(T) = T
    BY DEF Reachable
  <2> QED BY <2>1, SteadyRemoval
<1>3. PICK gone \in Removed(Undo(Phases[k]), Phases[k] # "relay") \cup Silently(Undo(Phases[k])) :
        IF Phases[k] = "mgmt" /\ gone = Undo(Phases[k])
        THEN \E brs \in Removed(TeardownMgmt, TRUE) : art' = Strip(Strip(art, gone), brs)
        ELSE art' = Strip(art, gone)
    BY <1>1 DEF RollbackPhase
<1>4. gone = Undo(Phases[k])
    BY <1>2, <1>3
<1>5. Phases[k] = "mgmt" <=> k = 2
    BY PhaseOrder DEF Phases
<1>6. k = 2 => Undo(Phases[k]) = Dnets
    BY <1>5 DEF Undo, DestroyNetwork, Dnets
<1>7. done' = 1..(k - 1)
    BY <1>1 DEF RollbackPhase
<1> QED BY <1>2, <1>3, <1>4, <1>5, <1>6, <1>7

LEMMA FirstRollbackStep ==
    ASSUME Chosen, Steady, down = {}, FirstRollback, RollbackPhase, setting' = setting
    PROVE  FirstRollback'
<1>0. PICK k \in 0..11 : done = 1..k
    BY DEF FirstRollback
<1>1. k \in 1..11 /\ done = 1..k
  <2>1. done # {}
    BY DEF RollbackPhase
  <2>2. 1..0 = {}
    OBVIOUS
  <2> QED BY <1>0, <2>1, <2>2
<1>2. /\ done' = 1..(k - 1)
      /\ k = 2 => art' = Strip(Strip(art, Dnets), TeardownMgmt)
      /\ k # 2 => art' = Strip(art, Undo(Phases[k]))
    BY <1>1, UndoneInFull
<1>3. UNCHANGED <<place, reg, step>> /\ phase' = phase /\ (\A p : Makes(p)' = Makes(p))
      /\ SetupMgmt' = SetupMgmt /\ Dnets' = Dnets
    BY SamePlace DEF RollbackPhase, phase, SetupMgmt, Dnets, On
<1> DEFINE F == Makes(phase)
<1>4. \A a \in art \ F :
        \/ \E i \in done : a \in Makes(Phases[i]) /\ (i = 2 \/ a \in reg)
        \/ a \in Dnets /\ 2 \in done
        \/ 2 \notin done /\ a \in Dnets \cup SetupMgmt /\ Attached(art, HostOf(a)) \cap F # {}
    BY DEF FirstRollback
<1>5. Makes(Phases[1]) = {} /\ Makes(Phases[2]) = SetupMgmt
    BY PhaseOrder DEF Makes
<1>6. art' \subseteq art
    BY <1>2, StripIn
<1> SUFFICES ASSUME NEW a \in art' \ F
             PROVE  \/ \E i \in done' : a \in Makes(Phases[i]) /\ (i = 2 \/ a \in reg)
                    \/ a \in Dnets /\ 2 \in done'
                    \/ /\ 2 \notin done' /\ a \in Dnets \cup SetupMgmt
                       /\ Attached(art', HostOf(a)) \cap F # {}
  <2>1. \E j \in 0..11 : done' = 1..j
    <3>1. k - 1 \in 0..11 /\ done' = 1..(k - 1)
      BY <1>1, <1>2
    <3> QED BY <3>1, Zenon
  <2>2. \A h : Attached(art, h)' = Attached(art', h)
    BY DEF Attached, Of
  <2> QED BY <1>3, <2>1, <2>2 DEF FirstRollback
<1>7. CASE k # 2
  <2>1. CASE \E i \in done : a \in Makes(Phases[i]) /\ (i = 2 \/ a \in reg)
    <3>1. PICK i \in done : a \in Makes(Phases[i]) /\ (i = 2 \/ a \in reg)
      BY <2>1
    <3>2. CASE i = k
      <4>1. a \in reg /\ Phases[k] # "mgmt"
        BY <1>1, <1>7, <3>1, <3>2, PhaseOrder DEF Phases
      <4>2. a \in Undo(Phases[k]) /\ Kind(a) \notin {"dnet", "net"}
        BY <3>1, <3>2, <4>1, UndoCovers
      <4> QED BY <1>2, <1>7, <4>2, StripPlain
    <3>3. CASE i # k
      BY <1>1, <1>2, <3>1, <3>3
    <3> QED BY <3>2, <3>3
  <2>2. CASE a \in Dnets /\ 2 \in done
    BY <1>1, <1>2, <1>7, <2>2
  <2>3. CASE 2 \notin done /\ a \in Dnets \cup SetupMgmt /\ Attached(art, HostOf(a)) \cap F # {}
    <3>1. k = 1 /\ 2 \notin done'
      BY <1>1, <1>2, <2>3
    <3>2. Undo(Phases[k]) = {}
      BY <1>5, <3>1, PhaseOrder DEF Undo
    <3>3. art' = art
      BY <1>2, <1>6, <1>7, <3>2, StripKeeps
    <3> QED BY <2>3, <3>1, <3>3
  <2> QED BY <1>4, <1>6, <2>1, <2>2, <2>3
<1>8. CASE k = 2
  <2>0. 2 \in done /\ done' = {1} /\ a \in Strip(art, Dnets)
    BY <1>1, <1>2, <1>8, StripIn
  <2>1. a \in Dnets \cup SetupMgmt
    BY <1>1, <1>4, <1>5, <1>6, <1>8, <2>0
  <2>2. HostOf(a) \in Host /\ (a \in SetupMgmt => Kind(a) = "net" /\ a \in TeardownMgmt)
    BY <2>1, DnetKinds, KindsMade DEF SetupMgmt, TeardownMgmt
  <2>3. <<"dnet", HostOf(a)>> \in Strip(art, Dnets)
    <3>1. CASE a \in Dnets
      BY <2>0, <3>1, DnetKinds
    <3>2. CASE a \in SetupMgmt
      BY <1>2, <1>8, <2>2, <3>2, StripNet
    <3> QED BY <2>1, <3>1, <3>2
  <2>4. Attached(art, HostOf(a)) # {}
    BY <2>2, <2>3, DnetKinds, StripDnet
  <2>5. PICK b \in art : Kind(b) \in {"anchor", "vd"} /\ HostOf(b) = HostOf(a)
    BY <2>4 DEF Attached, Of
  <2>6. b \in F
    <3>1. b \notin Dnets /\ b \notin SetupMgmt
      BY <2>5, DnetKinds, KindsMade
    <3> QED BY <1>1, <1>4, <1>5, <1>8, <2>0, <3>1
  <2>7. b \in art'
    <3>1. b \notin Dnets /\ b \notin TeardownMgmt
      BY <2>5, DnetKinds, KindsMade DEF SetupMgmt, TeardownMgmt
    <3> QED BY <1>2, <1>8, <3>1, StripKeeps
  <2> QED BY <2>0, <2>1, <2>5, <2>6, <2>7 DEF Attached, Of
<1> QED BY <1>7, <1>8

LEMMA FirstStep == Chosen /\ FirstInv /\ [LabNext]_labVars => FirstInv'
<1> SUFFICES ASSUME Chosen, FirstInv, [LabNext]_labVars PROVE FirstInv'
    OBVIOUS
<1>0. /\ jobs \in Nat /\ downs \in Nat /\ (downs = 0 => down = {})
      /\ jobs = 0 => art = {} /\ st = NoState /\ Idle
      /\ jobs = 1 => job # "destroy"
    BY DEF FirstInv
<1>s. setting' = setting /\ (Steady' <=> Steady)
    BY DEF LabNext, labVars, Steady, Faults
<1>d. Dnets' = Dnets
    BY DEF Dnets, On
\* A step that leaves the first job, or that comes after it.
<1>o. ASSUME jobs' \in Nat, downs' \in Nat, downs' = 0 => down' = {},
             jobs' = 0 => art' = {} /\ st' = NoState /\ job' = "idle",
             jobs' = 1 => job' = "idle"
      PROVE  FirstInv'
    BY <1>o DEF FirstInv, Idle
<1>1. CASE UNCHANGED <<art, st, job, place, step, reg, done, jobs>>
           /\ downs' \in Nat /\ (downs' = 0 => downs = 0 /\ down' = {})
  <2>1. phase' = phase /\ (\A p : Makes(p)' = Makes(p)) /\ SetupMgmt' = SetupMgmt
    BY <1>1, <1>s, SamePlace DEF phase, SetupMgmt, On
  <2>2. FirstDeploy => FirstDeploy'
    BY <1>1, <1>d, <2>1 DEF FirstDeploy
  <2>3. FirstRollback => FirstRollback'
    BY <1>1, <1>d, <2>1 DEF FirstRollback, Attached, Of
  <2> QED BY <1>1, <1>s, <2>2, <2>3 DEF FirstInv, Idle
\* A step of a deploy keeps the jobs and the hosts.
<1>p. ASSUME job = "deploy", UNCHANGED <<down, downs, jobs>>,
             jobs = 1 /\ job' = "deploy" => FirstDeploy',
             jobs = 1 /\ job' = "rollback" /\ downs = 0 /\ Steady => FirstRollback',
             job' \in {"idle", "deploy", "rollback"}
      PROVE  FirstInv'
    BY <1>p, <1>0, <1>s DEF FirstInv, Idle
<1>q. jobs = 1 /\ job = "deploy" =>
        /\ step \in 1..13 /\ done = 1..(IF step <= 11 THEN step - 1 ELSE 11)
        /\ art \subseteq reg \cup Dnets /\ (step < 4 => art \cap Dnets = {})
        /\ \A a \in reg : \E i \in 1..11 : i <= step /\ a \in Makes(Phases[i])
        /\ step <= 11 => phase = Phases[step] /\ (phase \in {"anchor", "vd"} => step >= 4)
  <2>1. step \in 1..11 => phase = Phases[step] /\ (Phases[step] \in {"anchor", "vd"} => step >= 4)
    BY PhaseOrder DEF phase, Phases
  <2> QED BY <2>1 DEF FirstInv, FirstDeploy
<1>2. ASSUME NEW a, Make(a) PROVE FirstInv'
  <2>1. /\ job = "deploy" /\ step <= 11 /\ a \in Makes(phase) /\ art' = art \cup CreateSet(a)
        /\ reg' = reg \cup {a} /\ UNCHANGED <<place, down, job, step, done, jobs, downs>>
    BY <1>2, PhaseOrder DEF Make, Missing
  <2>2. \A p : Makes(p)' = Makes(p)
    BY <2>1, <1>s, SamePlace
  <2>3. a \in Whole /\ CreateSet(a) \subseteq {a} \cup Dnets
    BY <2>1, PhasesMakeWhole, Created
  <2>4. CreateSet(a) \cap Dnets # {} => phase \in {"anchor", "vd"}
    BY <2>1, NetworkMakers
  <2>5. jobs = 1 => FirstDeploy'
    <3> SUFFICES ASSUME jobs = 1 PROVE FirstDeploy'
      OBVIOUS
    <3>1. art' \subseteq reg' \cup Dnets
      BY <1>q, <2>1, <2>3
    <3>2. step < 4 => art' \cap Dnets = {}
      BY <1>q, <2>1, <2>4
    <3>3. \A b \in reg' : \E i \in 1..11 : i <= step /\ b \in Makes(Phases[i])
      BY <1>q, <2>1
    <3> QED BY <1>q, <1>d, <2>1, <2>2, <3>1, <3>2, <3>3 DEF FirstDeploy
  <2> QED BY <1>p, <2>1, <2>5
<1>3. CASE PhaseDone
  <2>1. /\ job = "deploy" /\ step <= 11 /\ art' \subseteq art /\ step' = step + 1
        /\ done' = done \cup {step} /\ UNCHANGED <<place, down, job, reg, jobs, downs>>
    BY <1>3, PhaseOrder DEF PhaseDone
  <2>2. \A p : Makes(p)' = Makes(p)
    BY <2>1, <1>s, SamePlace
  <2>3. jobs = 1 => FirstDeploy'
    <3> SUFFICES ASSUME jobs = 1 PROVE FirstDeploy'
      OBVIOUS
    <3>1. step \in 1..11 /\ done' = 1..(IF step' <= 11 THEN step' - 1 ELSE 11)
      <4>1. step \in 1..11 /\ done' = (1..(step - 1)) \cup {step} /\ step' = step + 1
        BY <1>q, <2>1
      <4>2. (1..(step - 1)) \cup {step} = 1..step
        BY <4>1
      <4>3. (IF step' <= 11 THEN step' - 1 ELSE 11) = step
        BY <4>1
      <4> QED BY <4>1, <4>2, <4>3
    <3>2. \A b \in reg : \E i \in 1..11 : i <= step' /\ b \in Makes(Phases[i])
      BY <1>q, <2>1, <3>1
    <3> QED BY <1>q, <1>d, <2>1, <2>2, <3>1, <3>2 DEF FirstDeploy
  <2> QED BY <1>p, <2>1, <2>3
<1>4. CASE PhaseFails
  <2>1. /\ job = "deploy" /\ step <= 11 /\ job' = "rollback" /\ done' = RecordFailed(done)
        /\ UNCHANGED <<place, down, step, reg, jobs, downs>>
    BY <1>4, PhaseOrder DEF PhaseFails
  <2>2. PICK part \in Partial : art' \subseteq art \cup part
    BY <1>4 DEF PhaseFails
  <2>3. part \subseteq Makes(phase) \cup Dnets
    BY PartialIn DEF Missing
  <2>4. part \cap Dnets # {} => phase \in {"anchor", "vd"}
    <3>1. Reachable(Missing) \subseteq Makes(phase)
      BY DEF Reachable, Missing
    <3>2. \E b \in SUBSET Reachable(Missing) : part \subseteq CreateAll(b)
      BY DEF Partial
    <3>3. \A e \in part : \E m \in Makes(phase) : e \in CreateSet(m)
      BY <3>1, <3>2 DEF CreateAll
    <3> QED BY <3>3, NetworkMakers
  <2>5. /\ phase' = phase /\ \A p : Makes(p)' = Makes(p)
        /\ SetupMgmt' = SetupMgmt
    BY <2>1, <1>s, SamePlace DEF phase, SetupMgmt, On
  <2>6. jobs = 1 => FirstRollback'
    <3> SUFFICES ASSUME jobs = 1 PROVE FirstRollback'
      OBVIOUS
    <3>1. step \in 1..11 /\ done = 1..(step - 1) /\ phase = Phases[step]
      BY <1>q, <2>1
    <3>2. done' = 1..(step - 1) \/ done' = 1..step
      <4>1. 1..(step - 1) \cup {step} = 1..step
        BY <3>1
      <4> QED BY <2>1, <3>1, <4>1 DEF RecordFailed
    <3>3. \E k \in 0..11 : done' = 1..k
      <4>1. step - 1 \in 0..11 /\ step \in 0..11
        BY <3>1
      <4> QED BY <3>2, <4>1, Zenon
    <3>4. ASSUME NEW a \in art', a \notin Makes(phase)
          PROVE  \/ \E i \in done' : a \in Makes(Phases[i]) /\ a \in reg
                 \/ a \in Dnets /\ 2 \in done'
      <4>1. CASE a \in Dnets
        <5>1. step >= 4
          BY <1>q, <2>1, <2>2, <2>4, <3>1, <3>4, <4>1
        <5> QED BY <3>1, <3>2, <4>1, <5>1
      <4>2. CASE a \notin Dnets
        <5>1. a \in reg
          BY <1>q, <2>1, <2>2, <2>3, <3>4, <4>2
        <5>2. PICK i \in 1..11 : i <= step /\ a \in Makes(Phases[i])
          BY <1>q, <2>1, <5>1
        <5>3. i # step
          BY <3>1, <3>4, <5>2
        <5>4. i \in done'
          BY <3>1, <3>2, <5>2, <5>3
        <5> QED BY <5>1, <5>2, <5>4
      <4> QED BY <4>1, <4>2
    <3> QED BY <1>d, <2>1, <2>5, <3>3, <3>4 DEF FirstRollback
  <2> QED BY <1>p, <2>1, <2>6
<1>5. CASE SaveState
  <2>1. /\ job = "deploy" /\ step = 12 /\ step' = 13
        /\ UNCHANGED <<art, place, down, job, reg, done, jobs, downs>>
    BY <1>5, PhaseOrder DEF SaveState
  <2>2. \A p : Makes(p)' = Makes(p)
    BY <2>1, <1>s, SamePlace
  <2>3. jobs = 1 => FirstDeploy'
    BY <1>q, <1>d, <2>1, <2>2 DEF FirstDeploy
  <2> QED BY <1>p, <2>1, <2>3
<1>6. CASE SaveHistory
  <2>1. /\ job = "deploy" /\ step = 13 /\ job' \in {"idle", "rollback"}
        /\ UNCHANGED <<art, place, down, step, reg, done, jobs, downs>>
    BY <1>6, PhaseOrder DEF SaveHistory
  <2>2. /\ phase' = phase /\ (\A p : Makes(p)' = Makes(p)) /\ SetupMgmt' = SetupMgmt
    BY <2>1, <1>s, SamePlace DEF phase, SetupMgmt, On
  <2>3. jobs = 1 => FirstRollback'
    <3> SUFFICES ASSUME jobs = 1 PROVE FirstRollback'
      OBVIOUS
    <3>1. done = 1..11 /\ 2 \in done
      BY <1>q, <2>1
    <3>2. \A a \in art : (\E i \in done : a \in Makes(Phases[i]) /\ a \in reg) \/ a \in Dnets
      BY <1>q, <2>1, <3>1
    <3>3. \E k \in 0..11 : done' = 1..k
      <4>1. 11 \in 0..11
        OBVIOUS
      <4> QED BY <2>1, <3>1, <4>1, Zenon
    <3> QED BY <1>d, <2>1, <2>2, <3>1, <3>2, <3>3 DEF FirstRollback
  <2> QED BY <1>p, <2>1, <2>3
<1>7. CASE RollbackPhase
  <2>1. job = "rollback" /\ UNCHANGED <<job, down, downs, jobs>>
    BY <1>7 DEF RollbackPhase
  <2>2. jobs # 0
    BY <1>0, <2>1 DEF Idle
  <2>3. jobs = 1 /\ downs = 0 /\ Steady => FirstRollback'
    BY <1>7, <1>0, <1>s, <2>1, FirstRollbackStep DEF FirstInv
  <2> QED BY <1>0, <1>s, <2>1, <2>2, <2>3 DEF FirstInv
<1>8. CASE RequestDeploy
  <2>1. /\ jobs' = jobs + 1 /\ job' = "deploy" /\ step' = 1 /\ reg' = {} /\ done' = {}
        /\ UNCHANGED <<art, down, downs>>
    BY <1>8 DEF RequestDeploy, Begin
  <2>2. jobs = 0 => FirstDeploy'
    BY <1>0, <2>1 DEF FirstDeploy
  <2> QED BY <1>0, <2>1, <2>2 DEF FirstInv
<1>9. CASE RequestDestroy
  <2>1. jobs' = jobs + 1 /\ st.on /\ UNCHANGED <<down, downs>>
    BY <1>9 DEF RequestDestroy, Begin
  <2>2. jobs # 0
    BY <1>0, <2>1 DEF NoState
  <2> QED BY <1>0, <2>1, <2>2 DEF FirstInv
<1>10. CASE RollbackEnds \/ Crash
  <2>1. jobs # 0
    BY <1>10, <1>0 DEF RollbackEnds, Crash, Idle
  <2> QED BY <1>10, <1>0, <1>o, <2>1 DEF RollbackEnds, Crash
<1>11. CASE DestroyStep \/ DestroyEnds
  <2>1. job = "destroy" /\ UNCHANGED <<jobs, down, downs>>
    BY <1>11 DEF DestroyStep, DestroyEnds
  <2>2. jobs # 0 /\ jobs # 1
    BY <1>0, <2>1 DEF Idle
  <2> QED BY <1>0, <2>1, <2>2 DEF FirstInv
<1>12. ASSUME NEW a, StopVd(a) \/ StartVd(a) PROVE FirstInv'
  <2>1. st.on /\ job' = "idle" /\ UNCHANGED <<jobs, down, downs>>
    BY <1>12 DEF StopVd, StartVd, Idle
  <2>2. jobs # 0
    BY <1>0, <2>1 DEF NoState
  <2> QED BY <1>0, <1>o, <2>1, <2>2
<1>13. ASSUME NEW h, HostLost(h) PROVE FirstInv'
    BY <1>13, <1>0, <1>1 DEF HostLost
<1>14. ASSUME NEW h, HostBack(h) PROVE FirstInv'
    BY <1>14, <1>0, <1>1 DEF HostBack
<1>15. CASE Age \/ UNCHANGED labVars
    BY <1>15, <1>0, <1>1 DEF Age, labVars
<1> QED BY <1>2, <1>3, <1>4, <1>5, <1>6, <1>7, <1>8, <1>9, <1>10, <1>11, <1>12, <1>13, <1>14, <1>15
        DEF LabNext, Work, Request, Environment

\* A failed first deploy, rolled back over hosts that answer, leaves only what the failing
\* phase made itself and the networks its containers hold: the phases are undone in an order
\* in which docker lets them (DeployController._rollback).
THEOREM RollbackUndoesPhases == LabSpec => []RollbackLeavesFailedPhase
<1>1. LabInit => FirstInv
    BY DEF LabInit, FirstInv, Idle
<1>2. Chosen /\ FirstInv => RollbackLeavesFailedPhase
  <2> SUFFICES ASSUME Chosen, FirstInv, job = "rollback", done = {}, jobs = 1, downs = 0, Steady,
                      NEW a \in art \ Makes(phase)
               PROVE  Kind(a) \in {"dnet", "net"} /\ Attached(art, HostOf(a)) \cap Makes(phase) # {}
    BY DEF RollbackLeavesFailedPhase, Steady
  <2>1. a \in Dnets \cup SetupMgmt /\ Attached(art, HostOf(a)) \cap Makes(phase) # {}
    BY DEF FirstInv, FirstRollback
  <2> QED BY <2>1, DnetKinds, KindsMade
<1> QED BY <1>1, <1>2, FirstStep, ChosenAlways, PTL DEF LabSpec

-----------------------------------------------------------------------------
(* The cleanup pass of the API *)

\* The state file, and the record of a deploy, name artifacts of known hosts.
OnHosts == Chosen /\ \A a \in reg \cup st.names : HostOf(a) \in Host

\* Under the lock nothing but the pass itself changes the lab: it has read the
\* state file as it is, the inventories show every VD of the hosts that
\* answered, and a plan is made only for a lab without a running VD.
PassInv ==
    /\ inv = [h \in Host |-> inv[h]]
    /\ mode = "api" /\ pass # "idle" => Idle
    /\ mode = "api" /\ pass = "scan" =>
         /\ snap = st
         /\ \A h \in Host : inv[h].ok /\ "docker" \notin Faults
                => Of({"vd"}, OnHost(art, h)) \subseteq inv[h].seen
    /\ mode = "api" /\ pass = "execute" /\ plan # {} /\ st.on /\ "docker" \notin Faults
         => Of({"vd"}, art \cap st.names) = {}

LEMMA OnHostsStep == OnHosts /\ [LabNext]_labVars => OnHosts'
<1> SUFFICES ASSUME OnHosts, [LabNext]_labVars PROVE OnHosts'
    OBVIOUS
<1>1. Chosen'
    BY ChosenStep DEF OnHosts
<1>2. ASSUME NEW a \in Missing, Make(a) PROVE OnHosts'
  <2>1. reg' = reg \cup {a} /\ st' = st
    BY <1>2 DEF Make
  <2>2. HostOf(a) \in Host
    BY <1>2, PhasesMakeWhole, WholeOnHosts DEF OnHosts, Missing
  <2> QED BY <1>1, <2>1, <2>2 DEF OnHosts
<1>3. CASE SaveState
  <2>1. st'.names = reg /\ reg' = reg
    BY <1>3 DEF SaveState
  <2> QED BY <1>1, <2>1 DEF OnHosts
<1>4. CASE RequestDeploy \/ RequestDestroy
    BY <1>1, <1>4 DEF RequestDeploy, RequestDestroy, Begin, OnHosts
<1>5. CASE DestroyEnds
    BY <1>1, <1>5 DEF DestroyEnds, NoState, OnHosts
<1>6. CASE UNCHANGED <<reg, st>>
    BY <1>1, <1>6 DEF OnHosts
<1>7. UNCHANGED <<reg, st>> \/ SaveState \/ RequestDeploy \/ RequestDestroy \/ DestroyEnds
        \/ \E a \in Missing : Make(a)
    BY DEF LabNext, Work, Request, Environment, PhaseDone, PhaseFails, SaveHistory,
       RollbackPhase, RollbackEnds, DestroyStep, StopVd, StartVd, Crash, Age, HostLost, HostBack, labVars
<1> QED BY <1>2, <1>3, <1>4, <1>5, <1>6, <1>7

\* Every step of the lab beside the pass keeps what the pass relies on.
LEMMA LabBeside ==
    ASSUME PassInv, Lab
    PROVE  PassInv'
<1>1. UNCHANGED <<pass, snap, inv, plan, setting>>
    BY DEF Lab, cleanVars
<1>2. ASSUME mode = "api", pass # "idle" PROVE UNCHANGED <<art, st, job>>
  <2>1. Idle /\ job = "idle" /\ ~ LockFree
    BY <1>2 DEF PassInv, LockFree, Idle
  <2>2. ~ Work
    BY <2>1 DEF Work, Make, PhaseDone, PhaseFails, SaveState, SaveHistory, RollbackPhase,
                RollbackEnds, DestroyStep, DestroyEnds
  <2>3. Environment
    BY <2>1, <2>2 DEF Lab
  <2> QED BY <2>1, <2>3 DEF Environment, Crash, Age, HostLost, HostBack
<1>3. CASE mode = "api" /\ pass # "idle"
  <2>1. UNCHANGED <<art, st, job>>
    BY <1>2, <1>3
  <2> QED BY <1>1, <1>3, <2>1 DEF PassInv, mode, Idle, Faults, Of, OnHost
<1>4. CASE ~ (mode = "api" /\ pass # "idle")
    BY <1>1, <1>4 DEF PassInv, mode
<1> QED BY <1>3, <1>4

\* A pass makes a plan only for a lab none of whose VDs runs: a VD on a host
\* that answered is in the inventory, one on another host blocks the plan.
LEMMA PlanSpares ==
    ASSUME OnHosts, PassInv, mode = "api", BuildPlan, plan' # {}, st.on, "docker" \notin Faults
    PROVE  Of({"vd"}, art \cap st.names) = {}
<1>1. snap = st /\ ~ Protected
    BY DEF PassInv, BuildPlan
<1> SUFFICES ASSUME NEW a \in Of({"vd"}, art \cap st.names) PROVE FALSE
    OBVIOUS
<1>2. a \in art /\ a \in st.names /\ Kind(a) = "vd" /\ HostOf(a) \in Host
    BY DEF Of, OnHosts
<1>3. CASE inv[HostOf(a)].ok
  <2>1. a \in inv[HostOf(a)].seen
    BY <1>2, <1>3 DEF PassInv, BuildPlan, Of, OnHost
  <2>2. a \in Seen
    BY <1>2, <2>1 DEF Seen
  <2>3. a[3] \in Names(Seen) /\ a[3] \in Names(snap.names)
    BY <1>1, <1>2, <2>2 DEF Names, Of
  <2> QED BY <1>1, <2>3 DEF Protected, HasRunningVd
<1>4. CASE ~ inv[HostOf(a)].ok
  <2>1. a \in Expected(snap)
    BY <1>1, <1>2 DEF Expected
  <2> QED BY <1>1, <1>4, <2>1 DEF Protected, HostMissing
<1> QED BY <1>3, <1>4

LEMMA PassStepKeeps ==
    ASSUME OnHosts, PassInv, StartPass \/ PassStep \/ PassDies
    PROVE  PassInv'
<1>1. CASE StartPass
  <2>1. /\ pass' = "scan" /\ snap' = st /\ inv' = [h \in Host |-> NotYet] /\ UNCHANGED labVars
        /\ mode = "api" => Idle
    BY <1>1 DEF StartPass
  <2>2. \A h \in Host : ~ inv'[h].ok
    BY <2>1 DEF NotYet
  <2> QED BY <2>1, <2>2 DEF PassInv, mode, labVars, Idle
<1>2. ASSUME NEW h \in Host, Inventory(h) PROVE PassInv'
  <2>1. pass = "scan" /\ pass' = "scan" /\ UNCHANGED labVars /\ UNCHANGED snap
    BY <1>2 DEF Inventory
  <2>2. PICK r : /\ inv' = [inv EXCEPT ![h] = r]
                 /\ r.ok /\ "docker" \notin Faults => Of({"vd"}, OnHost(art, h)) \subseteq r.seen
    <3>1. CASE h \in down
      <4>1. inv' = [inv EXCEPT ![h] = [NotYet EXCEPT !.known = TRUE]]
        BY <1>2, <3>1 DEF Inventory
      <4>2. ~ [NotYet EXCEPT !.known = TRUE].ok
        BY DEF NotYet
      <4> QED BY <4>1, <4>2
    <3>2. CASE h \notin down
      <4>1. PICK docker \in BOOLEAN : /\ inv' = [inv EXCEPT ![h] = Listing(h, docker)]
                                      /\ "docker" \notin Faults => docker
        BY <1>2, <3>2 DEF Inventory
      <4>2. docker => Of({"vd"}, OnHost(art, h)) \subseteq Listing(h, docker).seen
        BY DEF Listing, Of, Container
      <4> QED BY <4>1, <4>2
    <3> QED BY <3>1, <3>2
  <2>3. inv' = [x \in Host |-> IF x = h THEN r ELSE inv[x]]
    BY <2>2 DEF PassInv
  <2>4. \A x \in Host : inv'[x] = IF x = h THEN r ELSE inv[x]
    BY <2>3
  <2>5. inv' = [x \in Host |-> inv'[x]]
    BY <2>3
  <2>6. ASSUME mode = "api" PROVE Idle' /\ snap' = st' /\ \A x \in Host : inv'[x].ok /\ "docker" \notin Faults'
                => Of({"vd"}, OnHost(art, x))' \subseteq inv'[x].seen
    BY <2>1, <2>2, <2>4, <2>6 DEF PassInv, labVars, Faults, Idle, Of, OnHost
  <2> QED BY <2>1, <2>5, <2>6 DEF PassInv, labVars, mode
<1>3. CASE BuildPlan
  <2>1. pass = "scan" /\ pass' = "execute" /\ UNCHANGED labVars /\ inv' = [h \in Host |-> NotYet]
    BY <1>3 DEF BuildPlan
  <2>2. mode = "api" /\ plan' # {} /\ st.on /\ "docker" \notin Faults => Of({"vd"}, art \cap st.names) = {}
    BY <1>3, PlanSpares
  <2> QED BY <2>1, <2>2 DEF PassInv, labVars, mode, Idle, Faults, Of
<1>4. ASSUME NEW a \in plan, Execute(a) PROVE PassInv'
  <2>1. pass = "execute" /\ pass' = "execute" /\ UNCHANGED <<st, job, setting, inv>> /\ plan # {}
    BY <1>4 DEF Execute
  <2>2. art' \subseteq art
    BY <1>4, StripIn DEF Execute
  <2> QED BY <2>1, <2>2 DEF PassInv, mode, Idle, Faults, Of
<1>5. CASE EndPass
    BY <1>5 DEF EndPass, PassInv, labVars, mode
<1>6. CASE PassDies
  <2>1. pass' = "idle" /\ inv' = [h \in Host |-> NotYet]
    BY <1>6 DEF PassDies
  <2> QED BY <2>1 DEF PassInv
<1> QED BY <1>1, <1>2, <1>3, <1>4, <1>5, <1>6 DEF PassStep

LEMMA PassInvariant == Spec => [](OnHosts /\ PassInv)
<1>1. Init => OnHosts /\ PassInv
  <2> SUFFICES ASSUME Init PROVE OnHosts /\ PassInv
    OBVIOUS
  <2>1. OnHosts
    BY DEF Init, LabInit, OnHosts, Chosen, NoState
  <2>2. inv = [h \in Host |-> NotYet] /\ pass = "idle"
    BY DEF Init
  <2> QED BY <2>1, <2>2 DEF PassInv
<1>2. OnHosts /\ PassInv /\ [Next]_allVars => (OnHosts /\ PassInv)'
  <2> SUFFICES ASSUME OnHosts, PassInv, [Next]_allVars PROVE OnHosts' /\ PassInv'
    OBVIOUS
  <2>1. CASE Lab
    BY <2>1, LabBeside, OnHostsStep DEF Lab, LabNext
  <2>2. CASE StartPass \/ PassStep \/ PassDies
    <3>1. UNCHANGED <<place, setting, reg, st>>
      BY <2>2 DEF StartPass, PassStep, PassDies, Inventory, BuildPlan, Execute, EndPass, labVars
    <3> QED BY <2>2, <3>1, PassStepKeeps DEF OnHosts, Chosen
  <2>3. CASE UNCHANGED allVars
    BY <2>3 DEF allVars, labVars, cleanVars, OnHosts, Chosen, PassInv, mode, Idle, Faults, Of, OnHost
  <2> QED BY <2>1, <2>2, <2>3 DEF Next
<1> QED BY <1>1, <1>2, PTL DEF Spec

\* A pass that the API runs under the lock removes nothing of a lab that is
\* deployed and has a running VD (build_cleanup_plan), for every set of hosts
\* and VDs and however hosts come and go; docker ps does not fail (a listing
\* that fails counts as empty, which the run of lab_docker_fails shows).
THEOREM PassSparesLive ==
    ASSUME \A s \in Settings : "docker" \notin s.faults
    PROVE  Spec => CleanupSparesLive
<1>1. OnHosts /\ PassInv /\ [Next]_allVars => [mode = "api" => SparesLive]_allVars
  <2> SUFFICES ASSUME OnHosts, PassInv, Next, mode = "api", plan' # plan, pass = "execute", st.on,
                      Of({"vd"}, art \cap st.names) # {}
               PROVE  art' = art
    BY DEF SparesLive
  <2>1. plan = {}
    BY DEF PassInv, OnHosts, Chosen, Faults
  <2>2. ~ Lab /\ ~ EndPass /\ ~ BuildPlan /\ \A h : ~ Inventory(h)
    BY DEF Lab, cleanVars, EndPass, BuildPlan, Inventory
  <2>3. StartPass \/ PassDies
    BY <2>1, <2>2 DEF Next, PassStep
  <2> QED BY <2>3 DEF StartPass, PassDies, labVars
<1> QED BY <1>1, PassInvariant, PTL DEF Spec, CleanupSparesLive

-----------------------------------------------------------------------------
(* The grace period *)

\* The young artifacts are containers of the lab.
YoungInv == young \subseteq Of(Container, art)

LEMMA YoungStep == YoungInv /\ [LabNext]_labVars => YoungInv'
<1> SUFFICES ASSUME YoungInv, [LabNext]_labVars PROVE YoungInv'
    OBVIOUS
<1>1. ASSUME young' = young \cap art' PROVE YoungInv'
    BY <1>1 DEF YoungInv, Of
<1>2. ASSUME NEW a \in Missing, Make(a) PROVE YoungInv'
  <2>1. art' = art \cup CreateSet(a) /\ young' = young \cup Of(Container, {a}) /\ a \in CreateSet(a)
    BY <1>2 DEF Make, CreateSet
  <2> QED BY <2>1 DEF YoungInv, Of
<1>3. CASE PhaseFails
  <2>1. PICK part \in Partial, swept \in SUBSET Reachable(Sweeps(phase)) :
            /\ art' = (art \ swept) \cup part
            /\ young' = (young \cap art') \cup Of(Container, part \ art)
    BY <1>3 DEF PhaseFails
  <2> QED BY <2>1 DEF YoungInv, Of
<1>4. ASSUME NEW a, StopVd(a) PROVE YoungInv'
    BY <1>4 DEF StopVd, YoungInv, Of
<1>5. ASSUME NEW a \in Of({"vd"}, st.names), StartVd(a) PROVE YoungInv'
  <2>1. art' = art \cup CreateSet(a) /\ young' = young \cup {a} /\ a \in CreateSet(a) /\ Kind(a) = "vd"
    BY <1>5 DEF StartVd, CreateSet, Of
  <2> QED BY <2>1 DEF YoungInv, Of, Container
<1>6. CASE young' = {}
    BY <1>6 DEF YoungInv
<1>7. CASE UNCHANGED <<art, young>>
    BY <1>7 DEF YoungInv, Of
<1>8. \/ young' = young \cap art' \/ young' = {} \/ PhaseFails \/ UNCHANGED <<art, young>>
      \/ \E a \in Missing : Make(a)
      \/ \E a \in Of({"vd"}, st.names) : StopVd(a) \/ StartVd(a)
    BY DEF LabNext, Work, Request, Environment, PhaseDone, SaveState, SaveHistory, RollbackPhase,
           RollbackEnds, DestroyStep, DestroyEnds, RequestDeploy, RequestDestroy, Begin, Crash, Age,
           HostLost, HostBack, labVars
<1> QED BY <1>1, <1>2, <1>3, <1>4, <1>5, <1>6, <1>7, <1>8

\* Under the lock a young container only grows old.  While the pass scans, a
\* host that answered shows its containers, and a listing with a young one is
\* fresh; a plan names no young container.
GraceInv ==
    /\ YoungInv
    /\ mode = "api" /\ pass = "scan" =>
         \A h \in Host :
            /\ inv[h].ok => Of(Container, OnHost(art, h)) \subseteq inv[h].seen
            /\ young \cap inv[h].seen # {} => inv[h].fresh
            /\ \A a \in inv[h].nets : Kind(a) \in {"net", "dnet"}
    /\ mode = "api" /\ pass = "execute" => young \cap plan = {}

\* A plan for a lab out of grace names no young container: one that was seen
\* makes its host fresh, and one on a host that did not answer blocks the plan
\* if the state file names it and is unknown to the plan otherwise.
LEMMA PlanOutOfGrace ==
    ASSUME OnHosts, PassInv, GraceInv, mode = "api", BuildPlan
    PROVE  young \cap plan' = {}
<1>1. snap = st /\ pass = "scan" /\ plan' = IF Protected THEN {} ELSE Stale
    BY DEF PassInv, BuildPlan
<1> SUFFICES ASSUME NEW a \in young, ~ Protected, a \in Stale PROVE FALSE
    BY <1>1
<1>2. a \in art /\ Kind(a) \in Container
    BY DEF GraceInv, YoungInv, Of
<1>3. ASSUME NEW h \in Host, a \in inv[h].seen PROVE FALSE
    BY <1>1, <1>3 DEF GraceInv, Protected, InGrace
<1>4. CASE a \in Of(Container, Seen)
    BY <1>3, <1>4 DEF Of, Seen
<1>5. CASE a \in UNION {inv[h].nets : h \in Host}
    BY <1>1, <1>2, <1>5 DEF GraceInv, Container
<1>6. CASE a \in Expected(snap)
  <2>1. HostOf(a) \in Host /\ inv[HostOf(a)].ok
    BY <1>1, <1>6 DEF OnHosts, Expected, Protected, HostMissing
  <2>2. a \in inv[HostOf(a)].seen
    BY <1>1, <1>2, <2>1 DEF GraceInv, Of, OnHost
  <2> QED BY <1>3, <2>1, <2>2
<1> QED BY <1>4, <1>5, <1>6 DEF Stale

LEMMA GraceStep ==
    ASSUME OnHosts, PassInv, GraceInv, [Next]_allVars, "docker" \notin Faults
    PROVE  GraceInv'
<1>1. CASE Lab
  <2>1. YoungInv' /\ UNCHANGED <<pass, inv, plan, setting>>
    BY <1>1, YoungStep DEF GraceInv, Lab, LabNext, cleanVars
  <2>2. ASSUME mode = "api", pass # "idle" PROVE art' = art /\ young' \subseteq young
    <3>1. Idle /\ job = "idle" /\ ~ LockFree
      BY <2>2 DEF PassInv, LockFree, Idle
    <3>2. ~ Work
      BY <3>1 DEF Work, Make, PhaseDone, PhaseFails, SaveState, SaveHistory, RollbackPhase,
                  RollbackEnds, DestroyStep, DestroyEnds
    <3>3. Environment
      BY <1>1, <3>1, <3>2 DEF Lab
    <3> QED BY <3>1, <3>3 DEF Environment, Crash, Age, HostLost, HostBack
  <2>3. CASE mode = "api" /\ pass # "idle"
    BY <2>1, <2>2, <2>3 DEF GraceInv, mode, OnHost
  <2>4. CASE ~ (mode = "api" /\ pass # "idle")
    BY <2>1, <2>4 DEF GraceInv, mode
  <2> QED BY <2>3, <2>4
<1>2. CASE StartPass
  <2>1. /\ inv' = [h \in Host |-> NotYet] /\ pass' = "scan" /\ UNCHANGED labVars
    BY <1>2 DEF StartPass
  <2>2. \A h \in Host : inv'[h] = NotYet
    BY <2>1
  <2> QED BY <2>1, <2>2 DEF GraceInv, YoungInv, NotYet, labVars
<1>3. ASSUME NEW h \in Host, Inventory(h) PROVE GraceInv'
  <2>1. pass = "scan" /\ pass' = "scan" /\ UNCHANGED labVars
    BY <1>3 DEF Inventory
  <2>2. PICK r : /\ inv' = [inv EXCEPT ![h] = r]
                 /\ r.ok => Of(Container, OnHost(art, h)) \subseteq r.seen
                 /\ young \cap r.seen # {} => r.fresh
                 /\ \A a \in r.nets : Kind(a) \in {"net", "dnet"}
    <3>1. CASE h \in down
      <4>1. inv' = [inv EXCEPT ![h] = [NotYet EXCEPT !.known = TRUE]]
        BY <1>3, <3>1 DEF Inventory
      <4>2. LET r == [NotYet EXCEPT !.known = TRUE] IN ~ r.ok /\ r.seen = {} /\ r.nets = {}
        BY DEF NotYet
      <4> QED BY <4>1, <4>2
    <3>2. CASE h \notin down
      <4>1. inv' = [inv EXCEPT ![h] = Listing(h, TRUE)]
        BY <1>3, <3>2 DEF Inventory
      <4>2. /\ Of(Container, OnHost(art, h)) \subseteq Listing(h, TRUE).seen
            /\ young \cap Listing(h, TRUE).seen # {} => Listing(h, TRUE).fresh
            /\ \A a \in Listing(h, TRUE).nets : Kind(a) \in {"net", "dnet"}
        BY DEF Listing, Of
      <4> QED BY <4>1, <4>2
    <3> QED BY <3>1, <3>2
  <2>3. \A x \in Host : inv'[x] = IF x = h THEN r ELSE inv[x]
    BY <2>2 DEF PassInv
  <2> QED BY <2>1, <2>2, <2>3 DEF GraceInv, YoungInv, labVars, mode, OnHost
<1>4. CASE BuildPlan
  <2>1. pass = "scan" /\ pass' = "execute" /\ UNCHANGED labVars
    BY <1>4 DEF BuildPlan
  <2>2. mode = "api" => young \cap plan' = {}
    BY <1>4, PlanOutOfGrace
  <2> QED BY <2>1, <2>2 DEF GraceInv, YoungInv, labVars, mode
<1>5. ASSUME NEW a \in plan, Execute(a) PROVE GraceInv'
  <2>1. pass' = "execute" /\ plan' \subseteq plan /\ young' = young \cap art' /\ UNCHANGED setting
        /\ pass = "execute"
    BY <1>5 DEF Execute
  <2> QED BY <2>1 DEF GraceInv, YoungInv, Of, mode
<1>6. CASE EndPass \/ PassDies
    BY <1>6 DEF EndPass, PassDies, GraceInv, YoungInv, labVars
<1>7. CASE UNCHANGED allVars
    BY <1>7 DEF allVars, labVars, cleanVars, GraceInv, YoungInv, mode, OnHost
<1> QED BY <1>1, <1>2, <1>3, <1>4, <1>5, <1>6, <1>7 DEF Next, PassStep

\* A pass that the API runs under the lock removes no container younger than
\* the grace period, for every set of hosts and VDs, over failed deploys,
\* crashes and hosts that come and go between its steps; docker ps does not
\* fail.
THEOREM PassSparesYoung ==
    ASSUME \A s \in Settings : "docker" \notin s.faults
    PROVE  Spec => CleanupSparesYoung
<1>1. Init => GraceInv
    BY DEF Init, LabInit, GraceInv, YoungInv
<1>2. OnHosts /\ PassInv /\ GraceInv /\ [Next]_allVars => GraceInv'
  <2> SUFFICES ASSUME OnHosts, PassInv, GraceInv, [Next]_allVars PROVE GraceInv'
    OBVIOUS
  <2>1. "docker" \notin Faults
    BY DEF OnHosts, Chosen, Faults
  <2> QED BY <2>1, GraceStep
<1>3. OnHosts /\ PassInv /\ GraceInv /\ [Next]_allVars =>
        [mode = "api" /\ pass = "execute" /\ plan' # plan => (art \ art') \cap young = {}]_allVars
  <2> SUFFICES ASSUME OnHosts, PassInv, GraceInv, Next, mode = "api", pass = "execute", plan' # plan
               PROVE  (art \ art') \cap young = {}
    OBVIOUS
  <2>1. ~ Lab /\ ~ EndPass /\ ~ BuildPlan /\ \A h : ~ Inventory(h)
    BY DEF Lab, cleanVars, EndPass, BuildPlan, Inventory
  <2>2. CASE StartPass \/ PassDies
    BY <2>2 DEF StartPass, PassDies, labVars
  <2>3. ASSUME NEW a \in plan, Execute(a) PROVE (art \ art') \cap young = {}
    <3>1. a \notin young /\ (art' = art \/ art' = Strip(art, {a}))
      BY <2>3 DEF Execute, GraceInv
    <3>2. art \ Strip(art, {a}) \subseteq {a}
      BY DEF Strip, Of
    <3> QED BY <3>1, <3>2
  <2> QED BY <2>1, <2>2, <2>3 DEF Next, PassStep
<1> QED BY <1>1, <1>2, <1>3, PassInvariant, PTL DEF Spec, CleanupSparesYoung
=============================================================================
