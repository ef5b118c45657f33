-------------------------------- MODULE Gui --------------------------------
(***************************************************************************)
(* The parts of the GUI, and the packet traces that its pages start in the *)
(* backend (follow_rabbit_routes.py).  They hold no state of one another:  *)
(* a request of one part meets those of another only through the lab it    *)
(* names.  A behaviour of all of them is therefore a behaviour of each     *)
(* beside steps that leave it alone, and `part` says which one a behaviour *)
(* is about.                                                               *)
(***************************************************************************)
EXTENDS Accounts, Topologies, GuiLabs, LiveSessions, WebUi, Captures, FlowPaths

VARIABLE part

guiVars == <<accountVars, topoVars, labVars, liveVars, webVars, capVars, rabbitVars, part>>

\* Every part starts as it does alone; those that rest start in one way only.
GuiInit ==
    /\ part \in {"accounts", "topologies", "labs", "live", "webui", "captures", "traces"}
    /\ AccountsInit /\ TopologiesInit /\ LabsInit /\ LiveInit /\ WebInit /\ CaptureInit /\ RabbitInit
    /\ part # "accounts" => ActiveAdmins = User
    /\ part # "labs" => up = {}
    /\ part # "captures" => targets
    /\ part # "traces" => route = CHOOSE r \in Routes : TRUE

GuiNext ==
    \/ /\ part = "accounts" /\ AccountsNext
       /\ UNCHANGED <<topoVars, labVars, liveVars, webVars, capVars, rabbitVars, part>>
    \/ /\ part = "topologies" /\ TopologiesNext
       /\ UNCHANGED <<accountVars, labVars, liveVars, webVars, capVars, rabbitVars, part>>
    \/ /\ part = "labs" /\ LabsNext
       /\ UNCHANGED <<accountVars, topoVars, liveVars, webVars, capVars, rabbitVars, part>>
    \/ /\ part = "live" /\ LiveNext
       /\ UNCHANGED <<accountVars, topoVars, labVars, webVars, capVars, rabbitVars, part>>
    \/ /\ part = "webui" /\ WebNext
       /\ UNCHANGED <<accountVars, topoVars, labVars, liveVars, capVars, rabbitVars, part>>
    \/ /\ part = "captures" /\ CaptureNext
       /\ UNCHANGED <<accountVars, topoVars, labVars, liveVars, webVars, rabbitVars, part>>
    \/ /\ part = "traces" /\ RabbitNext
       /\ UNCHANGED <<accountVars, topoVars, labVars, liveVars, webVars, capVars, part>>

GuiSpec == GuiInit /\ [][GuiNext]_guiVars
=============================================================================
