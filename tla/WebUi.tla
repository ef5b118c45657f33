-------------------------------- MODULE WebUi --------------------------------
(***************************************************************************)
(* Web UIs of the devices: the tunnels of services/webui_service.py and    *)
(* the reverse proxy of views/api/webui_routes.py, for the nodes of one    *)
(* lab.  Every method of the service runs on the event loop without an     *)
(* await, so it is one step; a handler gives the loop away at its awaits.  *)
(* What the proxy rewrites in pages and headers is text and left out.      *)
(***************************************************************************)
EXTENDS Naturals, FiniteSets

CONSTANTS
    Device,      \* a node of the lab and a port of it: the key of a tunnel
    Viewer,      \* users
    TunnelToken,       \* tokens; each names one tunnel
    Visit,       \* requests of browsers
    MaxTunnels,  \* MAX_TUNNELS
    MaxDeploys   \* bound on the deploys of the lab

ASSUME WebUiAssumption ==
    /\ MaxTunnels \in Nat /\ MaxDeploys \in Nat
    /\ "none" \notin TunnelToken \cup Device \cup Viewer

VARIABLES
    deploys,  \* how often the lab was deployed: the devices' addresses change with it
    tunnel,   \* _tunnels, and the tunnels that are closed
    byKey,    \* _by_key
    visit     \* the handlers

webVars == <<deploys, tunnel, byKey, visit>>

NoTunnel == [state |-> "new", device |-> "none", user |-> "none", addr |-> 0,
             alive |-> FALSE, idle |-> FALSE, auth |-> FALSE]
NoVisit == [pc |-> "idle", device |-> "none", user |-> "none", token |-> "none",
            addr |-> 0]

OpenTunnels == {t \in TunnelToken : tunnel[t].state = "open"}

-----------------------------------------------------------------------------
(* WebUIService.                                                           *)

\* _close_locked, for a set of tokens: the process is terminated with the entry.
Closed(T) == [t \in TunnelToken |-> IF t \in T /\ tunnel[t].state = "open"
                              THEN [tunnel[t] EXCEPT !.state = "closed", !.alive = FALSE]
                              ELSE tunnel[t]]
Unkeyed(T) == [d \in Device |-> IF byKey[d] \in T THEN "none" ELSE byKey[d]]

Close(T) == tunnel' = Closed(T) /\ byKey' = Unkeyed(T)

Reusable(d, u) ==
    byKey[d] # "none" /\ tunnel[byKey[d]].user = u /\ tunnel[byKey[d]].alive

\* (mutant) the tunnel of another user, or a dead one, is simply forgotten
Forgotten(d) == {}

\* What open() closes before it opens a tunnel of its own for the same key.
Stale(d) == {byKey[d]} \cap TunnelToken

\* The cap, no free port, ssh that ends at once or a port that never answers.
OpenFails(d) == Close(Stale(d))

\* open(): reuse, or close the stale tunnel; then the cap, a free port, ssh and the
\* wait for its port, each of which may fail.
OpenTunnel(v) ==
    LET d == visit[v].device
        u == visit[v].user
    IN /\ visit[v].pc = "status"
       /\ \/ /\ Reusable(d, u)
             /\ tunnel' = [tunnel EXCEPT ![byKey[d]].idle = FALSE]
             /\ UNCHANGED byKey
          \/ ~Reusable(d, u) /\ OpenFails(d)
          \/ /\ ~Reusable(d, u)
             /\ Cardinality(OpenTunnels \ Stale(d)) < MaxTunnels
             /\ \E t \in TunnelToken :
                  /\ tunnel[t] = NoTunnel
                  /\ tunnel' = [Closed(Stale(d)) EXCEPT ![t] =
                                  [NoTunnel EXCEPT !.state = "open", !.device = d, !.user = u,
                                                   !.addr = visit[v].addr, !.alive = TRUE]]
                  /\ byKey' = [Unkeyed(Stale(d)) EXCEPT ![d] = t]
       /\ visit' = [visit EXCEPT ![v] = [NoVisit EXCEPT !.pc = "done"]]
       /\ UNCHANGED deploys

\* The cleanup task closes tunnels that are dead or were not used for ten minutes.
Cleanup ==
    /\ Close({t \in OpenTunnels : ~tunnel[t].alive \/ tunnel[t].idle})
    /\ UNCHANGED <<deploys, visit>>

\* Time passes, and ssh ends by itself.
Wait(t) ==
    /\ t \in OpenTunnels
    /\ tunnel' \in {[tunnel EXCEPT ![t].idle = TRUE], [tunnel EXCEPT ![t].alive = FALSE]}
    /\ UNCHANGED <<deploys, byKey, visit>>

\* close_lab, at the start of a deploy or a destroy, and shutdown.
CloseLab == Close(OpenTunnels) /\ UNCHANGED <<deploys, visit>>

\* A deploy that ends leaves the devices at new addresses.
Redeployed ==
    /\ deploys < MaxDeploys /\ deploys' = deploys + 1
    /\ UNCHANGED <<tunnel, byKey, visit>>

-----------------------------------------------------------------------------
(* Handlers.                                                               *)

\* open_webui: the live status names the address; the open comes after the await.
AskOpen(v) ==
    /\ visit[v].pc = "idle"
    /\ \/ \E d \in Device, u \in Viewer :
            visit' = [visit EXCEPT ![v] = [NoVisit EXCEPT !.pc = "status", !.device = d,
                                               !.user = u, !.addr = deploys]]
       \/ visit' = [visit EXCEPT ![v].pc = "done"]
    /\ UNCHANGED <<deploys, tunnel, byKey>>

\* close_webui closes by key, whoever opened the tunnel.
AskClose(v) ==
    /\ visit[v].pc = "idle"
    /\ \E d \in Device : Close(Stale(d))
    /\ visit' = [visit EXCEPT ![v].pc = "done"]
    /\ UNCHANGED deploys

\* _apply_upstream_authorization, _is_logout_path: a logout forgets the credentials, a
\* request that carries some renews them, any other leaves and uses them.
Authorization(held, carries, logout) == carries \/ (held /\ ~logout)

\* _proxy_http finds the tunnel, touches it and sends the request.
ProxyHttp(v) ==
    /\ visit[v].pc = "idle"
    /\ \E t \in OpenTunnels, carries \in BOOLEAN, logout \in BOOLEAN :
         /\ tunnel' = [tunnel EXCEPT ![t].idle = FALSE,
                                   ![t].auth = Authorization(tunnel[t].auth, carries, logout)]
         /\ visit' = [visit EXCEPT ![v] = [NoVisit EXCEPT !.token = t, !.pc = "sent"]]
    /\ UNCHANGED <<deploys, byKey>>

\* _proxy_websocket finds the tunnel and touches it; the upstream may refuse.
ProxyWebsocket(v) ==
    /\ visit[v].pc = "idle"
    /\ \E t \in OpenTunnels :
         /\ tunnel' = [tunnel EXCEPT ![t].idle = FALSE]
         /\ \E pc \in {"bridge", "done"} :
              visit' = [visit EXCEPT ![v] = [NoVisit EXCEPT !.token = t, !.pc = pc]]
    /\ UNCHANGED <<deploys, byKey>>

\* The answer: a 401 forgets the credentials the tunnel holds by now.
DeviceAnswers(v) ==
    /\ visit[v].pc = "sent"
    /\ \/ tunnel' = [tunnel EXCEPT ![visit[v].token].auth = FALSE]
       \/ UNCHANGED tunnel
    /\ visit' = [visit EXCEPT ![v] = [NoVisit EXCEPT !.pc = "done"]]
    /\ UNCHANGED <<deploys, byKey>>

\* _ws_bridge: one side closes, or the tunnel is gone.
BridgeEnds(v) ==
    /\ visit[v].pc = "bridge"
    /\ visit' = [visit EXCEPT ![v] = [NoVisit EXCEPT !.pc = "done"]]
    /\ UNCHANGED <<deploys, tunnel, byKey>>

WebInit ==
    /\ deploys = 0
    /\ tunnel = [t \in TunnelToken |-> NoTunnel]
    /\ byKey = [d \in Device |-> "none"]
    /\ visit = [v \in Visit |-> NoVisit]

WebNext ==
    \/ \E v \in Visit : AskOpen(v) \/ AskClose(v) \/ OpenTunnel(v) \/ ProxyHttp(v)
                     \/ ProxyWebsocket(v) \/ DeviceAnswers(v) \/ BridgeEnds(v)
    \/ \E t \in TunnelToken : Wait(t)
    \/ Cleanup \/ CloseLab \/ Redeployed

WebSpec == WebInit /\ [][WebNext]_webVars

-----------------------------------------------------------------------------
(* Properties.                                                             *)

\* Every open tunnel is the one its key leads to: neither a second open, by another
\* user or after the process died, nor a close or a cleanup in between leaves an ssh
\* process that no close and no further open can find.
OneTunnelPerKey == \A t \in OpenTunnels : byKey[tunnel[t].device] = t
=============================================================================
