------------------------------ MODULE Captures ------------------------------
(***************************************************************************)
(* Packet captures on the links of one lab: services/capture_service.py    *)
(* and views/api/capture_routes.py.  A capture is a reservation in         *)
(* _active, the handler that streams, and its tcpdump; each can go away    *)
(* without the others, and every await of a handler lets the others run.   *)
(***************************************************************************)
EXTENDS Naturals, FiniteSets

CONSTANTS
    CaptureId,  \* capture sessions, each used once
    Owner,   \* users
    UserMax, \* MAX_USER_CAPTURES
    LabMax   \* MAX_LAB_CAPTURES

ASSUME CaptureAssumption == UserMax \in Nat /\ LabMax \in Nat

VARIABLES
    capture,  \* the sessions
    targets   \* whether the node of the captures runs, so that its targets are enabled

capVars == <<capture, targets>>

\* `listed` is the entry of _active, `attached` says that it holds the process,
\* `old` and `late` that the startup grace and the deadline have passed.
NoCapture == [pc |-> "idle", user |-> "none", listed |-> FALSE, attached |-> FALSE,
              proc |-> "none", old |-> FALSE, late |-> FALSE, stop |-> FALSE]

\* _build_targets: the interfaces of a node that runs can be captured.
Enabled == targets

Record(s, record) == [capture EXCEPT ![s] = record]

-----------------------------------------------------------------------------

\* launch mints a token for a target that is enabled; an invalid filter or a
\* disabled target is refused.
Launch(s) ==
    /\ capture[s].pc = "idle" /\ Enabled
    /\ \E u \in Owner : capture' = Record(s, [NoCapture EXCEPT !.pc = "token", !.user = u])
    /\ UNCHANGED targets

\* (mutant) the startup grace also ends captures that have started
StaleCaptureByAge(s) ==
    capture[s].proc = "over" \/ capture[s].old \/ capture[s].late

\* _cleanup_active_locked: a process that ended, a reservation whose process never
\* came, a capture past its deadline.
StaleCapture(s) ==
    \/ capture[s].attached /\ capture[s].proc = "over"
    \/ ~capture[s].attached /\ capture[s].old
    \/ capture[s].late

Swept == [s \in CaptureId |->
            IF ~capture[s].listed \/ ~StaleCapture(s) THEN capture[s]
            ELSE [capture[s] EXCEPT !.listed = FALSE,
                    !.proc = IF capture[s].late /\ capture[s].attached THEN "over" ELSE @]]

AtCapacity(u) ==
    LET live == {s \in CaptureId : Swept[s].listed}
    IN \/ Cardinality({s \in live : capture[s].user = u}) >= UserMax
       \/ Cardinality(live) >= LabMax

\* active_captures and token_status sweep and change nothing else.
Sweep == capture' = Swept /\ UNCHANGED targets

\* validate_token and resolve_target, again when the stream is opened: the token may
\* have expired, and the target must be enabled still.
Admitted == {FALSE, Enabled}

\* open_stream: refused, refused at the limit, or reserved.
Reserve(s) ==
    /\ capture[s].pc = "token"
    /\ \E admitted \in Admitted :
         capture' = IF ~admitted THEN [capture EXCEPT ![s].pc = "gone"]
                    ELSE IF AtCapacity(capture[s].user) THEN [Swept EXCEPT ![s].pc = "gone"]
                    ELSE [Swept EXCEPT ![s].pc = "command", ![s].listed = TRUE]
    /\ UNCHANGED targets

\* _capture_command resolves the host; an error releases the reservation.
Command(s) ==
    /\ capture[s].pc = "command"
    /\ \/ capture' = [capture EXCEPT ![s].pc = "starts"]
       \/ capture' = [capture EXCEPT ![s].pc = "gone", ![s].listed = FALSE]
    /\ UNCHANGED targets

\* The response is streamed, tcpdump cannot be started, or the client has left and
\* the generator is never entered: its finally does not run.
Begin(s) ==
    /\ capture[s].pc = "starts"
    /\ \/ capture' = [capture EXCEPT ![s].pc = "attach", ![s].proc = "runs"]
       \/ capture' = [capture EXCEPT ![s].pc = "gone", ![s].listed = FALSE]
       \/ capture' = [capture EXCEPT ![s].pc = "gone"]
    /\ UNCHANGED targets

\* _attach_process: a reservation that is gone keeps no process.
Attach(s) ==
    /\ capture[s].pc = "attach"
    /\ capture' = [capture EXCEPT ![s].pc = "streams", ![s].attached = capture[s].listed]
    /\ UNCHANGED targets

\* The deadline, the end of the output, or a client that leaves; the finally stops
\* tcpdump and then releases.
Finish(s) ==
    /\ \/ /\ capture[s].pc \in {"attach", "streams"}
          /\ capture' = [capture EXCEPT ![s].pc = "ends", ![s].proc = "over"]
       \/ /\ capture[s].pc = "ends"
          /\ capture' = [capture EXCEPT ![s].pc = "gone", ![s].listed = FALSE]
    /\ UNCHANGED targets

\* stop_capture: without a process the reservation is released at once (the lock is
\* never held across an await); otherwise the process is stopped first.
StopCapture(s) ==
    /\ \/ /\ capture[s].listed /\ ~capture[s].attached
          /\ capture' = [capture EXCEPT ![s].listed = FALSE]
       \/ /\ capture[s].listed /\ capture[s].attached /\ ~capture[s].stop
          /\ capture' = [capture EXCEPT ![s].stop = TRUE, ![s].proc = "over"]
       \/ /\ capture[s].stop
          /\ capture' = [capture EXCEPT ![s].stop = FALSE, ![s].listed = FALSE]
    /\ UNCHANGED targets

\* tcpdump ends by itself, time passes, the node stops or starts.
ProcessEnds(s) ==
    /\ capture[s].proc = "runs" /\ capture' = [capture EXCEPT ![s].proc = "over"]
    /\ UNCHANGED targets

Time(s) ==
    /\ capture[s].listed
    /\ \/ ~capture[s].old /\ capture' = [capture EXCEPT ![s].old = TRUE]
       \/ capture[s].old /\ ~capture[s].late /\ capture' = [capture EXCEPT ![s].late = TRUE]
    /\ UNCHANGED targets

NodeChanges == targets' = ~targets /\ UNCHANGED capture

CaptureInit == capture = [s \in CaptureId |-> NoCapture] /\ targets \in BOOLEAN

CaptureNext ==
    \/ \E s \in CaptureId :
         \/ Launch(s) \/ Reserve(s) \/ Command(s) \/ Begin(s) \/ Attach(s) \/ Finish(s)
         \/ StopCapture(s) \/ ProcessEnds(s) \/ Time(s)
    \/ Sweep \/ NodeChanges

CaptureSpec == CaptureInit /\ [][CaptureNext]_capVars

-----------------------------------------------------------------------------
(* Properties.                                                             *)

\* A capture that was recorded and still runs can be seen and stopped by its user,
\* and counts against the limits, until its handler, its stop or its deadline ends
\* it: the sweeps of other requests never drop a live one.
RunningIsListed ==
    \A s \in CaptureId :
        capture[s].attached /\ capture[s].proc = "runs" /\ capture[s].pc = "streams" =>
            capture[s].listed
=============================================================================
