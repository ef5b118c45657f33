------------------------ MODULE NodeLifecycleProofs ------------------------
(***************************************************************************)
(* Proofs about NodeLifecycle, for every set of VDs and links, every set   *)
(* of faults and every bound.                                              *)
(***************************************************************************)
EXTENDS NodeLifecycle, TLAPS

-----------------------------------------------------------------------------
(* What the helpers return *)

\* Marking links keeps a table of link states a table of link states.
LEMMA MarkType ==
    ASSUME NEW lk \in [Link -> LkState], NEW ls, NEW s \in LkState
    PROVE  Mark(lk, ls, s) \in [Link -> LkState]
BY DEF Mark

\* Rebuilding the links from the topology yields a table of link states.
LEMMA RefreshedType ==
    ASSUME NEW m \in State, NEW bad
    PROVE  Refreshed(m, bad) \in [Link -> LkState]
BY DEF Refreshed, State, LkState

\* Creating links yields a table of link states.
LEMMA CreatedType ==
    ASSUME NEW lk \in [Link -> LkState], NEW done, NEW running
    PROVE  Created(lk, done, running) \in [Link -> LkState]
<1>1. Mark(lk, done, "partial") \in [Link -> LkState]
    BY MarkType DEF LkState
<1> QED BY <1>1, MarkType DEF Created, LkState

\* Plugging and unplugging keep the table of connected links Boolean.
LEMMA PlugType ==
    ASSUME NEW d \in [Link -> BOOLEAN], NEW ls
    PROVE  /\ Unplugged(d, ls) \in [Link -> BOOLEAN]
           /\ Plugged(d, ls) \in [Link -> BOOLEAN]
BY DEF Unplugged, Plugged

\* The two updates the controller makes of its state.
LEMMA StateUpdate ==
    ASSUME NEW m \in State
    PROVE  /\ m.rt \in [Node -> RtState] /\ m.lk \in [Link -> LkState]
           /\ \A n, s : s \in RtState =>
                /\ WithRt(m, n, s) \in State
                /\ WithRt(m, n, s).lk = m.lk
                /\ \A k \in Node : k # n => WithRt(m, n, s).rt[k] = m.rt[k]
                /\ n \in Node => WithRt(m, n, s).rt[n] = s
           /\ \A lk \in [Link -> LkState] :
                WithLk(m, lk) \in State /\ WithLk(m, lk).rt = m.rt
BY DEF State, WithRt, WithLk

\* A controller that sets a phase keeps the types of what it touches.
LEMMA SetPhaseType ==
    ASSUME TypeOK, NEW s \in RtState, SetPhase(s)
    PROVE  /\ disk' \in State /\ mem' \in State
           /\ op' \in [Node -> Operation]
<1>1. disk' \in State /\ mem' \in State
    BY StateUpdate DEF SetPhase, Save, TypeOK
<1>2. op' \in [Node -> Operation]
    BY DEF SetPhase, Report, TypeOK, Operation
<1> QED BY <1>1, <1>2

\* create_link over several links, whether all come up or one fails.
LEMMA CreateType ==
    ASSUME TypeOK, CreateAll \/ CreateRaises
    PROVE  mem' \in State /\ mem'.rt = mem.rt /\ dp' \in [Link -> BOOLEAN]
<1>1. CASE CreateAll
    BY <1>1, StateUpdate, CreatedType, PlugType DEF CreateAll, TypeOK
<1>2. CASE CreateRaises
  <2>1. PICK f, done :
          /\ mem' = WithLk(mem, LinkFailed(Created(mem.lk, done, Running(mem)), f))
          /\ \/ dp' = Unplugged(Plugged(dp, Wired(done, Running(mem))), {f})
             \/ dp' = Plugged(dp, Wired(done, Running(mem)))
    BY <1>2 DEF CreateRaises
  <2>2. LinkFailed(Created(mem.lk, done, Running(mem)), f) \in [Link -> LkState]
    BY StateUpdate, CreatedType, MarkType DEF LinkFailed, TypeOK, LkState
  <2>3. Plugged(dp, Wired(done, Running(mem))) \in [Link -> BOOLEAN]
    BY PlugType DEF TypeOK
  <2>4. dp' \in [Link -> BOOLEAN]
    BY <2>1, <2>3, PlugType
  <2> QED BY <2>1, <2>2, <2>4, StateUpdate DEF TypeOK
<1> QED BY <1>1, <1>2

-----------------------------------------------------------------------------
(* Type correctness *)

\* Every step of the service, its clients and the hosts keeps the types.
LEMMA TypeStep == TypeOK /\ [Next]_vars => TypeOK'
<1> SUFFICES ASSUME TypeOK, [Next]_vars PROVE TypeOK'
    OBVIOUS
<1> USE DEF TypeOK, hosts, lockq
<1> setting' \in Settings /\ undone' \subseteq Node
    BY DEF Next, vars, Follow
<1>a. \A ls : Unplugged(dp, ls) \in [Link -> BOOLEAN]
    BY PlugType
<1>b. mem.rt \in [Node -> RtState] /\ mem.lk \in [Link -> LkState]
    BY StateUpdate
<1>c. \A ls : \A s \in LkState : Mark(mem.lk, ls, s) \in [Link -> LkState]
    BY <1>b, MarkType
<1>d. \A lk \in [Link -> LkState] : WithLk(mem, lk) \in State
    BY StateUpdate
<1>e. \A bad : WithLk(mem, Refreshed(mem, bad)) \in State
    BY <1>d, RefreshedType
<1>f. ASSUME NEW ls, DeleteRaises(ls)
      PROVE  mem' \in State /\ dp' \in [Link -> BOOLEAN]
  <2>1. PICK gone, f :
          /\ mem' = WithLk(mem, Mark(Mark(mem.lk, gone, "down"), {f}, "error"))
          /\ dp' = Unplugged(dp, gone)
    BY <1>f DEF DeleteRaises
  <2>2. Mark(Mark(mem.lk, gone, "down"), {f}, "error") \in [Link -> LkState]
    BY <1>c, MarkType DEF LkState
  <2> QED BY <2>1, <2>2, <1>a, <1>d
<1>g. ASSUME NEW n, DestroyClab(n)
      PROVE  cont' \in [Node -> BOOLEAN] /\ dp' \in [Link -> BOOLEAN]
    BY <1>g, <1>a DEF DestroyClab
<1>1. CASE UNCHANGED vars
    BY <1>1 DEF vars
<1>2. CASE Acquire
    BY <1>2 DEF Acquire, Pc
<1>3. CASE Client
  <2>1. ASSUME NEW n \in Node, RequestStart(n) PROVE TypeOK'
    <3>1. <<"start", n>> \in Request
        BY DEF Request, NodeRequest
    <3>2. [Idle EXCEPT !.on = TRUE] \in Operation
        BY DEF Idle, Operation, RtState
    <3> QED BY <2>1, <3>1, <3>2 DEF RequestStart
  <2>2. ASSUME NEW n \in Node, RequestCancel(n) PROVE TypeOK'
    <3>1. \A shown \in {"stopped", "cancelling"} :
            [on |-> TRUE, phase |-> shown, cancel |-> TRUE] \in Operation
        BY DEF Operation, RtState
    <3> QED BY <2>2, <3>1 DEF RequestCancel
  <2>3. ASSUME NEW r \in Request, RequestMutation(r) PROVE TypeOK'
    BY <2>3 DEF RequestMutation
  <2>4. ASSUME NEW l \in Link, EditTopology(l) PROVE TypeOK'
    BY <2>4 DEF EditTopology
  <2> QED BY <1>3, <2>1, <2>2, <2>3, <2>4 DEF Client
<1>4. CASE Crash
  <2>1. Idle \in Operation
    BY DEF Idle, Operation, RtState
  <2>2. op' \in [Node -> Operation] /\ bg' \in [Node -> BOOLEAN]
    BY <1>4, <2>1 DEF Crash
  <2>3. crashes' \in 0..MaxCrash
    BY <1>4, BoundsAssumption DEF Crash
  <2>4. waiting' \in Seq(Request)
    BY <1>4 DEF Crash
  <2> QED BY <1>4, <2>2, <2>3, <2>4 DEF Crash, Pc, NoLinks, LkState
<1>5. CASE \E n \in Node : OrphanEnds(n)
    BY <1>5 DEF OrphanEnds
<1>6. CASE Worker
  <2>1. CASE Load
    <3>1. prev' \in [Link -> LkState]
        BY <2>1 DEF Load, State, NoLinks, LkState
    <3> QED BY <2>1, <3>1 DEF Load, LoadStart, LoadStop, LoadReconcile, Raise, Return, Pc
  <2>2. CASE Connect
    BY <2>2, SetPhaseType DEF Connect, Fail, Pc, RtState
  <2>3. CASE Prepare
    BY <2>3, SetPhaseType DEF Prepare, Raise, Return, Pc, RtState
  <2>4. CASE Deploy
    BY <2>4 DEF Deploy, Proceed, Fail, Pc
  <2>5. CASE Wait
    <3>1. disk' \in State /\ mem' \in State /\ op' \in [Node -> Operation]
        BY <2>5, SetPhaseType DEF Wait, RtState
    <3>2. cont' \in [Node -> BOOLEAN] /\ dp' \in [Link -> BOOLEAN]
        BY <2>5, <1>a DEF Wait
    <3> QED BY <2>5, <3>1, <3>2 DEF Wait, Fail, Pc
  <2>6. CASE Refresh
    <3>1. mem' \in State /\ dp' \in [Link -> BOOLEAN]
        BY <2>6, <1>a, <1>e, <1>f DEF Refresh
    <3> QED BY <2>6, <3>1 DEF Refresh, Proceed, Fail, Pc
  <2>7. CASE Links
    BY <2>7, CreateType DEF Links, Proceed, Fail, Pc
  <2>8. CASE Shared
    BY <2>8 DEF Shared, Proceed, Fail, Pc
  <2>9. CASE Commit
    BY <2>9, SetPhaseType DEF Commit, Return, Fail, Pc, RtState
  <2>10. CASE Failed
    BY <2>10, StateUpdate DEF Failed, Save, Raise, Pc, RtState
  <2>11. CASE Rollback
    <3>1. cont' \in [Node -> BOOLEAN] /\ dp' \in [Link -> BOOLEAN]
        BY <2>11, <1>a DEF Rollback
    <3> QED BY <2>11, <3>1 DEF Rollback, Raise, Pc
  <2>22. CASE Forget
    <3>1. WithLk(WithRt(mem, node, "absent"), prev) \in State
        BY StateUpdate DEF RtState
    <3> QED BY <2>22, <3>1 DEF Forget, Save, Raise, Pc
  <2>12. CASE Cancel
    BY <2>12, SetPhaseType DEF Cancel, Pc, RtState
  <2>13. CASE CancelDestroy
    <3>1. cont' \in [Node -> BOOLEAN] /\ dp' \in [Link -> BOOLEAN]
        BY <2>13, <1>g DEF CancelDestroy
    <3> QED BY <2>13, <3>1 DEF CancelDestroy, Pc
  <2>14. CASE CancelLinks
    <3>1. WithRt(mem, node, "stopped") \in State
        BY StateUpdate DEF RtState
    <3>2. \A bad \in SUBSET Link : Refreshed(WithRt(mem, node, "stopped"), bad) \in [Link -> LkState]
        BY <3>1, RefreshedType
    <3>3. \A all \in BOOLEAN : \A bad \in SUBSET Link : CancelledState(all, bad) \in State
        BY <3>1, <3>2, <1>b, StateUpdate, MarkType DEF CancelledState, LkState
    <3>5. disk' \in State /\ mem' \in State
        BY <2>14, <3>3 DEF CancelLinks, Save
    <3>4. op' \in [Node -> Operation]
      <4> DEFINE rec == [op[node] EXCEPT !.phase = "stopped"]
      <4>1. Report("stopped")
        BY <2>14 DEF CancelLinks
      <4>2. CASE kind = "start"
        <5>1. node \in Node => rec \in Operation
          BY DEF Operation, RtState
        <5>2. op' = [op EXCEPT ![node] = rec]
          BY <4>1, <4>2 DEF Report
        <5> HIDE DEF rec
        <5> QED BY <5>1, <5>2
      <4>3. CASE kind # "start"
        BY <4>1, <4>3 DEF Report
      <4> QED BY <4>2, <4>3
    <3> QED BY <2>14, <3>5, <3>4, <1>a DEF CancelLinks, Return, Raise, Pc
  <2>15. CASE StopConnect
    <3>1. StopPhase(mem.rt[node]) \in RtState
        BY DEF StopPhase, RtState
    <3> QED BY <2>15, <3>1, SetPhaseType DEF StopConnect, Fail, Pc
  <2>16. CASE StopWork
    <3>1. CASE StopDestroy
        BY <2>16, <3>1, <1>g DEF StopWork, StopDestroy, Fail, Pc
    <3>2. CASE StopLinks
      <4>1. mem' \in State /\ dp' \in [Link -> BOOLEAN]
        BY <3>2, <1>a, <1>c, <1>d, <1>f DEF StopLinks, LkState
      <4> QED BY <2>16, <3>2, <4>1 DEF StopWork, StopLinks, Fail, Pc
    <3> QED BY <2>16, <3>1, <3>2 DEF StopWork
  <2>17. CASE StopCommit
    BY <2>17, StateUpdate, MarkType DEF StopCommit, Save, Return, Pc, RtState, LkState
  <2>18. CASE Remove
    <3>1. Forgotten(mem.lk, LinksOf(node)) \in [Link -> LkState]
        BY StateUpdate DEF Forgotten, LkState
    <3> QED BY <2>18, <3>1, StateUpdate DEF Remove, Save, Return, Raise, Pc, RtState
  <2>19. CASE RecConnect
    <3>1. disk' \in State /\ mem' \in State /\ dp' \in [Link -> BOOLEAN]
        BY <2>19, <1>a, <1>e, <1>f DEF RecConnect, Save
    <3> QED BY <2>19, <3>1 DEF RecConnect, Raise, Return, Save, Pc
  <2>20. CASE RecLinks
    BY <2>20, CreateType DEF RecLinks, Raise, Return, Pc
  <2>21. CASE Answer
    BY <2>21 DEF Answer, Unregister, Idle, Operation, RtState, NoLinks, LkState, Pc
  <2> QED BY <1>6, <2>1, <2>2, <2>3, <2>4, <2>5, <2>6, <2>7, <2>8, <2>9, <2>10,
             <2>11, <2>12, <2>13, <2>14, <2>15, <2>16, <2>17, <2>18, <2>19,
             <2>20, <2>21, <2>22 DEF Worker
<1> QED BY <1>1, <1>2, <1>3, <1>4, <1>5, <1>6 DEF Next

\* The variables of NodeLifecycle have their types in every reachable state:
\* what the API and the controller write is always a well-formed state file.
THEOREM TypeCorrect == Spec => []TypeOK
<1>1. Init => TypeOK
  <2> SUFFICES ASSUME Init PROVE TypeOK
    OBVIOUS
  <2>1. disk \in State
    BY DEF Init, State, RtState, LkState
  <2>2. Idle \in Operation
    BY DEF Idle, Operation, RtState
  <2>3. dp \in [Link -> BOOLEAN] /\ op \in [Node -> Operation]
    BY <2>2 DEF Init
  <2>4. waiting \in Seq(Request)
    BY DEF Init
  <2>5. mem \in State /\ cont \in [Node -> BOOLEAN] /\ bg \in [Node -> BOOLEAN]
    BY <2>1 DEF Init
  <2>6. desired \subseteq Link /\ topo \subseteq Link /\ adding \in BOOLEAN
        /\ job \in Request \cup {NoJob}
    BY DEF Init
  <2>7. pc \in Pc /\ result \in {"ok", "raised"} /\ crashes \in 0..MaxCrash
    BY BoundsAssumption DEF Init, Pc
  <2>8. setting \in Settings /\ undone \subseteq Node /\ prev \in [Link -> LkState]
    BY DEF Init, NoLinks, LkState
  <2> QED BY <2>1, <2>3, <2>4, <2>5, <2>6, <2>7, <2>8 DEF TypeOK
<1> QED BY <1>1, TypeStep, PTL DEF Spec

-----------------------------------------------------------------------------
(* The work on links *)

\* Deleting and creating links leaves the states of the VDs alone.
LEMMA LinkWorkKeepsRt ==
    ASSUME TypeOK
    PROVE  /\ \A lk \in [Link -> LkState] : WithLk(mem, lk).rt = mem.rt
           /\ \A ls : DeleteRaises(ls) => mem'.rt = mem.rt
           /\ \A bad : WithLk(mem, Refreshed(mem, bad)).rt = mem.rt
<1>1. \A lk : WithLk(mem, lk).rt = mem.rt
    BY DEF WithLk, TypeOK, State
<1> QED BY <1>1 DEF DeleteRaises

-----------------------------------------------------------------------------
(* Where the worker is, and what its request and the file are like then      *)

CancelPc == {"cancel", "cancelDestroy", "cancelLinks"}
RecPc    == {"recConnect", "recLinks"}

\* Start requests: registered exactly while they wait or hold the lock, and in one
\* place only.
QueuedOnce ==
    /\ StartsRegistered
    /\ \A n \in Node : job = <<"start", n>> => \A i \in 1..Len(waiting) : waiting[i] # <<"start", n>>
    /\ \A n \in Node, i, j \in 1..Len(waiting) :
         waiting[i] = <<"start", n>> /\ waiting[j] = <<"start", n>> => i = j
    /\ pc = "idle" <=> job = NoJob

\* The phases in memory are those of the file; a cancellation goes with a cancelled
\* start, the reconciliations with their own requests.
PlaceInv ==
    /\ mem.rt = disk.rt
    /\ pc \in CancelPc => kind = "start" /\ op[node].cancel
    /\ pc \in RecPc => kind \in {"reconcile", "link"}
    /\ kind \in {"reconcile", "link"} => pc \in RecPc \cup {"load", "answer"}
    /\ pc = "answer" /\ kind = "start" /\ result = "ok"
         => op[node].cancel \/ disk.rt[node] = "running"

\* A request names a VD unless it reconciles a link.
LEMMA RequestOfNode ==
    ASSUME TypeOK, job # NoJob, kind # "link"
    PROVE  job \in NodeRequest /\ node \in Node /\ job = <<kind, node>>
BY DEF TypeOK, Request, NodeRequest, LinkRequest, kind, node

\* The worker never registers an attempt nor ends one, but for its answer.
LEMMA ReportKeeps ==
    ASSUME TypeOK, NEW s, Report(s)
    PROVE  \A n \in Node : op'[n].on = op[n].on /\ op'[n].cancel = op[n].cancel
BY DEF Report, TypeOK, Operation

\* Until its answer, a step of the worker keeps the queue, the lock and the attempts.
LEMMA WorkerKeeps ==
    ASSUME TypeOK, QueuedOnce, Worker, ~Answer
    PROVE  /\ UNCHANGED <<waiting, job>> /\ pc # "idle" /\ pc' # "idle"
           /\ \A n \in Node : op'[n].on = op[n].on /\ op'[n].cancel = op[n].cancel
<1> USE DEF hosts, lockq, SetPhase, Proceed, Fail, Raise, Return
<1>1. CASE Load
    BY <1>1 DEF Load, LoadStart, LoadStop, LoadReconcile
<1>2. CASE Connect \/ Prepare
    BY <1>2, ReportKeeps DEF Connect, Prepare
<1>3. CASE Deploy \/ Refresh \/ Links \/ Shared \/ Failed \/ Rollback \/ Forget
    BY <1>3 DEF Deploy, Refresh, Links, Shared, Failed, Rollback, Forget
<1>4. CASE Wait \/ Commit \/ Cancel
    BY <1>4, ReportKeeps DEF Wait, Commit, Cancel
<1>5. CASE CancelDestroy \/ CancelLinks
    BY <1>5, ReportKeeps DEF CancelDestroy, CancelLinks
<1>6. CASE StopConnect
    BY <1>6, ReportKeeps DEF StopConnect
<1>7. CASE StopWork \/ StopCommit \/ Remove
    BY <1>7 DEF StopWork, StopDestroy, StopLinks, StopCommit, Remove
<1>8. CASE RecConnect \/ RecLinks
    BY <1>8 DEF RecConnect, RecLinks
<1> QED BY <1>1, <1>2, <1>3, <1>4, <1>5, <1>6, <1>7, <1>8 DEF Worker

\* Every step keeps the start requests registered and in one place.
LEMMA QueuedStep == TypeOK /\ QueuedOnce /\ [Next]_vars => QueuedOnce'
<1> SUFFICES ASSUME TypeOK, QueuedOnce, [Next]_vars PROVE QueuedOnce'
    OBVIOUS
<1> USE DEF QueuedOnce, StartsRegistered
<1>0. waiting \in Seq(Request) /\ op \in [Node -> Operation] /\ job \in Request \cup {NoJob}
    BY DEF TypeOK
<1>1. CASE UNCHANGED vars
    BY <1>1 DEF vars
<1>2. CASE Acquire
  <2>1. /\ job = NoJob /\ UNCHANGED op /\ waiting # <<>> /\ job' = waiting[1]
        /\ waiting' = Tail(waiting) /\ pc' = "load"
    BY <1>2, <1>0 DEF Acquire
  <2>2. /\ Len(waiting') = Len(waiting) - 1 /\ Len(waiting) \in Nat \ {0}
        /\ \A i \in 1..Len(waiting') : waiting'[i] = waiting[i + 1]
    BY <2>1, <1>0
  <2>3. job' # NoJob
    BY <2>1, <2>2, <1>0 DEF Request, NodeRequest, LinkRequest, NoJob
  <2>4. ASSUME NEW n \in Node
        PROVE  (\E i \in 1..Len(waiting) : waiting[i] = <<"start", n>>)
                 <=> job' = <<"start", n>> \/ \E i \in 1..Len(waiting') : waiting'[i] = <<"start", n>>
    <3>1. ASSUME NEW i \in 1..Len(waiting), waiting[i] = <<"start", n>>
          PROVE  job' = <<"start", n>> \/ \E k \in 1..Len(waiting') : waiting'[k] = <<"start", n>>
      <4>1. CASE i = 1
        BY <4>1, <3>1, <2>1
      <4>2. CASE i # 1
        <5>1. i - 1 \in 1..Len(waiting') /\ waiting'[i - 1] = waiting[i]
          BY <4>2, <2>2
        <5> QED BY <5>1, <3>1
      <4> QED BY <4>1, <4>2
    <3>2. ASSUME NEW i \in 1..Len(waiting'), waiting'[i] = <<"start", n>>
          PROVE  i + 1 \in 1..Len(waiting) /\ waiting[i + 1] = <<"start", n>>
      BY <3>2, <2>2
    <3>3. 1 \in 1..Len(waiting)
      BY <2>2
    <3> QED BY <3>1, <3>2, <3>3, <2>1
  <2>5. ASSUME NEW n \in Node, job' = <<"start", n>>, NEW i \in 1..Len(waiting')
        PROVE  waiting'[i] # <<"start", n>>
    <3>1. 1 \in 1..Len(waiting) /\ i + 1 \in 1..Len(waiting) /\ i + 1 # 1 /\ waiting'[i] = waiting[i + 1]
      BY <2>2
    <3> QED BY <2>1, <2>5, <3>1
  <2>6. ASSUME NEW n \in Node, NEW i \in 1..Len(waiting'), NEW j \in 1..Len(waiting'),
               waiting'[i] = <<"start", n>>, waiting'[j] = <<"start", n>>
        PROVE  i = j
    <3>1. i + 1 \in 1..Len(waiting) /\ j + 1 \in 1..Len(waiting)
      BY <2>2
    <3>2. i + 1 = j + 1
      BY <2>6, <2>2, <3>1
    <3> QED BY <3>2
  <2>7. \A n \in Node : job # <<"start", n>>
    BY <2>1 DEF NoJob
  <2>8. \A n \in Node : op'[n].on <=> \/ job' = <<"start", n>>
                                      \/ \E i \in 1..Len(waiting') : waiting'[i] = <<"start", n>>
    <3> SUFFICES ASSUME NEW n \in Node
                 PROVE  op'[n].on <=> \/ job' = <<"start", n>>
                                      \/ \E i \in 1..Len(waiting') : waiting'[i] = <<"start", n>>
      OBVIOUS
    <3>1. op[n].on <=> \E i \in 1..Len(waiting) : waiting[i] = <<"start", n>>
      BY <2>7
    <3> QED BY <2>1, <2>4, <3>1
  <2>9. pc' = "idle" <=> job' = NoJob
    BY <2>1, <2>3
  <2> QED BY <2>5, <2>6, <2>8, <2>9
<1>3. CASE Client
  <2>1. ASSUME NEW r \in Request, waiting' = Append(waiting, r), UNCHANGED <<job, pc>>,
               \A n \in Node : op'[n].on <=> op[n].on \/ r = <<"start", n>>,
               \A n \in Node : r = <<"start", n>> => ~op[n].on
        PROVE  QueuedOnce'
    <3>1. /\ Len(waiting') = Len(waiting) + 1 /\ Len(waiting) \in Nat
          /\ waiting'[Len(waiting) + 1] = r
          /\ \A i \in 1..Len(waiting) : waiting'[i] = waiting[i]
      BY <1>0, <2>1
    <3>2. \A n \in Node : (\E i \in 1..Len(waiting') : waiting'[i] = <<"start", n>>)
            <=> r = <<"start", n>> \/ \E i \in 1..Len(waiting) : waiting[i] = <<"start", n>>
      <4>1. 1..Len(waiting') = 1..Len(waiting) \cup {Len(waiting) + 1}
        BY <3>1
      <4> QED BY <3>1, <4>1
    <3>3. ASSUME NEW n \in Node, job = <<"start", n>>, NEW i \in 1..Len(waiting')
          PROVE  waiting'[i] # <<"start", n>>
      BY <3>1, <3>3, <2>1
    <3>4. ASSUME NEW n \in Node, NEW i \in 1..Len(waiting'), NEW j \in 1..Len(waiting'),
                 waiting'[i] = <<"start", n>>, waiting'[j] = <<"start", n>>
          PROVE  i = j
      <4>1. CASE i \in 1..Len(waiting) /\ j \in 1..Len(waiting)
        BY <3>1, <3>4, <4>1
      <4>2. CASE ~(i \in 1..Len(waiting) /\ j \in 1..Len(waiting))
        <5>1. i = Len(waiting) + 1 \/ j = Len(waiting) + 1
          BY <3>1, <4>2
        <5>2. r = <<"start", n>>
          BY <3>1, <3>4, <5>1
        <5>3. \A k \in 1..Len(waiting) : waiting[k] # <<"start", n>>
          BY <5>2, <2>1
        <5>4. i \notin 1..Len(waiting) /\ j \notin 1..Len(waiting)
          BY <3>1, <3>4, <5>3
        <5> QED BY <3>1, <5>4
      <4> QED BY <4>1, <4>2
    <3>5. \A n \in Node : op'[n].on <=> \/ job' = <<"start", n>>
                                        \/ \E i \in 1..Len(waiting') : waiting'[i] = <<"start", n>>
      <4> SUFFICES ASSUME NEW n \in Node
                   PROVE  op'[n].on <=> \/ job = <<"start", n>>
                                        \/ \E i \in 1..Len(waiting') : waiting'[i] = <<"start", n>>
        BY <2>1
      <4>1. op[n].on <=> \/ job = <<"start", n>>
                         \/ \E i \in 1..Len(waiting) : waiting[i] = <<"start", n>>
        OBVIOUS
      <4>2. op'[n].on <=> op[n].on \/ r = <<"start", n>>
        BY <2>1
      <4> QED BY <4>1, <4>2, <3>2
    <3>6. pc' = "idle" <=> job' = NoJob
      BY <2>1
    <3>7. \A n \in Node : job' = <<"start", n>> => \A i \in 1..Len(waiting') : waiting'[i] # <<"start", n>>
      BY <2>1, <3>3
    <3> QED BY <3>4, <3>5, <3>6, <3>7
  <2>2. ASSUME NEW n \in Node, RequestStart(n) PROVE QueuedOnce'
    <3>1. <<"start", n>> \in Request
        BY DEF Request, NodeRequest
    <3>2. op' = [op EXCEPT ![n] = [Idle EXCEPT !.on = TRUE]]
        BY <2>2 DEF RequestStart
    <3>3. [Idle EXCEPT !.on = TRUE].on
        BY DEF Idle
    <3>4. \A m \in Node : op'[m].on <=> op[m].on \/ <<"start", n>> = <<"start", m>>
        BY <3>2, <3>3, <1>0
    <3> QED BY <2>1, <2>2, <3>1, <3>4 DEF RequestStart, MayStart
  <2>3. ASSUME NEW n \in Node, RequestCancel(n) PROVE QueuedOnce'
    <3>1. \A m \in Node : op'[m].on = op[m].on
        BY <2>3, <1>0 DEF RequestCancel
    <3> QED BY <2>3, <3>1 DEF RequestCancel, lockq
  <2>4. ASSUME NEW r \in Request, RequestMutation(r) PROVE QueuedOnce'
    <3>1. \A n \in Node : r # <<"start", n>>
      BY <2>4 DEF RequestMutation
    <3> QED BY <2>1, <2>4, <3>1 DEF RequestMutation
  <2>5. ASSUME NEW l \in Link, EditTopology(l) PROVE QueuedOnce'
    BY <2>5 DEF EditTopology, lockq
  <2> QED BY <1>3, <2>2, <2>3, <2>4, <2>5 DEF Client
<1>4. CASE Crash
    BY <1>4 DEF Crash, Idle, NoJob
<1>5. CASE \E n \in Node : OrphanEnds(n)
    BY <1>5 DEF OrphanEnds, lockq
<1>6. CASE Worker /\ ~Answer
    BY <1>6, WorkerKeeps
<1>7. CASE Answer
  <2>1. job' = NoJob /\ pc' = "idle" /\ UNCHANGED waiting /\ job # NoJob
    BY <1>7 DEF Answer
  <2>2. ASSUME NEW n \in Node
        PROVE  op'[n].on <=> \E i \in 1..Len(waiting) : waiting[i] = <<"start", n>>
    <3>1. CASE kind = "start" /\ node = n
      <4>1. job = <<"start", n>>
        BY <2>1, <3>1, RequestOfNode
      <4>2. ~op'[n].on
        BY <1>7, <1>0, <3>1 DEF Answer, Unregister, Idle
      <4> QED BY <4>1, <4>2
    <3>2. CASE ~(kind = "start" /\ node = n)
      <4>1. op'[n] = op[n]
        BY <1>7, <1>0, <3>2 DEF Answer, Unregister
      <4>2. job # <<"start", n>>
        BY <3>2 DEF kind, node
      <4> QED BY <4>1, <4>2
    <3> QED BY <3>1, <3>2
  <2>3. \A n \in Node : job' # <<"start", n>>
    BY <2>1 DEF NoJob
  <2> QED BY <2>1, <2>2, <2>3
<1> QED BY <1>1, <1>2, <1>3, <1>4, <1>5, <1>6, <1>7 DEF Next

\* A start that holds the lock or waits for it is registered, so that a stop reaches
\* it, and no registration outlives its request (lab_node_start and lab_node_stop of
\* the API).
THEOREM StartsStayRegistered == Spec => []StartsRegistered
<1>1. Init => QueuedOnce
    BY DEF Init, QueuedOnce, StartsRegistered, Idle, NoJob
<1>2. QueuedOnce => StartsRegistered
    BY DEF QueuedOnce
<1> QED BY <1>1, <1>2, TypeCorrect, QueuedStep, PTL DEF Spec

\* Every step keeps the place of the worker in line with its request.
LEMMA PlaceStep == TypeOK /\ RunningInv /\ QueuedOnce /\ PlaceInv /\ [Next]_vars => PlaceInv'
<1> SUFFICES ASSUME TypeOK, RunningInv, QueuedOnce, PlaceInv, [Next]_vars PROVE PlaceInv'
    OBVIOUS
<1> USE DEF PlaceInv, CancelPc, RecPc, kind, node
<1>0. disk \in State /\ mem \in State /\ op \in [Node -> Operation] /\ job \in Request \cup {NoJob}
    BY DEF TypeOK
<1>a. \A lk : WithLk(mem, lk).rt = mem.rt
    BY <1>0 DEF State, WithLk
<1>b. \A n, s : s \in RtState /\ n \in Node => WithRt(mem, n, s).rt[n] = s
    BY <1>0, StateUpdate
<1>c. pc = "idle" <=> job = NoJob
    BY DEF QueuedOnce
<1>d. pc \in StopPc => job[1] # "start"
    BY DEF RunningInv, AddingIsStart
<1>1. CASE UNCHANGED vars
    BY <1>1 DEF vars
<1>2. CASE Acquire
    BY <1>2 DEF Acquire
<1>3. CASE Client
  <2>1. ASSUME UNCHANGED <<disk, mem, job, pc, result>>,
               \A n \in Node : op[n].on /\ op[n].cancel => op'[n].cancel
        PROVE  PlaceInv'
    <3>1. pc # "idle" /\ job[1] = "start" => job[2] \in Node /\ op[job[2]].on
      <4>1. ASSUME pc # "idle", job[1] = "start" PROVE job[2] \in Node /\ job = <<"start", job[2]>>
        BY <1>c, <4>1, RequestOfNode
      <4> QED BY <4>1 DEF QueuedOnce, StartsRegistered
    <3>2. UNCHANGED <<disk, mem, job, pc, result>>
      BY <2>1
    <3> QED BY <3>1, <3>2, <2>1
  <2>2. ASSUME NEW n \in Node, RequestStart(n) PROVE PlaceInv'
    <3>1. \A m \in Node : op[m].on => op'[m] = op[m]
      BY <2>2, <1>0 DEF RequestStart, MayStart
    <3> QED BY <2>1, <2>2, <3>1 DEF RequestStart
  <2>3. ASSUME NEW n \in Node, RequestCancel(n) PROVE PlaceInv'
    <3>1. \A m \in Node : op[m].cancel => op'[m].cancel
      BY <2>3, <1>0 DEF RequestCancel
    <3> QED BY <2>1, <2>3, <3>1 DEF RequestCancel, lockq
  <2>4. ASSUME NEW r \in Request, RequestMutation(r) PROVE PlaceInv'
    BY <2>1, <2>4 DEF RequestMutation
  <2>5. ASSUME NEW l \in Link, EditTopology(l) PROVE PlaceInv'
    BY <2>1, <2>5 DEF EditTopology, lockq
  <2> QED BY <1>3, <2>2, <2>3, <2>4, <2>5 DEF Client
<1>4. CASE Crash
    BY <1>4 DEF Crash, NoJob
<1>5. CASE \E n \in Node : OrphanEnds(n)
    BY <1>5 DEF OrphanEnds, lockq
<1>6. CASE Answer
    BY <1>6 DEF Answer, NoJob
<1>7. CASE Worker /\ ~Answer
  <2>0. /\ job' = job /\ job # NoJob
        /\ \A n \in Node : op'[n].cancel = op[n].cancel
        /\ job[1] # "link" => job[2] \in Node
    BY <1>7, <1>c, WorkerKeeps, RequestOfNode
  <2> USE <2>0 DEF hosts, lockq, Raise, Return, Fail, Proceed, Cancelled, Save, SetPhase
  <2>1. CASE Load
    BY <2>1 DEF Load, LoadStart, LoadStop, LoadReconcile, InRt
  <2>2. CASE Connect
    BY <2>2 DEF Connect
  <2>3. CASE Prepare
    BY <2>3 DEF Prepare
  <2>4. CASE Deploy
    BY <2>4 DEF Deploy
  <2>5. CASE Wait
    BY <2>5 DEF Wait
  <2>6. CASE Refresh
    BY <2>6, LinkWorkKeepsRt DEF Refresh
  <2>7. CASE Links
    BY <2>7, CreateType DEF Links
  <2>8. CASE Shared
    BY <2>8 DEF Shared
  <2>9. CASE Commit
    BY <2>9, <1>b DEF Commit, RtState
  <2>10. CASE Failed
    BY <2>10 DEF Failed
  <2>11. CASE Rollback
    BY <2>11 DEF Rollback
  <2>21. CASE Forget
    BY <2>21, <1>a DEF Forget
  <2>12. CASE Cancel
    BY <2>12 DEF Cancel
  <2>13. CASE CancelDestroy
    BY <2>13 DEF CancelDestroy
  <2>14. CASE CancelLinks
    BY <2>14 DEF CancelLinks
  <2>15. CASE StopConnect
    BY <2>15, <1>d DEF StopConnect, StopPc
  <2>16. CASE StopWork
    <3>1. mem'.rt = mem.rt /\ UNCHANGED disk
      BY <2>16, <1>a, LinkWorkKeepsRt DEF StopWork, StopDestroy, StopLinks
    <3> QED BY <2>16, <3>1, <1>d DEF StopWork, StopDestroy, StopLinks, StopPc
  <2>17. CASE StopCommit
    BY <2>17, <1>d DEF StopCommit, StopPc
  <2>18. CASE Remove
    BY <2>18, <1>d DEF Remove, StopPc
  <2>19. CASE RecConnect
    BY <2>19, <1>a, LinkWorkKeepsRt DEF RecConnect
  <2>20. CASE RecLinks
    BY <2>20, CreateType DEF RecLinks
  <2> QED BY <1>7, <2>1, <2>2, <2>3, <2>4, <2>5, <2>6, <2>7, <2>8, <2>9, <2>10,
             <2>11, <2>12, <2>13, <2>14, <2>15, <2>16, <2>17, <2>18, <2>19,
             <2>20, <2>21 DEF Worker
<1> QED BY <1>1, <1>2, <1>3, <1>4, <1>5, <1>6, <1>7 DEF Next

-----------------------------------------------------------------------------
(* The state file never calls a VD running that has no container *)

\* RunningInv is kept by every step.
LEMMA RunningStep ==
    TypeOK /\ RunningInv /\ QueuedOnce /\ PlaceInv /\ [Next]_vars => RunningInv'
<1> SUFFICES ASSUME TypeOK, RunningInv, QueuedOnce, PlaceInv, [Next]_vars PROVE RunningInv'
    OBVIOUS
<1>m. mem.rt = disk.rt /\ mem'.rt = disk'.rt
    BY PlaceStep DEF PlaceInv
<1>u. /\ \A n \in undone : disk'.rt[n] = "running" => n \in undone'
      /\ \A n \in Node : FailsLate(n) /\ disk'.rt[n] = "running" => n \in undone'
      /\ UndoneShown'
  <2>1. CASE Next
    BY <2>1 DEF Next, Follow, UndoneShown, TypeOK
  <2>2. CASE UNCHANGED vars
    BY <2>2 DEF vars, RunningInv, UndoneShown, FailsLate
  <2> QED BY <2>1, <2>2
<1> USE <1>m, <1>u DEF RunningInv, CopiesTruthful, BusyNotRunning, BusyIsUp, AddingIsStart,
            BusyPc, StopPc, hosts, lockq, kind, node
<1>a. disk \in State /\ mem \in State /\ cont \in [Node -> BOOLEAN]
    BY DEF TypeOK
<1>b. \A n, s : s \in RtState =>
        /\ \A k \in Node : k # n => WithRt(mem, n, s).rt[k] = mem.rt[k]
        /\ n \in Node => WithRt(mem, n, s).rt[n] = s
    BY <1>a, StateUpdate
<1>c. \A n, s, lk : WithLk(WithRt(mem, n, s), lk).rt = WithRt(mem, n, s).rt
    BY <1>a DEF State, WithLk, WithRt
<1>d. \A lk : WithLk(mem, lk).rt = mem.rt
    BY <1>a DEF State, WithLk
<1>1. CASE UNCHANGED vars
    BY <1>1 DEF vars
<1>2. CASE Acquire
    BY <1>2 DEF Acquire
<1>3. CASE Client
    BY <1>3 DEF Client, RequestStart, RequestCancel, RequestMutation, EditTopology
<1>4. CASE Crash
    BY <1>4 DEF Crash
<1>5. CASE \E n \in Node : OrphanEnds(n)
  <2>1. PICK n \in Node : OrphanEnds(n)
    BY <1>5
  <2>2. \A k \in Node : cont[k] => cont'[k]
    BY <2>1, <1>a DEF OrphanEnds
  <2> QED BY <2>1, <2>2 DEF OrphanEnds
<1>6. CASE Worker
  <2>1. CASE Load
    BY <2>1 DEF Load, LoadStart, LoadStop, LoadReconcile, InRt, Raise, Return
  <2>2. CASE Connect
    BY <2>2, <1>b DEF Connect, SetPhase, Save, Fail, Cancelled, RtState
  <2>3. CASE Prepare
    BY <2>3, <1>b DEF Prepare, SetPhase, Save, Raise, Return, RtState
  <2>4. CASE Deploy
    BY <2>4, <1>a DEF Deploy, Proceed, Fail, Cancelled
  <2>5. CASE Wait
    BY <2>5, <1>a, <1>b DEF Wait, SetPhase, Save, Fail, Cancelled, RtState
  <2>6. CASE Refresh
    BY <2>6, LinkWorkKeepsRt DEF Refresh, Proceed, Fail, Cancelled
  <2>7. CASE Links
    BY <2>7, CreateType DEF Links, Proceed, Fail, Cancelled
  <2>8. CASE Shared
    BY <2>8 DEF Shared, Proceed, Fail, Cancelled
  <2>9. CASE Commit
    BY <2>9, <1>b DEF Commit, SetPhase, Save, Return, Fail, Cancelled, FailsLate, RtState
  <2>10. CASE Failed
    BY <2>10, <1>b DEF Failed, Save, Raise, RtState
  <2>11. CASE Rollback
    BY <2>11, <1>a DEF Rollback, Raise
  <2>22. CASE Forget
    BY <2>22, <1>b, <1>c DEF Forget, Save, Raise, RtState
  <2>12. CASE Cancel
    BY <2>12, <1>b DEF Cancel, SetPhase, Save, RtState
  <2>13. CASE CancelDestroy
    BY <2>13, <1>a DEF CancelDestroy, DestroyClab
  <2>14. CASE CancelLinks
    BY <2>14, <1>b, <1>c DEF CancelLinks, CancelledState, Save, Return, Raise, RtState
  <2>15. CASE StopConnect
    <3>1. StopPhase(mem.rt[node]) \in RtState \ {"running"}
        BY DEF StopPhase, RtState
    <3> QED BY <2>15, <3>1, <1>b DEF StopConnect, SetPhase, Save, Fail, Cancelled
  <2>16. CASE StopWork
    <3>1. CASE StopDestroy
        BY <2>16, <3>1, <1>a DEF StopWork, StopDestroy, DestroyClab, Fail, Cancelled
    <3>2. CASE StopLinks
      <4>1. mem'.rt = mem.rt
        BY <3>2, LinkWorkKeepsRt, <1>d DEF StopLinks
      <4> QED BY <2>16, <3>2, <4>1 DEF StopWork, StopLinks, Fail, Cancelled
    <3> QED BY <2>16, <3>1, <3>2 DEF StopWork
  <2>17. CASE StopCommit
    BY <2>17, <1>b, <1>c DEF StopCommit, Save, Return, RtState
  <2>18. CASE Remove
    BY <2>18, <1>b, <1>c DEF Remove, Save, Return, Raise, RtState
  <2>19. CASE RecConnect
    BY <2>19, LinkWorkKeepsRt DEF RecConnect, Save, Raise, Return
  <2>20. CASE RecLinks
    BY <2>20, CreateType DEF RecLinks, Raise, Return
  <2>21. CASE Answer
    BY <2>21 DEF Answer
  <2> QED BY <1>6, <2>1, <2>2, <2>3, <2>4, <2>5, <2>6, <2>7, <2>8, <2>9, <2>10,
             <2>11, <2>12, <2>13, <2>14, <2>15, <2>16, <2>17, <2>18, <2>19,
             <2>20, <2>21, <2>22 DEF Worker
<1> QED BY <1>1, <1>2, <1>3, <1>4, <1>5, <1>6 DEF Next

\* The invariants above, together.
NodeInv == TypeOK /\ RunningInv /\ QueuedOnce /\ PlaceInv

\* They hold in every reachable state.
LEMMA NodeInvariant == Spec => []NodeInv
<1>1. Init /\ TypeOK => NodeInv
    BY DEF Init, NodeInv, RunningInv, CopiesTruthful, BusyNotRunning, BusyIsUp, AddingIsStart,
           UndoneShown, BusyPc, StopPc, QueuedOnce, StartsRegistered, PlaceInv, CancelPc, RecPc, Idle, NoJob,
           kind, node
<1>2. NodeInv /\ [Next]_vars => NodeInv'
    BY TypeStep, RunningStep, QueuedStep, PlaceStep DEF NodeInv
<1> QED BY <1>1, <1>2, TypeCorrect, PTL DEF Spec

\* Whatever fails on the hosts, and wherever the service dies, a VD the state file calls
\* running has a running container (node.py saves before it acts), but for one whose add
\* failed after that save and is being undone, or was undone in part (node.py:346).
THEOREM RunningIsBacked == Spec => []RunningHasContainer
<1>1. NodeInv => RunningHasContainer
    BY DEF NodeInv, RunningInv, CopiesTruthful, RunningHasContainer, CalledRunning
<1> QED BY <1>1, NodeInvariant, PTL

-----------------------------------------------------------------------------
(* A VD saved as stopped has no container                                    *)

\* As long as destroy does what it says and no abandoned deploy goes on: no container
\* of a stopped VD, and none of the VD that is about to be saved as stopped.
StoppedInv ==
    Faults \subseteq {"remote", "crash", "history"} =>
        /\ \A n \in Node : ~bg[n]
        /\ \A n \in Node : disk.rt[n] = "stopped" => ~cont[n]
        /\ pc = "deploy" => disk.rt[node] = "starting"
        /\ pc \in {"stopCommit", "cancelLinks"} \/ (pc = "stopSecond" /\ Forced) => ~cont[node]

\* Every step keeps StoppedInv.
LEMMA StoppedStep == NodeInv /\ StoppedInv /\ [Next]_vars => StoppedInv'
<1> SUFFICES ASSUME NodeInv, StoppedInv, [Next]_vars PROVE StoppedInv'
    OBVIOUS
<1>f. Faults' = Faults
    BY DEF Next, Follow, vars, Faults
<1> SUFFICES ASSUME Faults \subseteq {"remote", "crash", "history"} PROVE StoppedInv'
    BY <1>f DEF StoppedInv
<1> USE DEF StoppedInv, kind, node
<1>0. /\ disk \in State /\ mem \in State /\ mem.rt = disk.rt /\ cont \in [Node -> BOOLEAN]
      /\ bg \in [Node -> BOOLEAN] /\ QueuedOnce /\ TypeOK /\ RunningInv /\ PlaceInv
    BY DEF NodeInv, TypeOK, PlaceInv
<1>b. \A n, s : s \in RtState =>
        /\ \A k \in Node : k # n => WithRt(mem, n, s).rt[k] = mem.rt[k]
        /\ n \in Node => WithRt(mem, n, s).rt[n] = s
    BY <1>0, StateUpdate
<1>c. \A n, s, lk : WithLk(WithRt(mem, n, s), lk).rt = WithRt(mem, n, s).rt
    BY <1>0 DEF State, WithLk, WithRt
<1>d. \A lk : WithLk(mem, lk).rt = mem.rt
    BY <1>0 DEF State, WithLk
<1>e. "silent" \notin Faults /\ "orphan" \notin Faults /\ "loss" \notin Faults
    OBVIOUS
<1>1. CASE UNCHANGED vars
    BY <1>1 DEF vars, Forced
<1>2. CASE Acquire
    BY <1>2 DEF Acquire, hosts
<1>3. CASE Client
    BY <1>3 DEF Client, RequestStart, RequestCancel, RequestMutation, EditTopology, hosts, lockq, Forced
<1>4. CASE Crash
    BY <1>4, <1>e DEF Crash
<1>5. CASE \E n \in Node : OrphanEnds(n)
    BY <1>5 DEF OrphanEnds
<1>6. CASE Answer
    BY <1>6 DEF Answer, hosts
<1>7. CASE Worker /\ ~Answer
  <2>0. /\ job' = job /\ job # NoJob /\ (job[1] # "link" => job[2] \in Node)
        /\ (pc \notin RecPc \cup {"load", "answer"} => job[2] \in Node)
    BY <1>7, <1>0, WorkerKeeps, RequestOfNode DEF QueuedOnce, PlaceInv
  <2> USE <2>0, <1>0 DEF hosts, lockq, Raise, Return, Fail, Proceed, Save, SetPhase, RecPc
  <2>1. CASE Load
    BY <2>1 DEF Load, LoadStart, LoadStop, LoadReconcile, InRt
  <2>2. CASE Connect
    BY <2>2, <1>b DEF Connect, RtState
  <2>3. CASE Prepare
    BY <2>3, <1>b DEF Prepare, RtState
  <2>4. CASE Deploy
    BY <2>4, <1>e DEF Deploy
  <2>5. CASE Wait
    BY <2>5, <1>b DEF Wait, RtState
  <2>6. CASE Refresh
    BY <2>6 DEF Refresh
  <2>7. CASE Links \/ Shared
    BY <2>7 DEF Links, Shared
  <2>9. CASE Commit
    BY <2>9, <1>b DEF Commit, RtState
  <2>10. CASE Failed
    BY <2>10, <1>b DEF Failed, RtState
  <2>11. CASE Rollback
    BY <2>11, <1>e DEF Rollback
  <2>21. CASE Forget
    BY <2>21, <1>b, <1>c DEF Forget, RtState
  <2>12. CASE Cancel
    BY <2>12, <1>b DEF Cancel, RtState
  <2>13. CASE CancelDestroy
    BY <2>13, <1>e DEF CancelDestroy, DestroyClab
  <2>14. CASE CancelLinks
    <3>1. /\ disk'.rt = WithRt(mem, node, "stopped").rt /\ UNCHANGED <<cont, bg>> /\ pc' = "answer"
          /\ ~cont[node] /\ node \in Node
      BY <2>14, <1>c DEF CancelLinks, CancelledState
    <3> QED BY <3>1, <1>b DEF RtState
  <2>15. CASE StopConnect
    <3>1. StopPhase(mem.rt[node]) \in RtState \ {"stopped"}
      BY DEF StopPhase, RtState
    <3> QED BY <2>15, <3>1, <1>b DEF StopConnect
  <2>16. CASE StopWork
    <3>1. CASE Forced <=> pc = "stopFirst"
      BY <2>16, <3>1, <1>e DEF StopWork, StopDestroy, DestroyClab, Forced
    <3>2. CASE ~(Forced <=> pc = "stopFirst")
      BY <2>16, <3>2, <1>e DEF StopWork, StopLinks, DeleteRaises, Forced
    <3> QED BY <2>16, <3>1, <3>2 DEF StopWork
  <2>17. CASE StopCommit
    BY <2>17, <1>b, <1>c DEF StopCommit, RtState
  <2>18. CASE Remove
    BY <2>18, <1>b, <1>c DEF Remove, RtState
  <2>19. CASE RecConnect
    BY <2>19, <1>d DEF RecConnect
  <2>20. CASE RecLinks
    BY <2>20, CreateType DEF RecLinks
  <2> QED BY <1>7, <2>1, <2>2, <2>3, <2>4, <2>5, <2>6, <2>7, <2>9, <2>10,
             <2>11, <2>12, <2>13, <2>14, <2>15, <2>16, <2>17, <2>18, <2>19,
             <2>20, <2>21 DEF Worker
<1> QED BY <1>1, <1>2, <1>3, <1>4, <1>5, <1>6, <1>7 DEF Next

\* While containerlab destroy does what it says and no abandoned deploy goes on, a VD
\* saved as stopped has no container, through failures and crashes of the service
\* (stop and _cancel_started_node save "stopped" after they destroyed).
THEOREM StoppedIsGone == Spec => []StoppedHasNoContainer
<1>1. Init => StoppedInv
    BY DEF Init, StoppedInv, NoJob, kind, node
<1>2. StoppedInv => StoppedHasNoContainer
    BY DEF StoppedInv, StoppedHasNoContainer
<1> QED BY <1>1, <1>2, NodeInvariant, StoppedStep, PTL DEF Spec

-----------------------------------------------------------------------------
(* Passing phases are settled                                                *)

\* The places at which the worker owes the file nothing.
SettledPc == {"idle", "load", "answer", "recConnect", "recLinks", "removeConnect",
              "prepare", "connect", "stopConnect"}

\* Only the VD the worker is busy with may be in a passing phase, or be undone.
SettleInv ==
    ~CutShort =>
        /\ \A n \in Node : disk.rt[n] \in Transient => n = node /\ pc \notin SettledPc
        /\ \A n \in undone : n = node /\ pc \in {"rollback", "forget", "cancel"}

\* Every step keeps SettleInv.
LEMMA SettleStep == NodeInv /\ SettleInv /\ [Next]_vars => SettleInv'
<1> SUFFICES ASSUME NodeInv, SettleInv, [Next]_vars PROVE SettleInv'
    OBVIOUS
<1>f. Faults' = Faults
    BY DEF Next, Follow, vars, Faults
<1>0. /\ disk \in State /\ mem \in State /\ mem.rt = disk.rt
      /\ QueuedOnce /\ TypeOK /\ RunningInv /\ PlaceInv /\ crashes \in Nat
    BY DEF NodeInv, TypeOK, PlaceInv
<1> SUFFICES ASSUME crashes' = 0, "loss" \notin Faults PROVE SettleInv'
  <2>1. CutShort' <=> crashes' > 0 \/ "loss" \in Faults
    BY <1>f DEF CutShort
  <2>2. crashes' \in Nat
    BY <1>0, TypeStep, BoundsAssumption DEF TypeOK
  <2> QED BY <2>1, <2>2 DEF SettleInv
<1>c. crashes = 0 => ~CutShort
    BY DEF CutShort
<1>u. /\ \A n \in undone' : disk'.rt[n] = "running" /\ (n \in undone \/ FailsLate(n))
      /\ undone \subseteq Node
  <2>1. CASE Next
    BY <2>1, <1>0 DEF Next, Follow, TypeOK
  <2>2. CASE UNCHANGED vars
    BY <2>2, <1>0 DEF vars, RunningInv, UndoneShown, TypeOK
  <2> QED BY <2>1, <2>2
<1> USE <1>c, <1>u DEF FailsLate
<1>1. CASE UNCHANGED vars
    BY <1>1 DEF vars, SettleInv, node
<1>2. CASE Acquire
    BY <1>2 DEF Acquire, SettleInv, SettledPc
<1>3. CASE Client
    BY <1>3 DEF Client, RequestStart, RequestCancel, RequestMutation, EditTopology, hosts, lockq,
                SettleInv, node
<1>4. CASE Crash
    BY <1>0, <1>4 DEF Crash
<1>5. CASE \E n \in Node : OrphanEnds(n)
    BY <1>5 DEF OrphanEnds, lockq, SettleInv, node
<1>6. CASE Answer
    BY <1>6 DEF Answer, hosts, SettleInv, SettledPc
<1>7. CASE Worker /\ ~Answer
  <2> USE DEF SettleInv, SettledPc, node, kind
  <2>b. \A n, s : s \in RtState =>
        /\ \A k \in Node : k # n => WithRt(mem, n, s).rt[k] = mem.rt[k]
        /\ n \in Node => WithRt(mem, n, s).rt[n] = s
    BY <1>0, StateUpdate
  <2>c. \A n, s, lk : WithLk(WithRt(mem, n, s), lk).rt = WithRt(mem, n, s).rt
    BY <1>0 DEF State, WithLk, WithRt
  <2>0. /\ job' = job /\ job # NoJob /\ UNCHANGED crashes /\ crashes = 0
        /\ (job[1] # "link" => job[2] \in Node)
        /\ (pc \notin RecPc \cup {"load", "answer"} => job[2] \in Node)
        /\ pc \in StopPc => job[1] # "start" /\ ~adding
    <3>1. UNCHANGED crashes
      BY <1>7 DEF Worker, Load, Connect, Prepare, Deploy, Wait, Refresh, Links, Shared, Commit,
           Failed, Rollback, Forget, Cancel, CancelDestroy, CancelLinks, StopConnect, StopWork,
           StopCommit, Remove, RecConnect, RecLinks
    <3> QED BY <3>1, <1>7, <1>0, WorkerKeeps, RequestOfNode
            DEF QueuedOnce, PlaceInv, RunningInv, AddingIsStart
  <2> USE <2>0, <1>0 DEF hosts, lockq, Raise, Return, Fail, Proceed, Save, SetPhase, RecPc, Transient
  <2>1. CASE Load
    BY <2>1 DEF Load, LoadStart, LoadStop, LoadReconcile, InRt
  <2>2. CASE Connect
    BY <2>2, <2>b DEF Connect, RtState
  <2>3. CASE Prepare
    BY <2>3, <2>b DEF Prepare, RtState
  <2>4. CASE Deploy
    BY <2>4 DEF Deploy
  <2>5. CASE Wait
    BY <2>5, <2>b DEF Wait, RtState
  <2>6. CASE Refresh
    BY <2>6 DEF Refresh
  <2>7. CASE Links \/ Shared
    BY <2>7 DEF Links, Shared
  <2>9. CASE Commit
    BY <2>9, <2>b DEF Commit, RtState
  <2>10. CASE Failed
    BY <2>10, <2>b DEF Failed, RtState
  <2>11. CASE Rollback
    BY <2>11 DEF Rollback
  <2>21. CASE Forget
    BY <2>21, <2>b, <2>c DEF Forget, RtState
  <2>12. CASE Cancel
    BY <2>12, <2>b DEF Cancel, RtState
  <2>13. CASE CancelDestroy
    BY <2>13 DEF CancelDestroy
  <2>14. CASE CancelLinks
    <3>1. disk'.rt = WithRt(mem, node, "stopped").rt /\ pc' = "answer" /\ node \in Node
      BY <2>14, <2>c DEF CancelLinks, CancelledState
    <3> QED BY <3>1, <2>b DEF RtState
  <2>15. CASE StopConnect
    <3>1. StopPhase(mem.rt[node]) \in RtState
      BY DEF StopPhase, RtState
    <3> QED BY <2>15, <3>1, <2>b DEF StopConnect
  <2>16. CASE StopWork
    BY <2>16 DEF StopWork, StopDestroy, StopLinks
  <2>17. CASE StopCommit
    BY <2>17, <2>b, <2>c DEF StopCommit, RtState
  <2>18. CASE Remove
    BY <2>18, <2>b, <2>c DEF Remove, RtState
  <2>19. CASE RecConnect
    <3>1. disk'.rt = disk.rt
      <4>1. \A lk : WithLk(mem, lk).rt = mem.rt
        BY DEF State, WithLk
      <4> QED BY <2>19, <4>1 DEF RecConnect
    <3> QED BY <2>19, <3>1 DEF RecConnect
  <2>20. CASE RecLinks
    BY <2>20, CreateType DEF RecLinks
  <2> QED BY <1>7, <2>1, <2>2, <2>3, <2>4, <2>5, <2>6, <2>7, <2>9, <2>10,
             <2>11, <2>12, <2>13, <2>14, <2>15, <2>16, <2>17, <2>18, <2>19,
             <2>20, <2>21 DEF Worker
<1> QED BY <1>1, <1>2, <1>3, <1>4, <1>5, <1>6, <1>7 DEF Next

\* While the service lives and the transport holds, no VD is left in a passing phase
\* when no mutation is in progress: every error path of the controller settles it.
THEOREM PhasesAreSettled == Spec => []PhasesSettle
<1>1. Init => SettleInv
    BY DEF Init, SettleInv, Transient
<1>2. SettleInv => PhasesSettle
    BY DEF SettleInv, SettledPc, PhasesSettle, CutShort
<1> QED BY <1>1, <1>2, NodeInvariant, SettleStep, PTL DEF Spec

\* A start that is answered "completed" and was not cancelled left its VD running, on
\* the hosts as in the file (lab_node_start, NodeLifecycleController.start and add), unless
\* a crash or a lost transport cut the undoing of an earlier add short.
THEOREM CompletedIsRunning == Spec => []CompletedMeansRunning
<1>1. Init => SettleInv
    BY DEF Init, SettleInv, Transient
<1>2. NodeInv /\ SettleInv => CompletedMeansRunning
  <2> SUFFICES ASSUME NodeInv, SettleInv, pc = "answer", kind = "start", result = "ok", ~op[node].cancel
               PROVE  disk.rt[node] = "running" /\ (cont[node] \/ (CutShort /\ node \in undone))
    BY DEF CompletedMeansRunning
  <2>1. disk.rt[node] = "running"
    BY DEF NodeInv, PlaceInv
  <2>2. node \in Node
    BY RequestOfNode DEF NodeInv, QueuedOnce
  <2>3. cont[node] \/ node \in undone
    BY <2>1, <2>2 DEF NodeInv, RunningInv, CopiesTruthful
  <2> QED BY <2>1, <2>3 DEF SettleInv
<1> QED BY <1>1, <1>2, NodeInvariant, SettleStep, PTL DEF Spec

-----------------------------------------------------------------------------
(* VDs live by their phases: the refinement of VdPhases                      *)

\* What the file says of the VD at each place of its worker.
PhaseInv ==
    LET s == disk.rt[node] IN
    /\ pc = "connect" => s \notin {"running", "absent"} /\ ~adding
    /\ pc = "prepare" => s = "absent"
    /\ pc \in {"deploy", "wait"} => s = "starting"
    /\ pc \in {"refresh", "links", "shared", "commit"} => s = "reconciling"
    /\ pc \in {"rollback", "forget"} => s \in {"starting", "reconciling"} \/ node \in undone
    /\ pc = "failed" => s # "absent"
    /\ pc = "cancel" => s # "absent" /\ (s = "running" => node \in undone)
    /\ pc \in {"cancelDestroy", "cancelLinks"} => s = "cancelling"
    /\ pc = "stopConnect" => s \notin {"stopped", "absent"}
    /\ pc \in {"stopFirst", "stopSecond", "stopCommit"} => s \in {"stopping", "cancelling"}
    /\ pc = "removeConnect" => s = "stopped"

\* Every step keeps PhaseInv.
LEMMA PhaseStep == NodeInv /\ PhaseInv /\ [Next]_vars => PhaseInv'
<1> SUFFICES ASSUME NodeInv, PhaseInv, [Next]_vars PROVE PhaseInv'
    OBVIOUS
<1>0. /\ disk \in State /\ mem \in State /\ mem.rt = disk.rt
      /\ QueuedOnce /\ TypeOK /\ RunningInv /\ PlaceInv
    BY DEF NodeInv, TypeOK, PlaceInv
<1>u. /\ undone \subseteq Node
      /\ \A n \in Node : disk'.rt[n] = "running" /\ (n \in undone \/ FailsLate(n)) => n \in undone'
  <2>1. CASE Next
    BY <2>1, <1>0 DEF Next, Follow, TypeOK
  <2>2. CASE UNCHANGED vars
    BY <2>2, <1>0 DEF vars, FailsLate, TypeOK
  <2> QED BY <2>1, <2>2
<1>v. \A n \in undone : disk.rt[n] = "running"
    BY <1>0 DEF RunningInv, UndoneShown
<1> USE <1>u, <1>v
<1>1. CASE UNCHANGED vars
    BY <1>1 DEF vars, PhaseInv, node
<1>2. CASE Acquire
    BY <1>2 DEF Acquire, PhaseInv
<1>3. CASE Client
    BY <1>3 DEF Client, RequestStart, RequestCancel, RequestMutation, EditTopology, hosts, lockq,
                PhaseInv, node
<1>4. CASE Crash
    BY <1>4 DEF Crash, PhaseInv
<1>5. CASE \E n \in Node : OrphanEnds(n)
    BY <1>5 DEF OrphanEnds, lockq, PhaseInv, node
<1>6. CASE Answer
    BY <1>6 DEF Answer, PhaseInv
<1>7. CASE Worker /\ ~Answer
  <2> USE DEF PhaseInv, node, kind
  <2>b. \A n \in Node, s \in RtState : WithRt(mem, n, s).rt[n] = s
    BY <1>0, StateUpdate
  <2>c. \A n, s, lk : WithLk(WithRt(mem, n, s), lk).rt = WithRt(mem, n, s).rt
    BY <1>0 DEF State, WithLk, WithRt
  <2>0. /\ job' = job /\ job # NoJob
        /\ (pc \notin RecPc \cup {"load", "answer"} => job[2] \in Node /\ job[1] # "link")
        /\ pc \in StopPc => job[1] # "start" /\ ~adding
        /\ adding => job[1] = "start"
    BY <1>7, <1>0, WorkerKeeps, RequestOfNode DEF QueuedOnce, PlaceInv, RunningInv, AddingIsStart
  <2> USE <2>0, <1>0 DEF hosts, lockq, Raise, Return, Fail, Proceed, Save, SetPhase, RecPc, StopPc
  <2>1. CASE Load
    BY <2>1 DEF Load, LoadStart, LoadStop, LoadReconcile, InRt, RunningInv, AddingIsStart
  <2>2. CASE Connect
    BY <2>2, <2>b DEF Connect, RtState, Cancelled
  <2>3. CASE Prepare
    BY <2>3, <2>b DEF Prepare, RtState
  <2>4. CASE Deploy
    BY <2>4 DEF Deploy
  <2>5. CASE Wait
    BY <2>5, <2>b DEF Wait, RtState
  <2>6. CASE Refresh
    BY <2>6 DEF Refresh
  <2>7. CASE Links \/ Shared
    BY <2>7 DEF Links, Shared
  <2>9. CASE Commit
    BY <2>9, <2>b DEF Commit, FailsLate, RtState
  <2>10. CASE Failed \/ Rollback \/ Forget
    BY <2>10 DEF Failed, Rollback, Forget
  <2>12. CASE Cancel
    BY <2>12, <2>b DEF Cancel, RtState
  <2>13. CASE CancelDestroy
    BY <2>13 DEF CancelDestroy
  <2>14. CASE CancelLinks \/ Remove
    BY <2>14 DEF CancelLinks, Remove
  <2>15. CASE StopConnect
    <3>1. StopPhase(mem.rt[node]) \in {"stopping", "cancelling"}
      BY DEF StopPhase
    <3> QED BY <2>15, <3>1, <2>b DEF StopConnect, RtState, Cancelled
  <2>16. CASE StopWork
    BY <2>16 DEF StopWork, StopDestroy, StopLinks, Cancelled
  <2>17. CASE StopCommit
    BY <2>17, <2>b, <2>c DEF StopCommit, RtState
  <2>19. CASE RecConnect \/ RecLinks
    BY <2>19 DEF RecConnect, RecLinks
  <2> QED BY <1>7, <2>1, <2>2, <2>3, <2>4, <2>5, <2>6, <2>7, <2>9, <2>10,
             <2>12, <2>13, <2>14, <2>15, <2>16, <2>17, <2>19 DEF Worker
<1> QED BY <1>1, <1>2, <1>3, <1>4, <1>5, <1>6, <1>7 DEF Next

\* A step of VdPhases for the VD v, or none.
Promised == [Phases!PhasesNext]_(Phases!phaseVars)

\* Every step of the service and of the hosts is one that VdPhases allows, or a stutter.
LEMMA PhasesKept == NodeInv /\ PhaseInv /\ [Next]_vars => Promised
<1> SUFFICES ASSUME NodeInv, PhaseInv, [Next]_vars PROVE Promised
    OBVIOUS
<1>0. /\ disk \in State /\ mem \in State /\ mem.rt = disk.rt
      /\ QueuedOnce /\ TypeOK /\ RunningInv /\ PlaceInv
      /\ disk.rt \in [Node -> RtState] /\ cont \in [Node -> BOOLEAN] /\ bg \in [Node -> BOOLEAN]
    BY StateUpdate DEF NodeInv, TypeOK, PlaceInv
<1>v. undone \subseteq Node /\ \A n \in undone : disk.rt[n] = "running"
    BY <1>0 DEF RunningInv, UndoneShown, TypeOK
<1>w. \A n \in Node : disk.rt[n] # "running" => Shown[n] = disk.rt[n]
    BY <1>v DEF Shown
<1>x. \A n \in Node : Shown[n] = "running" => disk.rt[n] = "running"
    BY DEF Shown
<1>y. \A n \in Node : disk.rt[n] = "running" => Shown[n] \in {"running", "undone"}
    BY DEF Shown
<1>u. \A n \in Node : n \in undone' <=> disk'.rt[n] = "running" /\ (n \in undone \/ FailsLate(n))
  <2>1. CASE Next
    BY <2>1 DEF Next, Follow
  <2>2. CASE UNCHANGED vars
    BY <2>2, <1>v DEF vars, FailsLate
  <2> QED BY <2>1, <2>2
<1>h. ASSUME disk'.rt = disk.rt, pc # "commit" \/ pc' \notin {"rollback", "cancel"} PROVE Shown' = Shown
  <2>1. \A n \in Node : n \in undone' <=> n \in undone
    BY <1>h, <1>u, <1>v DEF FailsLate
  <2> QED BY <2>1, <1>h DEF Shown
<1>s. ASSUME disk'.rt = disk.rt, cont' = cont, bg' = bg, pc # "commit" \/ pc' \notin {"rollback", "cancel"}
      PROVE  Promised
    BY <1>h, <1>s DEF Promised, Phases!phaseVars
<1>e. ASSUME NEW n \in Node, NEW s, disk'.rt = [disk.rt EXCEPT ![n] = s], s # "running", pc # "commit",
             cont' = cont, bg' = bg
      PROVE  Phases!Enter(n, s)
  <2>1. \A m \in Node : m # n => (disk'.rt[m] = disk.rt[m] /\ (m \in undone' <=> m \in undone))
    BY <1>e, <1>0, <1>u, <1>v DEF FailsLate
  <2>2. disk'.rt[n] = s /\ n \notin undone'
    BY <1>e, <1>0, <1>u
  <2>3. Shown' = [Shown EXCEPT ![n] = s]
    BY <2>1, <2>2 DEF Shown
  <2> QED BY <1>e, <2>3 DEF Phases!Enter
<1>n. ASSUME NEW n \in Node,
             \/ Phases!BeginStart(n) \/ Phases!BeginStop(n) \/ Phases!BeginCancel(n)
             \/ Phases!Create(n) \/ Phases!Lose(n) \/ Phases!BeginWiring(n) \/ Phases!Run(n)
             \/ Phases!RunInVain(n) \/ Phases!Settle(n) \/ Phases!GiveUp(n) \/ Phases!Forget(n) \/ Phases!Revert(n)
             \/ Phases!StrayEnds(n)
      PROVE  Promised
    BY <1>n DEF Promised, Phases!PhasesNext
<1>r. \A n, s : WithRt(mem, n, s).rt = [disk.rt EXCEPT ![n] = s]
    BY <1>0 DEF WithRt
<1>l. \A m, lk : WithLk(m, lk).rt = m.rt
    BY DEF WithLk
<1>1. CASE UNCHANGED vars
    BY <1>1, <1>s DEF vars
<1>2. CASE Acquire \/ Client
    BY <1>2, <1>s DEF Acquire, Client, RequestStart, RequestCancel, RequestMutation, EditTopology, hosts, lockq
<1>4. CASE Crash
  <2>1. CASE bg' = bg
    BY <1>4, <1>s, <2>1 DEF Crash
  <2>2. CASE bg' # bg
    <3>1. pc = "deploy" /\ bg' = [bg EXCEPT ![node] = TRUE] /\ cont' = cont /\ disk'.rt = disk.rt
      BY <1>4, <2>2 DEF Crash
    <3>2. node \in Node /\ disk.rt[node] = "starting"
      BY <1>0, <3>1, RequestOfNode DEF PhaseInv, QueuedOnce, PlaceInv, RecPc
    <3>3. cont' = [cont EXCEPT ![node] = cont[node]]
      BY <1>0, <3>1, <3>2
    <3>4. Phases!Create(node)
      BY <1>h, <1>w, <3>1, <3>2, <3>3 DEF Phases!Create
    <3> QED BY <1>n, <3>2, <3>4
  <2> QED BY <2>1, <2>2
<1>5. ASSUME NEW n \in Node, OrphanEnds(n) PROVE Promised
  <2>1. Phases!StrayEnds(n)
    BY <1>5, <1>h DEF OrphanEnds, Phases!StrayEnds
  <2> QED BY <1>n, <2>1
<1>6. CASE Answer
    BY <1>6, <1>s DEF Answer, hosts
<1>7. CASE Worker /\ ~Answer
  <2> DEFINE n == job[2]
  <2>0. /\ pc \notin RecPc \cup {"load", "answer"} => n \in Node
        /\ pc \in StopPc => job[1] # "start"
    BY <1>7, <1>0, WorkerKeeps, RequestOfNode DEF QueuedOnce, PlaceInv, RunningInv, AddingIsStart, kind, node
  <2> USE <1>0, <2>0 DEF node, RecPc, StopPc, hosts
  <2> HIDE DEF n
  <2>1. CASE Load \/ Refresh \/ Links \/ Shared
    BY <2>1, <1>s DEF Load, Refresh, Links, Shared
  <2>2. CASE Connect \/ Prepare
    <3>1. CASE disk'.rt = disk.rt
      BY <1>s, <2>2, <3>1 DEF Connect, Prepare
    <3>2. CASE disk'.rt # disk.rt
      <4>1. disk'.rt = [disk.rt EXCEPT ![n] = "starting"] /\ n \in Node /\ disk.rt[n] # "running"
            /\ cont' = cont /\ bg' = bg /\ pc # "commit"
        BY <1>r, <2>2, <3>2 DEF Connect, Prepare, SetPhase, Save, PhaseInv, n
      <4>2. Phases!BeginStart(n)
        BY <1>0, <1>e, <1>w, <4>1 DEF Phases!BeginStart, RtState
      <4> QED BY <1>n, <4>1, <4>2
    <3> QED BY <3>1, <3>2
  <2>4. CASE Deploy
    <3>1. n \in Node /\ Shown[n] = "starting" /\ Shown' = Shown
      BY <1>h, <1>w, <2>4 DEF Deploy, PhaseInv, n
    <3>2. \E c \in {TRUE, cont[n]} : cont' = [cont EXCEPT ![n] = c]
      BY <2>4 DEF Deploy, n
    <3>3. \E c \in {TRUE, bg[n]} : bg' = [bg EXCEPT ![n] = c]
      <4>1. bg' = bg \/ bg' = [bg EXCEPT ![n] = TRUE]
        BY <2>4 DEF Deploy, n
      <4>2. bg = [bg EXCEPT ![n] = bg[n]]
        BY <3>1
      <4> QED BY <4>1, <4>2
    <3>4. Phases!Create(n)
      BY <3>1, <3>2, <3>3 DEF Phases!Create
    <3> QED BY <1>n, <3>1, <3>4
  <2>5. CASE Wait
    <3>1. n \in Node /\ Shown[n] = "starting" /\ bg' = bg /\ pc = "wait"
      BY <1>w, <2>5 DEF Wait, PhaseInv, n
    <3>2. CASE disk'.rt # disk.rt
      <4>1. disk'.rt = [disk.rt EXCEPT ![n] = "reconciling"] /\ cont[n] /\ cont' = cont
        BY <1>r, <2>5, <3>2 DEF Wait, SetPhase, Save, n
      <4>2. Phases!BeginWiring(n)
        BY <1>e, <3>1, <4>1 DEF Phases!BeginWiring
      <4> QED BY <1>n, <3>1, <4>2
    <3>3. CASE disk'.rt = disk.rt /\ cont' # cont
      <4>1. cont' = [cont EXCEPT ![n] = FALSE]
        BY <2>5, <3>3 DEF Wait, n
      <4>2. Phases!Lose(n)
        BY <1>h, <3>1, <3>3, <4>1 DEF Phases!Lose, Phases!Passing
      <4> QED BY <1>n, <3>1, <4>2
    <3> QED BY <1>s, <3>1, <3>2, <3>3
  <2>6. CASE Commit
    <3>1. /\ n \in Node /\ disk.rt[n] = "reconciling" /\ cont[n] /\ bg' = bg /\ cont' = cont
          /\ pc = "commit"
      BY <2>6 DEF Commit, PhaseInv, RunningInv, BusyIsUp, n
    <3>2. disk'.rt = [disk.rt EXCEPT ![n] = "running"]
      BY <1>r, <2>6 DEF Commit, SetPhase, Save, n
    <3>3. n \notin undone /\ Shown[n] = "reconciling" /\ disk'.rt[n] = "running"
      BY <1>v, <1>w, <3>1, <3>2
    <3>4. \A m \in Node : m # n => (disk'.rt[m] = disk.rt[m] /\ (m \in undone' <=> m \in undone))
      BY <1>u, <1>v, <3>2 DEF FailsLate, n
    <3>5. CASE FailsLate(n)
      <4>1. Shown' = [Shown EXCEPT ![n] = "undone"]
        BY <1>u, <3>1, <3>3, <3>4, <3>5 DEF Shown
      <4>2. Phases!RunInVain(n)
        BY <3>1, <3>3, <4>1 DEF Phases!RunInVain, Phases!Enter
      <4> QED BY <1>n, <3>1, <4>2
    <3>6. CASE ~FailsLate(n)
      <4>1. Shown' = [Shown EXCEPT ![n] = "running"]
        BY <1>u, <3>1, <3>3, <3>4, <3>6 DEF Shown
      <4>2. Phases!Run(n)
        BY <3>1, <3>3, <4>1 DEF Phases!Run, Phases!Enter
      <4> QED BY <1>n, <3>1, <4>2
    <3> QED BY <3>5, <3>6
  <2>7. CASE Failed
    <3>1. n \in Node /\ Shown[n] # "absent" /\ bg' = bg /\ cont' = cont /\ pc = "failed"
      BY <1>w, <1>y, <2>7 DEF Failed, PhaseInv, n
    <3>2. disk'.rt = [disk.rt EXCEPT ![n] = "error"]
      BY <1>r, <2>7 DEF Failed, Save, n
    <3>3. Phases!GiveUp(n)
      BY <1>e, <3>1, <3>2 DEF Phases!GiveUp
    <3> QED BY <1>n, <3>1, <3>3
  <2>8. CASE Rollback
    <3>1. n \in Node /\ disk'.rt = disk.rt /\ bg' = bg /\ pc = "rollback"
      BY <2>8 DEF Rollback, n
    <3>2. Shown[n] \in {"starting", "reconciling", "undone"}
      BY <1>w, <2>8, <3>1 DEF Rollback, PhaseInv, Shown, n
    <3>3. cont' = cont \/ cont' = [cont EXCEPT ![n] = FALSE]
      <4>1. cont = [cont EXCEPT ![n] = cont[n]]
        BY <3>1
      <4> QED BY <2>8, <4>1 DEF Rollback, n
    <3>4. CASE cont' = [cont EXCEPT ![n] = FALSE]
      <4>1. Phases!Lose(n)
        BY <1>h, <3>1, <3>2, <3>4 DEF Phases!Lose, Phases!Passing
      <4> QED BY <1>n, <3>1, <4>1
    <3> QED BY <1>s, <3>1, <3>3, <3>4
  <2>15. CASE Forget
    <3>1. n \in Node /\ bg' = bg /\ cont' = cont /\ pc = "forget"
      BY <2>15 DEF Forget, n
    <3>2. Shown[n] \in {"starting", "reconciling", "undone"}
      BY <1>w, <2>15, <3>1 DEF Forget, PhaseInv, Shown, n
    <3>3. disk'.rt = [disk.rt EXCEPT ![n] = "absent"]
      BY <1>r, <1>l, <2>15 DEF Forget, Save, n
    <3>4. Phases!Revert(n)
      BY <1>e, <3>1, <3>2, <3>3 DEF Phases!Revert
    <3> QED BY <1>n, <3>1, <3>4
  <2>9. CASE Cancel
    <3>1. n \in Node /\ Shown[n] \notin {"absent", "running"} /\ bg' = bg /\ cont' = cont /\ pc = "cancel"
      BY <1>w, <1>x, <2>9 DEF Cancel, PhaseInv, Shown, n
    <3>2. disk'.rt = [disk.rt EXCEPT ![n] = "cancelling"]
      BY <1>r, <2>9 DEF Cancel, SetPhase, Save, n
    <3>3. Phases!BeginCancel(n)
      BY <1>e, <3>1, <3>2 DEF Phases!BeginCancel
    <3> QED BY <1>n, <3>1, <3>3
  <2>10. CASE CancelDestroy \/ StopWork
    <3>1. /\ n \in Node /\ Shown[n] \in {"stopping", "cancelling"} /\ bg' = bg /\ disk'.rt = disk.rt
          /\ pc # "commit"
      BY <1>w, <2>10 DEF CancelDestroy, StopWork, PhaseInv, n
    <3>2. cont' = cont \/ cont' = [cont EXCEPT ![n] = FALSE]
      BY <2>10 DEF CancelDestroy, StopWork, StopDestroy, StopLinks, DestroyClab, n
    <3>3. CASE cont' = [cont EXCEPT ![n] = FALSE]
      <4>1. Phases!Lose(n)
        BY <1>h, <3>1, <3>3 DEF Phases!Lose, Phases!Passing
      <4> QED BY <1>n, <3>1, <4>1
    <3> QED BY <1>s, <3>1, <3>2, <3>3
  <2>11. CASE CancelLinks \/ StopCommit
    <3>1. /\ n \in Node /\ Shown[n] \in {"stopping", "cancelling"} /\ bg' = bg /\ cont' = cont
          /\ pc # "commit"
      BY <1>w, <2>11 DEF CancelLinks, StopCommit, PhaseInv, n
    <3>2. disk'.rt = [disk.rt EXCEPT ![n] = "stopped"]
      BY <1>r, <1>l, <2>11 DEF CancelLinks, CancelledState, StopCommit, Save, n
    <3>3. Phases!Settle(n)
      BY <1>e, <3>1, <3>2 DEF Phases!Settle
    <3> QED BY <1>n, <3>1, <3>3
  <2>12. CASE StopConnect
    <3>1. /\ n \in Node /\ disk.rt[n] \notin {"absent", "stopped"} /\ bg' = bg /\ cont' = cont
          /\ pc = "stopConnect"
      BY <2>12 DEF StopConnect, PhaseInv, n
    <3>2. CASE disk'.rt = [disk.rt EXCEPT ![n] = StopPhase(disk.rt[n])]
      <4>1. \/ StopPhase(disk.rt[n]) = "stopping"
            \/ StopPhase(disk.rt[n]) = "cancelling" /\ disk.rt[n] # "running"
        BY DEF StopPhase
      <4>2. Phases!BeginStop(n) \/ Phases!BeginCancel(n)
        BY <1>e, <1>w, <1>y, <3>1, <3>2, <4>1 DEF Phases!BeginStop, Phases!BeginCancel
      <4> QED BY <1>n, <3>1, <4>2
    <3>3. CASE disk' = disk
      BY <1>s, <3>1, <3>3
    <3> QED BY <1>r, <2>12, <3>2, <3>3 DEF StopConnect, SetPhase, Save, n
  <2>13. CASE Remove
    <3>1. n \in Node /\ Shown[n] = "stopped" /\ bg' = bg /\ cont' = cont /\ pc # "commit"
      BY <1>w, <2>13 DEF Remove, PhaseInv, n
    <3>2. CASE disk'.rt = [disk.rt EXCEPT ![n] = "absent"]
      <4>1. Phases!Forget(n)
        BY <1>e, <3>1, <3>2 DEF Phases!Forget
      <4> QED BY <1>n, <3>1, <4>1
    <3>3. CASE disk' = disk
      BY <1>s, <3>1, <3>3
    <3> QED BY <1>r, <1>l, <2>13, <3>2, <3>3 DEF Remove, Save, n
  <2>14. CASE RecConnect \/ RecLinks
    <3>1. disk'.rt = disk.rt /\ cont' = cont /\ bg' = bg /\ pc # "commit"
      BY <1>l, <2>14, CreateType DEF RecConnect, RecLinks, Save
    <3> QED BY <1>s, <3>1
  <2> QED BY <1>7, <2>1, <2>2, <2>4, <2>5, <2>6, <2>7, <2>8, <2>9, <2>10, <2>11, <2>12, <2>13, <2>14, <2>15
          DEF Worker
<1> QED BY <1>1, <1>2, <1>4, <1>5, <1>6, <1>7 DEF Next

\* The service implements VdPhases, whatever clients ask for and whatever fails: at the
\* start the lab is deployed, and each step is a step of VdPhases or a stutter.
THEOREM VdsLiveByTheirPhases == Spec => LivesByItsPhases
<1>1. Init => PhaseInv /\ Phases!PhasesInit
    BY DEF Init, PhaseInv, Phases!PhasesInit, Shown
<1>2. NodeInv /\ PhaseInv /\ [Next]_vars => PhaseInv' /\ [Phases!PhasesNext]_(Phases!phaseVars)
    BY PhaseStep, PhasesKept DEF Promised
<1> QED BY <1>1, <1>2, NodeInvariant, PTL DEF Spec, LivesByItsPhases, Phases!PhasesSpec

\* What a reader may conclude from VdPhases alone: a VD shown as running has a running
\* container.  RunningHasContainer is this for the state file, where a VD that is undone is
\* shown as running too.
THEOREM ShownRunningIsUp == Phases!PhasesSpec => [](\A v \in Node : Shown[v] = "running" => cont[v])
<1> DEFINE Phase == RtState \cup {"undone"}
<1> DEFINE Up == /\ Shown \in [Node -> Phase] /\ cont \in [Node -> BOOLEAN]
                 /\ \A v \in Node : Shown[v] = "running" => cont[v]
<1>1. Phases!PhasesInit => Up
  <2> SUFFICES ASSUME Phases!PhasesInit PROVE Up
    OBVIOUS
  <2>1. cont \in [Node -> BOOLEAN] /\ Shown = [v \in Node |-> IF cont[v] THEN "running" ELSE "absent"]
    BY DEF Phases!PhasesInit
  <2>2. Shown \in [Node -> Phase]
    BY <2>1 DEF RtState
  <2> QED BY <2>1, <2>2
<1>2. Up /\ [Phases!PhasesNext]_(Phases!phaseVars) => Up'
  <2> SUFFICES ASSUME Up, [Phases!PhasesNext]_(Phases!phaseVars) PROVE Up'
    OBVIOUS
  <2>1. CASE UNCHANGED Phases!phaseVars
    BY <2>1 DEF Phases!phaseVars
  <2>2. ASSUME NEW v \in Node, NEW p \in Phase, Phases!Enter(v, p), p = "running" => cont[v] PROVE Up'
    <3>1. Shown' = [Shown EXCEPT ![v] = p] /\ cont' = cont
      BY <2>2 DEF Phases!Enter
    <3>2. Shown' \in [Node -> Phase] /\ Shown'[v] = p /\ \A w \in Node : w # v => Shown'[w] = Shown[w]
      BY <3>1
    <3> QED BY <2>2, <3>1, <3>2
  <2>3. ASSUME NEW v \in Node, NEW u \in BOOLEAN, cont' = [cont EXCEPT ![v] = u], Shown' = Shown,
               Shown[v] # "running" \/ u = cont[v] \/ u
        PROVE  Up'
    BY <2>3
  <2>4. ASSUME NEW v \in Node,
               \/ Phases!BeginStart(v) \/ Phases!BeginStop(v) \/ Phases!BeginCancel(v)
               \/ Phases!BeginWiring(v) \/ Phases!Run(v)
               \/ Phases!Settle(v) \/ Phases!GiveUp(v) \/ Phases!Forget(v)
               \/ Phases!RunInVain(v) \/ Phases!Revert(v)
        PROVE  Up'
    BY <2>2, <2>4 DEF Phases!BeginStart, Phases!BeginStop, Phases!BeginCancel, Phases!BeginWiring,
           Phases!Run, Phases!RunInVain, Phases!Settle, Phases!GiveUp, Phases!Forget, Phases!Revert, RtState
  <2>5. ASSUME NEW v \in Node, Phases!Create(v) \/ Phases!Lose(v) \/ Phases!StrayEnds(v) PROVE Up'
    BY <2>3, <2>5 DEF Phases!Create, Phases!Lose, Phases!StrayEnds, Phases!Passing
  <2> QED BY <2>1, <2>4, <2>5 DEF Phases!PhasesNext
<1> QED BY <1>1, <1>2, PTL DEF Phases!PhasesSpec

-----------------------------------------------------------------------------
(* Links saved as up are connected                                           *)

\* The helpers on one link: what marks, refreshes, creates, plugs and unplugs makes of it.
LEMMA MarkAt ==
    ASSUME NEW lk, NEW ls, NEW s \in LkState \ {"up", "absent"}, NEW l \in Link
    PROVE  /\ Mark(lk, ls, s)[l] = "up" <=> lk[l] = "up" /\ l \notin ls
           /\ Mark(lk, ls, s)[l] = "absent" <=> lk[l] = "absent"
BY DEF Mark

\* A link that is up after a refresh was up and is in the topology.
LEMMA RefreshedAt ==
    ASSUME NEW m, NEW bad, NEW l \in Link
    PROVE  /\ Refreshed(m, bad)[l] = "up" => m.lk[l] = "up" /\ l \in topo
           /\ l \notin topo => Refreshed(m, bad)[l] = "absent"
           /\ l \in topo => Refreshed(m, bad)[l] # "absent"
BY DEF Refreshed

\* A link that is up after create_link was brought up, or was not asked for.
LEMMA CreatedAt ==
    ASSUME NEW lk, NEW done, NEW running, NEW l \in Link
    PROVE  /\ Created(lk, done, running)[l] = "up"
                => l \in Wired(done, running) \/ (l \notin done /\ lk[l] = "up")
           /\ Created(lk, done, running)[l] = "absent" <=> lk[l] = "absent"
           /\ Created(lk, done, running)[l] \in {"absent", "pending", "invalid"}
                <=> lk[l] \in {"absent", "pending", "invalid"}
<1>1. Mark(lk, done, "partial")[l] =
        IF l \in done /\ lk[l] \notin {"absent", "pending", "invalid"} THEN "partial" ELSE lk[l]
    BY DEF Mark
<1>2. Created(lk, done, running)[l] =
        IF l \in Wired(done, running) /\ Mark(lk, done, "partial")[l] \notin {"absent", "pending", "invalid"}
        THEN "up" ELSE Mark(lk, done, "partial")[l]
    BY DEF Created, Mark
<1> QED BY <1>1, <1>2 DEF Wired

\* Plugging and unplugging one link.
LEMMA PlugAt ==
    ASSUME NEW d, NEW ls, NEW l \in Link
    PROVE  /\ Unplugged(d, ls)[l] <=> d[l] /\ l \notin ls
           /\ Plugged(d, ls)[l] <=> d[l] \/ l \in ls
BY DEF Unplugged, Plugged

\* What the file says is up; and what the controller's copy says is up, where the VD of
\* a start counts as running once its links are made.
FileUp(l) == disk.lk[l] = "up" /\ \A n \in Ends[l] : CalledRunning(n)
CopyUp(l) ==
    /\ mem.lk[l] = "up"
    /\ \A n \in Ends[l] : CalledRunning(n) \/ (n = node /\ pc \in {"shared", "commit"})

\* A link that an edit took away has been deleted, and the next save will say so.
EditedPc == {"links", "shared", "commit", "failed", "rollback", "forget"} \cup CancelPc
EditedAway(l) == l \notin topo /\ mem.lk[l] = "absent" /\ pc \in EditedPc

\* What a hot add restores as up when it fails: the links of the other VDs.
PrevUp(l) == prev[l] = "up" /\ \A n \in Ends[l] : n # node /\ CalledRunning(n)

\* Only the clients of the setting make requests.
AskedFor ==
    /\ \A i \in 1..Len(waiting) : waiting[i][1] \in Clients
    /\ job # NoJob => kind \in Clients

\* Without edits every link of the file is a link of the topology.
NoStrays ==
    "edit" \notin Clients =>
        /\ \A l \in Link \ desired :
             disk.lk[l] = "absent" /\ mem.lk[l] = "absent" /\ prev[l] = "absent"
        /\ pc \notin {"idle", "load"} => topo = desired

LinksBacked ==
    /\ pc = "recLinks" => mem.lk[node] \notin {"absent", "pending", "invalid"}
    /\ \A l \in Link : FileUp(l) => dp[l] \/ EditedAway(l)
    /\ \A l \in Link : CopyUp(l) => dp[l]

\* They are connected until the add ends.
PrevBacked == adding /\ pc # "answer" => \A l \in Link : PrevUp(l) => dp[l]

LinkInv == AskedFor /\ NoStrays /\ (LinksTracked => LinksBacked /\ PrevBacked)

\* A start, stop, restart or remove is asked of the VD it names.
LEMMA AskedStep == NodeInv /\ AskedFor /\ [Next]_vars => AskedFor'
<1> SUFFICES ASSUME NodeInv, AskedFor, [Next]_vars PROVE AskedFor'
    OBVIOUS
<1> USE DEF AskedFor, kind
<1>0. waiting \in Seq(Request) /\ QueuedOnce /\ TypeOK
    BY DEF NodeInv, TypeOK
<1>f. Clients' = Clients
    BY DEF Next, Follow, vars, Clients
<1>1. CASE UNCHANGED <<waiting, job>>
    BY <1>1, <1>f
<1>2. CASE Acquire
  <2>1. /\ job' = waiting[1] /\ waiting' = Tail(waiting) /\ waiting # <<>>
    BY <1>2, <1>0 DEF Acquire
  <2>2. /\ Len(waiting') = Len(waiting) - 1 /\ Len(waiting) \in Nat \ {0}
        /\ \A i \in 1..Len(waiting') : waiting'[i] = waiting[i + 1]
    BY <2>1, <1>0
  <2>3. 1 \in 1..Len(waiting) /\ \A i \in 1..Len(waiting') : i + 1 \in 1..Len(waiting)
    BY <2>2
  <2> QED BY <2>1, <2>2, <2>3, <1>f
<1>3. ASSUME NEW r, r[1] \in Clients, waiting' = Append(waiting, r), UNCHANGED job PROVE AskedFor'
  <2>1. /\ Len(waiting') = Len(waiting) + 1 /\ waiting'[Len(waiting) + 1] = r
        /\ \A i \in 1..Len(waiting) : waiting'[i] = waiting[i]
    BY <1>0, <1>3
  <2> QED BY <2>1, <1>0, <1>3, <1>f
<1>4. CASE Client
  <2>1. ASSUME NEW n \in Node, RequestStart(n) PROVE AskedFor'
    BY <2>1, <1>3 DEF RequestStart
  <2>2. ASSUME NEW r \in Request, RequestMutation(r) PROVE AskedFor'
    BY <2>2, <1>3 DEF RequestMutation
  <2> QED BY <1>4, <1>1, <2>1, <2>2 DEF Client, RequestCancel, EditTopology, lockq
<1>5. CASE Crash \/ Answer
    BY <1>5, <1>f DEF Crash, Answer, NoJob
<1>6. CASE Worker /\ ~Answer
    BY <1>6, <1>0, <1>1, WorkerKeeps
<1>7. CASE \E n \in Node : OrphanEnds(n)
    BY <1>7, <1>1 DEF OrphanEnds, lockq
<1> QED BY <1>1, <1>2, <1>4, <1>5, <1>6, <1>7 DEF Next, vars

\* What the controller reads of its state when it replaces a part of it.
LEMMA StateParts ==
    ASSUME TypeOK
    PROVE  /\ mem.rt \in [Node -> RtState] /\ mem.lk \in [Link -> LkState]
           /\ disk.rt \in [Node -> RtState] /\ disk.lk \in [Link -> LkState]
           /\ \A lk : WithLk(mem, lk).lk = lk /\ WithLk(mem, lk).rt = mem.rt
           /\ \A n, s : /\ WithRt(mem, n, s).lk = mem.lk
                        /\ \A k \in Node : k # n => WithRt(mem, n, s).rt[k] = mem.rt[k]
                        /\ n \in Node => WithRt(mem, n, s).rt[n] = s
           /\ \A n, s, lk : /\ WithLk(WithRt(mem, n, s), lk).lk = lk
                            /\ WithLk(WithRt(mem, n, s), lk).rt = WithRt(mem, n, s).rt
BY DEF TypeOK, State, WithLk, WithRt

\* Without edits, a link that is not in the topology never enters the file.
LEMMA StrayStep == NodeInv /\ NoStrays /\ [Next]_vars => NoStrays'
<1> SUFFICES ASSUME NodeInv, NoStrays, [Next]_vars PROVE NoStrays'
    OBVIOUS
<1>f. Clients' = Clients
    BY DEF Next, Follow, vars, Clients
<1> SUFFICES ASSUME "edit" \notin Clients PROVE NoStrays'
    BY <1>f DEF NoStrays
<1>0. TypeOK /\ QueuedOnce /\ PlaceInv
    BY DEF NodeInv
<1>1. CASE UNCHANGED <<disk, mem, prev, desired, topo, pc>>
    BY <1>1 DEF NoStrays
<1>2. CASE Acquire \/ Answer \/ Crash
    BY <1>2 DEF Acquire, Answer, Crash, NoStrays, NoLinks, hosts, lockq
<1>3. CASE Client
    BY <1>1, <1>3 DEF Client, RequestStart, RequestCancel, RequestMutation, EditTopology, hosts, lockq
<1>4. CASE \E n \in Node : OrphanEnds(n)
    BY <1>1, <1>4 DEF OrphanEnds, lockq
<1>5. CASE Worker /\ ~Answer
  <2> USE DEF hosts, lockq, Raise, Return, Fail, Proceed, Save, SetPhase
  <2>0. desired' = desired /\ pc # "idle" /\ topo' = desired
    <3>1. pc # "idle" /\ (pc # "load" => topo = desired)
      BY <1>0, <1>5, WorkerKeeps DEF NoStrays
    <3> QED BY <3>1, <1>5 DEF Worker, Load, Connect, Prepare, Deploy, Wait, Refresh, Links, Shared,
           Commit, Failed, Rollback, Forget, Cancel, CancelDestroy, CancelLinks, StopConnect, StopWork,
           StopCommit, Remove, RecConnect, RecLinks
  <2>p. prev' = prev \/ prev' = disk.lk \/ prev' = NoLinks
    BY <1>5 DEF Worker, Load, Connect, Prepare, Deploy, Wait, Refresh, Links, Shared,
           Commit, Failed, Rollback, Forget, Cancel, CancelDestroy, CancelLinks, StopConnect, StopWork,
           StopCommit, Remove, RecConnect, RecLinks
  <2> SUFFICES ASSUME NEW l \in Link, l \notin desired
               PROVE  disk'.lk[l] = "absent" /\ mem'.lk[l] = "absent"
    BY <2>0, <2>p DEF NoStrays, NoLinks
  <2>a. disk.lk[l] = "absent" /\ mem.lk[l] = "absent" /\ prev[l] = "absent"
    BY DEF NoStrays
  <2>b. pc # "load" => l \notin topo
    BY <2>0, <1>0 DEF NoStrays
  <2>c. \A ls : DeleteRaises(ls) => mem'.lk[l] = "absent"
    <3>1. ASSUME NEW ls, DeleteRaises(ls) PROVE mem'.lk[l] = "absent"
      <4>1. PICK gone, f : mem' = WithLk(mem, Mark(Mark(mem.lk, gone, "down"), {f}, "error"))
        BY <3>1 DEF DeleteRaises
      <4> QED BY <4>1, <1>0, <2>a, StateParts, MarkAt DEF LkState
    <3> QED BY <3>1
  <2>d. CreateAll \/ CreateRaises => mem'.lk[l] = "absent"
    <3>1. CASE CreateAll
      BY <3>1, <1>0, <2>a, StateParts, CreatedAt DEF CreateAll
    <3>2. CASE CreateRaises
      <4>1. PICK f, done : mem' = WithLk(mem, LinkFailed(Created(mem.lk, done, Running(mem)), f))
        BY <3>2 DEF CreateRaises
      <4> QED BY <4>1, <1>0, <2>a, StateParts, CreatedAt, MarkAt DEF LinkFailed, LkState
    <3> QED BY <3>1, <3>2
  <2>e. \A ls, s : s \in LkState \ {"up", "absent"} => Mark(mem.lk, ls, s)[l] = "absent"
    BY <2>a, MarkAt
  <2>1. CASE Load \/ Connect \/ Prepare \/ Deploy \/ Wait \/ Shared \/ Commit \/ Failed \/ Cancel \/ CancelDestroy \/ StopConnect
    BY <2>1, <2>a, <1>0, StateParts DEF Load, Connect, Prepare, Deploy, Wait, Shared, Commit, Failed, Cancel,
       CancelDestroy, StopConnect
  <2>2. CASE Refresh
    BY <2>2, <2>a, <2>b, <2>c, <1>0, StateParts, RefreshedAt DEF Refresh
  <2>3. CASE Links
    BY <2>3, <2>a, <2>d DEF Links
  <2>4. CASE Rollback \/ Forget
    BY <2>4, <2>a, <1>0, StateParts DEF Rollback, Forget
  <2>5. CASE CancelLinks
    <3>1. PICK all \in BOOLEAN, bad \in SUBSET Link : Save(CancelledState(all, bad))
      BY <2>5 DEF CancelLinks
    <3>2. CancelledState(all, bad).lk[l] = "absent"
      <4>1. CASE all
        BY <4>1, <2>b, <2>5, <1>0, StateParts, RefreshedAt, MarkAt DEF CancelledState, LkState, CancelLinks
      <4>2. CASE ~all
        BY <4>2, <2>e, <1>0, StateParts DEF CancelledState, LkState
      <4> QED BY <4>1, <4>2
    <3> QED BY <3>1, <3>2
  <2>6. CASE StopWork
    BY <2>6, <2>a, <2>c, <2>e, <1>0, StateParts DEF StopWork, StopDestroy, StopLinks, LkState
  <2>7. CASE StopCommit
    BY <2>7, <2>e, <1>0, StateParts DEF StopCommit, LkState
  <2>8. CASE Remove
    BY <2>8, <2>a, <1>0, StateParts DEF Remove, Forgotten
  <2>9. CASE RecConnect
    BY <2>9, <2>a, <2>b, <2>c, <1>0, StateParts, RefreshedAt DEF RecConnect
  <2>10. CASE RecLinks
    BY <2>10, <2>a, <2>d DEF RecLinks
  <2> QED BY <1>5, <2>1, <2>2, <2>3, <2>4, <2>5, <2>6, <2>7, <2>8, <2>9, <2>10 DEF Worker
<1> QED BY <1>1, <1>2, <1>3, <1>4, <1>5 DEF Next, vars

\* create_link over the links of a request: one that is up afterwards is connected, or it
\* was up before and has not been touched.
LEMMA CreatedBacked ==
    ASSUME TypeOK, CreateAll \/ CreateRaises, NEW l \in Link, mem'.lk[l] = "up"
    PROVE  dp'[l] \/ (mem.lk[l] = "up" /\ l \notin Todo /\ dp'[l] = dp[l])
                  \/ (CreateRaises /\ l \in Todo /\ mem.lk[l] = "up" /\ dp'[l] = dp[l])
<1> USE StateParts
<1>0. dp \in [Link -> BOOLEAN]
    BY DEF TypeOK
<1>1. CASE CreateAll
  <2>1. /\ mem'.lk = Created(mem.lk, Todo, Running(mem))
        /\ dp' = Plugged(dp, Wired(Todo, Running(mem)))
    BY <1>1 DEF CreateAll
  <2>2. l \in Wired(Todo, Running(mem)) \/ (l \notin Todo /\ mem.lk[l] = "up")
    BY <2>1, CreatedAt
  <2>3. dp'[l] \in BOOLEAN /\ (dp'[l] <=> dp[l] \/ l \in Wired(Todo, Running(mem)))
    BY <2>1, <1>0, PlugAt, PlugType
  <2> QED BY <2>2, <2>3, <1>0
<1>2. CASE CreateRaises
  <2>1. PICK f \in Todo : \E done \in SUBSET (Todo \ {f}) :
          /\ mem' = WithLk(mem, LinkFailed(Created(mem.lk, done, Running(mem)), f))
          /\ \/ dp' = Unplugged(Plugged(dp, Wired(done, Running(mem))), {f})
             \/ dp' = Plugged(dp, Wired(done, Running(mem)))
    BY <1>2 DEF CreateRaises, Wired
  <2>2. PICK done \in SUBSET (Todo \ {f}) :
          /\ mem'.lk = Mark(Created(mem.lk, done, Running(mem)), {f}, "error")
          /\ \/ dp' = Unplugged(Plugged(dp, Wired(done, Running(mem))), {f})
             \/ dp' = Plugged(dp, Wired(done, Running(mem)))
    BY <2>1 DEF LinkFailed
  <2>3. l # f /\ Created(mem.lk, done, Running(mem))[l] = "up"
    BY <2>2, MarkAt DEF LkState
  <2>4. l \in Wired(done, Running(mem)) \/ (l \notin done /\ mem.lk[l] = "up")
    BY <2>3, CreatedAt
  <2>5. dp'[l] <=> dp[l] \/ l \in Wired(done, Running(mem))
    BY <2>2, <2>3, PlugAt
  <2>6. dp'[l] \in BOOLEAN
    BY <2>2, <1>0, PlugType DEF TypeOK
  <2> QED BY <2>4, <2>5, <2>6, <1>0, <1>2
<1> QED BY <1>1, <1>2

\* A start makes all links of its VD: those that are up are connected.
LEMMA MadeAll ==
    ASSUME TypeOK, CreateAll, kind # "link", NEW l \in LinksOf(node), mem'.lk[l] = "up"
    PROVE  dp'[l]
<1>1. l \in Link /\ mem'.lk = Created(mem.lk, Todo, Running(mem))
      /\ dp' = Plugged(dp, Wired(Todo, Running(mem)))
    BY StateParts DEF CreateAll, LinksOf
<1>2. l \in Wired(Todo, Running(mem)) \/ (l \notin Todo /\ mem.lk[l] = "up")
    BY <1>1, CreatedAt
<1>3. l \in Wired(Todo, Running(mem))
    BY <1>2 DEF Todo
<1> QED BY <1>1, <1>3, PlugAt

\* A step of the worker writes the phase of its own VD, and only the commit of a start
\* writes "running"; the others of a VD called running are called so before.
LEMMA WorkerWrites ==
    ASSUME NodeInv, [Next]_vars, Worker, ~Answer
    PROVE  /\ \A n \in Node : n # node => disk'.rt[n] = disk.rt[n]
           /\ \A n \in Node : disk'.rt[n] = "running" => disk.rt[n] = "running" \/ pc = "commit"
<1>0. TypeOK /\ QueuedOnce /\ PlaceInv /\ RunningInv /\ mem.rt = disk.rt
    BY DEF NodeInv, PlaceInv
<1>1. /\ (pc \notin RecPc \cup {"load", "answer"} => node \in Node)
    BY <1>0, WorkerKeeps, RequestOfNode DEF QueuedOnce, PlaceInv
<1>a. \A m, lk : WithLk(m, lk).rt = m.rt
    BY DEF WithLk
<1>b. ASSUME NEW s \in RtState, disk'.rt = WithRt(mem, node, s).rt, node \in Node, s = "running" => pc = "commit"
      PROVE  /\ \A n \in Node : n # node => disk'.rt[n] = disk.rt[n]
             /\ \A n \in Node : disk'.rt[n] = "running" => disk.rt[n] = "running" \/ pc = "commit"
    BY <1>0, <1>b, StateParts
<1>c. CASE disk'.rt = disk.rt
    BY <1>c
<1> USE DEF SetPhase, Save
<1>2. CASE Load \/ Deploy \/ Refresh \/ Links \/ Shared \/ Rollback \/ CancelDestroy
    BY <1>2, <1>c DEF Load, Deploy, Refresh, Links, Shared, Rollback, CancelDestroy
<1>3. CASE StopWork
    BY <1>3, <1>c DEF StopWork
<1>4. CASE RecConnect \/ RecLinks
    BY <1>0, <1>4, <1>a, <1>c, CreateType DEF RecConnect, RecLinks
<1>5. CASE Connect \/ Prepare \/ Wait
    BY <1>1, <1>5, <1>b, <1>c DEF Connect, Prepare, Wait, RtState, RecPc
<1>6. CASE Commit \/ Failed \/ Cancel
    BY <1>1, <1>6, <1>b DEF Commit, Failed, Cancel, RtState, RecPc
<1>7. CASE Forget \/ CancelLinks \/ StopCommit
    BY <1>1, <1>7, <1>a, <1>b DEF Forget, CancelLinks, CancelledState, StopCommit, RtState, RecPc
<1>8. CASE Remove
    BY <1>1, <1>8, <1>a, <1>b, <1>c DEF Remove, RtState, RecPc
<1>9. CASE StopConnect
  <2>1. StopPhase(mem.rt[node]) \in RtState \ {"running"}
    BY DEF StopPhase, RtState
  <2> QED BY <2>1, <1>1, <1>9, <1>b, <1>c DEF StopConnect, RecPc
<1> QED BY <1>2, <1>3, <1>4, <1>5, <1>6, <1>7, <1>8, <1>9 DEF Worker

\* undone loses a VD only when the file calls it running no more.
LEMMA UndoneKept ==
    ASSUME NodeInv, [Next]_vars
    PROVE  /\ \A n \in Node : disk'.rt[n] = "running" /\ (n \in undone \/ FailsLate(n)) => n \in undone'
           /\ \A n \in Node : disk'.rt[n] = disk.rt[n] /\ CalledRunning(n)' => CalledRunning(n)
<1>1. \A n \in Node : disk'.rt[n] = "running" /\ (n \in undone \/ FailsLate(n)) => n \in undone'
  <2>1. CASE Next
    BY <2>1 DEF Next, Follow
  <2>2. CASE UNCHANGED vars
    BY <2>2 DEF vars, FailsLate
  <2> QED BY <2>1, <2>2
<1> QED BY <1>1 DEF CalledRunning

\* While a hot add goes on, no link of another VD is taken from the hosts.
LEMMA AddSpares ==
    ASSUME NodeInv, Worker, ~Answer, adding, pc' # "answer", NEW l \in Link, l \notin LinksOf(node), dp[l]
    PROVE  dp'[l]
<1>0. TypeOK /\ PlaceInv /\ RunningInv /\ dp \in [Link -> BOOLEAN]
    BY DEF NodeInv, TypeOK
<1>1. kind = "start" /\ pc \notin {"idle", "load"} \cup StopPc \cup RecPc
    BY <1>0 DEF RunningInv, AddingIsStart, PlaceInv, RecPc
<1>u. ASSUME NEW ls \in SUBSET LinksOf(node), dp' = Unplugged(dp, ls) PROVE dp'[l]
    BY <1>u, PlugAt
<1> USE DEF hosts
<1>2. CASE Connect \/ Prepare \/ Deploy \/ Shared \/ Commit \/ Failed \/ Forget \/ Cancel
    BY <1>2 DEF Connect, Prepare, Deploy, Shared, Commit, Failed, Forget, Cancel
<1>3. CASE Wait \/ Rollback
    BY <1>3, <1>u DEF Wait, Rollback
<1>4. CASE CancelDestroy
    BY <1>4, <1>u DEF CancelDestroy, DestroyClab
<1>5. CASE Refresh
    BY <1>5 DEF Refresh
<1>6. CASE Links
  <2>1. CASE CreateAll
    BY <2>1, PlugAt DEF CreateAll
  <2>2. CASE CreateRaises
    <3>1. PICK f \in Todo, done \in SUBSET Todo : \/ dp' = Unplugged(Plugged(dp, Wired(done, Running(mem))), {f})
                                 \/ dp' = Plugged(dp, Wired(done, Running(mem)))
      BY <2>2 DEF CreateRaises, Wired
    <3>2. l # f
      BY <1>1, <3>1 DEF Todo
    <3> QED BY <3>1, <3>2, PlugAt
  <2> QED BY <1>6, <2>1, <2>2 DEF Links
<1>7. ~CancelLinks
    BY DEF CancelLinks, Return, Raise
<1>8. ~(Load \/ StopConnect \/ StopWork \/ StopCommit \/ Remove \/ RecConnect \/ RecLinks)
    BY <1>1 DEF Load, StopConnect, StopWork, StopCommit, Remove, RecConnect, RecLinks, StopPc, RecPc
<1> QED BY <1>2, <1>3, <1>4, <1>5, <1>6, <1>7, <1>8 DEF Worker

\* Every step keeps the links connected that a hot add may restore.
LEMMA PrevStep == NodeInv /\ LinksBacked /\ PrevBacked /\ [Next]_vars => PrevBacked'
<1> SUFFICES ASSUME NodeInv, LinksBacked, PrevBacked, [Next]_vars,
                    adding', pc' # "answer", NEW l \in Link, PrevUp(l)'
             PROVE  dp'[l]
    BY DEF PrevBacked
<1>0. /\ TypeOK /\ QueuedOnce /\ RunningInv
      /\ (adding => kind = "start" /\ pc \notin {"idle", "load"})
    BY DEF NodeInv, RunningInv, AddingIsStart
<1>e. Ends[l] \subseteq Node
    BY EndsAssumption
<1>1. CASE UNCHANGED <<disk, dp, job, adding, prev>> /\ (pc = "answer" => pc' = "answer")
  <2>1. PrevUp(l)
    BY <1>1, <1>e, UndoneKept DEF PrevUp, node
  <2> QED BY <1>1, <2>1 DEF PrevBacked
<1>2. CASE Acquire
    BY <1>2, <1>0 DEF Acquire
<1>3. CASE Client
    BY <1>1, <1>3 DEF Client, RequestStart, RequestCancel, RequestMutation, EditTopology, hosts, lockq
<1>4. CASE \E n \in Node : OrphanEnds(n)
    BY <1>1, <1>4 DEF OrphanEnds, lockq
<1>5. CASE Answer \/ Crash
    BY <1>5 DEF Answer, Crash
<1>6. CASE Worker /\ ~Answer
  <2>0. node' = node
    BY <1>0, <1>6, WorkerKeeps DEF node
  <2>1. CASE Load
    <3>1. pc = "load" /\ prev' = disk.lk /\ UNCHANGED <<disk, dp>>
      BY <1>0, <2>1 DEF Load, hosts
    <3>2. FileUp(l) /\ ~EditedAway(l)
      BY <1>e, <3>1, UndoneKept DEF PrevUp, FileUp, EditedAway, EditedPc, CancelPc
    <3> QED BY <3>1, <3>2 DEF LinksBacked
  <2>2. CASE ~Load
    <3>1. adding /\ prev' = prev /\ pc # "answer"
      BY <1>6, <2>2 DEF Worker, Connect, Prepare, Deploy, Wait, Refresh, Links, Shared, Commit, Failed,
         Rollback, Forget, Cancel, CancelDestroy, CancelLinks, StopConnect, StopWork, StopCommit,
         Remove, RecConnect, RecLinks, lockq
    <3>2. \A n \in Ends[l] : n # node /\ CalledRunning(n)
      BY <1>e, <1>6, <2>0, WorkerWrites, UndoneKept DEF PrevUp
    <3>3. PrevUp(l) /\ l \notin LinksOf(node)
      BY <3>1, <3>2 DEF PrevUp, LinksOf
    <3> QED BY <1>6, <3>1, <3>3, AddSpares DEF PrevBacked
  <2> QED BY <2>1, <2>2
<1> QED BY <1>1, <1>2, <1>3, <1>4, <1>5, <1>6 DEF Next, vars

\* Every step keeps the links of the file and of the copy backed.
LEMMA BackedStep ==
    NodeInv /\ AskedFor /\ NoStrays /\ LinksTracked /\ LinksBacked /\ PrevBacked /\ [Next]_vars
        => LinksBacked'
<1> SUFFICES ASSUME NodeInv, AskedFor, NoStrays, LinksTracked, LinksBacked, PrevBacked, [Next]_vars
             PROVE LinksBacked'
    OBVIOUS
<1>0. /\ TypeOK /\ QueuedOnce /\ PlaceInv /\ RunningInv /\ mem.rt = disk.rt /\ dp \in [Link -> BOOLEAN]
    BY DEF NodeInv, PlaceInv, TypeOK
<1>e. \A l \in Link : Ends[l] \subseteq Node
    BY EndsAssumption
<1>1. CASE UNCHANGED <<disk, mem, dp, topo, pc, job>>
  <2>1. \A l \in Link : (FileUp(l)' => FileUp(l)) /\ (CopyUp(l)' => CopyUp(l))
    BY <1>1, <1>e, UndoneKept DEF FileUp, CopyUp, node
  <2> QED BY <1>1, <2>1 DEF LinksBacked, EditedAway, node
<1>2. CASE Acquire
  <2>1. UNCHANGED <<disk, mem, dp, topo, adding>> /\ pc = "idle" /\ pc' = "load" /\ ~adding
    BY <1>0, <1>2 DEF Acquire, hosts, RunningInv, AddingIsStart
  <2>2. \A l \in Link : (FileUp(l)' => FileUp(l)) /\ (CopyUp(l)' => CopyUp(l)) /\ ~EditedAway(l)
    BY <2>1, <1>e, UndoneKept DEF FileUp, CopyUp, EditedAway, EditedPc, CancelPc
  <2> QED BY <2>1, <2>2 DEF LinksBacked
<1>3. CASE Client
    BY <1>1, <1>3 DEF Client, RequestStart, RequestCancel, RequestMutation, EditTopology, hosts, lockq
<1>4. CASE \E n \in Node : OrphanEnds(n)
    BY <1>1, <1>4 DEF OrphanEnds, lockq
<1>5. CASE Answer \/ Crash
  <2>1. UNCHANGED <<disk, dp>> /\ mem' = disk /\ pc' = "idle" /\ ~adding'
    BY <1>5 DEF Answer, Crash, hosts
  <2>2. ASSUME NEW l \in Link, FileUp(l) PROVE dp[l]
    <3>1. CASE Answer
      BY <2>2, <3>1 DEF Answer, LinksBacked, EditedAway, EditedPc, CancelPc
    <3>2. CASE Crash
      <4>1. "edit" \notin Clients
        BY <3>2 DEF Crash, LinksTracked
      <4>2. l \in desired
        BY <2>2, <4>1 DEF NoStrays, FileUp
      <4>3. pc = "idle" \/ pc = "load" \/ topo = desired
        BY <4>1 DEF NoStrays
      <4>4. ~EditedAway(l)
        BY <4>2, <4>3 DEF EditedAway, EditedPc, CancelPc
      <4> QED BY <2>2, <4>4 DEF LinksBacked
    <3> QED BY <1>5, <3>1, <3>2
  <2>3. \A l \in Link : (FileUp(l)' => FileUp(l)) /\ (CopyUp(l)' => FileUp(l))
    BY <2>1, <1>e, UndoneKept DEF FileUp, CopyUp
  <2> QED BY <2>1, <2>2, <2>3 DEF LinksBacked
<1>6. CASE Worker /\ ~Answer
  <2> USE DEF hosts, lockq, Raise, Return, Fail, Proceed, Save, SetPhase
  <2>0. /\ job' = job /\ job # NoJob /\ pc # "idle" /\ kind # "reconcile"
        /\ (kind # "link" => node \in Node)
        /\ (pc \notin RecPc \cup {"load", "answer"} => node \in Node /\ kind # "link")
    BY <1>6, <1>0, WorkerKeeps, RequestOfNode DEF QueuedOnce, PlaceInv, AskedFor, LinksTracked
  <2>b. /\ pc \in BusyPc => ~CalledRunning(node)
        /\ pc \in BusyPc \ {"rollback", "forget"} => disk.rt[node] # "running"
    BY <1>0, <2>0 DEF RunningInv, BusyNotRunning, BusyPc, RecPc, CalledRunning
  <2>k. \A n \in Node : pc # "commit" => (CalledRunning(n)' => CalledRunning(n))
    BY <1>6, WorkerWrites, UndoneKept DEF CalledRunning
  <2>n. node' = node
    BY <2>0 DEF node
  <2>s. "edit" \notin Clients => \A l \in Link : l \notin desired => mem.lk[l] = "absent"
    BY DEF NoStrays
  <2>t. pc # "load" /\ "edit" \notin Clients => Dropped(mem) = {}
    <3>1. pc # "load" /\ "edit" \notin Clients => topo = desired
      BY <2>0 DEF NoStrays
    <3> QED BY <2>s, <3>1 DEF Dropped
  \* A request that reconciles names a link.
  <2>l. pc' = "recLinks" => node \in Link
    <3>1. PlaceInv' /\ kind' = kind
      BY <1>0, <2>0, PlaceStep DEF kind
    <3>2. kind = "link" => node \in Link
      BY <1>0, <2>0 DEF TypeOK, Request, NodeRequest, LinkRequest, kind, node
    <3> QED BY <2>0, <3>1, <3>2 DEF PlaceInv, RecPc
  <2>z. mem'.rt = disk'.rt
    BY <1>0, PlaceStep DEF PlaceInv
  \* It is enough to look at one link, and at the copy only when it is saved.
  <2> SUFFICES ASSUME NEW l \in Link
               PROVE  /\ CopyUp(l)' => dp'[l]
                      /\ (disk'.lk = mem'.lk /\ disk'.rt = mem'.rt) \/ (FileUp(l)' => dp'[l] \/ EditedAway(l)')
                      /\ pc' = "recLinks" => mem'.lk[node] \notin {"absent", "pending", "invalid"}
    BY <2>n, <2>l, <2>z DEF LinksBacked, FileUp, CopyUp
  <2>f. /\ FileUp(l) => dp[l] \/ EditedAway(l)
        /\ CopyUp(l) => dp[l]
        /\ pc = "recLinks" => mem.lk[node] \notin {"absent", "pending", "invalid"}
    BY DEF LinksBacked
  <2>m. FileUp(l) /\ pc \in BusyPc => node \notin Ends[l] /\ l \notin LinksOf(node)
    BY <2>b DEF FileUp, LinksOf
  \* Steps that leave the links alone.
  <2>q. ASSUME UNCHANGED dp, mem'.lk = mem.lk, pc' # "recLinks",
               pc # "commit",
               pc' \in {"shared", "commit"} => pc \in {"shared", "commit"},
               \/ disk' = mem'
               \/ (UNCHANGED <<disk, topo>> /\ (pc \in EditedPc => pc' \in EditedPc))
        PROVE  /\ CopyUp(l)' => dp'[l]
               /\ (disk'.lk = mem'.lk /\ disk'.rt = mem'.rt) \/ (FileUp(l)' => dp'[l] \/ EditedAway(l)')
               /\ pc' = "recLinks" => mem'.lk[node] \notin {"absent", "pending", "invalid"}
    <3>1. CopyUp(l)' => CopyUp(l)
      BY <2>q, <2>n, <2>k, <1>e DEF CopyUp
    <3>2. CASE disk' = mem'
      BY <3>1, <3>2, <2>f, <2>q
    <3>3. CASE UNCHANGED <<disk, topo>> /\ (pc \in EditedPc => pc' \in EditedPc)
      BY <3>1, <3>3, <2>f, <2>q, <2>k, <1>e DEF FileUp, EditedAway
    <3> QED BY <2>q, <3>2, <3>3
  <2>1. CASE Load
    <3>1. UNCHANGED <<disk, dp>> /\ mem' = disk /\ pc = "load" /\ pc' \notin {"recLinks", "shared", "commit"}
      BY <2>1 DEF Load, LoadStart, LoadStop, LoadReconcile
    <3>2. ~EditedAway(l)
      BY <3>1 DEF EditedAway, EditedPc, CancelPc
    <3>3. (FileUp(l)' => FileUp(l)) /\ (CopyUp(l)' => FileUp(l))
      BY <3>1, <2>k, <1>e DEF FileUp, CopyUp
    <3> QED BY <3>1, <3>2, <3>3, <2>f
  <2>2. CASE Connect
    BY <2>2, <2>q, <1>0, StateParts DEF Connect, RtState, EditedPc, CancelPc
  <2>3. CASE Prepare
    BY <2>3, <2>q, <1>0, StateParts DEF Prepare, RtState, EditedPc, CancelPc
  <2>4. CASE Deploy
    BY <2>4, <2>q DEF Deploy, EditedPc, CancelPc
  <2>5. CASE Wait
    <3>1. CASE UNCHANGED dp
      BY <2>5, <3>1, <2>q, <1>0, StateParts DEF Wait, RtState, EditedPc, CancelPc
    <3>2. CASE ~UNCHANGED dp
      <4>1. dp' = Unplugged(dp, LinksOf(node)) /\ UNCHANGED <<disk, mem, topo>> /\ pc = "wait"
            /\ pc' \in {"cancel", "rollback", "failed"}
        BY <2>5, <3>2 DEF Wait
      <4>2. dp'[l] <=> dp[l] /\ l \notin LinksOf(node)
        BY <4>1, PlugAt
      <4>3. CopyUp(l)' => CopyUp(l) /\ node \notin Ends[l]
        BY <4>1, <2>b, <2>k, <2>n, <1>e DEF CopyUp, BusyPc
      <4>4. FileUp(l)' => FileUp(l) /\ ~EditedAway(l)
        BY <4>1, <2>k, <1>e DEF FileUp, EditedAway, EditedPc, CancelPc
      <4> QED BY <4>1, <4>2, <4>3, <4>4, <2>f, <2>m DEF LinksOf, BusyPc
    <3> QED BY <3>1, <3>2
  <2>6. CASE Refresh
    <3>1. CASE \E bad \in SUBSET Validated :
                 /\ mem' = WithLk(mem, Refreshed(mem, bad))
                 /\ dp' = IF adding THEN dp ELSE Unplugged(dp, Dropped(mem))
                 /\ Proceed("links")
      <4>1. PICK bad : mem'.lk = Refreshed(mem, bad) /\ mem'.rt = mem.rt
        BY <3>1, <1>0, StateParts
      <4>2. dp[l] /\ l \notin Dropped(mem) => dp'[l]
        BY <3>1, PlugAt
      <4>3. mem'.lk[l] = "up" => mem.lk[l] = "up" /\ l \in topo
        BY <4>1, RefreshedAt
      <4>4. l \notin topo => mem'.lk[l] = "absent"
        BY <4>1, RefreshedAt
      <4>5. UNCHANGED <<disk, topo>> /\ pc = "refresh" /\ pc' \in {"cancel", "links"}
        BY <2>6, <3>1 DEF Refresh
      <4>6. CopyUp(l)' => CopyUp(l) /\ l \in topo
        BY <4>1, <4>3, <4>5, <2>k, <2>n, <1>e DEF CopyUp
      <4>7. FileUp(l)' => FileUp(l)
        BY <4>5, <2>k, <1>e DEF FileUp
      <4>8. FileUp(l)' => dp'[l] \/ EditedAway(l)'
        BY <2>f, <4>2, <4>4, <4>5, <4>7 DEF EditedAway, EditedPc, CancelPc, Dropped
      <4> QED BY <4>2, <4>5, <4>6, <4>8, <2>f DEF Dropped
    <3>2. CASE DeleteRaises(Dropped(mem)) /\ Fail
      <4>1. "loss" \in Faults /\ Dropped(mem) # {}
        BY <3>2 DEF DeleteRaises
      <4>2. "edit" \notin Clients /\ pc # "load"
        BY <4>1, <2>6 DEF LinksTracked, Refresh
      <4> QED BY <4>1, <4>2, <2>t
    <3> QED BY <2>6, <3>1, <3>2 DEF Refresh
  <2>7. CASE Links
    <3>0. pc = "links" /\ UNCHANGED <<disk, topo>> /\ node \in Node /\ kind # "link"
          /\ (CreateAll \/ CreateRaises) /\ mem'.rt = mem.rt
      BY <2>7, <2>0, <1>0, CreateType DEF Links, RecPc
    <3>t. l \in Todo <=> l \in LinksOf(node) /\ mem.lk[l] \notin {"absent", "invalid"}
      BY <3>0 DEF Todo, LinksOf
    <3>k. mem.lk[l] = "absent" => mem'.lk[l] = "absent"
      <4>1. CASE CreateAll
        BY <4>1, <1>0, StateParts, CreatedAt DEF CreateAll
      <4>2. CASE CreateRaises
        <5>1. PICK f, done : mem' = WithLk(mem, LinkFailed(Created(mem.lk, done, Running(mem)), f))
          BY <4>2 DEF CreateRaises
        <5> QED BY <5>1, <1>0, StateParts, CreatedAt, MarkAt DEF LinkFailed, LkState
      <4> QED BY <3>0, <4>1, <4>2
    <3>d. l \notin LinksOf(node) => dp'[l] = dp[l] \/ dp'[l]
      <4>1. CASE CreateAll
        BY <4>1, <1>0, PlugAt, PlugType DEF CreateAll
      <4>2. CASE CreateRaises
        <5>1. PICK f \in Todo, done \in SUBSET Todo :
                \/ dp' = Unplugged(Plugged(dp, Wired(done, Running(mem))), {f})
                \/ dp' = Plugged(dp, Wired(done, Running(mem)))
          BY <4>2 DEF CreateRaises, Wired
        <5>2. l \notin LinksOf(node) => l # f
          BY <3>t, <5>1
        <5> QED BY <5>1, <5>2, <1>0, PlugAt, PlugType
      <4> QED BY <3>0, <4>1, <4>2
    <3>1. FileUp(l)' => dp'[l] \/ EditedAway(l)'
      <4>1. pc' \in EditedPc
        BY <2>7 DEF Links, EditedPc, CancelPc
      <4>2. FileUp(l)' => FileUp(l)
        BY <3>0, <2>k, <1>e DEF FileUp
      <4>3. EditedAway(l) => EditedAway(l)'
        BY <4>1, <3>0, <3>k DEF EditedAway
      <4> QED BY <4>2, <4>3, <3>d, <3>0, <2>f, <2>m DEF BusyPc
    <3>2. ASSUME CopyUp(l)' PROVE dp'[l]
      <4>1. mem'.lk[l] = "up"
        BY <3>2 DEF CopyUp
      <4>2. CASE l \in LinksOf(node)
        <5>1. pc' \in {"shared", "commit"}
          BY <3>2, <4>2, <3>0, <2>b, <2>k, <2>n DEF CopyUp, LinksOf, BusyPc
        <5>2. CreateAll
          BY <5>1, <2>7 DEF Links
        <5> QED BY <4>1, <4>2, <5>2, <3>0, <1>0, MadeAll
      <4>3. CASE l \notin LinksOf(node)
        <5>1. dp'[l] \/ mem.lk[l] = "up"
          BY <4>1, <3>0, <1>0, CreatedBacked
        <5>2. mem.lk[l] = "up" => CopyUp(l)
          BY <3>2, <4>3, <3>0, <2>k, <2>n, <1>e DEF CopyUp, LinksOf
        <5> QED BY <5>1, <5>2, <4>3, <3>d, <2>f
      <4> QED BY <4>2, <4>3
    <3>3. pc' # "recLinks"
      BY <2>7 DEF Links
    <3> QED BY <3>1, <3>2, <3>3
  <2>8. CASE Shared
    BY <2>8, <2>q DEF Shared, EditedPc, CancelPc
  <2>9. CASE Commit
    <3>1. /\ pc = "commit" /\ mem' = WithRt(mem, node, "running") /\ disk' = mem' /\ UNCHANGED dp
          /\ pc' \in {"answer", "cancel", "rollback", "failed"}
      BY <2>9 DEF Commit
    <3>2. CopyUp(l)' => CopyUp(l)
      <4>1. mem'.lk = mem.lk /\ \A n \in Node : n # node => mem'.rt[n] = mem.rt[n]
        BY <3>1, <1>0, StateParts
      <4>2. \A n \in Node : n # node /\ CalledRunning(n)' => CalledRunning(n)
        BY <4>1, <1>0, <2>z, UndoneKept
      <4> QED BY <4>1, <4>2, <3>1, <2>n, <1>e DEF CopyUp
    <3> QED BY <3>1, <3>2, <2>f
  <2>10. CASE Failed
    BY <2>10, <2>q, <1>0, StateParts DEF Failed, RtState, EditedPc, CancelPc
  <2>12. CASE Cancel
    BY <2>12, <2>q, <1>0, StateParts DEF Cancel, RtState, EditedPc, CancelPc
  <2>15. CASE StopConnect
    <3>1. StopPhase(mem.rt[node]) \in RtState \ {"running"}
      BY DEF StopPhase, RtState
    <3> QED BY <2>15, <2>q, <3>1, <1>0, StateParts DEF StopConnect, EditedPc, CancelPc
  <2>u. "edit" \notin Clients /\ FileUp(l) /\ pc # "load" => dp[l]
    <3>1. "edit" \notin Clients /\ FileUp(l) => l \in desired
      BY DEF NoStrays, FileUp
    <3>2. "edit" \notin Clients /\ pc # "load" => topo = desired
      BY <2>0 DEF NoStrays
    <3> QED BY <3>1, <3>2, <2>f DEF EditedAway
  <2>11. CASE Rollback
    <3>0. /\ pc = "rollback" /\ node \in Node /\ UNCHANGED <<disk, mem, topo>>
          /\ l \notin LinksOf(node) => (dp'[l] <=> dp[l])
          /\ pc' = "forget" \/ (pc' = "answer" /\ "loss" \in Faults)
      BY <2>11, <2>0, PlugAt DEF Rollback, RecPc
    <3>1. CopyUp(l)' => CopyUp(l) /\ l \notin LinksOf(node)
      BY <3>0, <2>b, <2>k, <2>n, <1>e DEF CopyUp, LinksOf, BusyPc
    <3>2. FileUp(l)' => FileUp(l)
      BY <3>0, <2>k, <1>e DEF FileUp
    <3>3. CASE pc' = "forget"
      BY <3>0, <3>1, <3>2, <3>3, <2>f, <2>m DEF EditedAway, EditedPc, BusyPc
    <3>4. CASE pc' = "answer" /\ "loss" \in Faults
      <4>1. "edit" \notin Clients
        BY <3>4 DEF LinksTracked
      <4> QED BY <3>0, <3>1, <3>2, <3>4, <4>1, <2>f, <2>u, <2>m DEF BusyPc
    <3> QED BY <3>0, <3>3, <3>4
  <2>21. CASE Forget
    <3>1. /\ pc = "forget" /\ pc' = "answer" /\ node \in Node /\ UNCHANGED dp
          /\ mem'.lk = prev /\ mem'.rt[node] = "absent" /\ disk' = mem'
      BY <2>21, <2>0, <1>0, StateParts DEF Forget, RecPc
    <3>2. adding
      BY <3>1, <1>0 DEF RunningInv, AddingIsStart
    <3>3. CopyUp(l)' => PrevUp(l)
      BY <3>1, <2>k, <2>n, <2>z, <1>e DEF CopyUp, PrevUp, CalledRunning
    <3> QED BY <3>1, <3>2, <3>3 DEF PrevBacked
  <2>13. CASE CancelDestroy
    <3>1. /\ UNCHANGED <<disk, mem, topo>> /\ pc = "cancelDestroy" /\ pc' = "cancelLinks"
          /\ UNCHANGED dp \/ dp' = Unplugged(dp, LinksOf(node))
      BY <2>13 DEF CancelDestroy, DestroyClab
    <3>2. l \notin LinksOf(node) => (dp'[l] <=> dp[l])
      BY <3>1, PlugAt
    <3>3. CopyUp(l)' => CopyUp(l) /\ l \notin LinksOf(node)
      BY <3>1, <2>b, <2>k, <2>n, <1>e DEF CopyUp, LinksOf, BusyPc
    <3>4. FileUp(l)' => FileUp(l) /\ (EditedAway(l) => EditedAway(l)')
      BY <3>1, <2>k, <1>e DEF FileUp, EditedAway, EditedPc, CancelPc
    <3> QED BY <3>1, <3>2, <3>3, <3>4, <2>f, <2>m DEF BusyPc
  <2>14. CASE CancelLinks
    <3>1. PICK gone \in SUBSET (LinksOf(node) \cup Dropped(mem)), bad \in SUBSET Link :
            LET all == gone = LinksOf(node) \cup Dropped(mem) IN
            /\ all \/ "loss" \in Faults
            /\ dp' = Unplugged(dp, gone)
            /\ Save(CancelledState(all, bad))
      BY <2>14 DEF CancelLinks
    <3> DEFINE all == gone = LinksOf(node) \cup Dropped(mem)
               lk == IF all THEN Refreshed(WithRt(mem, node, "stopped"), bad) ELSE mem.lk
    <3>2. /\ mem' = WithLk(WithRt(mem, node, "stopped"), Mark(lk, LinksOf(node), "partial")) /\ disk' = mem'
          /\ all \/ "loss" \in Faults
      BY <3>1 DEF CancelledState
    <3>3. pc = "cancelLinks" /\ pc' = "answer" /\ node \in Node
      BY <2>14, <2>0 DEF CancelLinks, RecPc
    <3>4. lk[l] = "up" => mem.lk[l] = "up" /\ (all => l \in topo)
      <4>1. WithRt(mem, node, "stopped").lk = mem.lk
        BY <1>0, StateParts
      <4> QED BY <4>1, RefreshedAt
    <3> HIDE DEF lk
    <3>5. /\ mem'.lk = Mark(lk, LinksOf(node), "partial") /\ mem'.rt[node] = "stopped"
          /\ \A n \in Node : n # node => mem'.rt[n] = mem.rt[n]
      BY <3>2, <3>3, <1>0, StateParts
    <3>6. ASSUME CopyUp(l)' PROVE dp'[l]
      <4>1. lk[l] = "up" /\ l \notin LinksOf(node)
        BY <3>5, <3>6, MarkAt DEF CopyUp, LkState
      <4>2. CopyUp(l)
        BY <4>1, <3>3, <3>4, <3>6, <2>k, <2>n, <1>e DEF CopyUp
      <4>3. l \notin Dropped(mem)
        <5>1. CASE all
          BY <5>1, <4>1, <3>4 DEF Dropped
        <5>2. CASE ~all
          BY <5>2, <3>2, <3>3, <2>t DEF LinksTracked
        <5> QED BY <5>1, <5>2
      <4> QED BY <4>1, <4>2, <4>3, <2>f, <3>1, PlugAt
    <3> QED BY <3>2, <3>3, <3>6
  <2>16. CASE StopWork
    <3>0. /\ UNCHANGED <<disk, topo>> /\ pc \in {"stopFirst", "stopSecond"}
          /\ pc' \in {"stopSecond", "stopCommit", "cancel", "rollback", "failed"}
      BY <2>16 DEF StopWork, StopDestroy, StopLinks
    <3>1. /\ mem'.rt = mem.rt /\ (mem'.lk[l] = "up" => mem.lk[l] = "up")
          /\ l \notin LinksOf(node) => (dp'[l] <=> dp[l])
      <4>1. CASE StopDestroy
        BY <4>1, PlugAt DEF StopDestroy, DestroyClab
      <4>2. CASE StopLinks
        <5>1. CASE DeleteRaises(LinksOf(node))
          <6>1. PICK gone \in SUBSET LinksOf(node), f \in LinksOf(node) :
                  /\ mem' = WithLk(mem, Mark(Mark(mem.lk, gone, "down"), {f}, "error"))
                  /\ dp' = Unplugged(dp, gone)
            BY <5>1 DEF DeleteRaises
          <6> QED BY <6>1, <1>0, StateParts, MarkAt, PlugAt DEF LkState
        <5>2. CASE /\ mem' = WithLk(mem, Mark(mem.lk, LinksOf(node), "down"))
                   /\ dp' = Unplugged(dp, LinksOf(node))
          BY <5>2, <1>0, StateParts, MarkAt, PlugAt DEF LkState
        <5> QED BY <4>2, <5>1, <5>2 DEF StopLinks
      <4> QED BY <2>16, <4>1, <4>2 DEF StopWork
    <3>2. CopyUp(l)' => CopyUp(l) /\ l \notin LinksOf(node)
      BY <3>0, <3>1, <2>b, <2>k, <2>n, <1>e DEF CopyUp, LinksOf, BusyPc
    <3>3. FileUp(l)' => FileUp(l) /\ ~EditedAway(l)
      BY <3>0, <2>k, <1>e DEF FileUp, EditedAway, EditedPc, CancelPc
    <3> QED BY <3>0, <3>1, <3>2, <3>3, <2>f, <2>m DEF BusyPc
  <2>17. CASE StopCommit
    <3>1. /\ disk' = mem' /\ UNCHANGED dp /\ node \in Node /\ pc' \in {"answer", "connect", "removeConnect"}
          /\ mem' = WithLk(WithRt(mem, node, "stopped"), Mark(mem.lk, LinksOf(node), "partial"))
      BY <2>17, <2>0 DEF StopCommit, RecPc
    <3>2. /\ mem'.lk = Mark(mem.lk, LinksOf(node), "partial") /\ mem'.rt[node] = "stopped"
          /\ \A n \in Node : n # node => mem'.rt[n] = mem.rt[n]
      BY <3>1, <1>0, StateParts
    <3>3. CopyUp(l)' => CopyUp(l)
      BY <2>17, <3>1, <3>2, <2>k, <2>n, <1>e, MarkAt DEF StopCommit, CopyUp, LkState
    <3> QED BY <3>1, <3>3, <2>f
  <2>18. CASE Remove
    <3>1. CASE Save(WithLk(WithRt(mem, node, "absent"), Forgotten(mem.lk, LinksOf(node))))
      <4>1. /\ disk' = mem' /\ UNCHANGED dp /\ node \in Node /\ pc' = "answer"
        BY <2>18, <3>1, <2>0 DEF Remove, RecPc
      <4>2. /\ mem'.lk = Forgotten(mem.lk, LinksOf(node)) /\ mem'.rt[node] = "absent"
            /\ \A n \in Node : n # node => mem'.rt[n] = mem.rt[n]
        BY <3>1, <4>1, <1>0, StateParts
      <4>3. CopyUp(l)' => CopyUp(l)
        BY <2>18, <4>1, <4>2, <2>k, <2>n, <1>e DEF Remove, CopyUp, Forgotten
      <4> QED BY <4>1, <4>3, <2>f
    <3>2. CASE UNCHANGED <<disk, mem>>
      BY <2>18, <3>2, <2>q DEF Remove, EditedPc, CancelPc
    <3> QED BY <2>18, <3>1, <3>2 DEF Remove
  \* Only the request for one link is left: there are no edits then.
  <2>r. pc \in RecPc => kind = "link" /\ node \in Link /\ "edit" \notin Clients
    <3>1. pc \in RecPc => kind = "link"
      BY <1>0, <2>0 DEF PlaceInv
    <3>2. kind = "link" => node \in Link
      BY <1>0, <2>0 DEF TypeOK, Request, NodeRequest, LinkRequest, kind, node
    <3>3. kind = "link" => "edit" \notin Clients
      BY <2>0 DEF AskedFor, LinksTracked
    <3> QED BY <3>1, <3>2, <3>3
  <2>19. CASE RecConnect
    <3>0. /\ pc = "recConnect" /\ UNCHANGED topo /\ kind = "link" /\ node \in Link
          /\ "edit" \notin Clients /\ Dropped(mem) = {} /\ pc' \in {"answer", "recLinks"}
      BY <2>19, <2>r, <2>t DEF RecConnect, RecPc
    <3>1. ~DeleteRaises(Dropped(mem))
      BY <3>0 DEF DeleteRaises
    <3>2. dp'[l] <=> dp[l]
      BY <2>19, <3>0, <3>1, PlugAt DEF RecConnect
    <3>3. CASE UNCHANGED <<disk, mem>> /\ pc' = "answer"
      BY <3>0, <3>2, <3>3, <2>f, <2>u, <2>k, <2>n, <1>e DEF FileUp, CopyUp
    <3>4. ASSUME NEW bad \in SUBSET Link, mem' = WithLk(mem, Refreshed(mem, bad)),
                 disk' = mem' \/ UNCHANGED disk,
                 pc' = "recLinks" => node \in topo /\ WithLk(mem, Refreshed(mem, bad)).lk[node] \notin {"invalid", "pending"}
          PROVE  /\ CopyUp(l)' => dp'[l]
                 /\ (disk'.lk = mem'.lk /\ disk'.rt = mem'.rt) \/ (FileUp(l)' => dp'[l] \/ EditedAway(l)')
                 /\ pc' = "recLinks" => mem'.lk[node] \notin {"absent", "pending", "invalid"}
      <4>1. mem'.lk = Refreshed(mem, bad) /\ mem'.rt = mem.rt
        BY <3>4, <1>0, StateParts
      <4>2. CopyUp(l)' => CopyUp(l)
        BY <3>0, <4>1, <2>k, <2>n, <1>e, RefreshedAt DEF CopyUp
      <4>3. pc' = "recLinks" => mem'.lk[node] \notin {"absent", "pending", "invalid"}
        BY <3>0, <3>4, <4>1, RefreshedAt
      <4>4. CASE disk' = mem'
        BY <4>2, <4>3, <4>4, <3>2, <2>f
      <4>5. CASE UNCHANGED disk
        BY <4>2, <4>3, <4>5, <3>0, <3>2, <2>f, <2>u, <2>k, <1>e DEF FileUp
      <4> QED BY <3>4, <4>4, <4>5
    <3>5. \/ UNCHANGED <<disk, mem>> /\ pc' = "answer"
          \/ \E bad \in SUBSET Link :
               /\ mem' = WithLk(mem, Refreshed(mem, bad)) /\ (disk' = mem' \/ UNCHANGED disk)
               /\ pc' = "recLinks" =>
                    node \in topo /\ WithLk(mem, Refreshed(mem, bad)).lk[node] \notin {"invalid", "pending"}
      BY <2>19, <3>0, <3>1 DEF RecConnect
    <3> QED BY <3>3, <3>4, <3>5
  <2>20. CASE RecLinks
    <3>0. kind = "link" /\ (CreateAll \/ CreateRaises) /\ disk' = mem' /\ pc' = "answer" /\ mem'.rt = mem.rt
      BY <2>20, <2>r, <1>0, CreateType DEF RecLinks, RecPc
    <3>1. ASSUME CopyUp(l)' PROVE dp'[l]
      <4>1. mem'.lk[l] = "up"
        BY <3>1 DEF CopyUp
      <4>2. dp'[l] \/ (mem.lk[l] = "up" /\ dp'[l] = dp[l])
        BY <4>1, <3>0, <1>0, CreatedBacked
      <4>3. mem.lk[l] = "up" => CopyUp(l)
        BY <2>20, <3>0, <3>1, <2>k, <2>n, <1>e DEF RecLinks, CopyUp
      <4> QED BY <4>2, <4>3, <2>f
    <3> QED BY <3>0, <3>1
  <2> QED BY <1>6, <2>1, <2>2, <2>3, <2>4, <2>5, <2>6, <2>7, <2>8, <2>9, <2>10,
             <2>11, <2>12, <2>13, <2>14, <2>15, <2>16, <2>17, <2>18, <2>19, <2>20, <2>21 DEF Worker
<1> QED BY <1>1, <1>2, <1>3, <1>4, <1>5, <1>6 DEF Next, vars

\* A link saved as up between VDs saved as running is connected on the hosts whenever no
\* mutation is in progress: node.py saves what create_link and delete_link did.
THEOREM UpStaysConnected == Spec => []UpIsConnected
<1>1. Init => LinkInv
  <2> SUFFICES ASSUME Init PROVE LinkInv
    OBVIOUS
  <2>1. pc = "idle" /\ mem = disk /\ waiting = <<>> /\ job = NoJob
    BY DEF Init
  <2>2. \A l \in Link : /\ disk.lk[l] = "up" => dp[l]
                        /\ l \notin desired => disk.lk[l] = "absent"
    BY DEF Init
  <2>3. AskedFor
    BY <2>1 DEF AskedFor
  <2>4. ~adding /\ prev = NoLinks /\ undone = {}
    BY DEF Init
  <2> QED BY <2>1, <2>2, <2>3, <2>4
          DEF LinkInv, NoStrays, NoLinks, LinksBacked, PrevBacked, FileUp, CopyUp, CalledRunning
<1>2. NodeInv /\ LinkInv /\ [Next]_vars => LinkInv'
  <2> SUFFICES ASSUME NodeInv, LinkInv, [Next]_vars PROVE LinkInv'
    OBVIOUS
  <2>1. LinksTracked' = LinksTracked
    BY DEF Next, Follow, vars, LinksTracked, Clients, Faults
  <2> QED BY <2>1, AskedStep, StrayStep, BackedStep, PrevStep DEF LinkInv
<1>3. LinkInv => UpIsConnected
    BY DEF LinkInv, LinksBacked, FileUp, EditedAway, EditedPc, CancelPc, UpIsConnected
<1> QED BY <1>1, <1>2, <1>3, NodeInvariant, PTL DEF Spec
=============================================================================
