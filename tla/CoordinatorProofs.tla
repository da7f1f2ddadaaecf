-------------------------- MODULE CoordinatorProofs --------------------------
(***************************************************************************)
(* Proofs about Coordinator, for any plan, any number of coordinators and  *)
(* any pattern of duplicate, late and cut-off handlers.                    *)
(***************************************************************************)
EXTENDS Coordinator, TLAPS

\* Why ApprovalFillsArguments: in every copy of the state, a task completed by
\* an approval has filled in the arguments of its dependents.
FilledIn(st) == \A d \in st.completed : d \in done \/ Dependents(d) \subseteq st.merged

FilledEverywhere ==
  /\ stored # NoState => FilledIn(stored)
  /\ \A c \in Coordinators : FilledIn(mem[c])

Inv ==
  /\ TypeOK
  /\ CompletedIsFinished
  /\ FilledEverywhere
  /\ DependenciesFirst
  /\ ApprovalFillsArguments
  /\ DeletedWhenFinished

-----------------------------------------------------------------------------

LEMMA NewStateType == NewState \in PlanState /\ NewState # NoState
  <1>1. NewState \in PlanState
    BY SMT DEF NewState, PlanState
  <1>2. QED BY <1>1, PlanAssumption

LEMMA TypeInit == Init => TypeOK
  <1> SUFFICES ASSUME Init PROVE TypeOK
    OBVIOUS
  <1>1. NoJob \in Jobs
    BY DEF NoJob, Jobs
  <1>2. created \in BOOLEAN /\ overlapped \in BOOLEAN
    BY Zenon DEF Init
  <1>3. /\ pc \in [Coordinators -> {"idle", "loaded", "release", "finalize"}]
        /\ job \in [Coordinators -> Jobs]
        /\ mem \in [Coordinators -> PlanState]
    BY <1>1, NewStateType DEF Init
  <1>4. /\ copies \in [Tasks -> 0..MaxCopies]
        /\ aborts \in 0..MaxAborts
    BY PlanAssumption DEF Init
  <1>5. /\ stored \in PlanState \cup {NoState}
        /\ plain \in SUBSET Tasks /\ done \in SUBSET Tasks
        /\ approved \in SUBSET CheckTasks /\ rejected \in SUBSET CheckTasks
    BY DEF Init
  <1>6. QED
    BY <1>2, <1>3, <1>4, <1>5 DEF TypeOK

LEMMA OverlapType ==
  ASSUME NEW c \in Coordinators, TypeOK, Overlap(c)
  PROVE  overlapped' \in BOOLEAN
  BY Zenon DEF Overlap, TypeOK

LEMMA LoadType ==
  ASSUME TypeOK, NEW c \in Coordinators, NEW tasks \in SUBSET Tasks,
         NEW kind \in {"resume", "complete", "approve", "reject"},
         NEW step \in {"loaded", "release"},
         Load(c, kind, tasks, step)
  PROVE  TypeOK'
  <1>1. stored \in PlanState /\ [kind |-> kind, tasks |-> tasks] \in Jobs
    BY DEF Load, TypeOK, Jobs
  <1>2. overlapped' \in BOOLEAN
    BY OverlapType DEF Load
  <1>3. QED
    BY <1>1, <1>2 DEF Load, Goto, TypeOK, eventVars

LEMMA TypeStep == TypeOK /\ [Next]_vars => TypeOK'
  <1> SUFFICES ASSUME TypeOK, [Next]_vars PROVE TypeOK'
    OBVIOUS
  <1> USE PlanAssumption DEF TypeOK, Goto, handlerVars, eventVars
  <1>0. NewState \in PlanState /\ NoJob \in Jobs
    BY NewStateType DEF NoJob, Jobs
  <1>1. ASSUME NEW c \in Coordinators, Dispatch(c) PROVE TypeOK'
    <2>1. created' \in BOOLEAN /\ overlapped' \in BOOLEAN
      BY <1>1, OverlapType, Zenon DEF Dispatch
    <2>2. QED BY <1>0, <1>1, <2>1 DEF Dispatch, Jobs
  <1>2. ASSUME NEW c \in Coordinators, Resume(c) PROVE TypeOK'
    BY <1>2, LoadType DEF Resume
  <1>3. ASSUME NEW c \in Coordinators, NEW t \in Tasks, LoadSuccess(c, t) PROVE TypeOK'
    BY <1>3, LoadType DEF LoadSuccess
  <1>4. ASSUME NEW c \in Coordinators, NEW t \in Tasks, LoadDecision(c, t) PROVE TypeOK'
    BY <1>4, LoadType DEF LoadDecision
  <1>5. ASSUME NEW c \in Coordinators, Complete(c) PROVE TypeOK'
    <2>1. mem[c] \in PlanState /\ job[c] \in Jobs
      OBVIOUS
    <2>2. [mem[c] EXCEPT !.completed = @ \cup job[c].tasks] \in PlanState
      BY <2>1 DEF PlanState, Jobs
    <2>3. QED BY <1>5, <2>2 DEF Complete, Write
  <1>6. ASSUME NEW c \in Coordinators, Approve(c) PROVE TypeOK'
    <2>1. mem[c] \in PlanState /\ job[c] \in Jobs
      OBVIOUS
    <2>2. UNION {Dependents(t) : t \in job[c].tasks} \subseteq Tasks
      BY DEF Dependents
    <2>3. [mem[c] EXCEPT !.completed = @ \cup job[c].tasks,
             !.merged = @ \cup UNION {Dependents(t) : t \in job[c].tasks}] \in PlanState
      BY <2>1, <2>2 DEF PlanState, Jobs
    <2>4. QED BY <1>6, <2>3 DEF Approve, Write
  <1>7. ASSUME NEW c \in Coordinators, Reject(c) PROVE TypeOK'
    <2>1. mem[c] \in PlanState /\ job[c] \in Jobs
      OBVIOUS
    <2>2. [mem[c] EXCEPT !.failed = @ \cup job[c].tasks, !.blocked = TRUE] \in PlanState
      BY <2>1 DEF PlanState, Jobs
    <2>3. QED BY <1>0, <1>7, <2>2 DEF Reject, Leave
  <1>8. ASSUME NEW c \in Coordinators, SkipBlocked(c) \/ Finalize(c) PROVE TypeOK'
    BY <1>0, <1>8 DEF SkipBlocked, Finalize, Leave
  <1>9. ASSUME NEW c \in Coordinators, Enqueue(c) PROVE TypeOK'
    <2>1. PICK t \in Tasks :
            /\ copies[t] < MaxCopies
            /\ copies' = [copies EXCEPT ![t] = @ + 1]
            /\ plain' = IF t \in mem[c].merged THEN plain ELSE plain \cup {t}
            /\ mem' = [mem EXCEPT ![c].released = @ \cup {t}]
      BY <1>9 DEF Enqueue
    <2>2. [mem[c] EXCEPT !.released = @ \cup {t}] \in PlanState
      BY mem[c] \in PlanState DEF PlanState
    <2>3. mem' \in [Coordinators -> PlanState]
      BY <2>1, <2>2
    <2>4. copies' \in [Tasks -> 0..MaxCopies]
      BY <2>1
    <2>5. QED BY <1>9, <2>1, <2>3, <2>4 DEF Enqueue
  <1>10. ASSUME NEW c \in Coordinators, SaveReleased(c) PROVE TypeOK'
    BY <1>0, <1>10 DEF SaveReleased, Leave
  <1>11. ASSUME NEW c \in Coordinators, Abort(c) PROVE TypeOK'
    BY <1>0, <1>11 DEF Abort, Leave
  <1>12. ASSUME NEW t \in Tasks, Execute(t) \/ Snapshot(t) PROVE TypeOK'
    BY <1>12 DEF Execute, Snapshot
  <1>13. CASE UNCHANGED vars
    BY <1>13 DEF vars
  <1>14. QED
    BY <1>1, <1>2, <1>3, <1>4, <1>5, <1>6, <1>7, <1>8, <1>9, <1>10, <1>11, <1>12, <1>13
    DEF Next, Handler

(* TypeOK is an invariant.                                                    *)
THEOREM TypeInvariant == Spec => []TypeOK
  <1>1. QED BY TypeInit, TypeStep, PTL DEF Spec

-----------------------------------------------------------------------------

\* Completion and approval events stay in the stream.
LEMMA EventsStay == [Next]_vars => done \subseteq done' /\ approved \subseteq approved'
  BY DEF Next, vars, eventVars, Dispatch, Resume, LoadSuccess, LoadDecision, Load, Handler,
         Complete, Approve, Reject, SkipBlocked, Enqueue, SaveReleased, Finalize, Abort,
         Execute, Snapshot

\* What the copies of the state record as completed has finished, and was filled
\* in where an approval completed it; the handlers' first writes keep that.
LEMMA CopiesStep ==
  ASSUME TypeOK, CompletedIsFinished, FilledEverywhere, [Next]_vars
  PROVE  CompletedIsFinished' /\ FilledEverywhere'
  <1> USE DEF CompletedIsFinished, FilledEverywhere, Finished, FilledIn
  <1>1. done \subseteq done' /\ approved \subseteq approved'
    BY EventsStay
  <1>2. ASSUME NEW c \in Coordinators, Dispatch(c)
        PROVE CompletedIsFinished' /\ FilledEverywhere'
    BY <1>1, <1>2 DEF Dispatch, NewState, Goto, eventVars, TypeOK
  <1>3. ASSUME NEW c \in Coordinators,
               Resume(c) \/ \E t \in Tasks : LoadSuccess(c, t) \/ LoadDecision(c, t)
        PROVE CompletedIsFinished' /\ FilledEverywhere'
    BY <1>1, <1>3 DEF LoadSuccess, LoadDecision, Resume, Load, Goto, eventVars, TypeOK
  <1>4. ASSUME NEW c \in Coordinators, Complete(c)
        PROVE CompletedIsFinished' /\ FilledEverywhere'
    <2>1. mem[c] \in PlanState
      BY DEF TypeOK
    <2> DEFINE st == [mem[c] EXCEPT !.completed = @ \cup job[c].tasks]
    <2>2. /\ st.completed = mem[c].completed \cup job[c].tasks
          /\ st.merged = mem[c].merged
      BY <2>1 DEF PlanState
    <2>3. /\ \A t \in st.completed : Finished(t)
          /\ FilledIn(st)
      BY <1>4, <2>2 DEF Complete
    <2>4. /\ stored' = st
          /\ mem' = [mem EXCEPT ![c] = st]
          /\ UNCHANGED <<job, done, approved>>
      BY <1>4 DEF Complete, Write, eventVars
    <2> HIDE DEF st
    <2>5. QED BY <2>3, <2>4 DEF TypeOK
  <1>5. ASSUME NEW c \in Coordinators, Approve(c)
        PROVE CompletedIsFinished' /\ FilledEverywhere'
    <2>1. mem[c] \in PlanState
      BY DEF TypeOK
    <2> DEFINE filled == UNION {Dependents(t) : t \in job[c].tasks}
               st == [mem[c] EXCEPT !.completed = @ \cup job[c].tasks,
                                    !.merged = @ \cup filled]
    <2>2. /\ st.completed = mem[c].completed \cup job[c].tasks
          /\ st.merged = mem[c].merged \cup filled
      BY <2>1 DEF PlanState
    <2>3. \A t \in job[c].tasks : t \in approved /\ Dependents(t) \subseteq filled
      BY <1>5 DEF Approve
    <2> HIDE DEF filled
    <2>4. /\ \A t \in st.completed : Finished(t)
          /\ FilledIn(st)
      BY <2>2, <2>3
    <2>5. /\ stored' = st
          /\ mem' = [mem EXCEPT ![c] = st]
          /\ UNCHANGED <<job, done, approved>>
      BY <1>5 DEF Approve, Write, eventVars, filled
    <2> HIDE DEF st
    <2>6. QED BY <2>4, <2>5 DEF TypeOK
  <1>6. ASSUME NEW c \in Coordinators, Reject(c)
        PROVE CompletedIsFinished' /\ FilledEverywhere'
    <2>1. mem[c] \in PlanState
      BY DEF TypeOK
    <2> DEFINE st == [mem[c] EXCEPT !.failed = @ \cup job[c].tasks, !.blocked = TRUE]
    <2>2. st.completed = mem[c].completed /\ st.merged = mem[c].merged
      BY <2>1 DEF PlanState
    <2>3. stored' = st
      BY <1>6 DEF Reject
    <2> HIDE DEF st
    <2>4. QED BY <1>1, <1>6, <2>2, <2>3 DEF Reject, Leave, NewState, NoJob, TypeOK
  <1>7. ASSUME NEW c \in Coordinators, SkipBlocked(c) \/ Finalize(c) \/ Abort(c)
        PROVE CompletedIsFinished' /\ FilledEverywhere'
    <2>1. stored' = stored \/ stored' = NoState
      BY <1>7 DEF SkipBlocked, Finalize, Abort
    <2>2. /\ mem' = [mem EXCEPT ![c] = NewState]
          /\ job' = [job EXCEPT ![c] = NoJob]
      BY <1>7 DEF SkipBlocked, Finalize, Abort, Leave
    <2>3. QED BY <1>1, <2>1, <2>2 DEF NewState, NoJob, TypeOK
  <1>8. ASSUME NEW c \in Coordinators, Enqueue(c)
        PROVE CompletedIsFinished' /\ FilledEverywhere'
    <2>1. PICK t \in Tasks : mem' = [mem EXCEPT ![c].released = @ \cup {t}]
      BY <1>8 DEF Enqueue
    <2>2. mem[c] \in PlanState
      BY DEF TypeOK
    <2>3. \A e \in Coordinators :
            mem'[e].completed = mem[e].completed /\ mem'[e].merged = mem[e].merged
      BY <2>1, <2>2 DEF PlanState, TypeOK
    <2>4. QED BY <1>1, <1>8, <2>3 DEF Enqueue, eventVars
  <1>9. ASSUME NEW c \in Coordinators, SaveReleased(c)
        PROVE CompletedIsFinished' /\ FilledEverywhere'
    BY <1>1, <1>9 DEF SaveReleased, Leave, Goto, NewState, NoJob, TypeOK
  <1>10. ASSUME NEW t \in Tasks, Execute(t) \/ Snapshot(t)
         PROVE CompletedIsFinished' /\ FilledEverywhere'
    BY <1>1, <1>10 DEF Execute, Snapshot, handlerVars
  <1>11. CASE UNCHANGED vars
    BY <1>11 DEF vars, handlerVars, eventVars
  <1>12. QED
    BY <1>2, <1>3, <1>4, <1>5, <1>6, <1>7, <1>8, <1>9, <1>10, <1>11 DEF Next, Handler

-----------------------------------------------------------------------------

\* Only the loop of release_ready_tasks puts tasks on the stream.
LEMMA OnlyEnqueueIssues ==
  [Next]_vars /\ ~(\E c \in Coordinators : Enqueue(c)) => UNCHANGED <<copies, plain>>
  BY DEF Next, vars, Dispatch, Resume, LoadSuccess, LoadDecision, Load, Handler,
         Complete, Approve, Reject, SkipBlocked, SaveReleased, Finalize, Abort,
         Execute, Snapshot

\* What the loop issues: a task whose dependencies its copy records as completed.
LEMMA EnqueueIssues ==
  ASSUME TypeOK, NEW c \in Coordinators, Enqueue(c)
  PROVE  \E t \in Tasks :
           /\ Deps[t] \subseteq mem[c].completed
           /\ Issued' = Issued \cup {t}
           /\ plain' = plain \/ (t \notin mem[c].merged /\ plain' = plain \cup {t})
           /\ UNCHANGED <<done, approved>>
  <1>1. PICK t \in Tasks :
          /\ IsFirst(t, Ready(mem[c]))
          /\ copies' = [copies EXCEPT ![t] = @ + 1]
          /\ plain' = IF t \in mem[c].merged THEN plain ELSE plain \cup {t}
    BY DEF Enqueue
  <1>2. Deps[t] \subseteq mem[c].completed
    BY <1>1 DEF IsFirst, Ready
  <1>3. Issued' = Issued \cup {t}
    <2>1. copies[t] \in Nat /\ \A u \in Tasks \ {t} : copies'[u] = copies[u]
      BY <1>1, PlanAssumption DEF TypeOK
    <2>2. copies'[t] = copies[t] + 1
      BY <1>1 DEF TypeOK
    <2>3. copies'[t] > 0
      BY <2>1, <2>2
    <2>4. \A u \in Tasks : copies'[u] > 0 <=> copies[u] > 0 \/ u = t
      BY <2>1, <2>3
    <2>5. QED BY <2>4 DEF Issued
  <1>4. UNCHANGED <<done, approved>>
    BY DEF Enqueue, eventVars
  <1>5. QED BY <1>1, <1>2, <1>3, <1>4

LEMMA InvInit == Init => Inv
  <1> SUFFICES ASSUME Init PROVE Inv
    OBVIOUS
  <1>1. CompletedIsFinished /\ FilledEverywhere
    BY DEF Init, CompletedIsFinished, FilledEverywhere, FilledIn, NewState, NoJob
  <1>2. DependenciesFirst /\ ApprovalFillsArguments
    BY DEF Init, DependenciesFirst, ApprovalFillsArguments, Issued
  <1>3. DeletedWhenFinished
    BY Zenon DEF Init, DeletedWhenFinished
  <1>4. QED BY <1>1, <1>2, <1>3, TypeInit DEF Inv

LEMMA InvStep == Inv /\ [Next]_vars => Inv'
  <1> SUFFICES ASSUME Inv, [Next]_vars PROVE Inv'
    OBVIOUS
  <1>1. TypeOK /\ TypeOK'
    BY TypeStep DEF Inv
  <1>2. CompletedIsFinished' /\ FilledEverywhere'
    BY CopiesStep DEF Inv
  <1>3. done \subseteq done' /\ approved \subseteq approved'
    BY EventsStay
  <1>4. DependenciesFirst'
    <2>1. ASSUME NEW c \in Coordinators, Enqueue(c) PROVE DependenciesFirst'
      <3>1. PICK t \in Tasks : /\ Deps[t] \subseteq mem[c].completed
                              /\ Issued' = Issued \cup {t}
        BY <1>1, <2>1, EnqueueIssues
      <3>2. \A d \in Deps[t] : Finished(d)
        BY <3>1 DEF Inv, CompletedIsFinished
      <3>3. QED BY <1>3, <3>1, <3>2 DEF Inv, DependenciesFirst, Finished
    <2>2. CASE UNCHANGED <<copies, plain>>
      BY <1>3, <2>2 DEF Inv, DependenciesFirst, Finished, Issued
    <2>3. QED BY <2>1, <2>2, OnlyEnqueueIssues
  <1>5. ApprovalFillsArguments'
    <2>1. ASSUME NEW c \in Coordinators, Enqueue(c) PROVE ApprovalFillsArguments'
      <3>1. PICK t \in Tasks :
              /\ Deps[t] \subseteq mem[c].completed
              /\ plain' = plain \/ (t \notin mem[c].merged /\ plain' = plain \cup {t})
        BY <1>1, <2>1, EnqueueIssues
      <3>2. t \notin mem[c].merged => \A d \in Deps[t] : d \in done
        BY <3>1 DEF Inv, FilledEverywhere, FilledIn, Dependents
      <3>3. QED BY <1>3, <3>1, <3>2 DEF Inv, ApprovalFillsArguments
    <2>2. CASE UNCHANGED <<copies, plain>>
      BY <1>3, <2>2 DEF Inv, ApprovalFillsArguments
    <2>3. QED BY <2>1, <2>2, OnlyEnqueueIssues
  <1>6. DeletedWhenFinished'
    <2> SUFFICES ASSUME created', stored' = NoState
                 PROVE  \A t \in Tasks : Finished(t)'
      BY DEF DeletedWhenFinished
    <2>1. CASE created /\ stored = NoState
      BY <1>3, <2>1 DEF Inv, DeletedWhenFinished, Finished
    <2>2. ASSUME NEW c \in Coordinators, Finalize(c), stored # NoState
          PROVE \A t \in Tasks : Finished(t)'
      <3>1. mem[c].completed = Tasks
        BY <2>2 DEF Finalize
      <3>2. QED BY <1>3, <3>1 DEF Inv, CompletedIsFinished, Finished
    <2>3. ASSUME NEW c \in Coordinators, Dispatch(c) PROVE FALSE
      BY <2>3, NewStateType DEF Dispatch
    <2>4. ASSUME NEW c \in Coordinators, Complete(c) \/ Approve(c) PROVE FALSE
      <3>1. stored' = mem'[c] /\ mem'[c] \in PlanState
        BY <1>1, <2>4 DEF Complete, Approve, Write, TypeOK
      <3>2. QED BY <3>1, PlanAssumption
    <2>5. ASSUME NEW c \in Coordinators, Reject(c) PROVE FALSE
      <3>1. mem[c] \in PlanState /\ job[c].tasks \subseteq Tasks
        BY <1>1 DEF TypeOK, Jobs
      <3>2. stored' \in PlanState
        BY <2>5, <3>1 DEF Reject, PlanState
      <3>3. QED BY <3>2, PlanAssumption
    <2>6. ASSUME NEW c \in Coordinators, SaveReleased(c) PROVE FALSE
      BY <1>1, <2>6, PlanAssumption DEF SaveReleased, TypeOK
    <2>7. CASE UNCHANGED <<stored, created>>
      BY <2>1, <2>7
    <2>8. QED
      BY <2>1, <2>2, <2>3, <2>4, <2>5, <2>6, <2>7
      DEF Next, Handler, vars, Resume, LoadSuccess, LoadDecision, Load, SkipBlocked,
          Enqueue, Finalize, Abort, Execute, Snapshot
  <1>7. QED BY <1>1, <1>2, <1>4, <1>5, <1>6 DEF Inv

(* Dependencies are respected by every dispatch, for any number of           *)
(* coordinators and whatever is cut off, late or repeated.                    *)
THEOREM DependenciesRespected == Spec => []DependenciesFirst
  <1>1. Inv => DependenciesFirst BY DEF Inv
  <1>2. QED BY <1>1, InvInit, InvStep, PTL DEF Spec

(* What any copy of the plan state records as completed has finished.         *)
THEOREM RecordsAreTrue == Spec => []CompletedIsFinished
  <1>1. Inv => CompletedIsFinished BY DEF Inv
  <1>2. QED BY <1>1, InvInit, InvStep, PTL DEF Spec

(* No plan is deleted before all its tasks finished.                          *)
THEOREM NoPlanDropped == Spec => []DeletedWhenFinished
  <1>1. Inv => DeletedWhenFinished BY DEF Inv
  <1>2. QED BY <1>1, InvInit, InvStep, PTL DEF Spec

(* An approval never releases a task without the fields it approved.          *)
THEOREM ApprovalsFillArguments == Spec => []ApprovalFillsArguments
  <1>1. Inv => ApprovalFillsArguments BY DEF Inv
  <1>2. QED BY <1>1, InvInit, InvStep, PTL DEF Spec

-----------------------------------------------------------------------------

\* What finished in the sense of TaskGraph.
FinishedTasks == {t \in Tasks : Finished(t)}

LEMMA GraphInit == Init => Graph!Init
  BY DEF Init, Graph!Init, Issued, Finished

\* An enqueue issues, a completion or an approval finishes an issued task, and
\* no other step is seen by TaskGraph.
LEMMA GraphStep ==
  Inv /\ [Next]_vars => [Graph!Next]_<<Issued, FinishedTasks>>
  <1> SUFFICES ASSUME Inv, [Next]_vars
               PROVE  Graph!Next \/ UNCHANGED <<Issued, FinishedTasks>>
    OBVIOUS
  <1>1. ASSUME NEW c \in Coordinators, Enqueue(c) PROVE Graph!Next
    <2>1. PICK t \in Tasks : /\ Deps[t] \subseteq mem[c].completed
                            /\ Issued' = Issued \cup {t}
                            /\ UNCHANGED <<done, approved>>
      BY <1>1, EnqueueIssues DEF Inv
    <2>2. Deps[t] \subseteq FinishedTasks
      BY <2>1, PlanAssumption DEF Inv, CompletedIsFinished, FinishedTasks
    <2>3. FinishedTasks' = FinishedTasks
      BY <2>1 DEF FinishedTasks, Finished
    <2>4. Graph!Issue(t)
      BY <2>1, <2>2, <2>3 DEF Graph!Issue, FinishedTasks
    <2>5. QED BY <2>4 DEF Graph!Next
  <1>2. ASSUME NEW t \in Tasks, Execute(t) \/ Snapshot(t)
        PROVE  Graph!Next \/ UNCHANGED <<Issued, FinishedTasks>>
    <2>1. t \in Issued /\ Issued' = Issued
      BY <1>2 DEF Execute, Snapshot, Issued
    <2>2. FinishedTasks' = FinishedTasks \cup {t} \/ FinishedTasks' = FinishedTasks
      BY <1>2 DEF Execute, Snapshot, FinishedTasks, Finished
    <2>3. FinishedTasks' = FinishedTasks \cup {t} => Graph!Finish(t)
      BY <2>1 DEF Graph!Finish, FinishedTasks
    <2>4. QED BY <2>1, <2>2, <2>3 DEF Graph!Next
  <1>3. ASSUME NEW c \in Coordinators,
               \/ Dispatch(c) \/ Resume(c) \/ Abort(c)
               \/ Complete(c) \/ Approve(c) \/ Reject(c)
               \/ SkipBlocked(c) \/ SaveReleased(c) \/ Finalize(c)
               \/ \E t \in Tasks : LoadSuccess(c, t) \/ LoadDecision(c, t)
        PROVE  UNCHANGED <<Issued, FinishedTasks>>
    <2>1. UNCHANGED <<copies, done, approved>>
      BY <1>3
      DEF Dispatch, Resume, Abort, Complete, Approve, Reject, SkipBlocked, SaveReleased,
          Finalize, LoadSuccess, LoadDecision, Load, eventVars
    <2>2. QED BY <2>1 DEF Issued, FinishedTasks, Finished
  <1>4. CASE UNCHANGED vars
    BY <1>4 DEF vars, eventVars, Issued, FinishedTasks, Finished
  <1>5. QED
    BY <1>1, <1>2, <1>3, <1>4 DEF Next, Handler

(* The coordinator's dispatch of a plan, with everything it stores, loses and *)
(* repeats, implements TaskGraph.                                             *)
THEOREM ImplementsTaskGraph == Spec => TaskGraphSpec
  <1>1. [Graph!Next]_<<Issued, FinishedTasks>>
          <=> [Graph!Next]_<<Issued, {t \in Tasks : Finished(t)}>>
    BY DEF FinishedTasks
  <1>2. QED
    BY <1>1, GraphInit, GraphStep, InvInit, InvStep, PTL
    DEF Spec, TaskGraphSpec, Graph!Spec

-----------------------------------------------------------------------------
\* While no two handlers have overlapped.

Running(c) == pc[c] # "idle"

\* A running handler's copy is the stored state, but for what it has released
\* since its last write.
InTouch(c) ==
  /\ stored # NoState
  /\ mem[c].completed = stored.completed
  /\ mem[c].failed = stored.failed
  /\ mem[c].blocked = stored.blocked
  /\ stored.released \subseteq mem[c].released
  /\ pc[c] # "release" \/ mem[c].blocked => mem[c].released = stored.released
  /\ pc[c] = "finalize" => ~mem[c].blocked

\* Neither the stored state nor a handler's copy records the release of t.
Unrecorded(t) ==
  /\ stored # NoState
  /\ t \notin stored.released
  /\ \A c \in Coordinators : Running(c) => t \notin mem[c].released

OnlyOne == \A c, d \in Coordinators : Running(c) /\ Running(d) => c = d

AllInTouch == \A c \in Coordinators : Running(c) => InTouch(c)

\* An entry without a record was left by a handler that was cut off.
CopiesCounted ==
  \A t \in Tasks : /\ copies[t] <= 1 + aborts
                   /\ Unrecorded(t) => copies[t] <= aborts

\* A finished plan is about to be deleted by the handler that completed it.
FinishedIsFinalized ==
  /\ stored # NoState /\ stored.completed = Tasks /\ ~stored.blocked
  /\ aborts = 0
  => \E c \in Coordinators : /\ pc[c] \in {"release", "finalize"}
                             /\ job[c].kind \in {"complete", "approve"}

AloneInv ==
  /\ stored # NoState => created
  /\ \A c \in Coordinators : Running(c) => created
  /\ ~created => \A t \in Tasks : copies[t] = 0
  /\ ~overlapped => OnlyOne /\ AllInTouch /\ CopiesCounted /\ FinishedIsFinalized

LEMMA AloneInit == Init => AloneInv
  <1> SUFFICES ASSUME Init PROVE AloneInv
    OBVIOUS
  <1>1. stored = NoState /\ \A c \in Coordinators : ~Running(c)
    BY DEF Init, Running
  <1>2. \A t \in Tasks : copies[t] = 0 /\ aborts = 0
    BY DEF Init
  <1>3. OnlyOne /\ AllInTouch /\ FinishedIsFinalized
    BY <1>1 DEF OnlyOne, AllInTouch, FinishedIsFinalized
  <1>4. CopiesCounted
    BY <1>2 DEF CopiesCounted
  <1>5. QED BY <1>1, <1>2, <1>3, <1>4 DEF AloneInv

\* A handler that starts alone finds all others idle.
LEMMA StartsAlone ==
  ASSUME TypeOK, NEW c \in Coordinators, Overlap(c), ~overlapped', pc[c] = "idle"
  PROVE  ~overlapped /\ \A d \in Coordinators : ~Running(d)
  <1>1. overlapped' = (overlapped \/ \E d \in Coordinators \ {c} : pc[d] # "idle")
    BY DEF Overlap
  <1>2. ~overlapped /\ ~\E d \in Coordinators \ {c} : pc[d] # "idle"
    BY <1>1, Zenon
  <1>3. QED BY <1>2 DEF Running

LEMMA LoadAlone ==
  ASSUME TypeOK, AloneInv, NEW c \in Coordinators, NEW tasks \in SUBSET Tasks,
         NEW kind \in {"resume", "complete", "approve", "reject"},
         NEW step \in {"loaded", "release"},
         Load(c, kind, tasks, step), step = "release" => kind = "resume"
  PROVE  AloneInv'
  <1>1. UNCHANGED <<stored, created, copies, aborts>> /\ stored # NoState
    BY DEF Load
  <1> SUFFICES ASSUME ~overlapped'
               PROVE  (OnlyOne /\ AllInTouch /\ CopiesCounted /\ FinishedIsFinalized)'
    BY <1>1 DEF AloneInv
  <1>2. ~overlapped /\ \A d \in Coordinators : ~Running(d)
    BY StartsAlone DEF Load
  <1>3. /\ pc' = [pc EXCEPT ![c] = step]
        /\ mem' = [mem EXCEPT ![c] = stored]
    BY DEF Load, Goto
  <1>4. \A d \in Coordinators : Running(d)' => d = c
    BY <1>2, <1>3 DEF Running, TypeOK
  <1>5. mem'[c] = stored /\ pc'[c] = step
    BY <1>3 DEF TypeOK
  <1>6. OnlyOne' /\ AllInTouch'
    BY <1>1, <1>4, <1>5 DEF OnlyOne, AllInTouch, InTouch
  <1>7. CopiesCounted'
    <2>1. ASSUME NEW t \in Tasks, Unrecorded(t)' PROVE Unrecorded(t)
      BY <1>1, <1>2, <2>1 DEF Unrecorded
    <2>2. QED BY <1>1, <1>2, <2>1 DEF AloneInv, CopiesCounted
  <1>8. FinishedIsFinalized'
    BY <1>1, <1>2 DEF AloneInv, FinishedIsFinalized, Running
  <1>9. QED BY <1>6, <1>7, <1>8

\* What a handler of c may change: only c runs, before and after.
LEMMA OneHandler ==
  ASSUME TypeOK, AloneInv, NEW c \in Coordinators, Running(c), ~overlapped,
         \A d \in Coordinators \ {c} : pc'[d] = pc[d]
  PROVE  /\ \A d \in Coordinators : Running(d) => d = c
         /\ \A d \in Coordinators : Running(d)' => d = c
         /\ OnlyOne'
         /\ InTouch(c)
  BY DEF AloneInv, OnlyOne, AllInTouch, Running

LEMMA WriteAlone ==
  ASSUME TypeOK, AloneInv, NEW c \in Coordinators, Complete(c) \/ Approve(c), ~overlapped
  PROVE  AloneInv'
  <1>1. PICK st \in PlanState :
          /\ stored' = st
          /\ mem' = [mem EXCEPT ![c] = st]
          /\ st.released = mem[c].released
          /\ st.failed = mem[c].failed
          /\ st.blocked = mem[c].blocked
    <2>1. mem[c] \in PlanState /\ job[c] \in Jobs
      BY DEF TypeOK
    <2>2. CASE Complete(c)
      <3> DEFINE st == [mem[c] EXCEPT !.completed = @ \cup job[c].tasks]
      <3>1. /\ st \in PlanState
            /\ st.released = mem[c].released
            /\ st.failed = mem[c].failed
            /\ st.blocked = mem[c].blocked
        BY <2>1 DEF PlanState, Jobs
      <3>2. stored' = st /\ mem' = [mem EXCEPT ![c] = st]
        BY <2>2 DEF Complete, Write
      <3> HIDE DEF st
      <3>3. QED BY <3>1, <3>2
    <2>3. CASE Approve(c)
      <3> DEFINE filled == UNION {Dependents(t) : t \in job[c].tasks}
                 st == [mem[c] EXCEPT !.completed = @ \cup job[c].tasks,
                                      !.merged = @ \cup filled]
      <3>1. filled \subseteq Tasks
        BY DEF Dependents
      <3> HIDE DEF filled
      <3>2. /\ st \in PlanState
            /\ st.released = mem[c].released
            /\ st.failed = mem[c].failed
            /\ st.blocked = mem[c].blocked
        BY <2>1, <3>1 DEF PlanState, Jobs
      <3>3. stored' = st /\ mem' = [mem EXCEPT ![c] = st]
        BY <2>3 DEF Approve, Write, filled
      <3> HIDE DEF st
      <3>4. QED BY <3>2, <3>3
    <2>4. QED BY <2>2, <2>3
  <1>2. /\ pc[c] = "loaded"
        /\ job[c].kind \in {"complete", "approve"}
        /\ pc' = [pc EXCEPT ![c] = "release"]
        /\ UNCHANGED <<created, job, copies, aborts, overlapped>>
    BY DEF Complete, Approve, Goto
  <1>3. /\ \A d \in Coordinators : Running(d)' => d = c
        /\ OnlyOne' /\ InTouch(c)
    BY <1>2, OneHandler DEF Running, TypeOK
  <1>4. stored' # NoState /\ mem'[c] = stored' /\ pc'[c] = "release"
    BY <1>1, <1>2, PlanAssumption DEF TypeOK
  <1>5. AllInTouch'
    BY <1>3, <1>4 DEF AllInTouch, InTouch
  <1>6. CopiesCounted'
    <2>1. ASSUME NEW t \in Tasks, Unrecorded(t)' PROVE Unrecorded(t)
      <3>1. t \notin mem[c].released
        BY <1>1, <2>1 DEF Unrecorded
      <3>2. \A d \in Coordinators : Running(d) => d = c
        BY <1>2 DEF Running, AloneInv, OnlyOne
      <3>3. QED BY <1>3, <3>1, <3>2 DEF Unrecorded, InTouch
    <2>2. QED BY <1>2, <2>1 DEF AloneInv, CopiesCounted
  <1>7. FinishedIsFinalized'
    BY <1>2, <1>4 DEF FinishedIsFinalized
  <1>8. QED BY <1>2, <1>3, <1>5, <1>6, <1>7 DEF AloneInv, InTouch

LEMMA EnqueueAlone ==
  ASSUME TypeOK, AloneInv, NEW c \in Coordinators, Enqueue(c), ~overlapped
  PROVE  AloneInv'
  <1>1. PICK t \in Tasks :
          /\ IsFirst(t, Ready(mem[c]))
          /\ copies' = [copies EXCEPT ![t] = @ + 1]
          /\ mem' = [mem EXCEPT ![c].released = @ \cup {t}]
    BY DEF Enqueue
  <1>2. /\ pc[c] = "release" /\ ~mem[c].blocked
        /\ UNCHANGED <<stored, created, pc, job, aborts, overlapped>>
    BY DEF Enqueue
  <1>3. /\ \A d \in Coordinators : Running(d) => d = c
        /\ \A d \in Coordinators : Running(d)' => d = c
        /\ OnlyOne' /\ InTouch(c)
    BY <1>2, OneHandler DEF Running
  <1>4. mem[c] \in PlanState
    BY DEF TypeOK
  <1>5. /\ mem'[c].released = mem[c].released \cup {t}
        /\ mem'[c].completed = mem[c].completed
        /\ mem'[c].failed = mem[c].failed
        /\ mem'[c].blocked = mem[c].blocked
    BY <1>1, <1>4 DEF PlanState, TypeOK
  <1>6. AllInTouch'
    BY <1>2, <1>3, <1>5 DEF AllInTouch, InTouch
  <1>7. CopiesCounted'
    <2>1. t \notin mem[c].released
      BY <1>1 DEF IsFirst, Ready
    <2>2. Unrecorded(t)
      BY <1>3, <2>1 DEF Unrecorded, InTouch
    <2>3. copies \in [Tasks -> Nat] /\ aborts \in Nat
      BY PlanAssumption DEF TypeOK
    <2>4. copies[t] <= aborts
      BY <2>2 DEF AloneInv, CopiesCounted
    <2>5. ~Unrecorded(t)'
      BY <1>2, <1>5 DEF Unrecorded, Running
    <2>6. ASSUME NEW u \in Tasks, u # t, Unrecorded(u)' PROVE Unrecorded(u)
      <3>1. u \notin mem[c].released
        BY <1>2, <1>5, <2>6 DEF Unrecorded, Running
      <3>2. QED BY <1>2, <1>3, <2>6, <3>1 DEF Unrecorded, InTouch
    <2>7. \A u \in Tasks : copies'[u] = IF u = t THEN copies[u] + 1 ELSE copies[u]
      BY <1>1, <2>3
    <2>8. copies'[t] <= 1 + aborts
      BY <2>3, <2>4, <2>7
    <2>9. QED BY <1>2, <2>5, <2>6, <2>7, <2>8 DEF AloneInv, CopiesCounted
  <1>8. FinishedIsFinalized'
    BY <1>2 DEF AloneInv, FinishedIsFinalized
  <1>9. QED BY <1>2, <1>3, <1>6, <1>7, <1>8 DEF AloneInv, InTouch

LEMMA SaveAlone ==
  ASSUME TypeOK, AloneInv, NEW c \in Coordinators, SaveReleased(c), ~overlapped
  PROVE  AloneInv'
  <1>1. /\ pc[c] = "release" /\ ~mem[c].blocked
        /\ stored' = mem[c] /\ stored' # NoState
        /\ UNCHANGED <<created, copies, aborts, overlapped>>
    BY PlanAssumption DEF SaveReleased, TypeOK
  <1>2. \/ /\ job[c].kind \in {"dispatch", "resume"}
           /\ pc' = [pc EXCEPT ![c] = "idle"]
        \/ /\ job[c].kind \notin {"dispatch", "resume"}
           /\ pc' = [pc EXCEPT ![c] = "finalize"]
           /\ UNCHANGED <<job, mem>>
    BY DEF SaveReleased, Leave, Goto
  <1>3. /\ \A d \in Coordinators : Running(d) => d = c
        /\ \A d \in Coordinators : Running(d)' => d = c
        /\ OnlyOne' /\ InTouch(c)
    BY <1>1, <1>2, OneHandler DEF Running, TypeOK
  <1>4. Running(c)' => mem'[c] = mem[c] /\ pc'[c] = "finalize"
    BY <1>2 DEF Running, TypeOK
  <1>5. AllInTouch'
    BY <1>1, <1>3, <1>4 DEF AllInTouch, InTouch
  <1>6. CopiesCounted'
    <2>1. ASSUME NEW t \in Tasks, Unrecorded(t)' PROVE Unrecorded(t)
      BY <1>1, <1>3, <2>1 DEF Unrecorded, InTouch
    <2>2. QED BY <1>1, <2>1 DEF AloneInv, CopiesCounted
  <1>7. FinishedIsFinalized'
    <2> SUFFICES ASSUME stored'.completed = Tasks, aborts = 0
                 PROVE  \E d \in Coordinators : /\ pc'[d] \in {"release", "finalize"}
                                                /\ job'[d].kind \in {"complete", "approve"}
      BY <1>1 DEF FinishedIsFinalized
    <2>1. PICK d \in Coordinators : /\ pc[d] \in {"release", "finalize"}
                                    /\ job[d].kind \in {"complete", "approve"}
      BY <1>1, <1>3 DEF AloneInv, FinishedIsFinalized, InTouch
    <2>2. d = c
      BY <1>3, <2>1 DEF Running
    <2>3. QED BY <1>2, <2>1, <2>2 DEF TypeOK
  <1>8. QED BY <1>1, <1>3, <1>5, <1>6, <1>7 DEF AloneInv, InTouch

\* A handler ends: with a rejection, because the plan is blocked, at the end of
\* finalize_plan, or cut off.
LEMMA LeaveAlone ==
  ASSUME TypeOK, AloneInv, NEW c \in Coordinators, ~overlapped,
         Reject(c) \/ SkipBlocked(c) \/ Finalize(c) \/ Abort(c)
  PROVE  AloneInv'
  <1>1. /\ Running(c)
        /\ pc' = [pc EXCEPT ![c] = "idle"]
        /\ UNCHANGED <<created, copies, overlapped>>
    BY DEF Reject, SkipBlocked, Finalize, Abort, Leave, Goto, Running
  <1>2. /\ \A d \in Coordinators : Running(d) => d = c
        /\ \A d \in Coordinators : Running(d)' => d = c
        /\ OnlyOne' /\ InTouch(c)
    BY <1>1, OneHandler
  <1>3. ~Running(c)'
    BY <1>1 DEF Running, TypeOK
  <1>4. AllInTouch'
    BY <1>2, <1>3 DEF AllInTouch
  <1>5. aborts \in Nat /\ \A t \in Tasks : copies[t] \in Nat
    BY PlanAssumption DEF TypeOK
  <1>6. CASE Abort(c)
    <2>1. aborts' = aborts + 1 /\ stored' = stored
      BY <1>6 DEF Abort
    <2>2. \A t \in Tasks : copies[t] <= 1 + aborts
      BY DEF AloneInv, CopiesCounted
    <2>3. CopiesCounted'
      BY <1>1, <1>5, <2>1, <2>2 DEF CopiesCounted
    <2>4. FinishedIsFinalized'
      BY <1>5, <2>1 DEF FinishedIsFinalized
    <2>5. QED BY <1>1, <1>2, <1>4, <2>1, <2>3, <2>4 DEF AloneInv, InTouch
  <1>7. CASE Reject(c)
    <2> DEFINE st == [mem[c] EXCEPT !.failed = @ \cup job[c].tasks, !.blocked = TRUE]
    <2>1. mem[c] \in PlanState
      BY DEF TypeOK
    <2>2. st.released = mem[c].released /\ st.blocked
      BY <2>1 DEF PlanState
    <2>3. stored' = st /\ UNCHANGED aborts
      BY <1>7 DEF Reject
    <2> HIDE DEF st
    <2>4. ASSUME NEW t \in Tasks, Unrecorded(t)' PROVE Unrecorded(t)
      BY <1>2, <2>2, <2>3, <2>4 DEF Unrecorded, InTouch
    <2>5. CopiesCounted'
      BY <1>1, <2>3, <2>4 DEF AloneInv, CopiesCounted
    <2>6. FinishedIsFinalized'
      BY <2>2, <2>3 DEF FinishedIsFinalized
    <2>7. QED BY <1>1, <1>2, <1>4, <2>5, <2>6 DEF AloneInv, InTouch
  <1>8. CASE SkipBlocked(c) \/ Finalize(c)
    <2>1. UNCHANGED aborts /\ (stored' = stored \/ stored' = NoState)
      BY <1>8 DEF SkipBlocked, Finalize
    <2>2. mem[c].released = stored.released
      BY <1>2, <1>8 DEF SkipBlocked, Finalize, InTouch
    <2>3. ASSUME NEW t \in Tasks, Unrecorded(t)' PROVE Unrecorded(t)
      BY <1>2, <2>1, <2>2, <2>3 DEF Unrecorded
    <2>4. CopiesCounted'
      BY <1>1, <2>1, <2>3 DEF AloneInv, CopiesCounted
    <2>5. FinishedIsFinalized'
      <3>1. CASE SkipBlocked(c)
        BY <1>2, <3>1 DEF SkipBlocked, FinishedIsFinalized, InTouch
      <3>2. CASE Finalize(c)
        BY <1>2, <3>2 DEF Finalize, FinishedIsFinalized, InTouch
      <3>3. QED BY <1>8, <3>1, <3>2
    <2>6. QED BY <1>1, <1>2, <1>4, <2>1, <2>4, <2>5 DEF AloneInv, InTouch
  <1>9. QED BY <1>6, <1>7, <1>8

LEMMA DispatchAlone ==
  ASSUME TypeOK, AloneInv, NEW c \in Coordinators, Dispatch(c)
  PROVE  AloneInv'
  <1>1. /\ stored' = NewState /\ created'
        /\ UNCHANGED <<copies, aborts>>
    BY Zenon DEF Dispatch
  <1>2. ~created /\ \A t \in Tasks : copies[t] = 0
    BY DEF AloneInv, Dispatch
  <1> SUFFICES ASSUME ~overlapped'
               PROVE  (OnlyOne /\ AllInTouch /\ CopiesCounted /\ FinishedIsFinalized)'
    BY <1>1 DEF AloneInv
  <1>3. \A d \in Coordinators : ~Running(d)
    BY StartsAlone DEF Dispatch
  <1>4. /\ pc' = [pc EXCEPT ![c] = "release"]
        /\ mem' = [mem EXCEPT ![c] = NewState]
    BY DEF Dispatch, Goto
  <1>5. \A d \in Coordinators : Running(d)' => d = c
    BY <1>3, <1>4 DEF Running, TypeOK
  <1>6. mem'[c] = NewState /\ pc'[c] = "release"
    BY <1>4 DEF TypeOK
  <1>7. OnlyOne' /\ AllInTouch'
    BY <1>1, <1>5, <1>6, NewStateType DEF OnlyOne, AllInTouch, InTouch, NewState
  <1>8. CopiesCounted'
    <2>1. aborts \in Nat
      BY PlanAssumption DEF TypeOK
    <2>2. QED BY <1>1, <1>2, <2>1 DEF CopiesCounted
  <1>9. FinishedIsFinalized'
    BY <1>1, PlanAssumption DEF FinishedIsFinalized, NewState
  <1>10. QED BY <1>7, <1>8, <1>9

LEMMA AloneStep == TypeOK /\ AloneInv /\ [Next]_vars => AloneInv'
  <1> SUFFICES ASSUME TypeOK, AloneInv, [Next]_vars PROVE AloneInv'
    OBVIOUS
  <1>1. ASSUME NEW c \in Coordinators, Dispatch(c) PROVE AloneInv'
    BY <1>1, DispatchAlone
  <1>2. ASSUME NEW c \in Coordinators, Resume(c) PROVE AloneInv'
    BY <1>2, LoadAlone DEF Resume
  <1>3. ASSUME NEW c \in Coordinators, NEW t \in Tasks, LoadSuccess(c, t) PROVE AloneInv'
    BY <1>3, LoadAlone DEF LoadSuccess
  <1>4. ASSUME NEW c \in Coordinators, NEW t \in Tasks, LoadDecision(c, t) PROVE AloneInv'
    BY <1>4, LoadAlone DEF LoadDecision
  <1>5. ASSUME NEW c \in Coordinators, Handler(c) \/ Abort(c), overlapped PROVE AloneInv'
    <2>1. UNCHANGED <<created, overlapped>>
      BY <1>5
      DEF Handler, Complete, Approve, Reject, SkipBlocked, Enqueue, SaveReleased, Finalize,
          Abort
    <2>2. Running(c)
      BY <1>5
      DEF Handler, Complete, Approve, Reject, SkipBlocked, Enqueue, SaveReleased, Finalize,
          Abort, Running
    <2>3. created
      BY <2>2 DEF AloneInv
    <2>4. QED BY <1>5, <2>1, <2>3 DEF AloneInv
  <1>6. ASSUME NEW c \in Coordinators, Handler(c) \/ Abort(c), ~overlapped PROVE AloneInv'
    BY <1>6, WriteAlone, EnqueueAlone, SaveAlone, LeaveAlone DEF Handler
  <1>7. ASSUME NEW t \in Tasks, Execute(t) \/ Snapshot(t) PROVE AloneInv'
    BY <1>7
    DEF Execute, Snapshot, handlerVars, AloneInv, OnlyOne, AllInTouch, InTouch, CopiesCounted,
        Unrecorded, FinishedIsFinalized, Running
  <1>8. CASE UNCHANGED vars
    BY <1>8
    DEF vars, handlerVars, AloneInv, OnlyOne, AllInTouch, InTouch, CopiesCounted, Unrecorded,
        FinishedIsFinalized, Running
  <1>9. QED
    BY <1>1, <1>2, <1>3, <1>4, <1>5, <1>6, <1>7, <1>8 DEF Next

LEMMA AloneInvariant == Spec => [](TypeOK /\ AloneInv)
  <1>1. Init => TypeOK /\ AloneInv
    BY TypeInit, AloneInit
  <1>2. TypeOK /\ AloneInv /\ [Next]_vars => (TypeOK /\ AloneInv)'
    BY TypeStep, AloneStep
  <1>3. QED BY <1>1, <1>2, PTL DEF Spec

(* While no two handlers run at once, a task is enqueued again only because a *)
(* handler was cut off between the enqueue and the write after it.            *)
THEOREM RepeatsNeedAborts == Spec => []ReissuedOnlyByAborts
  <1>1. AloneInv => ReissuedOnlyByAborts
    BY DEF AloneInv, CopiesCounted, ReissuedOnlyByAborts
  <1>2. QED BY <1>1, AloneInvariant, PTL

(* While no two handlers run at once, a finished plan stays in Redis only if  *)
(* its last handler was cut off or the checker blocked it.                    *)
THEOREM FinishedPlansGo == Spec => []FinishedIsDeleted
  <1>1. TypeOK /\ AloneInv => FinishedIsDeleted
    <2> SUFFICES ASSUME TypeOK, AloneInv, stored # NoState, stored.completed = Tasks,
                        \A c \in Coordinators : pc[c] = "idle",
                        ~overlapped, ~(aborts > 0), ~stored.blocked
                 PROVE  FALSE
      BY DEF FinishedIsDeleted
    <2>1. aborts = 0
      BY PlanAssumption DEF TypeOK
    <2>2. QED BY <2>1 DEF AloneInv, FinishedIsFinalized
  <1>2. QED BY <1>1, AloneInvariant, PTL

\* The handler that runs alone works on the stored state.
LEMMA HandlerAlone ==
  ASSUME TypeOK, AloneInv, NEW c \in Coordinators, Handler(c), ~overlapped'
  PROVE  /\ InTouch(c)
         /\ mem[c] \in PlanState
         /\ job[c] \in Jobs
  <1>1. ~overlapped
    BY DEF Handler, Complete, Approve, Reject, SkipBlocked, Enqueue, SaveReleased, Finalize
  <1>2. Running(c)
    BY DEF Handler, Complete, Approve, Reject, SkipBlocked, Enqueue, SaveReleased, Finalize,
           Running
  <1>3. QED BY <1>1, <1>2 DEF AloneInv, AllInTouch, TypeOK

\* The steps that leave the stored state and the task stream alone.
LEMMA OthersLeaveIt ==
  ASSUME [Next]_vars, stored # NoState \/ created, AloneInv,
         \A c \in Coordinators : ~Handler(c)
  PROVE  UNCHANGED <<stored, copies>>
  BY DEF Next, vars, AloneInv, Dispatch, Resume, LoadSuccess, LoadDecision, Load, Abort,
         Execute, Snapshot

\* What a handler writes.
LEMMA Writes ==
  ASSUME TypeOK, NEW c \in Coordinators, Handler(c)
  PROVE  \/ /\ Complete(c) \/ Approve(c) \/ Reject(c) \/ SaveReleased(c)
            /\ stored' # NoState
            /\ mem[c].released \subseteq stored'.released
            /\ mem[c].completed \subseteq stored'.completed
            /\ mem[c].failed \subseteq stored'.failed
            /\ mem[c].blocked => stored'.blocked
         \/ (SkipBlocked(c) \/ Enqueue(c)) /\ stored' = stored
         \/ Finalize(c) /\ (stored' = stored \/ stored' = NoState)
  <1>1. mem[c] \in PlanState /\ job[c] \in Jobs
    BY DEF TypeOK
  <1>2. CASE Complete(c)
    <2>1. stored' = [mem[c] EXCEPT !.completed = @ \cup job[c].tasks]
      BY <1>2 DEF Complete, Write
    <2>2. stored' # NoState
      BY <1>1, <2>1, PlanAssumption DEF PlanState, Jobs
    <2>3. QED BY <1>1, <1>2, <2>1, <2>2 DEF PlanState
  <1>3. CASE Approve(c)
    <2> DEFINE filled == UNION {Dependents(t) : t \in job[c].tasks}
    <2>1. stored' = [mem[c] EXCEPT !.completed = @ \cup job[c].tasks,
                                   !.merged = @ \cup filled]
      BY <1>3 DEF Approve, Write
    <2>2. filled \subseteq Tasks
      BY DEF Dependents
    <2> HIDE DEF filled
    <2>3. stored' \in PlanState
      BY <1>1, <2>1, <2>2 DEF PlanState, Jobs
    <2>4. stored' # NoState
      BY <2>3, PlanAssumption
    <2>5. QED BY <1>1, <1>3, <2>1, <2>4 DEF PlanState
  <1>4. CASE Reject(c)
    <2>1. stored' = [mem[c] EXCEPT !.failed = @ \cup job[c].tasks, !.blocked = TRUE]
      BY <1>4 DEF Reject
    <2>2. stored' # NoState
      BY <1>1, <2>1, PlanAssumption, ZenonT(30) DEF PlanState, Jobs
    <2>3. QED BY <1>1, <1>4, <2>1, <2>2 DEF PlanState
  <1>5. CASE SaveReleased(c)
    BY <1>1, <1>5, PlanAssumption DEF SaveReleased
  <1>6. CASE SkipBlocked(c) \/ Enqueue(c) \/ Finalize(c)
    BY <1>6 DEF SkipBlocked, Enqueue, Finalize
  <1>7. QED BY <1>2, <1>3, <1>4, <1>5, <1>6 DEF Handler

(* While no two handlers run at once, a plan the checker has rejected stays   *)
(* blocked and issues nothing more.                                           *)
THEOREM BlockedPlansStay == Spec => BlockedForGood
  <1>1. ASSUME TypeOK, AloneInv, [Next]_vars, ~overlapped', stored # NoState, stored.blocked
        PROVE  stored' # NoState /\ stored'.blocked /\ copies' = copies
    <2>1. CASE \A c \in Coordinators : ~Handler(c)
      BY <1>1, <2>1, OthersLeaveIt
    <2>2. ASSUME NEW c \in Coordinators, Handler(c)
          PROVE  stored' # NoState /\ stored'.blocked /\ copies' = copies
      <3>1. mem[c].blocked /\ pc[c] # "finalize"
        BY <1>1, <2>2, HandlerAlone DEF InTouch
      <3>2. Complete(c) \/ Approve(c) \/ Reject(c) \/ SkipBlocked(c)
        BY <2>2, <3>1 DEF Handler, Enqueue, SaveReleased, Finalize
      <3>3. copies' = copies
        BY <3>2 DEF Complete, Approve, Reject, SkipBlocked
      <3>4. pc[c] # "release" \/ SkipBlocked(c)
        BY <3>2 DEF Complete, Approve, Reject
      <3>5. CASE SkipBlocked(c)
        BY <1>1, <3>3, <3>5 DEF SkipBlocked
      <3>6. CASE Complete(c) \/ Approve(c) \/ Reject(c)
        <4>1. ~SkipBlocked(c) /\ ~Enqueue(c) /\ ~Finalize(c)
          BY <3>6 DEF Complete, Approve, Reject, SkipBlocked, Enqueue, Finalize
        <4>2. QED BY <1>1, <2>2, <3>1, <3>3, <4>1, Writes
      <3>7. QED BY <3>2, <3>5, <3>6
    <2>3. QED BY <2>1, <2>2
  <1>2. TypeOK /\ AloneInv /\ [Next]_vars
        => (~overlapped' /\ stored # NoState /\ stored.blocked
              => stored' # NoState /\ stored'.blocked /\ copies' = copies)
    BY <1>1
  <1>3. QED BY <1>2, AloneInvariant, PTL DEF Spec, BlockedForGood

(* While no two handlers run at once, the stored state never goes back and a  *)
(* deleted plan does not come back.                                           *)
THEOREM StoredStateGrows == Spec => NothingForgotten
  <1> DEFINE Kept ==
        /\ stored.released \subseteq stored'.released
        /\ stored.completed \subseteq stored'.completed
        /\ stored.failed \subseteq stored'.failed
      Step == IF stored = NoState THEN stored' = NoState
              ELSE stored' # NoState => Kept
  <1>1. ASSUME TypeOK, AloneInv, [Next]_vars, ~overlapped', created
        PROVE  Step
    <2>1. CASE \A c \in Coordinators : ~Handler(c)
      BY <1>1, <2>1, OthersLeaveIt
    <2>2. ASSUME NEW c \in Coordinators, Handler(c)
          PROVE  Step
      <3>1. InTouch(c)
        BY <1>1, <2>2, HandlerAlone
      <3>2. stored # NoState
        BY <3>1 DEF InTouch
      <3>3. ASSUME stored' # NoState, stored' # stored PROVE Kept
        <4>1. Complete(c) \/ Approve(c) \/ Reject(c) \/ SaveReleased(c)
          BY <1>1, <2>2, <3>3, Writes
        <4>2. /\ mem[c].released \subseteq stored'.released
              /\ mem[c].completed \subseteq stored'.completed
              /\ mem[c].failed \subseteq stored'.failed
          BY <1>1, <2>2, <3>3, Writes
        <4>3. QED BY <3>1, <4>2 DEF InTouch
      <3>4. QED BY <3>2, <3>3
    <2>3. QED BY <2>1, <2>2
  <1>2. TypeOK /\ AloneInv /\ [Next]_vars => (~overlapped' /\ created => Step)
    BY <1>1
  <1>3. QED BY <1>2, AloneInvariant, PTL DEF Spec, NothingForgotten

=============================================================================
