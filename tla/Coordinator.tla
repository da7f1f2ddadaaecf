----------------------------- MODULE Coordinator -----------------------------
(***************************************************************************)
(* The Coordinator (coordinator.py) taking one task plan from dispatch to  *)
(* deletion, with the plan state in Redis (RedisBroker.save_plan_state,    *)
(* load_plan_state, delete_plan_state).                                    *)
(*                                                                         *)
(* Every handler loads the state, changes its copy, writes the whole copy  *)
(* back, enqueues the tasks that became ready and writes again.  A handler *)
(* may be cut off between any two of those calls (a crash, a Redis error,  *)
(* AdapterDirectory.validate_task raising), and nothing in the code keeps  *)
(* two coordinators from running at once: a TaskWorker may be given        *)
(* handle_task_success as its success handler while the control plane      *)
(* handles the same ACTION_COMPLETED event.                                *)
(*                                                                         *)
(* Events are facts that stay: a completion or a snapshot may be handled   *)
(* late, again, out of order or never.                                     *)
(***************************************************************************)
EXTENDS Integers, FiniteSets

CONSTANTS
  Coordinators, \* processes that run coordinator handlers
  Tasks,        \* the tasks of the plan
  Deps,         \* TaskPayload.dependencies
  Sequence,     \* TaskPayload.sequence
  CheckTasks,   \* the tasks of kind CHECK
  NoState,      \* the plan has no state in Redis
  MaxCopies,    \* bound: entries of one task put on the task stream
  MaxAborts     \* bound: handlers cut off

\* _validate_dependencies accepts the plan, create_plan has sorted it.
ValidPlan ==
  /\ \A t, u \in Tasks : Sequence[t] = Sequence[u] => t = u
  /\ \A t \in Tasks : \A d \in Deps[t] : Sequence[d] < Sequence[t]

\* TaskPlanState; `merged` are the tasks whose arguments carry a decision.
PlanState == [released : SUBSET Tasks, completed : SUBSET Tasks,
              failed : SUBSET Tasks, blocked : BOOLEAN, merged : SUBSET Tasks]

ASSUME PlanAssumption ==
  /\ IsFiniteSet(Tasks) /\ Tasks # {}
  /\ Deps \in [Tasks -> SUBSET Tasks]
  /\ Sequence \in [Tasks -> Nat]
  /\ CheckTasks \subseteq Tasks
  /\ ValidPlan
  /\ NoState \notin PlanState
  /\ MaxCopies \in Nat
  /\ MaxAborts \in Nat

VARIABLES
  stored,   \* the plan state in Redis
  created,  \* the plan has been dispatched
  pc,       \* where each coordinator stands in its handler
  job,      \* the handler it runs and the task it is about
  mem,      \* its copy of the plan state
  copies,   \* how many times each task was put on the task stream
  plain,    \* tasks put there without the fields a checker decision adds
  done,     \* tasks with an ACTION_COMPLETED event
  approved, \* check tasks with a snapshot the checker approves of
  rejected, \* check tasks with a snapshot the checker rejects
  aborts,   \* handlers cut off so far
  overlapped \* a handler was started while another coordinator ran one

handlerVars == <<pc, job, mem>>
eventVars == <<done, approved, rejected>>
vars == <<stored, created, handlerVars, copies, plain, eventVars, aborts, overlapped>>

NewState == [released |-> {}, completed |-> {}, failed |-> {},
             blocked |-> FALSE, merged |-> {}]

NoJob == [kind |-> "none", tasks |-> {}]

Jobs == [kind : {"none", "dispatch", "resume", "complete", "approve", "reject"},
         tasks : SUBSET Tasks]

TypeOK ==
  /\ stored \in PlanState \cup {NoState}
  /\ created \in BOOLEAN
  /\ pc \in [Coordinators -> {"idle", "loaded", "release", "finalize"}]
  /\ job \in [Coordinators -> Jobs]
  /\ mem \in [Coordinators -> PlanState]
  /\ copies \in [Tasks -> 0..MaxCopies]
  /\ plain \in SUBSET Tasks
  /\ done \in SUBSET Tasks
  /\ approved \in SUBSET CheckTasks
  /\ rejected \in SUBSET CheckTasks
  /\ aborts \in 0..MaxAborts
  /\ overlapped \in BOOLEAN

Init ==
  /\ stored = NoState
  /\ created = FALSE
  /\ pc = [c \in Coordinators |-> "idle"]
  /\ job = [c \in Coordinators |-> NoJob]
  /\ mem = [c \in Coordinators |-> NewState]
  /\ copies = [t \in Tasks |-> 0]
  /\ plain = {}
  /\ done = {}
  /\ approved = {}
  /\ rejected = {}
  /\ aborts = 0
  /\ overlapped = FALSE

-----------------------------------------------------------------------------

\* Bug: a released dependency counts as completed.
ReadyOnReleased(st) == {t \in Tasks \ st.released : Deps[t] \subseteq st.released}

\* Tasks whose dependencies are all completed and that were not released yet.
Ready(st) == {t \in Tasks \ st.released : Deps[t] \subseteq st.completed}

\* The plan's tasks are walked in the order of their sequence numbers.
IsFirst(t, S) == t \in S /\ \A u \in S : Sequence[t] <= Sequence[u]

Dependents(t) == {u \in Tasks : t \in Deps[u]}

Goto(c, step) == pc' = [pc EXCEPT ![c] = step]

Leave(c) ==
  /\ Goto(c, "idle")
  /\ job' = [job EXCEPT ![c] = NoJob]
  /\ mem' = [mem EXCEPT ![c] = NewState]

\* History, for the properties of a control plane that runs alone.
Overlap(c) ==
  overlapped' = (overlapped \/ \E o \in Coordinators \ {c} : pc[o] # "idle")

\* build_and_dispatch_plan: the new state is saved, then its tasks released.
Dispatch(c) ==
  /\ pc[c] = "idle"
  /\ ~created
  /\ created' = TRUE
  /\ stored' = NewState
  /\ mem' = [mem EXCEPT ![c] = NewState]
  /\ job' = [job EXCEPT ![c] = [kind |-> "dispatch", tasks |-> {}]]
  /\ Goto(c, "release")
  /\ Overlap(c)
  /\ UNCHANGED <<copies, plain, eventVars, aborts>>

\* Bug: a missing state is not noticed.
LoadUnchecked(c, kind, tasks, step) ==
  /\ pc[c] = "idle"
  /\ mem' = [mem EXCEPT ![c] = stored]
  /\ job' = [job EXCEPT ![c] = [kind |-> kind, tasks |-> tasks]]
  /\ Goto(c, step)
  /\ Overlap(c)
  /\ UNCHANGED <<stored, created, copies, plain, eventVars, aborts>>

\* Bug: a missing state is replaced by a new one.
LoadOrNew(c, kind, tasks, step) ==
  /\ pc[c] = "idle"
  /\ mem' = [mem EXCEPT ![c] = IF stored = NoState THEN NewState ELSE stored]
  /\ job' = [job EXCEPT ![c] = [kind |-> kind, tasks |-> tasks]]
  /\ Goto(c, step)
  /\ Overlap(c)
  /\ UNCHANGED <<stored, created, copies, plain, eventVars, aborts>>

\* A handler starts with a copy of the stored state; without one it returns.
Load(c, kind, tasks, step) ==
  /\ pc[c] = "idle"
  /\ stored # NoState
  /\ mem' = [mem EXCEPT ![c] = stored]
  /\ job' = [job EXCEPT ![c] = [kind |-> kind, tasks |-> tasks]]
  /\ Goto(c, step)
  /\ Overlap(c)
  /\ UNCHANGED <<stored, created, copies, plain, eventVars, aborts>>

\* handle_task_success; whatever the task's kind.
LoadSuccess(c, t) == t \in done /\ Load(c, "complete", {t}, "loaded")

\* handle_snapshot_capture and handle_checker_result.
LoadDecision(c, t) ==
  \/ t \in approved /\ Load(c, "approve", {t}, "loaded")
  \/ t \in rejected /\ Load(c, "reject", {t}, "loaded")

\* resume_all for this plan.
Resume(c) == Load(c, "resume", {}, "release")

\* A handler's first write: the copy it loaded, changed, replaces the state.
Write(c, st) ==
  /\ mem' = [mem EXCEPT ![c] = st]
  /\ stored' = st

\* complete_task
Complete(c) ==
  /\ pc[c] = "loaded"
  /\ job[c].kind = "complete"
  /\ Write(c, [mem[c] EXCEPT !.completed = @ \cup job[c].tasks])
  /\ Goto(c, "release")
  /\ UNCHANGED <<created, job, copies, plain, eventVars, aborts, overlapped>>

\* Bug: complete_task first, the decision's fields merged afterwards.
ApproveUnmerged(c) ==
  /\ pc[c] = "loaded"
  /\ job[c].kind = "approve"
  /\ Write(c, [mem[c] EXCEPT !.completed = @ \cup job[c].tasks])
  /\ Goto(c, "release")
  /\ UNCHANGED <<created, job, copies, plain, eventVars, aborts, overlapped>>

\* An approval: the decision's fields go into the dependents' arguments before
\* complete_task.
Approve(c) ==
  /\ pc[c] = "loaded"
  /\ job[c].kind = "approve"
  /\ Write(c, [mem[c] EXCEPT !.completed = @ \cup job[c].tasks,
                             !.merged = @ \cup UNION {Dependents(t) : t \in job[c].tasks}])
  /\ Goto(c, "release")
  /\ UNCHANGED <<created, job, copies, plain, eventVars, aborts, overlapped>>

\* fail_task: the plan is blocked, and nothing is released.
Reject(c) ==
  /\ pc[c] = "loaded"
  /\ job[c].kind = "reject"
  /\ stored' = [mem[c] EXCEPT !.failed = @ \cup job[c].tasks, !.blocked = TRUE]
  /\ Leave(c)
  /\ UNCHANGED <<created, copies, plain, eventVars, aborts, overlapped>>

\* release_ready_tasks of a blocked plan returns at once, finalize_plan too.
SkipBlocked(c) ==
  /\ pc[c] = "release"
  /\ mem[c].blocked
  /\ Leave(c)
  /\ UNCHANGED <<stored, created, copies, plain, eventVars, aborts, overlapped>>

\* Bug: the loop releases the tasks of a blocked plan too.
EnqueueBlocked(c) ==
  /\ pc[c] = "release"
  /\ \E t \in Tasks :
       /\ IsFirst(t, Ready(mem[c]))
       /\ copies[t] < MaxCopies
       /\ copies' = [copies EXCEPT ![t] = @ + 1]
       /\ plain' = IF t \in mem[c].merged THEN plain ELSE plain \cup {t}
       /\ mem' = [mem EXCEPT ![c].released = @ \cup {t}]
  /\ UNCHANGED <<stored, created, pc, job, eventVars, aborts, overlapped>>

\* One turn of the loop of release_ready_tasks.
Enqueue(c) ==
  /\ pc[c] = "release"
  /\ ~mem[c].blocked
  /\ \E t \in Tasks :
       /\ IsFirst(t, Ready(mem[c]))
       /\ copies[t] < MaxCopies
       /\ copies' = [copies EXCEPT ![t] = @ + 1]
       /\ plain' = IF t \in mem[c].merged THEN plain ELSE plain \cup {t}
       /\ mem' = [mem EXCEPT ![c].released = @ \cup {t}]
  /\ UNCHANGED <<stored, created, pc, job, eventVars, aborts, overlapped>>

\* Bug: the state is not written again after the loop.
SaveNothing(c) ==
  /\ pc[c] = "release"
  /\ ~mem[c].blocked
  /\ Ready(mem[c]) = {}
  /\ UNCHANGED stored
  /\ IF job[c].kind \in {"dispatch", "resume"}
     THEN Leave(c)
     ELSE Goto(c, "finalize") /\ UNCHANGED <<job, mem>>
  /\ UNCHANGED <<created, copies, plain, eventVars, aborts, overlapped>>

\* Bug: released tasks are recorded as completed.
SaveCompleted(c) ==
  /\ pc[c] = "release"
  /\ ~mem[c].blocked
  /\ Ready(mem[c]) = {}
  /\ stored' = [mem[c] EXCEPT !.completed = @ \cup mem[c].released]
  /\ IF job[c].kind \in {"dispatch", "resume"}
     THEN Leave(c)
     ELSE Goto(c, "finalize") /\ UNCHANGED <<job, mem>>
  /\ UNCHANGED <<created, copies, plain, eventVars, aborts, overlapped>>

\* Bug: a handler that releases nothing returns without finalizing.
SaveUnfinalized(c) ==
  /\ pc[c] = "release"
  /\ ~mem[c].blocked
  /\ Ready(mem[c]) = {}
  /\ stored' = mem[c]
  /\ IF job[c].kind \in {"dispatch", "resume"} \/ mem[c] = stored
     THEN Leave(c)
     ELSE Goto(c, "finalize") /\ UNCHANGED <<job, mem>>
  /\ UNCHANGED <<created, copies, plain, eventVars, aborts, overlapped>>

\* The write after the loop; dispatch and resume do not finalize.
SaveReleased(c) ==
  /\ pc[c] = "release"
  /\ ~mem[c].blocked
  /\ Ready(mem[c]) = {}
  /\ stored' = mem[c]
  /\ IF job[c].kind \in {"dispatch", "resume"}
     THEN Leave(c)
     ELSE Goto(c, "finalize") /\ UNCHANGED <<job, mem>>
  /\ UNCHANGED <<created, copies, plain, eventVars, aborts, overlapped>>

\* Bug: the plan is deleted once all tasks are released.
FinalizeReleased(c) ==
  /\ pc[c] = "finalize"
  /\ stored' = IF mem[c].released = Tasks THEN NoState ELSE stored
  /\ Leave(c)
  /\ UNCHANGED <<created, copies, plain, eventVars, aborts, overlapped>>

\* finalize_plan deletes the state once all tasks are completed.
Finalize(c) ==
  /\ pc[c] = "finalize"
  /\ stored' = IF mem[c].completed = Tasks THEN NoState ELSE stored
  /\ Leave(c)
  /\ UNCHANGED <<created, copies, plain, eventVars, aborts, overlapped>>

\* The handler is cut off; its copy is lost.
Abort(c) ==
  /\ pc[c] # "idle"
  /\ aborts < MaxAborts
  /\ aborts' = aborts + 1
  /\ Leave(c)
  /\ UNCHANGED <<stored, created, copies, plain, eventVars, overlapped>>

\* An executor completes a copy of the task (runtime.py).
Execute(t) ==
  /\ copies[t] > 0
  /\ t \notin done
  /\ done' = done \cup {t}
  /\ UNCHANGED <<stored, created, handlerVars, copies, plain, approved, rejected, aborts, overlapped>>

\* An observer captures a snapshot for a check task that was issued; the
\* checker's verdict depends on the fields it carries.
Snapshot(t) ==
  /\ t \in CheckTasks
  /\ copies[t] > 0
  /\ \/ t \notin approved /\ approved' = approved \cup {t} /\ UNCHANGED rejected
     \/ t \notin rejected /\ rejected' = rejected \cup {t} /\ UNCHANGED approved
  /\ UNCHANGED <<stored, created, handlerVars, copies, plain, done, aborts, overlapped>>

Handler(c) ==
  \/ Complete(c) \/ Approve(c) \/ Reject(c)
  \/ SkipBlocked(c) \/ Enqueue(c) \/ SaveReleased(c) \/ Finalize(c)

Next ==
  \/ \E c \in Coordinators :
       \/ Dispatch(c) \/ Resume(c) \/ Handler(c) \/ Abort(c)
       \/ \E t \in Tasks : LoadSuccess(c, t) \/ LoadDecision(c, t)
  \/ \E t \in Tasks : Execute(t) \/ Snapshot(t)

Spec == Init /\ [][Next]_vars

-----------------------------------------------------------------------------

Finished(t) == t \in done \/ t \in approved

Issued == {t \in Tasks : copies[t] > 0}

(* No task reaches the task stream before everything it depends on has       *)
(* finished, whatever handlers are cut off, repeated or run side by side.     *)
DependenciesFirst == \A t \in Issued : \A d \in Deps[t] : Finished(d)

(* Why: no copy of the state, in Redis or in a handler, counts a task as      *)
(* completed that has not finished.                                           *)
CompletedIsFinished ==
  /\ stored # NoState => \A t \in stored.completed : Finished(t)
  /\ \A c \in Coordinators : \A t \in mem[c].completed : Finished(t)
  /\ \A c \in Coordinators : \A t \in job[c].tasks :
       /\ job[c].kind = "complete" => t \in done
       /\ job[c].kind = "approve" => t \in approved

(* The plan's dispatch implements TaskGraph: every enqueue is an issue whose  *)
(* dependencies have finished, and only issued tasks finish.                  *)
Graph == INSTANCE TaskGraph
         WITH issued <- Issued, finished <- {t \in Tasks : Finished(t)}
TaskGraphSpec == Graph!Spec

(* The state of a dispatched plan is deleted only after every task finished:  *)
(* no plan is dropped half way, by any number of coordinators.                *)
DeletedWhenFinished ==
  created /\ stored = NoState => \A t \in Tasks : Finished(t)

(* A task that depends on checks goes out without the checker's fields only   *)
(* if one of its checks was completed by an executor: an approval never       *)
(* releases a task whose arguments it has not filled in.                      *)
ApprovalFillsArguments ==
  \A t \in plain : \A d \in Deps[t] : d \in done

(* While no two handlers run at once, a task is enqueued again only because a *)
(* handler was cut off between the enqueue and the write after it: duplicate, *)
(* late and repeated events and resume_all alone never issue a task twice.     *)
ReissuedOnlyByAborts == ~overlapped => \A t \in Tasks : copies[t] <= 1 + aborts

(* While no two handlers run at once, a plan whose tasks are all completed is *)
(* deleted by the handler that completed the last one: it stays in Redis only *)
(* if that handler was cut off or the checker has blocked the plan.           *)
FinishedIsDeleted ==
  /\ stored # NoState /\ stored.completed = Tasks
  /\ \A c \in Coordinators : pc[c] = "idle"
  => overlapped \/ aborts > 0 \/ stored.blocked

(* While no two handlers run at once, a plan the checker has rejected stays   *)
(* blocked and issues nothing more; only an operator can remove it.           *)
BlockedForGood ==
  [][~overlapped' /\ stored # NoState /\ stored.blocked
       => stored' # NoState /\ stored'.blocked /\ copies' = copies]_vars

(* While no two handlers run at once, the stored state never goes back: what  *)
(* it records as released, completed or failed stays recorded until it is     *)
(* deleted, and a late event does not bring a deleted plan back.              *)
NothingForgotten ==
  [][~overlapped' /\ created =>
       IF stored = NoState THEN stored' = NoState
       ELSE stored' # NoState => /\ stored.released \subseteq stored'.released
                                 /\ stored.completed \subseteq stored'.completed
                                 /\ stored.failed \subseteq stored'.failed]_vars

(* task.md:27: the checker compares the order with the snapshot, and only if  *)
(* they agree may the plan go on to the dispatch.  (Not kept: the executor's   *)
(* ACTION_COMPLETED for the check task completes it like any other task.)     *)
CheckedBeforeDispatch ==
  \A t \in Issued : Deps[t] \cap CheckTasks \subseteq approved

=============================================================================
