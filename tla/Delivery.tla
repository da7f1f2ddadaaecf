------------------------------ MODULE Delivery ------------------------------
(***************************************************************************)
(* One plan on its whole way: the coordinator of the control plane         *)
(* (module Coordinator) puts tasks on the task stream, workers (module     *)
(* TaskStream) perform them and publish ACTION_COMPLETED, and the          *)
(* coordinator releases what depends on them.                              *)
(*                                                                         *)
(* The two components share the task stream and the completion events;     *)
(* every other step of one leaves the variables of the other alone.  A     *)
(* worker is given any entry of the stream, also one its executor's        *)
(* registry has no action for.                                             *)
(***************************************************************************)
EXTENDS Integers, Sequences, FiniteSets

CONSTANTS
  Coordinators, Tasks, Deps, Sequence, CheckTasks, NoState,      \* Coordinator
  MaxCopies, MaxAborts,
  Workers, NameOf, Nobody, MaxRetries, BatchSize,                \* TaskStream
  MaxFaults, MaxReclaims, MaxEntries,
  Registries,      \* the sets of tasks whose action a workers' registry may know
  MaxDisturbances  \* bound: aborts, restarts, deaths, late failures and reclaims

VARIABLES
  stored, created, handling, job, mem, copies, plain,   \* of Coordinator
  done, approved, rejected, aborts, overlapped,
  handled, stream, delivered, owner, batch, working,    \* of TaskStream
  effects, settled, dead, redelivered, lateFailures, faults, reclaims,
  missed,       \* tasks whose completion a restarted control plane skipped
  restarts,     \* restarts that skipped one
  performable   \* the tasks the workers' registry knows; never changes

C == INSTANCE Coordinator WITH pc <- handling
W == INSTANCE TaskStream WITH pc <- working

\* The assumptions of both components, and its own.
ASSUME DeliveryAssumption ==
  /\ IsFiniteSet(Tasks) /\ Tasks # {}
  /\ Deps \in [Tasks -> SUBSET Tasks]
  /\ Sequence \in [Tasks -> Nat]
  /\ CheckTasks \subseteq Tasks
  /\ C!ValidPlan
  /\ NoState \notin C!PlanState
  /\ NameOf \in [Workers -> W!Names]
  /\ Nobody \notin W!Names
  /\ BatchSize \in Nat \ {0}
  /\ {MaxCopies, MaxAborts, MaxRetries, MaxFaults, MaxReclaims, MaxEntries} \subseteq Nat
  /\ Registries \subseteq SUBSET Tasks
  /\ MaxDisturbances \in Nat

planVars == <<stored, created, handling, job, mem, copies, plain,
              done, approved, rejected, aborts, overlapped>>
streamVars == <<handled, stream, delivered, owner, batch, working,
                effects, settled, dead, redelivered, lateFailures, faults, reclaims>>
skipVars == <<missed, restarts>>
vars == <<planVars, streamVars, skipVars, performable>>

Init ==
  /\ C!Init
  /\ W!Init
  /\ missed = {} /\ restarts = 0
  /\ performable \in Registries

-----------------------------------------------------------------------------

PlanStays == UNCHANGED <<planVars, skipVars, performable>>
StreamStays == UNCHANGED <<streamVars, skipVars, performable>>
Disturb == aborts + restarts + faults + reclaims < MaxDisturbances

\* Bug: the status event is published but the task is not put on the stream.
ReleaseUnsent(c) == C!Enqueue(c) /\ StreamStays

\* A turn of the release loop, which is one XADD to the task stream.
Release(c) ==
  /\ C!Enqueue(c)
  /\ \E t \in Tasks :
       /\ copies'[t] > copies[t]
       /\ W!AppendEntry([task |-> t, retry |-> 0])
  /\ UNCHANGED <<handled, delivered, owner, batch, working, effects, settled,
                 dead, redelivered, lateFailures, faults, reclaims,
                 skipVars, performable>>

\* Bug: ACTION_COMPLETED is published before the action is run.
PerformPublished(w) ==
  /\ W!Execute(w)
  /\ effects' # effects => W!CurrentTask(w) \in performable
  /\ done' = done \cup {W!CurrentTask(w)}
  /\ UNCHANGED <<stored, created, handling, job, mem, copies, plain,
                 approved, rejected, aborts, overlapped, skipVars, performable>>

\* execute_action: an unknown action raises.
Perform(w) ==
  /\ W!Execute(w)
  /\ effects' # effects => W!CurrentTask(w) \in performable
  /\ PlanStays

\* Bug: the event speaks for the whole plan.
PublishPlan(w) ==
  /\ done' = Tasks
  /\ UNCHANGED <<stored, created, handling, job, mem, copies, plain,
                 approved, rejected, aborts, overlapped, skipVars, performable>>

\* ACTION_COMPLETED of the worker's current task is on the event stream.
Publish(w) ==
  /\ done' = done \cup {W!CurrentTask(w)}
  /\ missed' = missed \ {W!CurrentTask(w)}
  /\ UNCHANGED <<stored, created, handling, job, mem, copies, plain,
                 approved, rejected, aborts, overlapped, restarts, performable>>

Succeed(w) == W!Succeed(w) /\ Publish(w)

\* What raises after the action: the publication, or something later.
FailLate(w) == Disturb /\ W!FailLate(w) /\ (Publish(w) \/ PlanStays)

Work(w) ==
  \/ Perform(w) \/ Succeed(w) \/ FailLate(w)
  \/ (W!Retry(w) \/ W!DeadLetter(w) \/ W!Forget(w) \/ W!Ack(w)) /\ PlanStays

Take(w) == (W!Poll(w) \/ W!Recover(w)) /\ PlanStays

\* Another worker takes over entries, or this one dies.
Displace(w) == Disturb /\ (W!Reclaim(w) \/ W!Crash(w)) /\ PlanStays

\* The handlers of the control plane.
Handle(c) ==
  \/ Release(c)
  \/ /\ \/ C!Complete(c) \/ C!Approve(c) \/ C!Reject(c)
        \/ C!SkipBlocked(c) \/ C!SaveReleased(c) \/ C!Finalize(c)
     /\ StreamStays

Hear(c, t) == C!LoadSuccess(c, t) /\ StreamStays

\* The control plane is started again between two events, at the latest one:
\* the completions it has not come to are skipped, unless --last-stream-id
\* reaches back to them.
Restart ==
  /\ Disturb
  /\ \A c \in Coordinators : handling[c] = "idle"
  /\ stored # NoState
  /\ done \ stored.completed # {}
  /\ missed' = missed \cup (done \ stored.completed)
  /\ restarts' = restarts + 1
  /\ UNCHANGED <<planVars, streamVars, performable>>

Dispatch(c) == C!Dispatch(c) /\ StreamStays

\* What comes from outside or may be left out: a verdict, a resume, an abort.
Intervene(c) ==
  /\ \/ C!Resume(c) \/ (Disturb /\ C!Abort(c))
     \/ \E t \in Tasks : C!LoadDecision(c, t)
  /\ StreamStays

Judge(t) == C!Snapshot(t) /\ StreamStays

Next ==
  \/ \E c \in Coordinators :
       \/ Dispatch(c) \/ Handle(c) \/ Intervene(c)
       \/ \E t \in Tasks : Hear(c, t)
  \/ \E w \in Workers : Work(w) \/ Take(w) \/ Displace(w)
  \/ \E t \in Tasks : Judge(t)
  \/ Restart

Spec == Init /\ [][Next]_vars

\* Handlers and workers go on, and completions are heard at last that no restart
\* of the control plane skipped; a worker that was restarted resumes.  Nothing is
\* assumed of verdicts.
FairSpec ==
  /\ Spec
  /\ WF_vars(\E c \in Coordinators : Dispatch(c))
  /\ \A c \in Coordinators : WF_vars(Handle(c))
  /\ \A t \in Tasks : SF_vars(t \notin missed /\ \E c \in Coordinators : Hear(c, t))
  /\ \A w \in Workers : WF_vars(Work(w)) /\ SF_vars(Take(w))

-----------------------------------------------------------------------------

(* Nothing is done on a customer's desktop out of order: an action is performed *)
(* only after each task its own depends on was performed by a worker or         *)
(* approved by the checker, through retries, redeliveries and deaths on either  *)
(* side.                                                                        *)
EffectsInOrder ==
  \A t \in Tasks : effects[t] > 0 =>
    \A d \in Deps[t] : effects[d] > 0 \/ d \in approved

(* As long as no two handlers of the plan overlap, an action is performed once, *)
(* and once more at most for each handler of the plan that was cut off, each    *)
(* entry of the task that was handed out again, and each failure after the      *)
(* action: neither retries nor completions handled twice add anything.          *)
OnceUnlessCaused ==
  ~overlapped =>
    \A t \in Tasks : effects[t] <= 1 + aborts + redelivered[t] + lateFailures[t]

(* The workers are what Coordinator takes them for: tasks that were put on the  *)
(* stream complete, one at a time, and nothing else happens to the plan.        *)
PlanSpec == C!Spec

(* With a failure handler, a plan runs to its end and is deleted, or one of its  *)
(* tasks is dead-lettered (and the plan stays for ever: no dead letter fails it), *)
(* the checker rejects it, a handler is cut off, or a restart of the control      *)
(* plane skips a completion.                                                     *)
PlanSettles ==
  created /\ handled ~>
    \/ stored = NoState
    \/ dead \ done # {} \/ rejected # {}
    \/ aborts > 0 \/ missed # {}

=============================================================================
