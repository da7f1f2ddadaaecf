--------------------------- MODULE DeliveryProofs ---------------------------
(***************************************************************************)
(* Proofs about Delivery, for any plan, any number of coordinators and     *)
(* workers, and any faults: the workers do to the plan what Coordinator    *)
(* takes them to do, so what is proved of Coordinator holds of the whole,  *)
(* and with what is proved of TaskStream it gives the order of the actions *)
(* and how often each is performed.                                        *)
(***************************************************************************)
EXTENDS Delivery, TLAPS

\* The same instances, with what is proved about their modules.
CP == INSTANCE CoordinatorProofs WITH pc <- handling
WP == INSTANCE TaskStreamProofs WITH pc <- working

LEMMA PlanAssumed == CP!PlanAssumption
  BY DeliveryAssumption
  DEF CP!PlanAssumption, CP!ValidPlan, C!ValidPlan, CP!PlanState, C!PlanState,
      IsFiniteSet, CP!IsFiniteSet

LEMMA StreamAssumed == WP!StreamAssumption
  BY DeliveryAssumption DEF WP!StreamAssumption, WP!Names, W!Names

LEMMA SamePlanInit == C!Init <=> CP!Init
  BY DEF C!Init, CP!Init, C!NoJob, CP!NoJob, C!NewState, CP!NewState

LEMMA SamePlanVars == <<C!vars>> = <<CP!vars>>
  BY DEF C!vars, CP!vars, C!handlerVars, CP!handlerVars, C!eventVars, CP!eventVars

LEMMA SamePlanNext == C!Next <=> CP!Next
  BY DEF C!Next, CP!Next, C!Dispatch, CP!Dispatch, C!NewState, CP!NewState,
         C!Goto, CP!Goto, C!Overlap, CP!Overlap, C!eventVars, CP!eventVars,
         C!Resume, CP!Resume, C!Load, CP!Load, C!Handler, CP!Handler, C!Abort, CP!Abort,
         C!Leave, CP!Leave, C!LoadSuccess, CP!LoadSuccess, C!LoadDecision, CP!LoadDecision,
         C!Complete, CP!Complete, C!Write, CP!Write, C!Approve, CP!Approve,
         C!Dependents, CP!Dependents, C!Reject, CP!Reject, C!SkipBlocked, CP!SkipBlocked,
         C!Enqueue, CP!Enqueue, C!IsFirst, CP!IsFirst, C!Ready, CP!Ready,
         C!SaveReleased, CP!SaveReleased, C!Finalize, CP!Finalize, C!Execute, CP!Execute,
         C!handlerVars, CP!handlerVars, C!Snapshot, CP!Snapshot, C!NoJob, CP!NoJob

LEMMA SameStreamInit == W!Init <=> WP!Init
  BY DEF W!Init, WP!Init, W!Ids, WP!Ids

LEMMA SameWork ==
  ASSUME NEW w \in Workers
  PROVE  /\ W!Execute(w) <=> WP!Execute(w)
         /\ W!Succeed(w) <=> WP!Succeed(w)
         /\ W!FailLate(w) <=> WP!FailLate(w)
         /\ W!Retry(w) <=> WP!Retry(w)
         /\ W!DeadLetter(w) <=> WP!DeadLetter(w)
         /\ W!Forget(w) <=> WP!Forget(w)
         /\ W!Ack(w) <=> WP!Ack(w)
         /\ W!CurrentTask(w) = WP!CurrentTask(w)
  BY DEF W!Execute, WP!Execute, W!Succeed, WP!Succeed, W!FailLate, WP!FailLate,
         W!Retry, WP!Retry, W!AppendEntry, WP!AppendEntry, W!DeadLetter, WP!DeadLetter,
         W!Forget, WP!Forget, W!Ack, WP!Ack, W!CurrentTask, WP!CurrentTask,
         W!Current, WP!Current, W!Goto, WP!Goto, W!Min, WP!Min,
         W!streamVars, WP!streamVars, W!outcomeVars, WP!outcomeVars, W!counters, WP!counters

LEMMA SameTaking ==
  ASSUME NEW w \in Workers
  PROVE  /\ W!Poll(w) <=> WP!Poll(w)
         /\ W!Recover(w) <=> WP!Recover(w)
         /\ W!Reclaim(w) <=> WP!Reclaim(w)
         /\ W!Crash(w) <=> WP!Crash(w)
  BY DEF W!Poll, WP!Poll, W!Recover, WP!Recover, W!Reclaim, WP!Reclaim, W!Crash, WP!Crash,
         W!Take, WP!Take, W!CountRedelivered, WP!CountRedelivered, W!Pending, WP!Pending,
         W!Ids, WP!Ids, W!Goto, WP!Goto, W!Min, WP!Min, W!Cardinality, WP!Cardinality,
         W!streamVars, WP!streamVars, W!outcomeVars, WP!outcomeVars, W!counters, WP!counters

-----------------------------------------------------------------------------

\* What a step of the whole is to its parts.
PlanStep == CP!Next /\ UNCHANGED <<streamVars, done>>

ReleaseStep ==
  /\ CP!Next
  /\ done' = done
  /\ \E t \in Tasks :
       /\ copies'[t] > copies[t]
       /\ WP!AppendEntry([task |-> t, retry |-> 0])
  /\ UNCHANGED <<handled, delivered, owner, batch, working, effects, settled,
                 dead, redelivered, lateFailures, faults, reclaims>>

WorkStep ==
  /\ WP!Next
  /\ ~ \E t \in Tasks : WP!Submit(t)
  /\ UNCHANGED planVars

PublishStep(w) ==
  /\ WP!Next
  /\ ~ \E t \in Tasks : WP!Submit(t)
  /\ working[w] = "performed"
  /\ done' = done \cup {WP!CurrentTask(w)}
  /\ UNCHANGED <<stored, created, handling, job, mem, copies, plain,
                 approved, rejected, aborts, overlapped>>

\* Every step of a worker moves it on; a submission moves none.
LEMMA NoSubmission ==
  ASSUME WP!TypeOK, NEW w \in Workers,
         \/ WP!Poll(w) \/ WP!Recover(w) \/ WP!Reclaim(w) \/ WP!Process(w) \/ WP!Crash(w),
         NEW t \in Tasks
  PROVE  ~WP!Submit(t)
  <1>1. working'[w] # working[w]
    BY DEF WP!TypeOK, WP!Poll, WP!Recover, WP!Reclaim, WP!Crash, WP!Take, WP!Goto,
           WP!Process, WP!Execute, WP!Succeed, WP!FailLate, WP!Retry, WP!DeadLetter,
           WP!Forget, WP!Ack
  <1>2. QED BY <1>1 DEF WP!Submit, WP!workerVars

\* A coordinator's step, as Coordinator has it.
LEMMA CoordinatorSteps ==
  ASSUME NEW c \in Coordinators
  PROVE  /\ Dispatch(c) \/ (Handle(c) /\ ~Release(c)) \/ Intervene(c)
              \/ (\E t \in Tasks : Hear(c, t))
            => PlanStep
         /\ Release(c) => ReleaseStep
  <1>1. Release(c) => C!Next /\ done' = done
    BY DEF Release, C!Enqueue, C!eventVars, C!Handler, C!Next
  <1>2. Release(c) => ReleaseStep
    BY <1>1, SamePlanNext DEF Release, ReleaseStep, W!AppendEntry, WP!AppendEntry
  <1>3. Dispatch(c) \/ (Handle(c) /\ ~Release(c)) \/ Intervene(c)
          \/ (\E t \in Tasks : Hear(c, t))
        => C!Next /\ StreamStays
    BY DEF Dispatch, Handle, Intervene, Hear, C!Next, C!Handler
  <1>4. Dispatch(c) \/ (Handle(c) /\ ~Release(c)) \/ Intervene(c)
          \/ (\E t \in Tasks : Hear(c, t))
        => done' = done
    BY DEF Dispatch, Handle, Intervene, Hear, C!Dispatch, C!Complete, C!Approve, C!Reject,
           C!SkipBlocked, C!SaveReleased, C!Finalize, C!Resume, C!Abort, C!LoadDecision,
           C!LoadSuccess, C!Load, C!eventVars
  <1>5. QED BY <1>2, <1>3, <1>4, SamePlanNext DEF PlanStep, StreamStays

\* A worker's step, as TaskStream has it.
LEMMA WorkerSteps ==
  ASSUME WP!TypeOK, NEW w \in Workers, Work(w) \/ Take(w) \/ Displace(w)
  PROVE  WorkStep \/ PublishStep(w)
  <1>1. \/ WP!Poll(w) \/ WP!Recover(w) \/ WP!Reclaim(w) \/ WP!Process(w) \/ WP!Crash(w)
    BY SameWork, SameTaking
    DEF Work, Take, Displace, Perform, Succeed, FailLate, WP!Process
  <1>2. WP!Next /\ ~ \E t \in Tasks : WP!Submit(t)
    BY <1>1, NoSubmission DEF WP!Next
  <1>3. CASE PlanStays
    BY <1>2, <1>3 DEF WorkStep, PlanStays
  <1>4. CASE ~PlanStays
    <2>1. (W!Succeed(w) \/ W!FailLate(w)) /\ Publish(w)
      BY <1>4 DEF Work, Take, Displace, Perform, Succeed, FailLate
    <2>2. working[w] = "performed"
      BY <2>1 DEF W!Succeed, W!FailLate
    <2>3. QED BY <1>2, <2>1, <2>2, SameWork DEF PublishStep, Publish
  <1>5. QED BY <1>3, <1>4

LEMMA Steps ==
  ASSUME WP!TypeOK, [Next]_vars
  PROVE  \/ PlanStep \/ ReleaseStep \/ WorkStep \/ UNCHANGED <<planVars, streamVars>>
         \/ \E w \in Workers : PublishStep(w)
  <1>1. ASSUME NEW c \in Coordinators,
               Dispatch(c) \/ Handle(c) \/ Intervene(c) \/ \E t \in Tasks : Hear(c, t)
        PROVE  PlanStep \/ ReleaseStep
    BY <1>1, CoordinatorSteps
  <1>2. ASSUME NEW t \in Tasks, Judge(t) PROVE PlanStep
    <2>1. C!Next /\ UNCHANGED <<streamVars, done>>
      BY <1>2 DEF Judge, StreamStays, C!Next, C!Snapshot
    <2>2. QED BY <2>1, SamePlanNext DEF PlanStep
  <1>3. CASE Restart
    BY <1>3 DEF Restart
  <1>4. QED BY <1>1, <1>2, <1>3, WorkerSteps DEF Next, vars

-----------------------------------------------------------------------------

\* Only issued tasks are on the stream and are performed, and only what was
\* performed is reported as completed.
OnlyIssued == \A i \in 1..Len(stream) : copies[stream[i].task] > 0
PerformedIsIssued == \A t \in Tasks : effects[t] > 0 => copies[t] > 0
DoneIsPerformed == \A t \in done : effects[t] > 0

Parts == CP!Inv /\ WP!Inv /\ WP!Performed
Link == OnlyIssued /\ PerformedIsIssued /\ DoneIsPerformed
Inv == Parts /\ Link

LEMMA Types ==
  ASSUME Inv
  PROVE  /\ stream \in Seq(WP!Entries)
         /\ \A i \in 1..Len(stream) : stream[i].task \in Tasks
         /\ copies \in [Tasks -> Nat]
         /\ done \subseteq Tasks
         /\ WP!TypeOK
  <1>1. CP!TypeOK /\ WP!TypeOK
    BY DEF Inv, Parts, CP!Inv, WP!Inv
  <1>2. stream \in Seq(WP!Entries)
    BY <1>1 DEF WP!TypeOK
  <1>3. ASSUME NEW i \in 1..Len(stream) PROVE stream[i].task \in Tasks
    <2>1. stream[i] \in WP!Entries
      BY <1>2
    <2>2. QED BY <2>1 DEF WP!Entries
  <1>4. copies \in [Tasks -> Nat]
    <2>1. copies \in [Tasks -> 0..MaxCopies] /\ MaxCopies \in Nat
      BY <1>1, DeliveryAssumption DEF CP!TypeOK
    <2>2. QED BY <2>1
  <1>5. done \subseteq Tasks
    BY <1>1 DEF CP!TypeOK
  <1>6. QED BY <1>1, <1>2, <1>3, <1>4, <1>5

LEMMA InvInit == Init => Inv
  <1> SUFFICES ASSUME Init PROVE Inv
    OBVIOUS
  <1>1. CP!Init /\ WP!Init
    BY SamePlanInit, SameStreamInit DEF Init
  <1>2. CP!Inv
    BY <1>1, CP!InvInit, PlanAssumed
  <1>3. WP!Inv
    BY <1>1, WP!InvInit, StreamAssumed
  <1>4. WP!Performed
    BY <1>1 DEF WP!Init, WP!Performed
  <1>5. Link
    BY <1>1 DEF CP!Init, WP!Init, Link, OnlyIssued, PerformedIsIssued, DoneIsPerformed
  <1>6. QED BY <1>2, <1>3, <1>4, <1>5 DEF Inv, Parts

\* What was issued stays issued.
LEMMA IssuedStays ==
  ASSUME Inv, CP!Next
  PROVE  CP!Inv' /\ \A t \in Tasks : copies[t] > 0 => copies'[t] > 0
  <1>1. CP!Inv'
    BY CP!InvStep, PlanAssumed DEF Inv, Parts
  <1>2. ASSUME NEW c \in Coordinators, CP!Enqueue(c)
        PROVE  \A t \in Tasks : copies[t] > 0 => copies'[t] > 0
    <2>1. CP!TypeOK
      BY DEF Inv, Parts, CP!Inv
    <2>2. PICK t \in Tasks : CP!Issued' = CP!Issued \cup {t}
      BY <1>2, <2>1, CP!EnqueueIssues, PlanAssumed
    <2>3. QED BY <2>2 DEF CP!Issued
  <1>3. CASE ~ \E c \in Coordinators : CP!Enqueue(c)
    <2>1. UNCHANGED <<copies, plain>>
      BY <1>3, CP!OnlyEnqueueIssues, PlanAssumed
    <2>2. QED BY <1>1, <2>1
  <1>4. QED BY <1>1, <1>2, <1>3

\* What a worker's step keeps, whatever it reports.
LEMMA WorkKeeps ==
  ASSUME Inv, WP!Next, ~ \E t \in Tasks : WP!Submit(t), copies' = copies
  PROVE  /\ WP!Inv' /\ WP!Performed'
         /\ OnlyIssued' /\ PerformedIsIssued'
         /\ \A t \in Tasks : effects[t] > 0 => effects'[t] > 0
  <1>1. WP!Inv /\ WP!Performed
    BY DEF Inv, Parts
  <1>2. WP!Inv'
    BY <1>1, WP!InvStep, StreamAssumed
  <1>3. WP!Performed' /\ \A t \in Tasks : effects[t] > 0 => effects'[t] > 0
    BY <1>1, WP!PerformedStep, StreamAssumed
  <1>4. ASSUME NEW i \in 1..Len(stream') PROVE copies[stream'[i].task] > 0
    <2>1. \E j \in 1..Len(stream) : stream'[i].task = stream[j].task
      BY <1>1, WP!OnlyRetriesAppend, StreamAssumed
    <2>2. QED BY <2>1 DEF Inv, Link, OnlyIssued
  <1>5. ASSUME NEW t \in Tasks, effects'[t] > 0 PROVE copies[t] > 0
    <2>1. effects[t] > 0 \/ \E j \in 1..Len(stream) : stream[j].task = t
      BY <1>1, <1>5, WP!OnlyEntriesPerformed, StreamAssumed
    <2>2. QED BY <2>1 DEF Inv, Link, OnlyIssued, PerformedIsIssued
  <1>6. QED BY <1>2, <1>3, <1>4, <1>5 DEF OnlyIssued, PerformedIsIssued

\* A step of the coordinator that leaves the stream alone.
LEMMA PlanKeeps ==
  ASSUME Inv, PlanStep
  PROVE  Inv'
  <1>1. CP!Inv' /\ \A t \in Tasks : copies[t] > 0 => copies'[t] > 0
    BY IssuedStays DEF PlanStep
  <1>2. WP!Inv' /\ WP!Performed'
    <2>1. UNCHANGED WP!vars
      BY DEF PlanStep, streamVars, WP!vars, WP!streamVars, WP!workerVars, WP!outcomeVars,
             WP!counters
    <2>2. WP!Inv /\ WP!Performed
      BY DEF Inv, Parts
    <2>3. QED BY <2>1, <2>2, WP!InvStep, WP!PerformedStep, StreamAssumed
  <1>3. Link'
    BY <1>1, Types
    DEF Inv, Link, OnlyIssued, PerformedIsIssued, DoneIsPerformed, PlanStep, streamVars
  <1>4. QED BY <1>1, <1>2, <1>3 DEF Inv, Parts

\* The release of a task.
LEMMA ReleaseKeeps ==
  ASSUME Inv, ReleaseStep
  PROVE  Inv'
  <1>1. CP!Inv' /\ \A t \in Tasks : copies[t] > 0 => copies'[t] > 0
    BY IssuedStays DEF ReleaseStep
  <1>2. PICK t \in Tasks :
          /\ copies'[t] > copies[t]
          /\ WP!AppendEntry([task |-> t, retry |-> 0])
    BY DEF ReleaseStep
  <1>3. stream' = Append(stream, [task |-> t, retry |-> 0])
    BY <1>2 DEF WP!AppendEntry
  <1>4. WP!Inv'
    <2>1. UNCHANGED <<handled, delivered, owner, WP!workerVars, WP!outcomeVars, WP!counters>>
      BY DEF ReleaseStep, WP!workerVars, WP!outcomeVars, WP!counters
    <2>2. QED BY <1>2, <2>1, WP!AppendInv, StreamAssumed DEF Inv, Parts
  <1>5. \A i \in 1..Len(stream) : stream'[i] = stream[i]
    BY <1>3, Types
  <1>6. WP!Performed'
    <2>1. ASSUME NEW w \in Workers, working'[w] = "performed"
          PROVE  effects'[WP!CurrentTask(w)'] > 0
      <3>1. working[w] = "performed" /\ batch'[w] = batch[w] /\ effects' = effects
        BY <2>1 DEF ReleaseStep
      <3>2. QED
        BY <1>5, <3>1, WP!StillPerformed, StreamAssumed DEF Inv, Parts
    <2>2. QED BY <2>1 DEF WP!Performed
  <1>7. copies'[t] > 0
    <2>1. copies[t] \in Nat /\ copies'[t] \in Nat
      BY <1>1, Types, DeliveryAssumption DEF CP!Inv, CP!TypeOK
    <2>2. QED BY <1>2, <2>1
  <1>8. OnlyIssued'
    <2>1. ASSUME NEW i \in 1..Len(stream') PROVE copies'[stream'[i].task] > 0
      <3>1. CASE i \in 1..Len(stream)
        BY <1>1, <1>5, <3>1, Types DEF Inv, Link, OnlyIssued
      <3>2. CASE i \notin 1..Len(stream)
        <4>1. stream'[i] = [task |-> t, retry |-> 0]
          BY <1>3, <3>2, Types
        <4>2. QED BY <1>7, <4>1
      <3>3. QED BY <3>1, <3>2
    <2>2. QED BY <2>1 DEF OnlyIssued
  <1>9. PerformedIsIssued' /\ DoneIsPerformed'
    BY <1>1 DEF Inv, Link, PerformedIsIssued, DoneIsPerformed, ReleaseStep
  <1>10. QED BY <1>1, <1>4, <1>6, <1>8, <1>9 DEF Inv, Parts, Link

\* A worker performs the task of an issued entry and reports it: to the plan,
\* that is Coordinator's Execute, or nothing new.
LEMMA PublishIsExecute ==
  ASSUME Inv, NEW w \in Workers, PublishStep(w)
  PROVE  CP!Next \/ UNCHANGED CP!vars
  <1> DEFINE t == WP!CurrentTask(w)
  <1>1. t \in Tasks /\ effects[t] > 0 /\ copies[t] > 0
    <2>1. WP!Inv /\ WP!Performed /\ working[w] = "performed"
      BY DEF Inv, Parts, PublishStep
    <2>2. WP!Current(w) \in 1..Len(stream)
      BY <2>1, WP!CurrentEntry, StreamAssumed
    <2>3. t \in Tasks
      BY <2>2, Types DEF WP!CurrentTask
    <2>4. QED BY <2>1, <2>3 DEF WP!Performed, Inv, Link, PerformedIsIssued
  <1>2. done' = done \cup {t}
    BY DEF PublishStep
  <1> HIDE DEF t
  <1>3. CASE t \in done
    BY <1>2, <1>3 DEF PublishStep, CP!vars, CP!handlerVars, CP!eventVars
  <1>4. CASE t \notin done
    <2>1. CP!Execute(t)
      BY <1>1, <1>2, <1>4 DEF PublishStep, CP!Execute, CP!handlerVars
    <2>2. QED BY <1>1, <2>1 DEF CP!Next
  <1>5. QED BY <1>3, <1>4

LEMMA PublishKeeps ==
  ASSUME Inv, NEW w \in Workers, PublishStep(w)
  PROVE  Inv'
  <1>1. CP!Inv'
    BY PublishIsExecute, CP!InvStep, PlanAssumed DEF Inv, Parts
  <1>2. /\ WP!Inv' /\ WP!Performed' /\ OnlyIssued' /\ PerformedIsIssued'
        /\ \A t \in Tasks : effects[t] > 0 => effects'[t] > 0
    BY WorkKeeps DEF PublishStep
  <1>3. DoneIsPerformed'
    <2>1. WP!Inv /\ WP!Performed /\ working[w] = "performed"
      BY DEF Inv, Parts, PublishStep
    <2>2. WP!Current(w) \in 1..Len(stream)
      BY <2>1, WP!CurrentEntry, StreamAssumed
    <2>3. WP!CurrentTask(w) \in Tasks /\ effects[WP!CurrentTask(w)] > 0
      BY <2>1, <2>2, Types DEF WP!CurrentTask, WP!Performed
    <2>4. QED
      BY <1>2, <2>3, Types DEF Inv, Link, DoneIsPerformed, PublishStep
  <1>4. QED BY <1>1, <1>2, <1>3 DEF Inv, Parts, Link

LEMMA InvStep == Inv /\ [Next]_vars => Inv'
  <1> SUFFICES ASSUME Inv, [Next]_vars PROVE Inv'
    OBVIOUS
  <1>1. CASE WorkStep
    <2>1. UNCHANGED CP!vars
      BY <1>1 DEF WorkStep, planVars, CP!vars, CP!handlerVars, CP!eventVars
    <2>2. CP!Inv'
      BY <2>1, CP!InvStep, PlanAssumed DEF Inv, Parts
    <2>3. /\ WP!Inv' /\ WP!Performed' /\ OnlyIssued' /\ PerformedIsIssued'
          /\ \A t \in Tasks : effects[t] > 0 => effects'[t] > 0
      BY <1>1, WorkKeeps DEF WorkStep, planVars
    <2>4. DoneIsPerformed'
      BY <1>1, <2>3, Types DEF WorkStep, planVars, Inv, Link, DoneIsPerformed
    <2>5. QED BY <2>2, <2>3, <2>4 DEF Inv, Parts, Link
  <1>2. CASE UNCHANGED <<planVars, streamVars>>
    <2>1. UNCHANGED CP!vars /\ UNCHANGED WP!vars
      BY <1>2 DEF planVars, streamVars, CP!vars, CP!handlerVars, CP!eventVars, WP!vars,
                  WP!streamVars, WP!workerVars, WP!outcomeVars, WP!counters
    <2>2. CP!Inv' /\ WP!Inv' /\ WP!Performed'
      BY <2>1, CP!InvStep, PlanAssumed, WP!InvStep, WP!PerformedStep, StreamAssumed
      DEF Inv, Parts
    <2>3. Link'
      BY <1>2
      DEF planVars, streamVars, Inv, Link, OnlyIssued, PerformedIsIssued, DoneIsPerformed
    <2>4. QED BY <2>2, <2>3 DEF Inv, Parts
  <1>3. QED
    BY <1>1, <1>2, Steps, Types, PlanKeeps, ReleaseKeeps, PublishKeeps

(* What is done on the desktops keeps the order of the plan: no action is     *)
(* performed before each task it depends on was performed or approved.        *)
THEOREM ActionsInOrder == Spec => []EffectsInOrder
  <1>1. Inv => EffectsInOrder
    <2> SUFFICES ASSUME Inv, NEW t \in Tasks, effects[t] > 0, NEW d \in Deps[t]
                 PROVE  effects[d] > 0 \/ d \in approved
      BY DEF EffectsInOrder
    <2>1. t \in CP!Issued
      BY DEF Inv, Link, PerformedIsIssued, CP!Issued
    <2>2. CP!DependenciesFirst
      BY DEF Inv, Parts, CP!Inv
    <2>3. d \in done \/ d \in approved
      BY <2>1, <2>2 DEF CP!DependenciesFirst, CP!Finished
    <2>4. QED BY <2>3 DEF Inv, Link, DoneIsPerformed
  <1>2. QED BY <1>1, InvInit, InvStep, PTL DEF Spec

(* Workers and coordinator together implement Coordinator: its theorems hold  *)
(* of the whole.                                                              *)
THEOREM ImplementsPlan == Spec => PlanSpec
  <1>1. Init => C!Init
    BY DEF Init
  <1>2. Inv /\ [Next]_vars => [C!Next]_(C!vars)
    <2> SUFFICES ASSUME Inv, [Next]_vars PROVE CP!Next \/ UNCHANGED CP!vars
      BY SamePlanNext
      DEF C!vars, CP!vars, C!handlerVars, CP!handlerVars, C!eventVars, CP!eventVars
    <2>1. CASE UNCHANGED planVars
      BY <2>1 DEF planVars, CP!vars, CP!handlerVars, CP!eventVars
    <2>2. QED
      BY <2>1, Steps, Types, PublishIsExecute
      DEF PlanStep, ReleaseStep, WorkStep
  <1>3. QED BY <1>1, <1>2, InvInit, InvStep, PTL DEF Spec, PlanSpec, C!Spec

-----------------------------------------------------------------------------
\* How often an action is performed.  The entries that workers did not put on
\* the stream themselves are the coordinators' copies.

Caused == \A t \in Tasks : WP!CausedBy(t, copies[t])

LEMMA CopiesGrow ==
  ASSUME Inv, CP!Next, NEW t \in Tasks
  PROVE  copies[t] <= copies'[t]
  <1>1. copies \in [Tasks -> Nat]
    BY Types
  <1>2. ASSUME NEW c \in Coordinators, CP!Enqueue(c)
        PROVE  copies[t] <= copies'[t]
    <2>1. PICK s \in Tasks : copies' = [copies EXCEPT ![s] = @ + 1]
      BY <1>2 DEF CP!Enqueue
    <2>2. QED BY <1>1, <2>1
  <1>3. CASE ~ \E c \in Coordinators : CP!Enqueue(c)
    <2>1. copies' = copies
      BY <1>3, CP!OnlyEnqueueIssues, PlanAssumed
    <2>2. QED BY <1>1, <2>1
  <1>4. QED BY <1>2, <1>3

LEMMA CopiesStayNumbers ==
  ASSUME Inv', NEW t \in Tasks
  PROVE  copies'[t] \in Nat
  <1>1. copies' \in [Tasks -> 0..MaxCopies] /\ MaxCopies \in Nat
    BY DeliveryAssumption DEF Inv, Parts, CP!Inv, CP!TypeOK
  <1>2. QED BY <1>1

LEMMA NoEntryNoSubmission ==
  ASSUME Inv, stream' = stream, NEW s \in Tasks
  PROVE  ~WP!Submit(s)
  <1>1. stream \in Seq(WP!Entries)
    BY Types
  <1>2. Append(stream, [task |-> s, retry |-> 0]) # stream
    BY <1>1
  <1>3. QED BY <1>2 DEF WP!Submit, WP!AppendEntry

\* A step that puts no new task on the stream, whatever the plan does.
LEMMA CausedKeeps ==
  ASSUME Inv, Caused, [WP!Next]_(WP!vars), ~ \E s \in Tasks : WP!Submit(s),
         NEW t \in Tasks, copies[t] <= copies'[t], copies'[t] \in Nat
  PROVE  WP!CausedBy(t, copies[t])'
  <1>1. PICK n \in Nat, m \in Nat : n = copies[t] /\ m = copies'[t]
    BY Types
  <1>2. WP!Inv
    BY DEF Inv, Parts
  <1>3. WP!CausedBy(t, m)
    BY <1>1, <1>2, WP!CausesMore, StreamAssumed DEF Caused
  <1>4. WP!CausedBy(t, m)'
    BY <1>2, <1>3, WP!CausesStay, StreamAssumed
  <1>5. QED BY <1>1, <1>4

\* The release of a task is one copy and one entry.
LEMMA CausedRelease ==
  ASSUME Inv, Inv', Caused, ReleaseStep, NEW t \in Tasks
  PROVE  WP!CausedBy(t, copies[t])'
  <1>1. copies[t] <= copies'[t] /\ copies[t] \in Nat /\ copies'[t] \in Nat
    BY CopiesGrow, CopiesStayNumbers, Types DEF ReleaseStep
  <1>2. PICK n \in Nat, m \in Nat : n = copies[t] /\ m = copies'[t]
    BY <1>1
  <1>3. WP!Inv /\ WP!Inv' /\ WP!CausedBy(t, n) /\ n <= m
    BY <1>1, <1>2 DEF Inv, Parts, Caused
  <1>4. PICK s \in Tasks : copies'[s] > copies[s] /\ WP!AppendEntry([task |-> s, retry |-> 0])
    BY DEF ReleaseStep
  <1>5. UNCHANGED <<delivered, batch, working, effects, redelivered, lateFailures>>
    BY DEF ReleaseStep
  <1>6. CASE s = t
    <2>1. PICK l \in Nat : l + 1 = m /\ n <= l
      BY <1>2, <1>4, <1>6
    <2>2. WP!CausedBy(t, l)
      BY <1>3, <2>1, WP!CausesMore, StreamAssumed
    <2>3. WP!CausedBy(t, IF s = t THEN l + 1 ELSE l)'
      BY <1>3, <1>4, <1>5, <2>2, WP!CausesAppend, StreamAssumed
    <2>4. QED BY <1>2, <1>6, <2>1, <2>3
  <1>7. CASE s # t
    <2>1. WP!CausedBy(t, m)
      BY <1>3, WP!CausesMore, StreamAssumed
    <2>2. WP!CausedBy(t, IF s = t THEN m + 1 ELSE m)'
      BY <1>3, <1>4, <1>5, <2>1, WP!CausesAppend, StreamAssumed
    <2>3. QED BY <1>2, <1>7, <2>2
  <1>8. QED BY <1>6, <1>7

LEMMA CausedInit == Init => Caused
  <1> SUFFICES ASSUME Init, NEW t \in Tasks PROVE WP!CausedBy(t, copies[t])
    BY DEF Caused
  <1>1. WP!Init /\ CP!Init
    BY SamePlanInit, SameStreamInit DEF Init
  <1>2. copies[t] = 0
    BY <1>1 DEF CP!Init
  <1>3. QED BY <1>1, <1>2, WP!CausedInit, StreamAssumed

LEMMA CausedStep ==
  ASSUME Inv, Caused, [Next]_vars
  PROVE  Caused'
  <1> SUFFICES ASSUME NEW t \in Tasks PROVE WP!CausedBy(t, copies[t])'
    BY DEF Caused
  <1>1. Inv'
    BY InvStep
  <1>2. copies[t] \in Nat /\ copies'[t] \in Nat
    BY <1>1, CopiesStayNumbers, Types
  <1>3. CASE PlanStep \/ UNCHANGED <<planVars, streamVars>>
    <2>1. UNCHANGED WP!vars /\ stream' = stream
      BY <1>3 DEF PlanStep, streamVars, WP!vars, WP!streamVars, WP!workerVars, WP!outcomeVars,
                  WP!counters
    <2>2. copies[t] <= copies'[t]
      BY <1>2, <1>3, CopiesGrow DEF PlanStep, planVars
    <2>3. QED BY <1>2, <2>1, <2>2, NoEntryNoSubmission, CausedKeeps
  <1>4. CASE WorkStep \/ \E w \in Workers : PublishStep(w)
    <2>1. WP!Next /\ (~ \E s \in Tasks : WP!Submit(s)) /\ copies' = copies
      BY <1>4 DEF WorkStep, PublishStep, planVars
    <2>2. QED BY <1>2, <2>1, CausedKeeps
  <1>5. CASE ReleaseStep
    BY <1>1, <1>5, CausedRelease
  <1>6. QED BY <1>3, <1>4, <1>5, Steps, Types

\* A coordinator alone is one here too.
LEMMA AloneStep ==
  ASSUME Inv, CP!AloneInv, [Next]_vars
  PROVE  CP!AloneInv'
  <1>1. CP!Next \/ UNCHANGED CP!vars
    <2>1. CASE UNCHANGED planVars
      BY <2>1 DEF planVars, CP!vars, CP!handlerVars, CP!eventVars
    <2>2. QED
      BY <2>1, Steps, Types, PublishIsExecute
      DEF PlanStep, ReleaseStep, WorkStep
  <1>2. CP!TypeOK
    BY DEF Inv, Parts, CP!Inv
  <1>3. QED BY <1>1, <1>2, CP!AloneStep, PlanAssumed

(* While no two handlers of a plan overlap, an action is performed again only *)
(* for a handler that was cut off, an entry that was handed out again, or a    *)
(* failure after the action, one repetition for each.                         *)
THEOREM RepeatsHaveCauses == Spec => []OnceUnlessCaused
  <1>1. ASSUME Inv, CP!AloneInv, Caused, ~overlapped, NEW t \in Tasks
        PROVE  effects[t] <= 1 + aborts + redelivered[t] + lateFailures[t]
    <2>0. WP!Inv /\ CP!TypeOK /\ copies[t] \in Nat
      BY <1>1, Types DEF Inv, Parts, CP!Inv
    <2>1. WP!Inv /\ copies[t] \in Nat /\ aborts \in Nat
      BY <2>0, DeliveryAssumption DEF CP!TypeOK
    <2>2. copies[t] <= 1 + aborts
      BY <1>1 DEF CP!AloneInv, CP!CopiesCounted
    <2>3. effects[t] <= copies[t] + redelivered[t] + lateFailures[t]
      BY <1>1, <2>1, WP!EffectsBounded, StreamAssumed DEF Caused
    <2>4. effects[t] \in Nat /\ redelivered[t] \in Nat /\ lateFailures[t] \in Nat
      BY <2>1 DEF WP!Inv, WP!TypeOK
    <2>5. QED BY <2>1, <2>2, <2>3, <2>4
  <1>2. Inv /\ CP!AloneInv /\ Caused => OnceUnlessCaused
    BY <1>1 DEF OnceUnlessCaused
  <1>3. Init => CP!AloneInv
    BY SamePlanInit, CP!AloneInit, PlanAssumed DEF Init
  <1>4. QED BY <1>2, <1>3, InvInit, InvStep, CausedInit, CausedStep, AloneStep, PTL DEF Spec

=============================================================================
