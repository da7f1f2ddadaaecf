---------------------------- MODULE IntakeProofs ----------------------------
(***************************************************************************)
(* Proofs about what is dispatched, for any texts, snapshots, platforms    *)
(* and batch sizes: no dispatch is sent unchecked except the one a WeChat   *)
(* customer asked for with an id, which goes to the file transfer assistant; *)
(* none is sent without something to act on; and no order of a short batch   *)
(* is lost on its way to the plan.                                          *)
(***************************************************************************)
EXTENDS Intake, SequenceTheorems, TLAPS

\* What the fields of a task may be.
Known == {decision.fields, NoFields} \cup Shots

PlannedTask ==
  [kind : {"reply", "check", "ui_action"}, platform : Platforms \cup {platform},
   after : SUBSET {"check"}, to : {"customer", "assistant"}, fields : Known]

\* A dispatch waits for the check, or goes to the assistant for a named customer.
Guarded(t) ==
  \/ "check" \in t.after
  \/ platform = WeChat /\ t.to = "assistant" /\ t.fields["customer_id"] # None

Shape ==
  /\ stage \in {"buffer", "compacted"} => decision = NoDecision
  /\ stage # "planned" => plan = <<>> /\ released = {} /\ sent = {}
  /\ decision.to \in {"customer", "assistant"}
  /\ decision.to = "assistant" <=> platform = WeChat /\ decision.fields["customer_id"] # None
  /\ plan \in Seq(PlannedTask)
  /\ \A t \in sent : t \in released /\ t.kind = "ui_action"

PlanIsGuarded ==
  \A i \in DOMAIN plan : plan[i].kind = "ui_action" =>
    /\ Guarded(plan[i])
    /\ Approves(plan[i].fields) \/ plan[i].fields = decision.fields

\* A dispatch on the stream was guarded, and what it waited for is over.
ReleasedIsGuarded ==
  \A t \in released : t.kind = "ui_action" =>
    /\ Guarded(t)
    /\ "check" \in t.after => "check" \in done
    /\ Approves(t.fields) \/ ("check" \in done /\ t.fields = decision.fields)

Inv == Shape /\ PlanIsGuarded /\ ReleasedIsGuarded

LEMMA InvInit == Init => Inv
  <1> SUFFICES ASSUME Init PROVE Inv
    OBVIOUS
  <1>1. /\ stage = "buffer" /\ decision = NoDecision /\ plan = <<>>
        /\ released = {} /\ sent = {}
    BY DEF Init
  <1>2. /\ decision.to = "customer"
        /\ decision.fields["customer_id"] = None
    BY <1>1 DEF NoDecision, NoFields, FieldNames
  <1>3. Shape
    BY <1>1, <1>2 DEF Shape
  <1>4. QED BY <1>1, <1>3 DEF Inv, PlanIsGuarded, ReleasedIsGuarded

\* What is ready in a guarded plan.
LEMMA ReadyIsPlanned ==
  ASSUME NEW S, NEW tasks \in Seq(S), NEW completed, NEW t \in Ready(tasks, completed)
  PROVE  /\ \E i \in DOMAIN tasks : t = tasks[i]
         /\ t.after \subseteq completed
  BY DEF Ready, Range

\* A release adds tasks of the plan that no longer wait for anything.
LEMMA ReleaseKeeps ==
  ASSUME Inv, stage = "planned", stage' = stage, sent' = sent,
         UNCHANGED <<platform, decision>>,
         plan' \in Seq(PlannedTask), PlanIsGuarded',
         NEW kind, done' = done \cup {kind},
         Release(plan', kind)
  PROVE  Inv'
  <1>1. released \subseteq released'
    BY DEF Release
  <1>2. PlannedTask' = PlannedTask
    BY DEF PlannedTask, Known
  <1>3. Shape'
    BY <1>1, <1>2 DEF Inv, Shape
  <1>4. ASSUME NEW t \in released', t.kind = "ui_action"
        PROVE  /\ Guarded(t)
               /\ "check" \in t.after => "check" \in done'
               /\ Approves(t.fields) \/ ("check" \in done' /\ t.fields = decision.fields)
    <2>1. CASE t \in released
      BY <1>4, <2>1 DEF Inv, ReleasedIsGuarded
    <2>2. CASE t \in Ready(plan', done')
      <3>1. PICK i \in DOMAIN plan' : t = plan'[i]
        BY <2>2, ReadyIsPlanned
      <3>2. t.after \subseteq done'
        BY <2>2, ReadyIsPlanned
      <3>3. Guarded(t) /\ (Approves(t.fields) \/ t.fields = decision.fields)
        BY <1>4, <3>1 DEF PlanIsGuarded, Guarded, Approves
      <3>4. CASE "check" \in t.after
        BY <3>2, <3>3, <3>4
      <3>5. CASE "check" \notin t.after
        BY <3>2, <3>3, <3>5 DEF Guarded, Approves
      <3>6. QED BY <3>4, <3>5
    <2>3. QED BY <1>4, <2>1, <2>2 DEF Release
  <1>5. ReleasedIsGuarded'
    BY <1>4 DEF ReleasedIsGuarded, Guarded, Approves
  <1>6. QED BY <1>3, <1>5 DEF Inv

\* The brain's plan is guarded, and so is what it releases at once.
LEMMA PlanKeeps == ASSUME Inv, Plan PROVE Inv'
  <1>1. /\ stage = "routed" /\ stage' = "planned"
        /\ plan' = BuildTasks /\ released' = Ready(plan', {})
        /\ UNCHANGED <<platform, decision, done, sent>>
    BY DEF Plan, batchVars, checkVars
  <1>2. /\ sent = {} /\ decision.to \in {"customer", "assistant"}
        /\ decision.to = "assistant" <=> platform = WeChat /\ decision.fields["customer_id"] # None
    BY <1>1 DEF Inv, Shape
  <1>3. /\ decision.fields \in Known /\ NoFields \in Known
        /\ WeChat \in Platforms
    BY IntakeAssumption DEF Known, IntakeAssumption
  <1>4. /\ SourceTask("reply", NoFields) \in PlannedTask
        /\ SourceTask("check", decision.fields) \in PlannedTask
        /\ \A after \in SUBSET {"check"} : DispatchTask(after) \in PlannedTask
    BY <1>2, <1>3 DEF SourceTask, DispatchTask, PlannedTask
  <1>5. plan' \in Seq(PlannedTask)
    BY <1>1, <1>4 DEF BuildTasks
  <1>6. PlannedTask' = PlannedTask
    BY <1>1 DEF PlannedTask, Known
  <1>7. ASSUME NEW i \in DOMAIN plan', plan'[i].kind = "ui_action"
        PROVE  /\ Guarded(plan'[i])
               /\ plan'[i].fields = decision.fields
               /\ "check" \notin plan'[i].after => Approves(plan'[i].fields)
    <2>1. CASE decision.intent = "reply"
      BY <1>1, <1>7, <2>1 DEF BuildTasks, SourceTask
    <2>2. CASE decision.intent # "reply" /\ platform = WeChat
               /\ decision.fields["customer_id"] # None
      <3>1. plan' = <<DispatchTask({})>>
        BY <1>1, <2>2 DEF BuildTasks
      <3>2. plan'[i] = DispatchTask({})
        BY <3>1
      <3>3. QED BY <1>2, <2>2, <3>2 DEF DispatchTask, Guarded, Approves
    <2>3. CASE decision.intent # "reply"
               /\ ~(platform = WeChat /\ decision.fields["customer_id"] # None)
      <3>1. plan' = <<SourceTask("check", decision.fields), DispatchTask({"check"})>>
        BY <1>1, <2>3 DEF BuildTasks
      <3>2. plan'[i] = DispatchTask({"check"})
        BY <1>7, <3>1 DEF SourceTask
      <3>3. QED BY <3>2 DEF DispatchTask, Guarded
    <2>4. QED BY <2>1, <2>2, <2>3
  <1>8. PlanIsGuarded'
    BY <1>1, <1>7 DEF PlanIsGuarded, Guarded, Approves
  <1>9. ASSUME NEW t \in released', t.kind = "ui_action"
        PROVE  Guarded(t) /\ "check" \notin t.after /\ Approves(t.fields)
    <2>1. PICK i \in DOMAIN plan' : t = plan'[i]
      BY <1>1, <1>5, ReadyIsPlanned
    <2>2. t.after \subseteq {}
      BY <1>1, <1>5, ReadyIsPlanned
    <2>3. QED BY <1>7, <1>9, <2>1, <2>2
  <1>10. ReleasedIsGuarded'
    BY <1>1, <1>9 DEF ReleasedIsGuarded, Guarded, Approves
  <1>11. Shape'
    BY <1>1, <1>2, <1>5, <1>6 DEF Shape
  <1>12. QED BY <1>8, <1>10, <1>11 DEF Inv

\* The merge changes only tasks that wait for the check.
LEMMA MergeKeeps ==
  ASSUME Inv, NEW fields \in Shots, Approves(fields), plan' = Merged(fields),
         UNCHANGED <<platform, decision>>
  PROVE  plan' \in Seq(PlannedTask) /\ PlanIsGuarded'
  <1>1. plan \in Seq(PlannedTask)
    BY DEF Inv, Shape
  <1>2. fields \in Known
    BY DEF Known
  <1>3. ASSUME NEW i \in DOMAIN plan
        PROVE  [plan[i] EXCEPT !.fields = fields] \in PlannedTask
    <2>1. plan[i] \in PlannedTask
      BY <1>1
    <2>2. QED BY <1>2, <2>1 DEF PlannedTask
  <1>4. /\ DOMAIN plan' = DOMAIN plan
        /\ \A i \in DOMAIN plan : plan'[i] =
             IF "check" \in plan[i].after THEN [plan[i] EXCEPT !.fields = fields] ELSE plan[i]
    BY DEF Merged
  <1>5. plan' \in Seq(PlannedTask)
    <2>1. DOMAIN plan = 1..Len(plan) /\ Len(plan) \in Nat
      BY <1>1
    <2>2. \A i \in 1..Len(plan) :
            (IF "check" \in plan[i].after THEN [plan[i] EXCEPT !.fields = fields]
             ELSE plan[i]) \in PlannedTask
      BY <1>1, <1>3, <2>1
    <2>3. QED BY <2>1, <2>2 DEF Merged
  <1>6. ASSUME NEW i \in DOMAIN plan', plan'[i].kind = "ui_action"
        PROVE  /\ Guarded(plan'[i])
               /\ Approves(plan'[i].fields) \/ plan'[i].fields = decision.fields
    <2>1. plan[i] \in PlannedTask
      BY <1>1, <1>4
    <2>2. CASE "check" \in plan[i].after
      <3>1. plan'[i].fields = fields /\ plan'[i].after = plan[i].after
        BY <1>4, <2>1, <2>2 DEF PlannedTask
      <3>2. QED BY <2>2, <3>1 DEF Guarded
    <2>3. CASE "check" \notin plan[i].after
      BY <1>4, <1>6, <2>3 DEF Inv, PlanIsGuarded
    <2>4. QED BY <2>2, <2>3
  <1>7. PlanIsGuarded'
    BY <1>6 DEF PlanIsGuarded, Guarded, Approves
  <1>8. QED BY <1>5, <1>7

LEMMA CaptureKeeps == ASSUME Inv, NEW fields \in Shots, Capture(fields) PROVE Inv'
  <1>1. /\ UNCHANGED <<platform, stage, decision, sent>>
        /\ plan # <<>>
    BY DEF Capture, batchVars
  <1>2. stage = "planned"
    BY <1>1 DEF Inv, Shape
  <1>3. CASE Approves(fields)
    <2>1. /\ plan' = Merged(fields) /\ Release(plan', "check")
          /\ done' = done \cup {"check"}
      BY <1>3 DEF Capture
    <2>2. plan' \in Seq(PlannedTask) /\ PlanIsGuarded'
      BY <1>1, <1>3, <2>1, MergeKeeps
    <2>3. QED BY <1>1, <1>2, <2>1, <2>2, ReleaseKeeps
  <1>4. CASE ~Approves(fields)
    <2>1. UNCHANGED <<plan, released, done>>
      BY <1>4 DEF Capture
    <2>2. QED
      BY <1>1, <2>1
      DEF Inv, Shape, PlanIsGuarded, ReleasedIsGuarded, PlannedTask, Known, Guarded, Approves
  <1>5. QED BY <1>3, <1>4

LEMMA CompleteKeeps == ASSUME Inv, NEW t \in released, Complete(t) PROVE Inv'
  <1>1. /\ UNCHANGED <<platform, stage, decision, plan, sent>>
        /\ done' = done \cup {t.kind}
    BY DEF Complete, batchVars
  <1>2. stage = "planned"
    BY DEF Inv, Shape
  <1>3. plan' \in Seq(PlannedTask) /\ PlanIsGuarded'
    BY <1>1 DEF Inv, Shape, PlanIsGuarded, Guarded, Approves
  <1>4. CASE verdict = "rejected"
    <2>1. released' = released
      BY <1>4 DEF Complete
    <2>2. Shape'
      BY <1>1, <2>1 DEF Inv, Shape, PlannedTask, Known
    <2>3. ReleasedIsGuarded'
      BY <1>1, <2>1 DEF Inv, ReleasedIsGuarded, Guarded, Approves
    <2>4. QED BY <1>3, <2>2, <2>3 DEF Inv
  <1>5. CASE verdict # "rejected"
    <2>1. Release(plan', t.kind)
      BY <1>1, <1>5 DEF Complete
    <2>2. QED BY <1>1, <1>2, <1>3, <2>1, ReleaseKeeps
  <1>6. QED BY <1>4, <1>5

\* The steps before there is a plan, and the sending of a task.
LEMMA OtherKeeps ==
  ASSUME Inv,
         \/ \E m \in Messages : Arrive(m)
         \/ Compact \/ Route \/ UNCHANGED vars
         \/ \E t \in released : Send(t)
  PROVE  Inv'
  <1>1. CASE (\E m \in Messages : Arrive(m)) \/ Compact \/ UNCHANGED vars
    <2>1. /\ UNCHANGED <<platform, decision, plan, released, done, sent>>
          /\ stage' = stage \/ (stage = "buffer" /\ stage' = "compacted")
      BY <1>1 DEF Arrive, Compact, vars, batchVars, planVars, checkVars
    <2>2. QED
      BY <2>1
      DEF Inv, Shape, PlanIsGuarded, ReleasedIsGuarded, PlannedTask, Known, Guarded, Approves
  <1>2. CASE Route
    <2>1. /\ stage = "compacted" /\ stage' = "routed"
          /\ UNCHANGED <<platform, plan, released, sent>>
          /\ decision'.fields = Extract(recent)
          /\ decision'.to = IF platform = WeChat /\ Extract(recent)["customer_id"] # None
                            THEN "assistant" ELSE "customer"
      BY <1>2 DEF Route, batchVars
    <2>2. plan = <<>> /\ released = {} /\ sent = {}
      BY <2>1 DEF Inv, Shape
    <2>3. Shape'
      BY <2>1, <2>2 DEF Shape
    <2>4. QED BY <2>1, <2>2, <2>3 DEF Inv, PlanIsGuarded, ReleasedIsGuarded
  <1>3. ASSUME NEW t \in released, Send(t)
        PROVE  Inv'
    <2>1. /\ t.kind = "ui_action" /\ sent' = sent \cup {t}
          /\ UNCHANGED <<platform, decision, plan, released, done, stage>>
      BY <1>3 DEF Send, batchVars, planVars, checkVars
    <2>2. Shape'
      BY <2>1 DEF Inv, Shape, PlannedTask, Known
    <2>3. QED
      BY <2>1, <2>2 DEF Inv, PlanIsGuarded, ReleasedIsGuarded, Guarded, Approves
  <1>4. QED BY <1>1, <1>2, <1>3

LEMMA InvStep == Inv /\ [Next]_vars => Inv'
  BY PlanKeeps, CaptureKeeps, CompleteKeeps, OtherKeeps DEF Next

(* No dispatch is sent before the checker approved its order, or an executor   *)
(* completed its check, except one that a WeChat customer asked for with an    *)
(* id: the brain plans no check for it, and it goes to the file transfer       *)
(* assistant only.                                                            *)
THEOREM Checked == Spec => []UncheckedDispatch
  <1>1. Inv => UncheckedDispatch
    BY DEF Inv, Shape, ReleasedIsGuarded, Guarded, UncheckedDispatch
  <1>2. QED BY <1>1, InvInit, InvStep, PTL DEF Spec

(* What is dispatched can be acted on, unless its check was completed without *)
(* a verdict.                                                                 *)
THEOREM Actionable == Spec => []DispatchIsActionable
  <1>1. Inv => DispatchIsActionable
    BY DEF Inv, Shape, ReleasedIsGuarded, Approves, DispatchIsActionable
  <1>2. QED BY <1>1, InvInit, InvStep, PTL DEF Spec

-----------------------------------------------------------------------------
\* An order of a short batch, from the buffer to the plan.

ShortOrder ==
  Len(history) <= Recent /\ \E i \in DOMAIN history : HasKeyword(history[i])

KeywordReachesPlan ==
  /\ history \in Seq(Messages)
  /\ stage = "compacted" => recent = Kept(history)
  /\ stage = "routed" /\ ShortOrder => decision.intent = "dispatch"
  /\ stage = "planned" /\ ShortOrder => \E i \in DOMAIN plan : plan[i].kind = "ui_action"

\* The cut of a short history leaves all of it.
LEMMA KeptIsAll ==
  ASSUME NEW S, NEW s \in Seq(S), Len(s) <= Recent
  PROVE  Kept(s) = s
  <1>1. Len(s) \in Nat /\ Recent \in Nat \ {0}
    BY IntakeAssumption DEF IntakeAssumption
  <1>2. Max({1, Len(s) - Recent + 1}) = 1
    BY <1>1 DEF Max
  <1>3. SubSeq(s, 1, Len(s)) = s
    OBVIOUS
  <1>4. QED BY <1>2, <1>3 DEF Kept

LEMMA KeywordStep ==
  ASSUME Inv, KeywordReachesPlan, [Next]_vars
  PROVE  KeywordReachesPlan'
  <1>1. CASE \E m \in Messages : Arrive(m)
    BY <1>1 DEF Arrive, KeywordReachesPlan
  <1>2. CASE Compact
    BY <1>2 DEF Compact, KeywordReachesPlan
  <1>3. CASE Route
    <2>1. /\ history' = history /\ stage' = "routed" /\ recent = Kept(history)
          /\ (\E i \in DOMAIN recent : HasKeyword(recent[i])) => decision'.intent = "dispatch"
      BY <1>3 DEF Route, batchVars, KeywordReachesPlan
    <2>2. ShortOrder => recent = history
      BY <2>1, KeptIsAll DEF ShortOrder, KeywordReachesPlan
    <2>3. QED BY <2>1, <2>2 DEF KeywordReachesPlan, ShortOrder
  <1>4. CASE Plan
    <2>1. /\ history' = history /\ stage = "routed" /\ stage' = "planned"
          /\ plan' = BuildTasks
      BY <1>4 DEF Plan, batchVars
    <2>2. decision.intent = "dispatch" => \E i \in DOMAIN plan' : plan'[i].kind = "ui_action"
      <3>1. CASE platform = WeChat /\ decision.fields["customer_id"] # None
                 /\ decision.intent = "dispatch"
        <4>1. plan' = <<DispatchTask({})>>
          BY <2>1, <3>1 DEF BuildTasks
        <4>2. 1 \in DOMAIN plan' /\ plan'[1].kind = "ui_action"
          BY <4>1 DEF DispatchTask
        <4>3. QED BY <4>2
      <3>2. CASE ~(platform = WeChat /\ decision.fields["customer_id"] # None)
                 /\ decision.intent = "dispatch"
        <4>1. plan' = <<SourceTask("check", decision.fields), DispatchTask({"check"})>>
          BY <2>1, <3>2 DEF BuildTasks
        <4>2. 2 \in DOMAIN plan' /\ plan'[2].kind = "ui_action"
          BY <4>1 DEF DispatchTask
        <4>3. QED BY <4>2
      <3>3. QED BY <3>1, <3>2
    <2>3. QED BY <2>1, <2>2 DEF KeywordReachesPlan, ShortOrder
  <1>5. ASSUME NEW fields \in Shots, Capture(fields)
        PROVE  KeywordReachesPlan'
    <2>1. /\ UNCHANGED <<history, recent, stage, decision>>
          /\ plan' = plan \/ plan' = Merged(fields)
      BY <1>5 DEF Capture, batchVars
    <2>2. ASSUME NEW i \in DOMAIN plan
          PROVE  i \in DOMAIN Merged(fields) /\ Merged(fields)[i].kind = plan[i].kind
      <3>1. plan[i] \in PlannedTask
        BY DEF Inv, Shape
      <3>2. [plan[i] EXCEPT !.fields = fields].kind = plan[i].kind
        BY <3>1 DEF PlannedTask
      <3>3. QED BY <3>2 DEF Merged
    <2>3. (\E i \in DOMAIN plan : plan[i].kind = "ui_action") =>
            \E i \in DOMAIN plan' : plan'[i].kind = "ui_action"
      BY <2>1, <2>2
    <2>4. QED BY <2>1, <2>3 DEF KeywordReachesPlan, ShortOrder
  <1>6. ASSUME NEW t \in released, Complete(t) \/ Send(t)
        PROVE  KeywordReachesPlan'
    BY <1>6 DEF Complete, Send, batchVars, planVars, KeywordReachesPlan, ShortOrder
  <1>7. CASE UNCHANGED vars
    BY <1>7 DEF vars, batchVars, planVars, KeywordReachesPlan, ShortOrder
  <1>8. QED BY <1>1, <1>2, <1>3, <1>4, <1>5, <1>6, <1>7 DEF Next

(* A batch of at most memory_recent_turns messages with an order in any of    *)
(* them gets a plan with a dispatch: neither the cut of the history nor the    *)
(* router nor a snapshot's fields take it away.                               *)
THEOREM ShortOrdersPlanned == Spec => []ShortOrderIsDispatched
  <1>1. Init => KeywordReachesPlan
    BY DEF Init, KeywordReachesPlan
  <1>2. KeywordReachesPlan => ShortOrderIsDispatched
    BY DEF KeywordReachesPlan, ShortOrder, ShortOrderIsDispatched, Planned
  <1>3. Inv /\ KeywordReachesPlan /\ [Next]_vars => KeywordReachesPlan'
    BY KeywordStep
  <1>4. QED BY <1>1, <1>2, <1>3, InvInit, InvStep, PTL DEF Spec

=============================================================================
