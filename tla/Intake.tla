------------------------------- MODULE Intake -------------------------------
(***************************************************************************)
(* What becomes of the words of one debounced batch: compaction             *)
(* (gateway/memory.py), the keyword router and the extraction of fields     *)
(* (handle_memory_compaction), the brain's plan (cognitive/brain.py), the   *)
(* checker's verdict on a snapshot (cognitive/checker.py), the merge of its *)
(* fields into the dispatch, and the message the WeChat executor sends.     *)
(*                                                                         *)
(* A message is what the router and the regular expressions find in it: a   *)
(* word for an order (no label of a field), and values of fields.  A match   *)
(* that spans two messages is left out.                                      *)
(* How a plan's state is kept, and everything that is concurrent, is the    *)
(* subject of Coordinator; here one plan is followed for its data.          *)
(***************************************************************************)
EXTENDS Integers, Sequences, FiniteSets, FiniteSetsExt, SequencesExt

CONSTANTS
  Platforms,   \* where customers write
  WeChat,      \* the platform orders are dispatched on
  Values,      \* values of the fields
  None,        \* a field that is not there
  Messages,    \* texts customers send
  Shots,       \* fields read from a snapshot
  Recent,      \* memory_recent_turns
  MaxMessages  \* bound: messages of a batch

FieldNames == {"customer_id", "item_code", "address", "phone"}
Fields == [FieldNames -> Values \cup {None}]
NoFields == [f \in FieldNames |-> None]

ASSUME IntakeAssumption ==
  /\ WeChat \in Platforms
  /\ None \notin Values
  /\ Messages \subseteq [order : BOOLEAN, says : Fields]
  /\ Shots \subseteq Fields
  /\ {Recent, MaxMessages} \subseteq Nat \ {0}

\* The plan's tasks; `after` names the kinds of the tasks it depends on.  They go
\* to the customer's conversation or to WeChat's file transfer assistant.
Task == [kind : {"reply", "check", "ui_action"}, platform : Platforms,
         after : SUBSET {"check"}, to : {"customer", "assistant"}, fields : Fields]

VARIABLES
  platform,  \* of the conversation
  stage,     \* how far the batch has come
  history,   \* the messages of the batch
  recent,    \* recent_messages of the compaction
  decision,  \* IntakeDecisionPayload
  plan,      \* the tasks, with the arguments in the plan state
  released,  \* the tasks on the stream, with the arguments they went out with
  done,      \* kinds of the completed tasks
  verdict,   \* the checker's decision
  shot,      \* the fields of the snapshot it decided on
  sent       \* dispatch messages sent in WeChat

batchVars == <<platform, history, recent>>
planVars == <<decision, plan, released>>
checkVars == <<done, verdict, shot>>
vars == <<batchVars, stage, planVars, checkVars, sent>>

Decision == [intent : {"reply", "dispatch"}, fields : Fields,
             to : {"customer", "assistant"}]
NoDecision == [intent |-> "reply", fields |-> NoFields, to |-> "customer"]

TypeOK ==
  /\ platform \in Platforms
  /\ stage \in {"buffer", "compacted", "routed", "planned"}
  /\ history \in Seq(Messages) /\ Len(history) <= MaxMessages
  /\ recent \in Seq(Messages)
  /\ decision \in Decision
  /\ plan \in Seq(Task) /\ released \subseteq Task
  /\ done \subseteq {"reply", "check", "ui_action"}
  /\ verdict \in {"none", "approved", "rejected"}
  /\ shot \in Shots \cup {NoFields}
  /\ sent \subseteq Task

Init ==
  /\ platform \in Platforms
  /\ stage = "buffer"
  /\ history = <<>> /\ recent = <<>>
  /\ decision = NoDecision
  /\ plan = <<>> /\ released = {} /\ done = {}
  /\ verdict = "none" /\ shot = NoFields
  /\ sent = {}

-----------------------------------------------------------------------------

\* A message is buffered for the batch.
Arrive(m) ==
  /\ stage = "buffer"
  /\ Len(history) < MaxMessages
  /\ history' = Append(history, m)
  /\ UNCHANGED <<platform, recent, stage, planVars, checkVars, sent>>

\* Bug: one message too few is kept.
KeptTooFew(s) == SubSeq(s, Max({1, Len(s) - Recent + 2}), Len(s))

\* full_history[-n:] ...
Kept(s) == SubSeq(s, Max({1, Len(s) - Recent + 1}), Len(s))

\* publish_compaction, once the batch is flushed.
Compact ==
  /\ stage = "buffer"
  /\ history # <<>>
  /\ recent' = Kept(history)
  /\ stage' = "compacted"
  /\ UNCHANGED <<platform, history, planVars, checkVars, sent>>

\* The labels of all fields but the customer id are keywords themselves.
HasKeyword(m) ==
  m.order \/ \E f \in FieldNames \ {"customer_id"} : m.says[f] # None

\* re.search finds the first value in the joined text.
Extract(s) ==
  [f \in FieldNames |->
    LET found == {i \in DOMAIN s : s[i].says[f] # None} IN
      IF found = {} THEN None ELSE s[Min(found)].says[f]]

\* handle_memory_compaction
Route ==
  /\ stage = "compacted"
  /\ decision' =
       [intent |-> IF \E i \in DOMAIN recent : HasKeyword(recent[i])
                   THEN "dispatch" ELSE "reply",
        fields |-> Extract(recent),
        to     |-> IF platform = WeChat /\ Extract(recent)["customer_id"] # None
                   THEN "assistant" ELSE "customer"]
  /\ stage' = "routed"
  /\ UNCHANGED <<batchVars, plan, released, checkVars, sent>>

\* resolve_dispatch_target_uid: the target in the arguments, which can only be
\* the file transfer assistant, or the conversation of the customer.
DispatchTask(after) ==
  [kind |-> "ui_action", platform |-> WeChat, after |-> after,
   to |-> decision.to, fields |-> decision.fields]

SourceTask(kind, fields) ==
  [kind |-> kind, platform |-> platform, after |-> {}, to |-> "customer",
   fields |-> fields]

\* Bug: the dispatch does not wait for the check.
BuildTasksUnordered ==
  IF decision.intent = "reply" THEN <<SourceTask("reply", NoFields)>>
  ELSE IF platform = WeChat /\ decision.fields["customer_id"] # None
       THEN <<DispatchTask({})>>
       ELSE <<SourceTask("check", decision.fields), DispatchTask({})>>

\* BrainAgent.build_tasks
BuildTasks ==
  IF decision.intent = "reply" THEN <<SourceTask("reply", NoFields)>>
  ELSE IF platform = WeChat /\ decision.fields["customer_id"] # None
       THEN <<DispatchTask({})>>
       ELSE <<SourceTask("check", decision.fields), DispatchTask({"check"})>>

Ready(tasks, completed) == {t \in Range(tasks) : t.after \subseteq completed}

\* build_and_dispatch_plan
Plan ==
  /\ stage = "routed"
  /\ plan' = BuildTasks
  /\ released' = Ready(plan', {})
  /\ stage' = "planned"
  /\ UNCHANGED <<batchVars, decision, checkVars, sent>>

\* Bug: the customer id alone is not looked at, nor is the address.
ApprovesAnyItem(fields) == fields["item_code"] # None

\* validate_dispatch_task
Approves(fields) ==
  \/ fields["address"] # None /\ fields["item_code"] # None
  \/ fields["customer_id"] # None

\* A task of this kind is completed: its dependents go out unless they have
\* been released before.
Release(tasks, kind) ==
  released' = released \cup
    {t \in Ready(tasks, done \cup {kind}) : \A u \in released : u.kind # t.kind}

Merged(fields) ==
  [i \in DOMAIN plan |->
     IF "check" \in plan[i].after THEN [plan[i] EXCEPT !.fields = fields] ELSE plan[i]]

\* A snapshot for the check task is captured and judged, while the plan has a
\* state.  (Further snapshots are the subject of Coordinator.)
Capture(fields) ==
  /\ verdict = "none"
  /\ \E i \in DOMAIN plan : plan[i].kind = "check"
  /\ \E i \in DOMAIN plan : plan[i].kind \notin done
  /\ shot' = fields
  /\ IF Approves(fields)
     THEN /\ verdict' = "approved"
          /\ plan' = Merged(fields)
          /\ Release(plan', "check")
          /\ done' = done \cup {"check"}
     ELSE verdict' = "rejected" /\ UNCHANGED <<plan, released, done>>
  /\ UNCHANGED <<batchVars, stage, decision, sent>>

\* SendDispatchMessageHandler.run: the fields are rendered into a message.
Send(t) ==
  /\ t \in released
  /\ t.kind = "ui_action"
  /\ t \notin sent
  /\ sent' = sent \cup {t}
  /\ UNCHANGED <<batchVars, stage, planVars, checkVars>>

\* handle_task_success, after some executor of the group has performed the
\* task; a rejected plan is blocked.
Complete(t) ==
  /\ t \in released
  /\ t.kind \notin done
  /\ t.kind = "ui_action" => t \in sent
  /\ done' = done \cup {t.kind}
  /\ IF verdict = "rejected" THEN UNCHANGED released ELSE Release(plan, t.kind)
  /\ UNCHANGED <<batchVars, stage, decision, plan, verdict, shot, sent>>

Next ==
  \/ \E m \in Messages : Arrive(m)
  \/ Compact \/ Route \/ Plan
  \/ \E fields \in Shots : Capture(fields)
  \/ \E t \in released : Complete(t) \/ Send(t)

Spec == Init /\ [][Next]_vars

-----------------------------------------------------------------------------

Planned == stage = "planned"

(* An order named anywhere in a batch of at most memory_recent_turns messages *)
(* gets a plan that ends in a dispatch.                                       *)
ShortOrderIsDispatched ==
  Planned /\ Len(history) <= Recent /\ (\E i \in DOMAIN history : HasKeyword(history[i]))
    => \E i \in DOMAIN plan : plan[i].kind = "ui_action"

(* A dispatch that was not completed past the checker goes out with enough to *)
(* act on: an item and an address, or a customer.                             *)
DispatchIsActionable ==
  \A t \in sent :
    \/ t.fields["customer_id"] # None
    \/ t.fields["item_code"] # None /\ t.fields["address"] # None
    \/ "check" \in done /\ t.fields = decision.fields

(* A dispatch goes out that neither the checker approved nor an executor        *)
(* completed the check of: the one for which the brain plans no check at all.    *)
(* Nothing else does: it is a WeChat customer's who gave an id, and it goes to   *)
(* the file transfer assistant only.                                           *)
UncheckedDispatch ==
  \A t \in sent :
    \/ "check" \in done
    \/ platform = WeChat /\ t.to = "assistant" /\ t.fields["customer_id"] # None

=============================================================================
