------------------------------ MODULE Gateway ------------------------------
(***************************************************************************)
(* The control plane's loop over the event stream (tools/control_plane.py)  *)
(* with the debouncer, the memory compactor and the pipeline (gateway/).     *)
(*                                                                         *)
(* Observers append messages to the event stream.  Each turn of the loop     *)
(* reads a batch of events and processes them one by one: a message goes     *)
(* into the buffer of its user, a compacted batch becomes a plan.  Then the  *)
(* buffers that are due are flushed into the stream, and each flushed batch  *)
(* is compacted.  The offset, the buffers and the flushed batches are in     *)
(* memory only.  Messages are numbered as they are observed; what a plan     *)
(* does is the subject of Coordinator, and so are the events of tasks and    *)
(* snapshots, which the loop hands to handlers; the stream is modelled       *)
(* without them and without the events the loop ignores.                     *)
(***************************************************************************)
EXTENDS Integers, Sequences, FiniteSets, FiniteSetsExt, SequencesExt

CONSTANTS
  Users,       \* conversations, by uid
  Window,      \* debounce_window_seconds
  Count,       \* entries read in one turn
  Sources,     \* which type of event carries the messages of each user
  Lags,        \* how far the clock of a user's observer may be behind
  MaxPerEvent, \* bound: messages of one observed event
  MaxMessages, \* bound: messages observed
  MaxTime,     \* bound: seconds
  MaxCrashes   \* bound: crashes of the control plane

ASSUME GatewayAssumption ==
  /\ Window \in Nat
  /\ Count \in Nat \ {0}
  /\ Sources \subseteq [Users -> {"buffered", "debounced"}]
  /\ Lags \in [Users -> SUBSET Nat]
  /\ {MaxPerEvent, MaxMessages, MaxTime, MaxCrashes} \subseteq Nat

VARIABLES
  now,         \* the control plane's clock
  source,      \* what the observers publish; never changes
  observed,    \* user and observed_at of each message
  events,      \* the event stream
  pc,          \* the service: in the batch, flushing, or down
  cursor,      \* the last entry processed
  upTo,        \* the end of the batch
  buffers,     \* messages and deadline of each user
  due,         \* users whose buffer is still to be flushed in this turn
  flushed,     \* flushed batches still to be compacted in this turn
  plans,       \* the batches that became plans
  missed,      \* messages observed before the last start of the service
  crashes      \* crashes so far

world == <<now, observed, source>>
memory == <<pc, cursor, upTo, buffers, due, flushed>>
vars == <<world, events, memory, plans, missed, crashes>>

Messages == 1..MaxMessages
Batch == [user : Users, messages : Seq(Messages)]
Event == [type : {"buffered", "debounced", "compacted"}, own : BOOLEAN, batch : Batch]
Empty == [messages |-> <<>>, deadline |-> 0]

TypeOK ==
  /\ now \in 0..MaxTime
  /\ source \in Sources
  /\ observed \in Seq([user : Users, at : Int]) /\ Len(observed) <= MaxMessages
  /\ events \in Seq(Event)
  /\ pc \in {"batch", "flush", "down"}
  /\ cursor \in 0..upTo /\ upTo \in 0..Len(events)
  /\ buffers \in [Users -> [messages : Seq(Messages), deadline : Int]]
  /\ due \subseteq {u \in Users : buffers[u].messages # <<>>}
  /\ flushed \in Seq(Batch)
  /\ plans \in Seq(Batch)
  /\ missed \in 0..Len(observed)
  /\ crashes \in 0..MaxCrashes

\* The service has just started on an empty stream.
Init ==
  /\ now = 0
  /\ source \in Sources
  /\ observed = <<>>
  /\ events = <<>>
  /\ pc = "flush"
  /\ cursor = 0
  /\ upTo = 0
  /\ buffers = [u \in Users |-> Empty]
  /\ due = {}
  /\ flushed = <<>>
  /\ plans = <<>>
  /\ missed = 0
  /\ crashes = 0

-----------------------------------------------------------------------------

Publish(type, own, batch) ==
  events' = Append(events, [type |-> type, own |-> own, batch |-> batch])

\* An observer publishes messages of a user, stamped by its own clock.  There
\* is time left for the debounce window to pass.
Observe(u, n, lag) ==
  /\ Len(observed) + n <= MaxMessages
  /\ now + Window <= MaxTime
  /\ observed' = observed \o [k \in 1..n |-> [user |-> u, at |-> now - lag]]
  /\ Publish(source[u], FALSE,
             [user |-> u, messages |-> [k \in 1..n |-> Len(observed) + k]])
  /\ UNCHANGED <<now, source, memory, plans, missed, crashes>>

Tick ==
  /\ now < MaxTime
  /\ now' = now + 1
  /\ UNCHANGED <<observed, source, events, memory, plans, missed, crashes>>

\* run_once: XREAD behind the offset; an empty answer after a timeout.  Events
\* not modelled here may take up some of the Count entries, or all of them.
Read ==
  /\ pc = "flush" /\ due = {} /\ flushed = <<>>
  /\ pc' = "batch"
  /\ \E n \in 0..Count : upTo' = Min({cursor + n, Len(events)})
  /\ UNCHANGED <<world, events, cursor, buffers, due, flushed, plans, missed, crashes>>

\* The next entry of the batch is of this type.
Processes(type) ==
  /\ pc = "batch"
  /\ cursor < upTo
  /\ events[cursor + 1].type = type
  /\ cursor' = cursor + 1

NextBatch == events[cursor + 1].batch

\* Bug: the deadline of the first message stays.
BufferFirstDeadline ==
  /\ Processes("buffered")
  /\ LET u  == NextBatch.user
         at == observed[Last(NextBatch.messages)].at IN
       buffers' = [buffers EXCEPT ![u] =
         [messages |-> @.messages \o NextBatch.messages,
          deadline |-> IF @.messages = <<>> THEN at + Window ELSE @.deadline]]
  /\ UNCHANGED <<world, events, pc, upTo, due, flushed, plans, missed, crashes>>

\* add_message: into the buffer of the user, and the deadline moves.
Buffer ==
  /\ Processes("buffered")
  /\ LET u  == NextBatch.user
         at == observed[Last(NextBatch.messages)].at IN
       buffers' = [buffers EXCEPT ![u] =
         [messages |-> @.messages \o NextBatch.messages, deadline |-> at + Window]]
  /\ UNCHANGED <<world, events, pc, upTo, due, flushed, plans, missed, crashes>>

\* Bug: the debounced events of its own are compacted a second time.
CompactOwn ==
  /\ Processes("debounced")
  /\ events[cursor + 1].own
  /\ Publish("compacted", TRUE, NextBatch)
  /\ UNCHANGED <<world, pc, upTo, buffers, due, flushed, plans, missed, crashes>>

\* MESSAGE_DEBOUNCED of its own debouncer is skipped: its batch is compacted
\* in the turn that flushed it.
SkipOwn ==
  /\ Processes("debounced")
  /\ events[cursor + 1].own
  /\ UNCHANGED <<world, events, pc, upTo, buffers, due, flushed, plans, missed, crashes>>

\* MESSAGE_DEBOUNCED of another producer is compacted.
CompactForeign ==
  /\ Processes("debounced")
  /\ ~events[cursor + 1].own
  /\ Publish("compacted", TRUE, NextBatch)
  /\ UNCHANGED <<world, pc, upTo, buffers, due, flushed, plans, missed, crashes>>

\* MEMORY_COMPACTED: route_and_plan.
Plan ==
  /\ Processes("compacted")
  /\ plans' = Append(plans, NextBatch)
  /\ UNCHANGED <<world, events, pc, upTo, buffers, due, flushed, missed, crashes>>

\* flush_due decides once which buffers are due.
StartFlush ==
  /\ pc = "batch" /\ cursor = upTo
  /\ pc' = "flush"
  /\ due' = {u \in Users : buffers[u].messages # <<>> /\ buffers[u].deadline <= now}
  /\ UNCHANGED <<world, events, cursor, upTo, buffers, flushed, plans, missed, crashes>>

\* A due buffer is taken out and published.  (The dictionary gives the order
\* of the users; nothing here depends on it.)
Flush(u) ==
  /\ u \in due
  /\ due' = due \ {u}
  /\ LET batch == [user |-> u, messages |-> buffers[u].messages] IN
       /\ Publish("debounced", TRUE, batch)
       /\ flushed' = Append(flushed, batch)
  /\ buffers' = [buffers EXCEPT ![u] = Empty]
  /\ UNCHANGED <<world, pc, cursor, upTo, plans, missed, crashes>>

\* Bug: only the first flushed batch of a turn is compacted.
CompactFirst ==
  /\ pc = "flush" /\ due = {} /\ flushed # <<>>
  /\ Publish("compacted", TRUE, Head(flushed))
  /\ flushed' = <<>>
  /\ UNCHANGED <<world, pc, cursor, upTo, buffers, due, plans, missed, crashes>>

\* flush_and_compact: when all are flushed, one after the other is compacted.
Compact ==
  /\ pc = "flush" /\ due = {} /\ flushed # <<>>
  /\ Publish("compacted", TRUE, Head(flushed))
  /\ flushed' = Tail(flushed)
  /\ UNCHANGED <<world, pc, cursor, upTo, buffers, due, plans, missed, crashes>>

\* The process dies; nothing in the loop catches an exception either.
Crash ==
  /\ pc # "down"
  /\ crashes < MaxCrashes
  /\ crashes' = crashes + 1
  /\ pc' = "down"
  /\ buffers' = [u \in Users |-> Empty]
  /\ due' = {}
  /\ flushed' = <<>>
  /\ UNCHANGED <<world, events, cursor, upTo, plans, missed>>

\* Bug: the stream is replayed from its beginning.
StartFromScratch ==
  /\ pc = "down"
  /\ pc' = "flush"
  /\ cursor' = 0
  /\ upTo' = 0
  /\ missed' = Len(observed)
  /\ UNCHANGED <<world, events, buffers, due, flushed, plans, crashes>>

\* resolve_start_stream_id: the default offset is the latest entry.
Start ==
  /\ pc = "down"
  /\ pc' = "flush"
  /\ cursor' = Len(events)
  /\ upTo' = Len(events)
  /\ missed' = Len(observed)
  /\ UNCHANGED <<world, events, buffers, due, flushed, plans, crashes>>

Turn ==
  \/ Read \/ Buffer \/ SkipOwn \/ CompactForeign \/ Plan
  \/ StartFlush \/ (\E u \in Users : Flush(u)) \/ Compact

Next ==
  \/ \E u \in Users, n \in 1..MaxPerEvent : \E lag \in Lags[u] : Observe(u, n, lag)
  \/ Tick \/ Turn \/ Crash \/ Start

Spec == Init /\ [][Next]_vars

\* The loop keeps turning, time passes, and a service that died is started.
\* Events not modelled come to an end, so that a turn reads one that is.
ReadSome == Read /\ upTo' # cursor

FairSpec ==
  Spec /\ WF_vars(Turn) /\ SF_vars(ReadSome) /\ WF_vars(Tick) /\ WF_vars(Start)

-----------------------------------------------------------------------------

Observed == 1..Len(observed)
Has(batch, m) == m \in Range(batch.messages)

\* Where a message is on its way from the observer to a plan.
Places(m) ==
  {<<"event", i>> : i \in {i \in (cursor + 1)..Len(events) :
      Has(events[i].batch, m) /\ ~(events[i].type = "debounced" /\ events[i].own)}}
  \cup {<<"buffer", u>> : u \in {u \in Users : Has(buffers[u], m)}}
  \cup {<<"flushed", i>> : i \in {i \in DOMAIN flushed : Has(flushed[i], m)}}
  \cup {<<"plan", i>> : i \in {i \in DOMAIN plans : Has(plans[i], m)}}

(* A message is never in two places at once, so no two plans answer it; and   *)
(* only a restart loses messages: what was observed after the service's last  *)
(* start is unread, buffered, flushed, compacted or planned.                  *)
InOnePlace ==
  pc # "down" =>
    \A m \in Observed : LET n == Cardinality(Places(m)) IN
      n <= 1 /\ (m > missed => n = 1)

(* The messages of a user reach its plans in the order they were observed,    *)
(* and each of them at most once, across turns of the loop and restarts.      *)
OrderedOnce ==
  \A i, j \in DOMAIN plans : plans[i].user = plans[j].user =>
    \A k \in DOMAIN plans[i].messages, l \in DOMAIN plans[j].messages :
      i < j \/ (i = j /\ k < l) => plans[i].messages[k] < plans[j].messages[l]

(* A batch is flushed only when its last message is a debounce window old by  *)
(* the stamp of its observer, even if it arrived while the loop was busy.      *)
QuietWindow ==
  [][\A i \in DOMAIN flushed' \ DOMAIN flushed :
       observed[Last(flushed'[i].messages)].at + Window <= now]_vars

(* Every observed message becomes part of a plan (the brain's rule is that a  *)
(* message is always answered, task.md:26), unless the service was started    *)
(* again after it was observed.                                               *)
AlwaysAnswered ==
  \A m \in Messages :
    m \in Observed ~> m <= missed \/ \E i \in DOMAIN plans : Has(plans[i], m)

=============================================================================
