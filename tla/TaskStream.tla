----------------------------- MODULE TaskStream -----------------------------
(***************************************************************************)
(* The task stream and its consumer group (infrastructure/broker.py), the  *)
(* TaskWorkers that consume it (adapters/runtime.py) and the failure        *)
(* routing of the coordinator (route_task_failure).                         *)
(*                                                                         *)
(* An entry read through the group is pending, under the name of the        *)
(* consumer it was delivered to, until it is acknowledged.  A worker takes   *)
(* a batch and, for each entry, executes the task, calls its success or      *)
(* failure handler and acknowledges; it may die anywhere in between.  What   *)
(* the executor does inside (lock, rollback) is the subject of UiLock.       *)
(***************************************************************************)
EXTENDS Integers, Sequences, FiniteSets, FiniteSetsExt

CONSTANTS
  Workers,     \* TaskWorker processes
  NameOf,      \* their consumer names; processes of one host share a default
  Nobody,      \* an entry is not pending
  Tasks,       \* the tasks a coordinator enqueues
  MaxRetries,  \* TaskPayload.max_retries
  BatchSize,   \* count of consume_tasks
  MaxFaults,   \* bound: crashes of workers and failures after the effect
  MaxReclaims, \* bound: calls of reclaim_stale
  MaxEntries   \* bound: entries of the task stream

Names == {NameOf[w] : w \in Workers}
Ids == 1..MaxEntries

ASSUME StreamAssumption ==
  /\ NameOf \in [Workers -> Names]
  /\ Nobody \notin Names
  /\ MaxRetries \in Nat
  /\ BatchSize \in Nat \ {0}
  /\ {MaxFaults, MaxReclaims, MaxEntries} \subseteq Nat

VARIABLES
  handled,     \* the workers are built with a failure handler; never changes
  stream,      \* entries of the task stream: a task and its retry_count
  delivered,   \* the group's last-delivered entry
  owner,       \* the consumer each entry is pending for
  batch,       \* the entries each worker still has to process
  pc,          \* where it stands with the oldest of them
  effects,     \* how often each task's action was performed
  settled,     \* entries performed, retried or dead-lettered
  dead,        \* tasks in the dead-letter stream
  redelivered, \* how often entries of each task were handed out again
  lateFailures,\* how often a task was performed and then reported as failed
  faults,      \* crashes and late failures so far
  reclaims     \* reclaim_stale calls so far

streamVars == <<stream, delivered, owner>>
workerVars == <<batch, pc>>
outcomeVars == <<effects, settled, dead>>
counters == <<redelivered, lateFailures, faults, reclaims>>
vars == <<handled, streamVars, workerVars, outcomeVars, counters>>

Entries == [task : Tasks, retry : 0..MaxRetries]

TypeOK ==
  /\ handled \in BOOLEAN
  /\ stream \in Seq(Entries) /\ Len(stream) <= MaxEntries
  /\ delivered \in 0..Len(stream)
  /\ owner \in [Ids -> Names \cup {Nobody}]
  /\ batch \in [Workers -> SUBSET Ids]
  /\ pc \in [Workers -> {"idle", "execute", "performed", "failed", "ack"}]
  /\ effects \in [Tasks -> Nat]
  /\ settled \subseteq Ids
  /\ dead \subseteq Tasks
  /\ redelivered \in [Tasks -> Nat]
  /\ lateFailures \in [Tasks -> Nat]
  /\ faults \in 0..MaxFaults
  /\ reclaims \in 0..MaxReclaims

Init ==
  /\ handled \in BOOLEAN
  /\ stream = <<>>
  /\ delivered = 0
  /\ owner = [i \in Ids |-> Nobody]
  /\ batch = [w \in Workers |-> {}]
  /\ pc = [w \in Workers |-> "idle"]
  /\ effects = [t \in Tasks |-> 0]
  /\ settled = {}
  /\ dead = {}
  /\ redelivered = [t \in Tasks |-> 0]
  /\ lateFailures = [t \in Tasks |-> 0]
  /\ faults = 0
  /\ reclaims = 0

-----------------------------------------------------------------------------

Enqueued(t) == \E i \in 1..Len(stream) : stream[i].task = t
Pending == {i \in Ids : owner[i] # Nobody}
Current(w) == Min(batch[w])   \* Redis lists entries in the order of the stream
CurrentTask(w) == stream[Current(w)].task
Goto(w, step) == pc' = [pc EXCEPT ![w] = step]

\* XADD to the task stream.
AppendEntry(entry) ==
  /\ Len(stream) < MaxEntries
  /\ stream' = Append(stream, entry)

\* A coordinator enqueues the task for the first time.
Submit(t) ==
  /\ ~Enqueued(t)
  /\ AppendEntry([task |-> t, retry |-> 0])
  /\ UNCHANGED <<handled, delivered, owner, workerVars, outcomeVars, counters>>

\* A worker starts on the entries of a batch.
Take(w, ids) ==
  /\ batch' = [batch EXCEPT ![w] = ids]
  /\ Goto(w, "execute")

\* Entries handed out a second time.
CountRedelivered(ids) ==
  redelivered' = [t \in Tasks |->
                    redelivered[t] + Cardinality({i \in ids : stream[i].task = t})]

\* Bug: XREADGROUP with NOACK, delivered entries do not become pending.
PollNoAck(w) ==
  /\ pc[w] = "idle"
  /\ delivered < Len(stream)
  /\ LET upTo == Min({delivered + BatchSize, Len(stream)}) IN
       /\ delivered' = upTo
       /\ Take(w, (delivered + 1)..upTo)
  /\ UNCHANGED <<handled, stream, owner, outcomeVars, counters>>

\* poll_once: XREADGROUP with ">", any entry for any worker.
Poll(w) ==
  /\ pc[w] = "idle"
  /\ delivered < Len(stream)
  /\ LET upTo == Min({delivered + BatchSize, Len(stream)})
         ids  == (delivered + 1)..upTo IN
       /\ delivered' = upTo
       /\ owner' = [i \in Ids |-> IF i \in ids THEN NameOf[w] ELSE owner[i]]
       /\ Take(w, ids)
  /\ UNCHANGED <<handled, stream, outcomeVars, counters>>

\* recover_pending: what is pending under this consumer's name, whoever of
\* that name took it.
Recover(w) ==
  /\ pc[w] = "idle"
  /\ LET ids == {i \in Pending : owner[i] = NameOf[w]} IN
       /\ ids # {}
       /\ Take(w, ids)
       /\ CountRedelivered(ids)
  /\ UNCHANGED <<handled, streamVars, outcomeVars, lateFailures, faults, reclaims>>

\* reclaim_stale: XAUTOCLAIM moves entries that have been pending long enough,
\* those of a slow worker as well as those of a dead one.
Reclaim(w) ==
  /\ pc[w] = "idle"
  /\ reclaims < MaxReclaims
  /\ reclaims' = reclaims + 1
  /\ \E ids \in (SUBSET Pending) \ {{}} :
       /\ owner' = [i \in Ids |-> IF i \in ids THEN NameOf[w] ELSE owner[i]]
       /\ Take(w, ids)
       /\ CountRedelivered(ids)
  /\ UNCHANGED <<handled, stream, delivered, outcomeVars, lateFailures, faults>>

\* execute_action performs the action, or fails before doing so.
Execute(w) ==
  /\ pc[w] = "execute"
  /\ \/ /\ effects' = [effects EXCEPT ![CurrentTask(w)] = @ + 1]
        /\ Goto(w, "performed")
     \/ Goto(w, "failed") /\ UNCHANGED effects
  /\ UNCHANGED <<handled, streamVars, batch, settled, dead, counters>>

\* Bug: a task that was performed is enqueued again.
SucceedAndRetry(w) ==
  /\ pc[w] = "performed"
  /\ AppendEntry(stream[Current(w)])
  /\ settled' = settled \cup {Current(w)}
  /\ Goto(w, "ack")
  /\ UNCHANGED <<handled, delivered, owner, batch, effects, dead, counters>>

\* ACTION_COMPLETED is published and the success handler returns.
Succeed(w) ==
  /\ pc[w] = "performed"
  /\ settled' = settled \cup {Current(w)}
  /\ Goto(w, "ack")
  /\ UNCHANGED <<handled, streamVars, batch, effects, dead, counters>>

\* That publication, the release of the lock or the success handler raises:
\* poll_once treats the task as failed.
FailLate(w) ==
  /\ pc[w] = "performed"
  /\ faults < MaxFaults
  /\ faults' = faults + 1
  /\ lateFailures' = [lateFailures EXCEPT ![CurrentTask(w)] = @ + 1]
  /\ Goto(w, "failed")
  /\ UNCHANGED <<handled, streamVars, batch, outcomeVars, redelivered, reclaims>>

\* Bug: the retries are not limited.
RetryForever(w) ==
  /\ pc[w] = "failed"
  /\ handled
  /\ AppendEntry([stream[Current(w)] EXCEPT !.retry = @ + 1])
  /\ settled' = settled \cup {Current(w)}
  /\ Goto(w, "ack")
  /\ UNCHANGED <<handled, delivered, owner, batch, effects, dead, counters>>

\* route_task_failure: another entry with a higher retry_count ...
Retry(w) ==
  /\ pc[w] = "failed"
  /\ handled
  /\ LET entry == stream[Current(w)] IN
       /\ entry.retry < MaxRetries
       /\ AppendEntry([entry EXCEPT !.retry = @ + 1])
  /\ settled' = settled \cup {Current(w)}
  /\ Goto(w, "ack")
  /\ UNCHANGED <<handled, delivered, owner, batch, effects, dead, counters>>

\* Bug: the last retry is not granted.
DeadLetterEarly(w) ==
  /\ pc[w] = "failed"
  /\ handled
  /\ stream[Current(w)].retry + 1 >= MaxRetries
  /\ dead' = dead \cup {CurrentTask(w)}
  /\ settled' = settled \cup {Current(w)}
  /\ Goto(w, "ack")
  /\ UNCHANGED <<handled, streamVars, batch, effects, counters>>

\* Bug: exhausted tasks are dropped without a dead letter.
DeadLetterNothing(w) ==
  /\ pc[w] = "failed"
  /\ handled
  /\ stream[Current(w)].retry >= MaxRetries
  /\ Goto(w, "ack")
  /\ UNCHANGED <<handled, streamVars, batch, outcomeVars, counters>>

\* ... or the dead-letter stream.
DeadLetter(w) ==
  /\ pc[w] = "failed"
  /\ handled
  /\ stream[Current(w)].retry >= MaxRetries
  /\ dead' = dead \cup {CurrentTask(w)}
  /\ settled' = settled \cup {Current(w)}
  /\ Goto(w, "ack")
  /\ UNCHANGED <<handled, streamVars, batch, effects, counters>>

\* A worker without failure handler, as tools/wechat_worker.py builds it.
Forget(w) ==
  /\ pc[w] = "failed"
  /\ ~handled
  /\ Goto(w, "ack")
  /\ UNCHANGED <<handled, streamVars, batch, outcomeVars, counters>>

\* XACK, whoever the entry is pending for, and on to the next entry.
Ack(w) ==
  /\ pc[w] = "ack"
  /\ owner' = [owner EXCEPT ![Current(w)] = Nobody]
  /\ batch' = [batch EXCEPT ![w] = @ \ {Current(w)}]
  /\ Goto(w, IF batch[w] = {Current(w)} THEN "idle" ELSE "execute")
  /\ UNCHANGED <<handled, stream, delivered, outcomeVars, counters>>

\* The worker dies, or a handler's exception ends its loop; it is restarted
\* under the same name.
Crash(w) ==
  /\ pc[w] # "idle"
  /\ faults < MaxFaults
  /\ faults' = faults + 1
  /\ batch' = [batch EXCEPT ![w] = {}]
  /\ Goto(w, "idle")
  /\ UNCHANGED <<handled, streamVars, outcomeVars, redelivered, lateFailures, reclaims>>

Process(w) ==
  \/ Execute(w) \/ Succeed(w) \/ FailLate(w)
  \/ Retry(w) \/ DeadLetter(w) \/ Forget(w) \/ Ack(w)

Next ==
  \/ \E t \in Tasks : Submit(t)
  \/ \E w \in Workers : Poll(w) \/ Recover(w) \/ Reclaim(w) \/ Process(w) \/ Crash(w)

Spec == Init /\ [][Next]_vars

\* Workers keep polling and finish what they took.  A restarted worker calls
\* resume() and so recovers what it left pending (nothing under src/ does).
FairSpec ==
  /\ Spec
  /\ \A w \in Workers : WF_vars(Process(w)) /\ SF_vars(Poll(w)) /\ SF_vars(Recover(w))

-----------------------------------------------------------------------------

\* Entries handed to some worker.
Delivered == 1..delivered

(* With a failure handler no entry is dropped: what the group has delivered   *)
(* and no longer keeps pending was performed, enqueued again or dead-lettered, *)
(* however workers die, share names or take over each other's entries.        *)
AckedIsSettled ==
  handled => \A i \in Delivered : owner[i] = Nobody => i \in settled

(* A task's action is performed again only because an entry of it was handed  *)
(* out again or because a performed action was reported as failed: retries    *)
(* themselves never repeat what was done.                                     *)
NoCauselessRepeat ==
  \A t \in Tasks : effects[t] <= 1 + redelivered[t] + lateFailures[t]

(* A task is dead-lettered only after its retries are used up: some entry of  *)
(* it carries the highest retry_count, and every count below was used.        *)
DeadAfterAllRetries ==
  \A t \in dead : \A r \in 0..MaxRetries :
    \E i \in Delivered : stream[i] = [task |-> t, retry |-> r]

(* With a failure handler, and workers that resume after a crash, every task  *)
(* put on the stream is performed or ends in the dead-letter stream.          *)
TaskSettles ==
  \A t \in Tasks : handled /\ Enqueued(t) ~> effects[t] > 0 \/ t \in dead

=============================================================================
