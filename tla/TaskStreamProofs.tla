-------------------------- MODULE TaskStreamProofs --------------------------
(***************************************************************************)
(* Proofs about TaskStream, for any number of workers, any sharing of      *)
(* names, and any crashes, recoveries and take-overs: no entry is dropped, *)
(* a dead letter had all its retries, and what is performed again has a    *)
(* cause: a redelivery or a failure after the effect.                      *)
(***************************************************************************)
EXTENDS TaskStream, FiniteSetTheorems, WellFoundedInduction, TLAPS

\* A non-empty set of entries has an oldest one.
NatLess == {p \in Nat \X Nat : p[1] < p[2]}

LEMMA NatLessWellFounded == IsWellFoundedOn(NatLess, Nat)
  BY NatLessThanWellFounded, Zenon DEF OpToRel, NatLess

LEMMA Oldest ==
  ASSUME NEW S \in SUBSET Ids, S # {}
  PROVE  Min(S) \in S
  <1>1. S \subseteq Nat
    BY StreamAssumption DEF Ids
  <1>2. \E x \in S : \A y \in S : ~ (<<y, x>> \in NatLess)
    BY <1>1, NatLessWellFounded, WFMin, Zenon
  <1> PICK x \in S : \A y \in S : ~ (<<y, x>> \in NatLess)
    BY <1>2
  <1>3. ASSUME NEW y \in S PROVE x <= y
    <2>1. x \in Nat /\ y \in Nat
      BY <1>1
    <2>2. ASSUME y < x PROVE <<y, x>> \in NatLess
      BY <2>1, <2>2 DEF NatLess
    <2>3. QED BY <2>1, <2>2
  <1>4. QED BY <1>3 DEF Min

LEMMA MinOfTwo ==
  ASSUME NEW a \in Int, NEW b \in Int
  PROVE  Min({a, b}) \in {a, b} /\ Min({a, b}) <= a /\ Min({a, b}) <= b
  <1>1. CASE a <= b
    <2>1. a \in {a, b} /\ \A y \in {a, b} : a <= y
      BY <1>1
    <2>2. QED BY <2>1 DEF Min
  <1>2. CASE b < a
    <2>1. b \in {a, b} /\ \A y \in {a, b} : b <= y
      BY <1>2
    <2>2. QED BY <2>1 DEF Min
  <1>3. QED BY <1>1, <1>2

\* What a worker has in hand was delivered, and what is pending too.
InHand ==
  /\ \A w \in Workers : pc[w] = "idle" <=> batch[w] = {}
  /\ \A w \in Workers : batch[w] \subseteq Delivered
  /\ \A i \in Ids : owner[i] # Nobody => i \in Delivered

\* A worker acknowledges only what it has settled.
AckSettled == handled => \A w \in Workers : pc[w] = "ack" => Current(w) \in settled

Inv == TypeOK /\ InHand

LEMMA InvInit == Init => Inv
  BY StreamAssumption DEF Init, Inv, InHand, TypeOK

\* The entry a busy worker works on.
LEMMA CurrentEntry ==
  ASSUME Inv, NEW w \in Workers, pc[w] # "idle"
  PROVE  /\ Current(w) \in batch[w]
         /\ Current(w) \in Ids
         /\ Current(w) \in 1..Len(stream)
         /\ stream[Current(w)] \in Entries
  <1>1. batch[w] \in SUBSET Ids /\ batch[w] # {}
    BY DEF Inv, InHand, TypeOK
  <1>2. Current(w) \in batch[w]
    BY <1>1, Oldest DEF Current
  <1>3. Current(w) \in 1..Len(stream)
    BY <1>2 DEF Inv, InHand, TypeOK, Delivered
  <1>4. QED BY <1>1, <1>2, <1>3 DEF Inv, TypeOK

\* A coordinator's entry, whether the task has one already or not.
LEMMA AppendInv ==
  ASSUME Inv, NEW t \in Tasks, AppendEntry([task |-> t, retry |-> 0]),
         UNCHANGED <<handled, delivered, owner, workerVars, outcomeVars, counters>>
  PROVE  Inv'
  <1>1. [task |-> t, retry |-> 0] \in Entries
    BY StreamAssumption DEF Entries
  <1>2. QED
    BY <1>1, StreamAssumption
    DEF AppendEntry, Inv, TypeOK, InHand, Delivered, workerVars, outcomeVars, counters

LEMMA InvStep == Inv /\ [Next]_vars => Inv'
  <1> SUFFICES ASSUME Inv, [Next]_vars PROVE Inv'
    OBVIOUS
  <1> USE StreamAssumption DEF Inv, TypeOK, InHand, Delivered, Goto,
          streamVars, workerVars, outcomeVars, counters
  <1>1. ASSUME NEW t \in Tasks, Submit(t) PROVE Inv'
    BY <1>1, AppendInv DEF Submit
  <1>2. ASSUME NEW w \in Workers, Poll(w) PROVE Inv'
    <2> DEFINE upTo == Min({delivered + BatchSize, Len(stream)})
               ids == (delivered + 1)..upTo
    <2>1. upTo \in Int /\ delivered < upTo /\ upTo <= Len(stream)
      <3>1. /\ delivered + BatchSize \in Int /\ delivered < delivered + BatchSize
            /\ Len(stream) \in Int /\ delivered < Len(stream)
        BY <1>2 DEF Poll
      <3>2. QED BY <3>1, MinOfTwo
    <2>2. /\ delivered' = upTo
          /\ owner' = [i \in Ids |-> IF i \in ids THEN NameOf[w] ELSE owner[i]]
          /\ batch' = [batch EXCEPT ![w] = ids]
          /\ pc' = [pc EXCEPT ![w] = "execute"]
          /\ UNCHANGED <<handled, stream, outcomeVars, counters>>
      BY <1>2 DEF Poll, Take
    <2> HIDE DEF upTo
    <2>3. ids \subseteq Ids /\ ids # {} /\ ids \subseteq 1..upTo
      <3>1. /\ delivered \in Nat /\ Len(stream) \in Nat
            /\ MaxEntries \in Nat /\ Len(stream) <= MaxEntries
        OBVIOUS
      <3>2. upTo \in ids
        BY <2>1, <3>1
      <3>3. ASSUME NEW j \in ids PROVE j \in 1..MaxEntries /\ j \in 1..upTo
        <4>1. j \in Int /\ delivered + 1 <= j /\ j <= upTo
          BY <2>1, <3>1
        <4>2. QED BY <2>1, <3>1, <4>1
      <3>4. QED BY <3>2, <3>3 DEF Ids
    <2> HIDE DEF ids
    <2>4. QED BY <2>1, <2>2, <2>3, SMTT(20) DEF Names
  <1>3. ASSUME NEW w \in Workers, NEW ids \in SUBSET Pending, ids # {},
               Take(w, ids), CountRedelivered(ids),
               \/ owner' = [i \in Ids |-> IF i \in ids THEN NameOf[w] ELSE owner[i]]
               \/ owner' = owner,
               reclaims' \in 0..MaxReclaims,
               UNCHANGED <<handled, stream, delivered, outcomeVars, lateFailures, faults>>
        PROVE  Inv'
    <2>1. ids \subseteq Ids /\ ids \subseteq Delivered
      BY DEF Pending
    <2>2. redelivered' \in [Tasks -> Nat]
      <3>1. ASSUME NEW t \in Tasks
            PROVE  redelivered[t] + Cardinality({i \in ids : stream[i].task = t}) \in Nat
        <4>1. {i \in ids : stream[i].task = t} \in SUBSET (1..MaxEntries)
          BY <2>1 DEF Ids
        <4>2. IsFiniteSet(1..MaxEntries)
          BY FS_Interval
        <4>3. Cardinality({i \in ids : stream[i].task = t}) \in Nat
          BY <4>1, <4>2, FS_Subset, FS_CardinalityType
        <4>4. QED BY <4>3
      <3>2. QED BY <1>3, <3>1 DEF CountRedelivered
    <2>3. QED BY <1>3, <2>1, <2>2 DEF Take, Names
  <1>4. ASSUME NEW w \in Workers, Recover(w) PROVE Inv'
    <2>1. {i \in Pending : owner[i] = NameOf[w]} \in SUBSET Pending
      OBVIOUS
    <2>2. QED BY <1>3, <1>4, <2>1 DEF Recover
  <1>5. ASSUME NEW w \in Workers, Reclaim(w) PROVE Inv'
    <2>1. reclaims' \in 0..MaxReclaims
      BY <1>5 DEF Reclaim
    <2>2. PICK ids \in (SUBSET Pending) \ {{}} :
            /\ owner' = [i \in Ids |-> IF i \in ids THEN NameOf[w] ELSE owner[i]]
            /\ Take(w, ids)
            /\ CountRedelivered(ids)
      BY <1>5 DEF Reclaim
    <2>3. UNCHANGED <<handled, stream, delivered, outcomeVars, lateFailures, faults>>
      BY <1>5 DEF Reclaim
    <2>4. ids \in SUBSET Pending /\ ids # {}
      OBVIOUS
    <2>5. QED BY <1>3, <2>1, <2>2, <2>3, <2>4
  <1>6. ASSUME NEW w \in Workers, Process(w) PROVE Inv'
    <2>0. pc[w] # "idle"
      BY <1>6 DEF Process, Execute, Succeed, FailLate, Retry, DeadLetter, Forget, Ack
    <2> DEFINE i == Current(w)
    <2>1. i \in batch[w] /\ i \in Ids /\ i \in 1..Len(stream) /\ stream[i] \in Entries
      BY <2>0, CurrentEntry
    <2>2. stream[i].task \in Tasks
      BY <2>1 DEF Entries
    <2> HIDE DEF i
    <2>3. CASE Execute(w)
      <3> DEFINE t == CurrentTask(w)
      <3>1. t \in Tasks
        BY <2>2 DEF CurrentTask, i
      <3> HIDE DEF t
      <3>2. \/ effects' = [effects EXCEPT ![t] = @ + 1]
            \/ effects' = effects
        BY <2>3 DEF Execute, t
      <3>3. effects' \in [Tasks -> Nat]
        <4>1. effects \in [Tasks -> Nat]
          OBVIOUS
        <4>2. QED BY ONLY <3>1, <3>2, <4>1
      <3>4. \/ pc' = [pc EXCEPT ![w] = "performed"]
            \/ pc' = [pc EXCEPT ![w] = "failed"]
        BY <2>3 DEF Execute
      <3>5. UNCHANGED <<handled, streamVars, batch, settled, dead, counters>>
        BY <2>3 DEF Execute
      <3>6. QED BY <2>0, <3>3, <3>4, <3>5
    <2>4. CASE Succeed(w)
      BY <2>1, <2>4 DEF Succeed, i
    <2>5. CASE FailLate(w)
      <3>1. lateFailures' \in [Tasks -> Nat]
        BY <2>2, <2>5, SMTT(20) DEF FailLate, CurrentTask, i
      <3>2. faults' \in 0..MaxFaults
        BY <2>5 DEF FailLate
      <3>3. QED BY <2>5, <3>1, <3>2 DEF FailLate
    <2>6. CASE Retry(w)
      <3>1. stream[i].retry < MaxRetries /\ stream[i].retry \in 0..MaxRetries
        BY <2>1, <2>6 DEF Retry, Entries, i
      <3>2. [stream[i] EXCEPT !.retry = @ + 1] \in Entries
        <4> DEFINE e == stream[i]
        <4>1. e \in [task : Tasks, retry : 0..MaxRetries] /\ e.retry < MaxRetries
          BY <2>1, <3>1 DEF Entries
        <4>2. MaxRetries \in Nat
          OBVIOUS
        <4> HIDE DEF e
        <4>3. e.retry + 1 \in 0..MaxRetries
          BY <4>1, <4>2
        <4>4. [e EXCEPT !.retry = @ + 1] \in Entries
          BY <4>1, <4>3 DEF Entries
        <4>5. QED BY <4>4 DEF e
      <3>3. stream' \in Seq(Entries) /\ Len(stream') = Len(stream) + 1
            /\ Len(stream') <= MaxEntries
        BY <2>6, <3>2 DEF Retry, AppendEntry, i
      <3>4. QED BY <2>1, <2>6, <3>3, SMTT(20) DEF Retry, i
    <2>7. CASE DeadLetter(w)
      BY <2>1, <2>2, <2>7 DEF DeadLetter, CurrentTask, i
    <2>8. CASE Forget(w)
      BY <2>8 DEF Forget
    <2>9. CASE Ack(w)
      BY <2>1, <2>9 DEF Ack, i
    <2>10. QED
      BY <1>6, <2>3, <2>4, <2>5, <2>6, <2>7, <2>8, <2>9 DEF Process
  <1>7. ASSUME NEW w \in Workers, Crash(w) PROVE Inv'
    BY <1>7 DEF Crash
  <1>8. CASE UNCHANGED vars
    BY <1>8 DEF vars
  <1>9. QED
    BY <1>1, <1>2, <1>4, <1>5, <1>6, <1>7, <1>8 DEF Next

(* TypeOK is an invariant.                                                    *)
THEOREM TypeInvariant == Spec => []TypeOK
  <1>1. Inv => TypeOK BY DEF Inv
  <1>2. QED BY <1>1, InvInit, InvStep, PTL DEF Spec

-----------------------------------------------------------------------------

Settlement == AckSettled /\ AckedIsSettled

LEMMA SettlementInit == Init => Settlement
  BY DEF Init, Settlement, AckSettled, AckedIsSettled, Delivered

\* Whether the workers have a failure handler does not change.
LEMMA HandledStays == [Next]_vars => handled' = handled
  BY DEF Next, Submit, Poll, Recover, Reclaim, Process, Execute, Succeed, FailLate, Retry,
         DeadLetter, Forget, Ack, Crash, vars

LEMMA SettlementStep ==
  ASSUME handled, handled' = handled, Inv, Settlement, [Next]_vars
  PROVE  Settlement'
  <1> USE DEF Settlement, AckSettled, AckedIsSettled, Delivered, Goto,
          streamVars, workerVars, outcomeVars, counters
  <1>1. ASSUME NEW t \in Tasks, Submit(t) PROVE Settlement'
    BY <1>1 DEF Submit, Current
  <1>2. ASSUME NEW w \in Workers, Poll(w) PROVE Settlement'
    <2> DEFINE upTo == Min({delivered + BatchSize, Len(stream)})
               ids == (delivered + 1)..upTo
    <2>1. upTo \in Int /\ upTo <= Len(stream)
      <3>1. delivered + BatchSize \in Int /\ Len(stream) \in Int
        BY StreamAssumption DEF Inv, TypeOK
      <3>2. QED BY <3>1, MinOfTwo
    <2>2. /\ delivered' = upTo
          /\ owner' = [i \in Ids |-> IF i \in ids THEN NameOf[w] ELSE owner[i]]
          /\ batch' = [batch EXCEPT ![w] = ids]
          /\ pc' = [pc EXCEPT ![w] = "execute"]
          /\ settled' = settled
      BY <1>2 DEF Poll, Take
    <2> HIDE DEF upTo
    <2>3. \A i \in 1..upTo : owner'[i] = Nobody => i \in settled
      BY <2>1, <2>2, StreamAssumption DEF Inv, TypeOK, Ids, Names
    <2>4. \A v \in Workers : pc'[v] = "ack" => pc[v] = "ack" /\ batch'[v] = batch[v]
      BY <2>2 DEF Inv, TypeOK
    <2>5. \A v \in Workers : pc'[v] = "ack" => Current(v)' \in settled'
      BY <2>2, <2>4 DEF Current
    <2>6. \A i \in 1..delivered' : owner'[i] = Nobody => i \in settled'
      BY <2>2, <2>3
    <2>7. QED BY <2>5, <2>6
  <1>3. ASSUME NEW w \in Workers, Recover(w) \/ Reclaim(w) PROVE Settlement'
    <2>1. UNCHANGED <<delivered, settled>>
      BY <1>3 DEF Recover, Reclaim
    <2>2. \A i \in Ids : owner'[i] = Nobody => owner[i] = Nobody
      BY <1>3, StreamAssumption DEF Recover, Reclaim, Inv, TypeOK, Names
    <2>3. \A v \in Workers : pc'[v] = "ack" => pc[v] = "ack" /\ batch'[v] = batch[v]
      BY <1>3 DEF Recover, Reclaim, Take, Inv, TypeOK
    <2>4. 1..delivered \subseteq Ids
      BY StreamAssumption DEF Inv, TypeOK, Ids
    <2>5. QED BY <2>1, <2>2, <2>3, <2>4 DEF Current
  <1>4. ASSUME NEW w \in Workers, Execute(w) \/ FailLate(w) \/ Crash(w)
        PROVE Settlement'
    <2>1. UNCHANGED <<delivered, owner, settled>>
      BY <1>4 DEF Execute, FailLate, Crash
    <2>2. \A v \in Workers : pc'[v] = "ack" => pc[v] = "ack" /\ batch'[v] = batch[v]
      BY <1>4 DEF Execute, FailLate, Crash, Inv, TypeOK
    <2>3. QED BY <2>1, <2>2 DEF Current
  <1>5. ASSUME NEW w \in Workers, Succeed(w) \/ Retry(w) \/ DeadLetter(w)
        PROVE Settlement'
    <2>1. UNCHANGED <<delivered, owner, batch>>
      BY <1>5 DEF Succeed, Retry, DeadLetter, AppendEntry
    <2>2. settled' = settled \cup {Current(w)} /\ pc' = [pc EXCEPT ![w] = "ack"]
      BY <1>5 DEF Succeed, Retry, DeadLetter
    <2>3. QED BY <2>1, <2>2 DEF Current, Inv, TypeOK
  <1>6. ASSUME NEW w \in Workers, Ack(w) PROVE Settlement'
    <2>1. Current(w) \in settled
      BY <1>6 DEF Ack
    <2>2. /\ owner' = [owner EXCEPT ![Current(w)] = Nobody]
          /\ UNCHANGED <<delivered, settled>>
      BY <1>6 DEF Ack
    <2>3. \A v \in Workers : pc'[v] = "ack" => pc[v] = "ack" /\ batch'[v] = batch[v]
      BY <1>6 DEF Ack, Inv, TypeOK
    <2>4. QED BY <2>1, <2>2, <2>3, StreamAssumption DEF Current, Inv, TypeOK, Ids
  <1>7. CASE UNCHANGED vars
    BY <1>7 DEF vars, Current
  <1>8. QED
    BY <1>1, <1>2, <1>3, <1>4, <1>5, <1>6, <1>7 DEF Next, Process, Forget

(* With a failure handler no delivered entry is dropped: it is pending, or    *)
(* was performed, enqueued again or dead-lettered.                            *)
THEOREM NothingDropped == Spec => []AckedIsSettled
  <1>1. Inv /\ Settlement /\ [Next]_vars => Inv' /\ Settlement'
    <2> SUFFICES ASSUME Inv, Settlement, [Next]_vars PROVE Inv' /\ Settlement'
      OBVIOUS
    <2>1. handled' = handled
      BY HandledStays
    <2>2. CASE handled
      BY <2>1, <2>2, InvStep, SettlementStep
    <2>3. CASE ~handled
      BY <2>1, <2>3, InvStep DEF Settlement, AckSettled, AckedIsSettled
    <2>4. QED BY <2>2, <2>3
  <1>2. Settlement => AckedIsSettled
    BY DEF Settlement
  <1>3. QED
    BY <1>1, <1>2, InvInit, SettlementInit, PTL DEF Spec

-----------------------------------------------------------------------------

\* How an entry came about: its lower retry counts were all delivered before.
RetriesDelivered(entry) ==
  \A r \in 0..MaxRetries :
    r < entry.retry => \E j \in Delivered : stream[j] = [task |-> entry.task, retry |-> r]

RetriesUsed == \A i \in 1..Len(stream) : RetriesDelivered(stream[i])

\* The entries stay, at their places.
LEMMA StreamGrows ==
  ASSUME Inv, [Next]_vars
  PROVE  /\ Len(stream) <= Len(stream') /\ delivered <= delivered'
         /\ \A i \in 1..Len(stream) : stream'[i] = stream[i]
         /\ Delivered \subseteq 1..Len(stream)
  <1>1. Len(stream) \in Nat /\ delivered \in 0..Len(stream) /\ stream \in Seq(Entries)
    BY DEF Inv, TypeOK
  <1>2. delivered <= delivered'
    <2>1. ASSUME NEW w \in Workers, Poll(w) PROVE delivered <= delivered'
      <3>1. delivered + BatchSize \in Int /\ delivered < Len(stream)
        BY <1>1, <2>1, StreamAssumption DEF Poll
      <3>2. delivered' \in {delivered + BatchSize, Len(stream)}
        <4>1. delivered' = Min({delivered + BatchSize, Len(stream)})
          BY <2>1 DEF Poll
        <4>2. Len(stream) \in Int
          BY <1>1
        <4>3. Min({delivered + BatchSize, Len(stream)}) \in {delivered + BatchSize, Len(stream)}
          BY <3>1, <4>2, MinOfTwo
        <4>4. QED BY <4>1, <4>3
      <3>3. QED BY <1>1, <3>1, <3>2, StreamAssumption
    <2>2. ASSUME ~ \E w \in Workers : Poll(w) PROVE delivered' = delivered
      BY <2>2 DEF Next, vars, streamVars, Submit, Recover, Reclaim, Process, Execute,
         Succeed, FailLate, Retry, DeadLetter, Forget, Ack, Crash
    <2>3. QED BY <1>1, <2>1, <2>2
  <1>3. stream' = stream \/ \E entry : stream' = Append(stream, entry)
    BY DEF Next, vars, streamVars, AppendEntry, Submit, Poll, Recover, Reclaim, Process,
           Execute, Succeed, FailLate, Retry, DeadLetter, Forget, Ack, Crash
  <1>4. QED BY <1>1, <1>2, <1>3 DEF Delivered

LEMMA RetriesKept ==
  ASSUME Inv, [Next]_vars, NEW entry, RetriesDelivered(entry)
  PROVE  RetriesDelivered(entry)'
  <1>1. delivered \in Nat /\ delivered' \in Nat
    BY InvStep DEF Inv, TypeOK
  <1>2. Delivered \subseteq Delivered'
    BY <1>1, StreamGrows DEF Delivered
  <1>3. \A j \in Delivered : stream'[j] = stream[j]
    BY StreamGrows
  <1>4. QED BY <1>2, <1>3 DEF RetriesDelivered

\* The retry of a delivered entry.
LEMMA NextRetry ==
  ASSUME Inv, NEW j \in Delivered, RetriesDelivered(stream[j])
  PROVE  RetriesDelivered([stream[j] EXCEPT !.retry = @ + 1])
  <1> DEFINE entry == stream[j]
             next == [entry EXCEPT !.retry = @ + 1]
  <1>1. entry \in Entries
    BY DEF Inv, TypeOK, Delivered
  <1>2. /\ entry = [task |-> entry.task, retry |-> entry.retry]
        /\ entry.retry \in Nat
        /\ next.task = entry.task /\ next.retry = entry.retry + 1
    BY <1>1, StreamAssumption DEF Entries
  <1> HIDE DEF entry, next
  <1>3. ASSUME NEW r \in 0..MaxRetries, r < next.retry
        PROVE  \E i \in Delivered : stream[i] = [task |-> next.task, retry |-> r]
    <2>1. CASE r = entry.retry
      BY <1>2, <2>1 DEF entry
    <2>2. CASE r < entry.retry
      BY <1>2, <2>2 DEF RetriesDelivered, entry
    <2>3. QED BY <1>2, <1>3, <2>1, <2>2, StreamAssumption
  <1>4. QED BY <1>3 DEF RetriesDelivered, next, entry

LEMMA RetriesStep ==
  ASSUME Inv, RetriesUsed, [Next]_vars
  PROVE  RetriesUsed'
  <1>1. stream \in Seq(Entries)
    BY DEF Inv, TypeOK
  <1>2. ASSUME NEW i \in 1..Len(stream) PROVE RetriesDelivered(stream[i])'
    <2>1. PICK entry : entry = stream[i]
      OBVIOUS
    <2>2. RetriesDelivered(entry)'
      BY <2>1, RetriesKept DEF RetriesUsed
    <2>3. stream'[i] = entry
      BY <2>1, StreamGrows
    <2>4. QED BY <2>2, <2>3 DEF RetriesDelivered
  <1>3. ASSUME NEW entry, stream' = Append(stream, entry), RetriesDelivered(entry)
        PROVE  RetriesUsed'
    <2>1. RetriesDelivered(entry)'
      BY <1>3, RetriesKept
    <2>2. /\ Len(stream') = Len(stream) + 1
          /\ stream'[Len(stream) + 1] = entry
      BY <1>1, <1>3
    <2>3. ASSUME NEW i \in 1..Len(stream') PROVE RetriesDelivered(stream[i])'
      <3>1. CASE i \in 1..Len(stream)
        BY <1>2, <3>1
      <3>2. CASE i = Len(stream) + 1
        BY <2>1, <2>2, <3>2 DEF RetriesDelivered
      <3>3. QED BY <1>1, <2>2, <3>1, <3>2
    <2>4. QED BY <2>3 DEF RetriesUsed
  <1>4. ASSUME NEW t \in Tasks, Submit(t) PROVE RetriesUsed'
    <2>1. RetriesDelivered([task |-> t, retry |-> 0])
      BY DEF RetriesDelivered
    <2>2. QED BY <1>3, <1>4, <2>1 DEF Submit, AppendEntry
  <1>5. ASSUME NEW w \in Workers, Retry(w) PROVE RetriesUsed'
    <2>1. /\ pc[w] # "idle"
          /\ stream' = Append(stream, [stream[Current(w)] EXCEPT !.retry = @ + 1])
      BY <1>5 DEF Retry, AppendEntry
    <2>2. Current(w) \in Delivered /\ Current(w) \in 1..Len(stream)
      BY <2>1, CurrentEntry DEF Inv, InHand
    <2>3. RetriesDelivered([stream[Current(w)] EXCEPT !.retry = @ + 1])
      BY <2>2, NextRetry DEF RetriesUsed
    <2>4. QED BY <1>3, <2>1, <2>3
  <1>6. CASE stream' = stream
    <2>1. ASSUME NEW i \in 1..Len(stream') PROVE RetriesDelivered(stream[i])'
      BY <1>2, <1>6
    <2>2. QED BY <2>1 DEF RetriesUsed
  <1>7. QED
    BY <1>4, <1>5, <1>6
    DEF Next, vars, streamVars, Poll, Recover, Reclaim, Process, Execute, Succeed,
        FailLate, DeadLetter, Forget, Ack, Crash

LEMMA DeadStep ==
  ASSUME Inv, RetriesUsed, DeadAfterAllRetries, [Next]_vars
  PROVE  DeadAfterAllRetries'
  <1> DEFINE Exhausted(t) == \A r \in 0..MaxRetries :
                \E i \in Delivered : stream[i] = [task |-> t, retry |-> r]
  <1>1. \A t \in dead : Exhausted(t)'
    <2>1. delivered \in Nat /\ delivered' \in Nat
      BY InvStep DEF Inv, TypeOK
    <2>2. Delivered \subseteq Delivered' /\ \A j \in Delivered : stream'[j] = stream[j]
      BY <2>1, StreamGrows DEF Delivered
    <2>3. QED BY <2>2 DEF DeadAfterAllRetries
  <1>2. ASSUME NEW w \in Workers, DeadLetter(w) PROVE DeadAfterAllRetries'
    <2> DEFINE entry == stream[Current(w)]
    <2>1. /\ entry.retry >= MaxRetries
          /\ dead' = dead \cup {entry.task}
          /\ UNCHANGED <<stream, delivered>>
          /\ pc[w] # "idle"
      BY <1>2 DEF DeadLetter, CurrentTask, streamVars
    <2>2. /\ Current(w) \in Delivered /\ entry \in Entries
          /\ RetriesDelivered(entry)
      BY <2>1, CurrentEntry DEF Inv, InHand, RetriesUsed
    <2>3. entry.retry = MaxRetries /\ entry = [task |-> entry.task, retry |-> MaxRetries]
      BY <2>1, <2>2, StreamAssumption DEF Entries
    <2>4. ASSUME NEW r \in 0..MaxRetries
          PROVE  \E i \in Delivered : stream[i] = [task |-> entry.task, retry |-> r]
      <3>1. CASE r = MaxRetries
        BY <2>2, <2>3, <3>1
      <3>2. CASE r < MaxRetries
        BY <2>2, <2>3, <3>2 DEF RetriesDelivered
      <3>3. QED BY <3>1, <3>2, StreamAssumption
    <2> HIDE DEF entry
    <2>5. QED BY <2>1, <2>4 DEF DeadAfterAllRetries, Delivered
  <1>3. CASE dead' = dead
    BY <1>1, <1>3 DEF DeadAfterAllRetries
  <1>4. QED
    BY <1>2, <1>3
    DEF Next, vars, outcomeVars, Submit, Poll, Recover, Reclaim, Process, Execute, Succeed,
        FailLate, Retry, Forget, Ack, Crash

(* A dead-lettered task was delivered with every retry count there is.        *)
THEOREM DeadWereRetried == Spec => []DeadAfterAllRetries
  <1>1. Init => RetriesUsed /\ DeadAfterAllRetries
    BY DEF Init, RetriesUsed, DeadAfterAllRetries
  <1>2. QED BY <1>1, InvInit, InvStep, RetriesStep, DeadStep, PTL DEF Spec

-----------------------------------------------------------------------------

\* A worker that reports success has performed the task.
Performed == \A w \in Workers : pc[w] = "performed" => effects[CurrentTask(w)] > 0

\* What a worker has performed, it still has in hand, and it stays performed.
LEMMA StillPerformed ==
  ASSUME Inv, Performed, NEW w \in Workers,
         pc[w] = "performed", batch'[w] = batch[w],
         \A i \in 1..Len(stream) : stream'[i] = stream[i],
         \A t \in Tasks : effects[t] > 0 => effects'[t] > 0
  PROVE  effects'[CurrentTask(w)'] > 0
  <1>1. Current(w)' = Current(w)
    BY DEF Current
  <1>2. Current(w) \in 1..Len(stream) /\ CurrentTask(w) \in Tasks
    BY CurrentEntry DEF CurrentTask, Entries
  <1>3. CurrentTask(w)' = CurrentTask(w)
    BY <1>1, <1>2 DEF CurrentTask
  <1>4. QED BY <1>2, <1>3 DEF Performed

LEMMA PerformedStep ==
  ASSUME Inv, Performed, [Next]_vars
  PROVE  /\ Performed'
         /\ \A t \in Tasks : effects[t] > 0 => effects'[t] > 0
  <1>1. \A i \in 1..Len(stream) : stream'[i] = stream[i]
    BY StreamGrows
  <1>2. \A t \in Tasks : effects[t] > 0 => effects'[t] > 0
    <2>1. ASSUME NEW w \in Workers, Execute(w)
          PROVE  \A t \in Tasks : effects[t] > 0 => effects'[t] > 0
      <3>1. effects \in [Tasks -> Nat]
        BY DEF Inv, TypeOK
      <3>2. effects' = effects \/ effects' = [effects EXCEPT ![CurrentTask(w)] = @ + 1]
        BY <2>1 DEF Execute
      <3>3. QED BY <3>1, <3>2
    <2>2. CASE effects' = effects
      BY <2>2
    <2>3. QED
      BY <2>1, <2>2
      DEF Next, vars, outcomeVars, Submit, Poll, Recover, Reclaim, Process, Succeed,
          FailLate, Retry, DeadLetter, Forget, Ack, Crash
  <1>3. ASSUME NEW w \in Workers, Execute(w) PROVE Performed'
    <2> DEFINE t == CurrentTask(w)
    <2>1. /\ t' = t /\ batch' = batch /\ stream' = stream
          /\ pc[w] = "execute"
      BY <1>3 DEF Execute, CurrentTask, Current, streamVars
    <2>2. t \in Tasks /\ effects \in [Tasks -> Nat]
      BY <2>1, CurrentEntry DEF CurrentTask, Entries, Inv, TypeOK
    <2> HIDE DEF t
    <2>3. \/ effects' = [effects EXCEPT ![t] = @ + 1]
          \/ pc' = [pc EXCEPT ![w] = "failed"]
      BY <1>3 DEF Execute, Goto, t
    <2>4. pc'[w] = "performed" => effects'[t] > 0
      BY <2>2, <2>3 DEF Inv, TypeOK
    <2>5. \A v \in Workers \ {w} : pc'[v] = pc[v]
      BY <1>3 DEF Execute, Goto, Inv, TypeOK
    <2>6. \A v \in Workers \ {w} : pc'[v] = "performed" => effects'[CurrentTask(v)'] > 0
      BY <1>1, <1>2, <2>1, <2>5, StillPerformed
    <2>7. QED BY <2>1, <2>4, <2>6 DEF Performed, t
  <1>4. ASSUME \A w \in Workers : pc'[w] = "performed"
                  => pc[w] = "performed" /\ batch'[w] = batch[w]
        PROVE  Performed'
    BY <1>1, <1>2, <1>4, StillPerformed DEF Performed
  <1>5. ASSUME ~ \E w \in Workers : Execute(w)
        PROVE  \A w \in Workers : pc'[w] = "performed"
                  => pc[w] = "performed" /\ batch'[w] = batch[w]
    BY <1>5, ZenonT(30)
    DEF Next, vars, workerVars, Goto, Submit, Poll, Recover, Reclaim, Take, Process, Succeed,
        FailLate, Retry, DeadLetter, Forget, Ack, Crash, Inv, TypeOK
  <1>6. QED BY <1>2, <1>3, <1>4, <1>5

\* Nothing but a coordinator brings a task to the stream.
LEMMA OnlyRetriesAppend ==
  ASSUME Inv, [Next]_vars, ~ \E t \in Tasks : Submit(t), NEW i \in 1..Len(stream')
  PROVE  \E j \in 1..Len(stream) : stream'[i].task = stream[j].task
  <1>1. CASE stream' = stream
    BY <1>1
  <1>2. ASSUME NEW w \in Workers, Retry(w)
        PROVE  \E j \in 1..Len(stream) : stream'[i].task = stream[j].task
    <2> DEFINE entry == stream[Current(w)]
               next == [entry EXCEPT !.retry = @ + 1]
    <2>1. pc[w] # "idle" /\ stream' = Append(stream, next)
      BY <1>2 DEF Retry, AppendEntry
    <2>2. Current(w) \in 1..Len(stream) /\ entry \in Entries
      BY <2>1, CurrentEntry
    <2>3. next.task = entry.task
      BY <2>2 DEF Entries
    <2>4. stream \in Seq(Entries)
      BY DEF Inv, TypeOK
    <2> HIDE DEF next
    <2>5. (i \in 1..Len(stream) /\ stream'[i] = stream[i]) \/ stream'[i] = next
      BY <2>1, <2>4
    <2>6. QED BY <2>2, <2>3, <2>5
  <1>3. QED
    BY <1>1, <1>2
    DEF Next, vars, streamVars, Poll, Recover, Reclaim, Process, Execute, Succeed,
        FailLate, DeadLetter, Forget, Ack, Crash

\* Only tasks of the stream are performed.
LEMMA OnlyEntriesPerformed ==
  ASSUME Inv, [Next]_vars, NEW t \in Tasks, effects'[t] > 0
  PROVE  effects[t] > 0 \/ \E j \in 1..Len(stream) : stream[j].task = t
  <1>1. ASSUME NEW w \in Workers, Execute(w)
        PROVE  effects[t] > 0 \/ \E j \in 1..Len(stream) : stream[j].task = t
    <2>1. pc[w] # "idle"
      BY <1>1 DEF Execute
    <2>2. Current(w) \in 1..Len(stream)
      BY <2>1, CurrentEntry
    <2>3. effects' = effects \/ effects' = [effects EXCEPT ![CurrentTask(w)] = @ + 1]
      BY <1>1 DEF Execute
    <2>4. t = CurrentTask(w) \/ effects'[t] = effects[t]
      BY <2>3 DEF Inv, TypeOK
    <2>5. QED BY <2>2, <2>4 DEF CurrentTask
  <1>2. CASE effects' = effects
    BY <1>2
  <1>3. QED
    BY <1>1, <1>2
    DEF Next, vars, outcomeVars, Submit, Poll, Recover, Reclaim, Process, Succeed,
        FailLate, Retry, DeadLetter, Forget, Ack, Crash

-----------------------------------------------------------------------------

\* Why a task is performed again.  What it may still add to its effects is an
\* entry that no worker has read yet, or one in a worker's hand whose action
\* the worker has not performed.
Waiting(t) == {i \in (delivered + 1)..Len(stream) : stream[i].task = t}

Undone(t) ==
  {p \in Workers \X Ids :
     /\ p[2] \in batch[p[1]]
     /\ stream[p[2]].task = t
     /\ ~ (p[2] = Current(p[1]) /\ pc[p[1]] \in {"performed", "ack"})}

FirstEntry(t) == IF Enqueued(t) THEN 1 ELSE 0

\* Each of those, and each effect, has a cause of its own, of which n are
\* entries that somebody else than a worker put on the stream.
CausedBy(t, n) ==
  /\ IsFiniteSet(Undone(t))
  /\ effects[t] + Cardinality(Waiting(t)) + Cardinality(Undone(t))
       <= n + redelivered[t] + lateFailures[t]

EffectsCaused == \A t \in Tasks : CausedBy(t, FirstEntry(t))

LEMMA WaitingFinite ==
  ASSUME Inv, NEW t
  PROVE  IsFiniteSet(Waiting(t)) /\ Cardinality(Waiting(t)) \in Nat
  <1>1. delivered + 1 \in Int /\ Len(stream) \in Int
    BY DEF Inv, TypeOK
  <1>2. IsFiniteSet((delivered + 1)..Len(stream))
    BY <1>1, FS_Interval
  <1>3. Waiting(t) \in SUBSET ((delivered + 1)..Len(stream))
    BY DEF Waiting
  <1>4. QED BY <1>2, <1>3, FS_Subset, FS_CardinalityType

\* The entries J in the hand of worker w.
Column(w, J) == {<<w, j>> : j \in J}

LEMMA ColumnCount ==
  ASSUME NEW w, NEW J, IsFiniteSet(J)
  PROVE  /\ IsFiniteSet(Column(w, J))
         /\ Cardinality(Column(w, J)) = Cardinality(J)
  <1> DEFINE place == [j \in J |-> <<w, j>>]
  <1>1. place \in Bijection(J, Column(w, J))
    <2>1. place \in [J -> Column(w, J)]
      BY DEF Column
    <2>2. \A i, j \in J : place[i] = place[j] => i = j
      OBVIOUS
    <2>3. \A q \in Column(w, J) : \E j \in J : place[j] = q
      BY DEF Column
    <2>4. QED BY <2>1, <2>2, <2>3 DEF Bijection, Injection, Surjection, IsInjective
  <1> HIDE DEF place
  <1>2. QED BY <1>1, FS_Bijection DEF ExistsBijection

LEMMA UnionCount ==
  ASSUME NEW A, IsFiniteSet(A), NEW B, IsFiniteSet(B)
  PROVE  /\ IsFiniteSet(A \cup B)
         /\ Cardinality(A \cup B) \in Nat
         /\ Cardinality(A \cup B) <= Cardinality(A) + Cardinality(B)
  <1>1. /\ IsFiniteSet(A \cup B)
        /\ Cardinality(A \cup B) = Cardinality(A) + Cardinality(B) - Cardinality(A \cap B)
    BY FS_Union
  <1>2. IsFiniteSet(A \cap B)
    BY FS_Intersection
  <1>3. /\ Cardinality(A) \in Nat /\ Cardinality(B) \in Nat
        /\ Cardinality(A \cap B) \in Nat /\ Cardinality(A \cup B) \in Nat
    BY <1>1, <1>2, FS_CardinalityType
  <1>4. QED BY <1>1, <1>3

LEMMA PartCount ==
  ASSUME NEW A, IsFiniteSet(A), NEW B \in SUBSET A
  PROVE  /\ IsFiniteSet(B)
         /\ Cardinality(B) \in Nat
         /\ Cardinality(B) <= Cardinality(A)
         /\ Cardinality(A \ B) = Cardinality(A) - Cardinality(B)
         /\ Cardinality(A) \in Nat
  <1>1. IsFiniteSet(B) /\ Cardinality(B) <= Cardinality(A)
    BY FS_Subset
  <1>2. Cardinality(A) \in Nat /\ Cardinality(B) \in Nat
    BY <1>1, FS_CardinalityType
  <1>3. Cardinality(A \ B) = Cardinality(A) - Cardinality(A \cap B)
    BY <1>1, FS_Difference
  <1>4. A \cap B = B
    OBVIOUS
  <1>5. QED BY <1>1, <1>2, <1>3, <1>4

LEMMA SingleCount == \A x : IsFiniteSet({x}) /\ Cardinality({x}) = 1
  BY FS_Singleton

\* The parts of the count are numbers.
LEMMA Counts ==
  ASSUME Inv, NEW t \in Tasks, IsFiniteSet(Undone(t))
  PROVE  /\ effects[t] \in Nat /\ redelivered[t] \in Nat /\ lateFailures[t] \in Nat
         /\ Cardinality(Waiting(t)) \in Nat /\ Cardinality(Undone(t)) \in Nat
  BY WaitingFinite, FS_CardinalityType DEF Inv, TypeOK

\* The count of a step, from what it does to the two sets.
LEMMA Balance ==
  ASSUME Inv, Inv', NEW t \in Tasks, NEW n \in Nat, NEW m \in Nat, CausedBy(t, n),
         NEW more \in Nat, NEW less \in Nat,
         IsFiniteSet(Undone(t)'),
         effects'[t] + Cardinality(Waiting(t)') + Cardinality(Undone(t)') + less
           <= effects[t] + Cardinality(Waiting(t)) + Cardinality(Undone(t)) + more,
         n + redelivered[t] + lateFailures[t] + more
           <= m + redelivered'[t] + lateFailures'[t] + less
  PROVE  CausedBy(t, m)'
  <1>1. /\ effects[t] \in Nat /\ effects'[t] \in Nat
        /\ redelivered[t] \in Nat /\ redelivered'[t] \in Nat
        /\ lateFailures[t] \in Nat /\ lateFailures'[t] \in Nat
    BY DEF Inv, TypeOK
  <1>2. IsFiniteSet(Undone(t))
    BY DEF CausedBy
  <1>3. Cardinality(Undone(t)) \in Nat /\ Cardinality(Undone(t)') \in Nat
    BY <1>2, FS_CardinalityType
  <1>4. Cardinality(Waiting(t)) \in Nat
    BY WaitingFinite
  <1>5. Cardinality(Waiting(t)') \in Nat
    <2>1. delivered' + 1 \in Int /\ Len(stream') \in Int
      BY DEF Inv, TypeOK
    <2>2. IsFiniteSet((delivered' + 1)..Len(stream'))
      BY <2>1, FS_Interval
    <2>3. Waiting(t)' \in SUBSET ((delivered' + 1)..Len(stream'))
      BY DEF Waiting
    <2>4. QED BY <2>2, <2>3, FS_Subset, FS_CardinalityType
  <1>6. effects[t] + Cardinality(Waiting(t)) + Cardinality(Undone(t))
          <= n + redelivered[t] + lateFailures[t]
    BY DEF CausedBy
  <1>7. effects'[t] + Cardinality(Waiting(t)') + Cardinality(Undone(t)')
          <= m + redelivered'[t] + lateFailures'[t]
    BY <1>1, <1>3, <1>4, <1>5, <1>6
  <1>8. QED BY <1>7 DEF CausedBy

\* A new entry waits.
LEMMA Appending ==
  ASSUME Inv, NEW entry, AppendEntry(entry), delivered' = delivered, NEW t \in Tasks
  PROVE  /\ entry.task = t =>
              /\ Cardinality(Waiting(t)') <= Cardinality(Waiting(t)) + 1
              /\ Cardinality(Waiting(t)') \in Nat
         /\ entry.task # t => Waiting(t)' = Waiting(t)
  <1> DEFINE n == Len(stream) + 1
  <1>1. /\ stream \in Seq(Entries) /\ Len(stream) \in Nat
        /\ delivered \in 0..Len(stream)
    BY DEF Inv, TypeOK
  <1>2. /\ Len(stream') = n /\ stream'[n] = entry
        /\ \A i \in 1..Len(stream) : stream'[i] = stream[i]
    BY <1>1 DEF AppendEntry
  <1>3. CASE entry.task = t
    <2>1. Waiting(t)' = Waiting(t) \cup {n}
      <3>1. ASSUME NEW i PROVE i \in Waiting(t)' <=> i \in Waiting(t) \cup {n}
        BY <1>1, <1>2, <1>3 DEF Waiting
      <3>2. QED BY <3>1
    <2> HIDE DEF n
    <2>2. IsFiniteSet(Waiting(t)) /\ IsFiniteSet({n}) /\ Cardinality({n}) = 1
      BY WaitingFinite, SingleCount
    <2>3. /\ Cardinality(Waiting(t) \cup {n}) <= Cardinality(Waiting(t)) + Cardinality({n})
          /\ Cardinality(Waiting(t) \cup {n}) \in Nat
      BY <2>2, UnionCount
    <2>4. QED BY <1>3, <2>1, <2>2, <2>3
  <1>4. CASE entry.task # t
    <2>1. ASSUME NEW i PROVE i \in Waiting(t)' <=> i \in Waiting(t)
      BY <1>1, <1>2, <1>4 DEF Waiting
    <2>2. QED BY <1>4, <2>1
  <1>5. QED BY <1>3, <1>4

\* What is put on the stream from outside is one cause more.
LEMMA CausesAppend ==
  ASSUME Inv, Inv', NEW s \in Tasks, AppendEntry([task |-> s, retry |-> 0]),
         UNCHANGED <<delivered, batch, pc, effects, redelivered, lateFailures>>,
         NEW t \in Tasks, NEW n \in Nat, CausedBy(t, n)
  PROVE  CausedBy(t, IF s = t THEN n + 1 ELSE n)'
  <1> DEFINE entry == [task |-> s, retry |-> 0]
  <1>1. AppendEntry(entry) /\ entry.task = s
    OBVIOUS
  <1> HIDE DEF entry
  <1>2. IsFiniteSet(Undone(t))
    BY DEF CausedBy
  <1>3. Undone(t)' = Undone(t)
    <2>1. ASSUME NEW v \in Workers, NEW i \in batch[v] PROVE stream'[i] = stream[i]
      <3>1. i \in 1..Len(stream) /\ stream \in Seq(Entries)
        BY DEF Inv, InHand, TypeOK, Delivered
      <3>2. QED BY <1>1, <3>1 DEF AppendEntry
    <2>2. QED BY <2>1 DEF Undone, Current
  <1>4. /\ s = t => Cardinality(Waiting(t)') <= Cardinality(Waiting(t)) + 1
                    /\ Cardinality(Waiting(t)') \in Nat
        /\ s # t => Waiting(t)' = Waiting(t)
    BY <1>1, Appending
  <1>5. PICK more \in Nat : more = IF s = t THEN 1 ELSE 0
    OBVIOUS
  <1>6. PICK m \in Nat : m = IF s = t THEN n + 1 ELSE n
    OBVIOUS
  <1>7. effects'[t] + Cardinality(Waiting(t)') + Cardinality(Undone(t)') + 0
          <= effects[t] + Cardinality(Waiting(t)) + Cardinality(Undone(t)) + more
    BY <1>2, <1>3, <1>4, <1>5, Counts
  <1>8. n + redelivered[t] + lateFailures[t] + more
          <= m + redelivered'[t] + lateFailures'[t] + 0
    BY <1>2, <1>5, <1>6, Counts
  <1>9. 0 \in Nat /\ IsFiniteSet(Undone(t)')
    BY <1>2, <1>3
  <1>10. CausedBy(t, m)'
    BY <1>7, <1>8, <1>9, Balance
  <1>11. QED BY <1>6, <1>10

\* More entries from outside do no harm.
LEMMA CausesMore ==
  ASSUME Inv, NEW t \in Tasks, NEW n \in Nat, NEW m \in Nat, n <= m, CausedBy(t, n)
  PROVE  CausedBy(t, m)
  <1>1. IsFiniteSet(Undone(t))
    BY DEF CausedBy
  <1>2. QED BY <1>1, Counts DEF CausedBy

LEMMA EffectsBounded ==
  ASSUME Inv, NEW t \in Tasks, NEW n \in Nat, CausedBy(t, n)
  PROVE  effects[t] <= n + redelivered[t] + lateFailures[t]
  <1>1. IsFiniteSet(Undone(t))
    BY DEF CausedBy
  <1>2. QED BY <1>1, Counts DEF CausedBy

\* What the workers have in hand is of the stream, whose entries stay.
LEMMA HandStays ==
  ASSUME Inv, [Next]_vars, NEW w \in Workers, NEW i \in batch[w]
  PROVE  stream'[i] = stream[i]
  <1>1. i \in 1..Len(stream)
    BY DEF Inv, InHand, TypeOK, Delivered
  <1>2. QED BY <1>1, StreamGrows

\* A worker moves on with the entry it is at.
LEMMA MovesOn ==
  ASSUME Inv, [Next]_vars, NEW w \in Workers, pc[w] # "idle", batch' = batch,
         NEW step \in {"performed", "ack", "failed"}, Goto(w, step), NEW t \in Tasks
  PROVE  /\ step # "failed" => Undone(t)' = Undone(t) \ {<<w, Current(w)>>}
         /\ step = "failed" /\ CurrentTask(w) = t
              => Undone(t)' = Undone(t) \cup {<<w, Current(w)>>}
         /\ step = "failed" /\ CurrentTask(w) # t => Undone(t)' = Undone(t)
         /\ pc[w] \notin {"performed", "ack"} /\ CurrentTask(w) = t
              => <<w, Current(w)>> \in Undone(t)
         /\ CurrentTask(w) # t => <<w, Current(w)>> \notin Undone(t)
  <1> DEFINE token == <<w, Current(w)>>
  <1>1. \A v \in Workers : Current(v)' = Current(v)
    BY DEF Current
  <1>2. \A v \in Workers : pc'[v] = IF v = w THEN step ELSE pc[v]
    BY DEF Goto, Inv, TypeOK
  <1>3. Current(w) \in batch[w] /\ Current(w) \in Ids
    BY CurrentEntry
  <1>4. \A v \in Workers : \A i \in batch[v] : stream'[i] = stream[i]
    BY HandStays
  <1>5. ASSUME NEW v \in Workers, NEW i \in Ids
        PROVE  /\ <<v, i>> \in Undone(t) <=>
                    /\ i \in batch[v] /\ stream[i].task = t
                    /\ ~ (i = Current(v) /\ pc[v] \in {"performed", "ack"})
               /\ <<v, i>> \in Undone(t)' <=>
                    /\ i \in batch[v] /\ stream[i].task = t
                    /\ ~ (i = Current(v) /\ pc'[v] \in {"performed", "ack"})
    BY <1>1, <1>4 DEF Undone
  <1>6. Undone(t) \subseteq Workers \X Ids /\ Undone(t)' \subseteq Workers \X Ids
    BY DEF Undone
  <1>7. CASE step # "failed"
    <2>1. ASSUME NEW v \in Workers, NEW i \in Ids
          PROVE  <<v, i>> \in Undone(t)' <=> <<v, i>> \in Undone(t) \ {token}
      BY <1>2, <1>5, <1>7
    <2>2. Undone(t)' = Undone(t) \ {token}
      BY <1>6, <2>1
    <2>3. QED BY <1>3, <1>5, <1>7, <2>2 DEF CurrentTask
  <1>8. CASE step = "failed" /\ CurrentTask(w) = t
    <2>1. ASSUME NEW v \in Workers, NEW i \in Ids
          PROVE  <<v, i>> \in Undone(t)' <=> <<v, i>> \in Undone(t) \cup {token}
      BY <1>2, <1>3, <1>5, <1>8 DEF CurrentTask
    <2>2. token \in Workers \X Ids
      BY <1>3
    <2>3. Undone(t)' = Undone(t) \cup {token}
      BY <1>6, <2>1, <2>2
    <2>4. QED BY <1>3, <1>5, <1>8, <2>3 DEF CurrentTask
  <1>9. CASE step = "failed" /\ CurrentTask(w) # t
    <2>1. ASSUME NEW v \in Workers, NEW i \in Ids
          PROVE  <<v, i>> \in Undone(t)' <=> <<v, i>> \in Undone(t)
      BY <1>2, <1>3, <1>5, <1>9 DEF CurrentTask
    <2>2. Undone(t)' = Undone(t)
      BY <1>6, <2>1
    <2>3. QED BY <1>3, <1>5, <1>9, <2>2 DEF CurrentTask
  <1>10. QED BY <1>7, <1>8, <1>9

\* A worker without a batch takes one.
LEMMA Taking ==
  ASSUME Inv, [Next]_vars, NEW w \in Workers, pc[w] = "idle", NEW ids \in SUBSET Ids,
         Take(w, ids), stream' = stream, NEW t \in Tasks,
         IsFiniteSet(Undone(t))
  PROVE  LET J == {i \in ids : stream[i].task = t} IN
           /\ IsFiniteSet(J) /\ Cardinality(J) \in Nat
           /\ IsFiniteSet(Undone(t)')
           /\ Cardinality(Undone(t)') <= Cardinality(Undone(t)) + Cardinality(J)
  <1> DEFINE J == {i \in ids : stream[i].task = t}
  <1>1. /\ \A v \in Workers : pc'[v] = IF v = w THEN "execute" ELSE pc[v]
        /\ \A v \in Workers : batch'[v] = IF v = w THEN ids ELSE batch[v]
        /\ batch[w] = {}
    BY DEF Take, Goto, Inv, TypeOK, InHand
  <1>2. \A v \in Workers \ {w} : Current(v)' = Current(v)
    BY <1>1 DEF Current
  <1>3. ASSUME NEW v \in Workers, NEW i \in Ids
        PROVE  <<v, i>> \in Undone(t)' <=> <<v, i>> \in Undone(t) \cup Column(w, J)
    <2>1. CASE v = w
      BY <1>1, <2>1 DEF Undone, Column
    <2>2. CASE v # w
      BY <1>1, <1>2, <2>2 DEF Undone, Column
    <2>3. QED BY <2>1, <2>2
  <1>4. Undone(t)' = Undone(t) \cup Column(w, J)
    <2>1. Undone(t) \cup Column(w, J) \subseteq Workers \X Ids
      BY DEF Undone, Column
    <2>2. Undone(t)' \subseteq Workers \X Ids
      BY DEF Undone
    <2>3. QED BY <1>3, <2>1, <2>2
  <1>5. IsFiniteSet(J) /\ Cardinality(J) \in Nat
    <2>1. IsFiniteSet(1..MaxEntries)
      BY FS_Interval, StreamAssumption
    <2>2. J \in SUBSET (1..MaxEntries)
      BY DEF Ids
    <2>3. QED BY <2>1, <2>2, FS_Subset, FS_CardinalityType
  <1> HIDE DEF J
  <1>6. IsFiniteSet(Column(w, J)) /\ Cardinality(Column(w, J)) = Cardinality(J)
    BY <1>5, ColumnCount
  <1>7. /\ IsFiniteSet(Undone(t) \cup Column(w, J))
        /\ Cardinality(Undone(t) \cup Column(w, J))
             <= Cardinality(Undone(t)) + Cardinality(Column(w, J))
    BY <1>6, UnionCount
  <1>8. QED BY <1>4, <1>5, <1>6, <1>7 DEF J

LEMMA CausedInit == Init => \A t \in Tasks, n \in Nat : CausedBy(t, n)
  <1> SUFFICES ASSUME Init, NEW t \in Tasks, NEW n \in Nat PROVE CausedBy(t, n)
    OBVIOUS
  <1>1. Waiting(t) = {} /\ Undone(t) = {}
    BY DEF Init, Waiting, Undone
  <1>2. effects[t] = 0 /\ redelivered[t] = 0 /\ lateFailures[t] = 0
    BY DEF Init
  <1>3. IsFiniteSet({}) /\ Cardinality({}) = 0
    BY FS_EmptySet
  <1>4. QED BY <1>1, <1>2, <1>3 DEF CausedBy

\* The entries that a worker takes over count as handed out again.
LEMMA TakenOver ==
  ASSUME Inv, Inv', [Next]_vars, NEW w \in Workers, pc[w] = "idle",
         NEW ids \in SUBSET Ids, Take(w, ids), CountRedelivered(ids),
         UNCHANGED <<stream, delivered, effects, lateFailures>>,
         NEW t \in Tasks, NEW n \in Nat, CausedBy(t, n)
  PROVE  CausedBy(t, n)'
  <1> DEFINE J == {i \in ids : stream[i].task = t}
  <1>1. IsFiniteSet(Undone(t))
    BY DEF CausedBy
  <1>2. /\ IsFiniteSet(J) /\ Cardinality(J) \in Nat
        /\ IsFiniteSet(Undone(t)')
        /\ Cardinality(Undone(t)') <= Cardinality(Undone(t)) + Cardinality(J)
    BY <1>1, Taking
  <1>3. redelivered'[t] = redelivered[t] + Cardinality(J)
    BY DEF CountRedelivered
  <1>4. Waiting(t)' = Waiting(t)
    BY DEF Waiting
  <1> HIDE DEF J
  <1>5. PICK more \in Nat : more = Cardinality(J)
    BY <1>2
  <1>6. /\ Cardinality(Undone(t)) \in Nat /\ Cardinality(Undone(t)') \in Nat
        /\ Cardinality(Waiting(t)) \in Nat
        /\ effects[t] \in Nat /\ redelivered[t] \in Nat /\ lateFailures[t] \in Nat
    BY <1>1, <1>2, WaitingFinite, FS_CardinalityType DEF Inv, TypeOK
  <1>7. effects'[t] + Cardinality(Waiting(t)') + Cardinality(Undone(t)') + 0
          <= effects[t] + Cardinality(Waiting(t)) + Cardinality(Undone(t)) + more
    BY <1>2, <1>4, <1>5, <1>6
  <1>8. n + redelivered[t] + lateFailures[t] + more
          <= n + redelivered'[t] + lateFailures'[t] + 0
    BY <1>3, <1>4, <1>5, <1>6
  <1>9. 0 \in Nat
    OBVIOUS
  <1>10. QED BY <1>2, <1>7, <1>8, <1>9, Balance

\* No step of a worker makes a cause needed that it does not count.
LEMMA CausesStay ==
  ASSUME Inv, [Next]_vars, ~ \E s \in Tasks : Submit(s),
         NEW t \in Tasks, NEW n \in Nat, CausedBy(t, n)
  PROVE  CausedBy(t, n)'
  <1>1. Inv'
    BY InvStep
  <1>2. IsFiniteSet(Undone(t))
    BY DEF CausedBy
  <1>3. /\ Cardinality(Undone(t)) \in Nat
        /\ Cardinality(Waiting(t)) \in Nat
        /\ effects[t] \in Nat /\ redelivered[t] \in Nat /\ lateFailures[t] \in Nat
    BY <1>2, WaitingFinite, FS_CardinalityType DEF Inv, TypeOK
  <1>4. 0 \in Nat /\ 1 \in Nat
    OBVIOUS
  \* A step that only takes work out of the workers' hands.
  <1>5. ASSUME Undone(t)' \subseteq Undone(t), Waiting(t)' = Waiting(t),
               UNCHANGED <<stream, effects, redelivered>>,
               lateFailures'[t] = lateFailures[t]
        PROVE  CausedBy(t, n)'
    <2>1. /\ IsFiniteSet(Undone(t)') /\ Cardinality(Undone(t)') \in Nat
          /\ Cardinality(Undone(t)') <= Cardinality(Undone(t))
      BY <1>2, <1>5, PartCount
    <2>2. effects'[t] + Cardinality(Waiting(t)') + Cardinality(Undone(t)') + 0
            <= effects[t] + Cardinality(Waiting(t)) + Cardinality(Undone(t)) + 0
      BY <1>3, <1>5, <2>1
    <2>3. n + redelivered[t] + lateFailures[t] + 0
            <= n + redelivered'[t] + lateFailures'[t] + 0
      BY <1>3, <1>5
    <2>4. QED BY <1>1, <1>4, <2>1, <2>2, <2>3, Balance
  <1>6. ASSUME NEW w \in Workers, Poll(w) PROVE CausedBy(t, n)'
    <2> DEFINE upTo == Min({delivered + BatchSize, Len(stream)})
               ids == (delivered + 1)..upTo
               J == {i \in ids : stream[i].task = t}
    <2>1. /\ pc[w] = "idle" /\ delivered' = upTo /\ Take(w, ids)
          /\ UNCHANGED <<stream, effects, redelivered, lateFailures>>
      BY <1>6 DEF Poll, outcomeVars, counters
    <2>2. /\ upTo \in Int /\ upTo <= Len(stream) /\ delivered \in Nat /\ delivered <= upTo
          /\ Len(stream) \in Nat /\ Len(stream) <= MaxEntries /\ MaxEntries \in Nat
      <3>1. /\ delivered + BatchSize \in Int /\ Len(stream) \in Nat
            /\ Len(stream) <= MaxEntries /\ MaxEntries \in Nat
            /\ delivered \in Nat /\ delivered <= Len(stream) /\ BatchSize \in Nat
        BY StreamAssumption DEF Inv, TypeOK
      <3>2. /\ delivered + BatchSize \in Int /\ Len(stream) \in Int
            /\ delivered <= delivered + BatchSize
        BY <3>1
      <3>3. upTo \in {delivered + BatchSize, Len(stream)} /\ upTo <= Len(stream)
        BY <3>2, MinOfTwo
      <3> HIDE DEF upTo
      <3>4. QED BY <3>1, <3>2, <3>3
    <2> HIDE DEF upTo
    <2>3. ids \in SUBSET Ids
      BY <2>2 DEF Ids
    <2> HIDE DEF ids
    <2>4. /\ IsFiniteSet(J) /\ Cardinality(J) \in Nat
          /\ IsFiniteSet(Undone(t)')
          /\ Cardinality(Undone(t)') <= Cardinality(Undone(t)) + Cardinality(J)
      BY <1>2, <2>1, <2>3, Taking
    <2>5. J \in SUBSET Waiting(t) /\ Waiting(t)' = Waiting(t) \ J
      BY <2>1, <2>2 DEF Waiting, ids
    <2> HIDE DEF J
    <2>6. /\ Cardinality(Waiting(t) \ J) = Cardinality(Waiting(t)) - Cardinality(J)
      BY <2>5, WaitingFinite, PartCount
    <2>7. Cardinality(Undone(t)') \in Nat
      BY <2>4, FS_CardinalityType
    <2>8. effects'[t] + Cardinality(Waiting(t)') + Cardinality(Undone(t)') + 0
            <= effects[t] + Cardinality(Waiting(t)) + Cardinality(Undone(t)) + 0
      BY <1>3, <2>1, <2>4, <2>5, <2>6, <2>7
    <2>9. n + redelivered[t] + lateFailures[t] + 0
            <= n + redelivered'[t] + lateFailures'[t] + 0
      BY <1>3, <2>1
    <2>10. QED BY <1>1, <1>4, <2>4, <2>8, <2>9, Balance
  <1>7. ASSUME NEW w \in Workers, Recover(w) PROVE CausedBy(t, n)'
    <2> DEFINE ids == {i \in Pending : owner[i] = NameOf[w]}
    <2>1. /\ pc[w] = "idle" /\ Take(w, ids) /\ CountRedelivered(ids)
          /\ UNCHANGED <<stream, delivered, effects, lateFailures>>
      BY <1>7 DEF Recover, streamVars, outcomeVars
    <2>2. ids \in SUBSET Ids
      BY DEF Pending
    <2> HIDE DEF ids
    <2>3. QED BY <1>1, <2>1, <2>2, TakenOver
  <1>8. ASSUME NEW w \in Workers, Reclaim(w) PROVE CausedBy(t, n)'
    <2>1. PICK ids \in (SUBSET Pending) \ {{}} : Take(w, ids) /\ CountRedelivered(ids)
      BY <1>8 DEF Reclaim
    <2>2. pc[w] = "idle" /\ UNCHANGED <<stream, delivered, effects, lateFailures>>
      BY <1>8 DEF Reclaim, outcomeVars
    <2>3. ids \in SUBSET Ids
      BY DEF Pending
    <2>4. QED BY <1>1, <2>1, <2>2, <2>3, TakenOver
  <1>9. ASSUME NEW w \in Workers, Execute(w) PROVE CausedBy(t, n)'
    <2> DEFINE token == <<w, Current(w)>>
    <2>1. /\ pc[w] = "execute" /\ batch' = batch
          /\ UNCHANGED <<stream, delivered, redelivered, lateFailures>>
      BY <1>9 DEF Execute, streamVars, counters
    <2>2. Waiting(t)' = Waiting(t)
      BY <2>1 DEF Waiting
    <2>3. CurrentTask(w) \in Tasks
      BY <2>1, CurrentEntry DEF CurrentTask, Entries
    <2>4. CASE effects' = [effects EXCEPT ![CurrentTask(w)] = @ + 1] /\ Goto(w, "performed")
      <3>1. /\ Undone(t)' = Undone(t) \ {token}
            /\ CurrentTask(w) = t => token \in Undone(t)
            /\ CurrentTask(w) # t => token \notin Undone(t)
        BY <2>1, <2>4, MovesOn
      <3>2. effects'[t] = IF CurrentTask(w) = t THEN effects[t] + 1 ELSE effects[t]
        BY <2>3, <2>4 DEF Inv, TypeOK
      <3> HIDE DEF token
      <3>3. CASE CurrentTask(w) = t
        <4>1. IsFiniteSet({token}) /\ Cardinality({token}) = 1
          BY SingleCount
        <4>2. {token} \in SUBSET Undone(t)
          BY <3>1, <3>3
        <4>3. /\ Cardinality(Undone(t) \ {token}) = Cardinality(Undone(t)) - Cardinality({token})
          BY <1>2, <4>2, PartCount
        <4>4. Undone(t) \ {token} \in SUBSET Undone(t)
          OBVIOUS
        <4>5. IsFiniteSet(Undone(t)')
          BY <1>2, <3>1, <4>4, PartCount
        <4>6. effects'[t] + Cardinality(Waiting(t)') + Cardinality(Undone(t)') + 0
                <= effects[t] + Cardinality(Waiting(t)) + Cardinality(Undone(t)) + 0
          BY <1>3, <2>2, <3>1, <3>2, <3>3, <4>1, <4>3
        <4>7. n + redelivered[t] + lateFailures[t] + 0
                <= n + redelivered'[t] + lateFailures'[t] + 0
          BY <1>3, <2>1, <2>2
        <4>8. QED BY <1>1, <1>4, <4>5, <4>6, <4>7, Balance
      <3>4. CASE CurrentTask(w) # t
        <4>1. Undone(t)' = Undone(t)
          BY <3>1, <3>4
        <4>2. effects'[t] + Cardinality(Waiting(t)') + Cardinality(Undone(t)') + 0
                <= effects[t] + Cardinality(Waiting(t)) + Cardinality(Undone(t)) + 0
          BY <1>3, <2>2, <3>2, <3>4, <4>1
        <4>3. n + redelivered[t] + lateFailures[t] + 0
                <= n + redelivered'[t] + lateFailures'[t] + 0
          BY <1>3, <2>1, <2>2
        <4>4. IsFiniteSet(Undone(t)')
          BY <1>2, <4>1
        <4>5. QED BY <1>1, <1>4, <4>2, <4>3, <4>4, Balance
      <3>5. QED BY <3>3, <3>4
    <2>5. CASE Goto(w, "failed") /\ effects' = effects
      <3>1. /\ CurrentTask(w) = t =>
                 Undone(t)' = Undone(t) \cup {token} /\ token \in Undone(t)
            /\ CurrentTask(w) # t => Undone(t)' = Undone(t)
        BY <2>1, <2>5, MovesOn
      <3>2. Undone(t)' \subseteq Undone(t)
        BY <3>1
      <3>3. QED BY <1>5, <2>1, <2>2, <2>5, <3>2
    <2>6. QED BY <1>9, <2>4, <2>5 DEF Execute
  <1>10. ASSUME NEW w \in Workers, FailLate(w) PROVE CausedBy(t, n)'
    <2> DEFINE token == <<w, Current(w)>>
    <2>1. /\ pc[w] = "performed" /\ batch' = batch /\ Goto(w, "failed")
          /\ UNCHANGED <<stream, delivered, effects, redelivered>>
          /\ lateFailures' = [lateFailures EXCEPT ![CurrentTask(w)] = @ + 1]
      BY <1>10 DEF FailLate, streamVars, outcomeVars
    <2>2. Waiting(t)' = Waiting(t)
      BY <2>1 DEF Waiting
    <2>3. CurrentTask(w) \in Tasks
      BY <2>1, CurrentEntry DEF CurrentTask, Entries
    <2>4. /\ CurrentTask(w) = t => Undone(t)' = Undone(t) \cup {token}
          /\ CurrentTask(w) # t => Undone(t)' = Undone(t)
      BY <2>1, MovesOn
    <2>5. lateFailures'[t] = IF CurrentTask(w) = t THEN lateFailures[t] + 1 ELSE lateFailures[t]
      BY <2>1, <2>3 DEF Inv, TypeOK
    <2> HIDE DEF token
    <2>6. CASE CurrentTask(w) # t
      BY <1>5, <2>1, <2>2, <2>4, <2>5, <2>6
    <2>7. CASE CurrentTask(w) = t
      <3>1. IsFiniteSet({token}) /\ Cardinality({token}) = 1
        BY SingleCount
      <3>2. /\ IsFiniteSet(Undone(t) \cup {token})
            /\ Cardinality(Undone(t) \cup {token}) \in Nat
            /\ Cardinality(Undone(t) \cup {token}) <= Cardinality(Undone(t)) + Cardinality({token})
        BY <1>2, <3>1, UnionCount
      <3>3. effects'[t] + Cardinality(Waiting(t)') + Cardinality(Undone(t)') + 0
              <= effects[t] + Cardinality(Waiting(t)) + Cardinality(Undone(t)) + 1
        BY <1>3, <2>1, <2>2, <2>4, <2>7, <3>1, <3>2
      <3>4. n + redelivered[t] + lateFailures[t] + 1
              <= n + redelivered'[t] + lateFailures'[t] + 0
        BY <1>3, <2>1, <2>2, <2>5, <2>7
      <3>5. IsFiniteSet(Undone(t)')
        BY <2>4, <2>7, <3>2
      <3>6. QED BY <1>1, <1>4, <3>3, <3>4, <3>5, Balance
    <2>8. QED BY <2>6, <2>7
  <1>11. ASSUME NEW w \in Workers, Retry(w) PROVE CausedBy(t, n)'
    <2> DEFINE token == <<w, Current(w)>>
               entry == [stream[Current(w)] EXCEPT !.retry = @ + 1]
    <2>1. /\ pc[w] = "failed" /\ batch' = batch /\ Goto(w, "ack")
          /\ AppendEntry(entry) /\ delivered' = delivered
          /\ UNCHANGED <<effects, redelivered, lateFailures>>
      BY <1>11 DEF Retry, counters
    <2>2. entry.task = CurrentTask(w)
      BY <2>1, CurrentEntry DEF CurrentTask, Entries
    <2> HIDE DEF entry
    <2>3. /\ CurrentTask(w) = t =>
               /\ Cardinality(Waiting(t)') <= Cardinality(Waiting(t)) + 1
               /\ Cardinality(Waiting(t)') \in Nat
          /\ CurrentTask(w) # t => Waiting(t)' = Waiting(t)
      BY <2>1, <2>2, Appending
    <2>4. /\ Undone(t)' = Undone(t) \ {token}
          /\ CurrentTask(w) = t => token \in Undone(t)
      BY <2>1, MovesOn
    <2> HIDE DEF token
    <2>5. Undone(t) \ {token} \in SUBSET Undone(t)
      OBVIOUS
    <2>6. /\ IsFiniteSet(Undone(t)') /\ Cardinality(Undone(t)') \in Nat
          /\ Cardinality(Undone(t)') <= Cardinality(Undone(t))
      BY <1>2, <2>4, <2>5, PartCount
    <2>7. CurrentTask(w) = t => Cardinality(Undone(t)') = Cardinality(Undone(t)) - 1
      <3>1. Cardinality({token}) = 1
        BY SingleCount
      <3>2. ASSUME CurrentTask(w) = t
            PROVE  Cardinality(Undone(t) \ {token}) = Cardinality(Undone(t)) - Cardinality({token})
        <4>1. {token} \in SUBSET Undone(t)
          BY <2>4, <3>2
        <4>2. QED BY <1>2, <4>1, PartCount
      <3>3. QED BY <2>4, <3>1, <3>2
    <2>8. effects'[t] + Cardinality(Waiting(t)') + Cardinality(Undone(t)') + 0
            <= effects[t] + Cardinality(Waiting(t)) + Cardinality(Undone(t)) + 0
      BY <1>3, <2>1, <2>3, <2>6, <2>7
    <2>9. n + redelivered[t] + lateFailures[t] + 0
            <= n + redelivered'[t] + lateFailures'[t] + 0
      BY <1>3, <2>1
    <2>10. QED BY <1>1, <1>4, <2>6, <2>8, <2>9, Balance
  <1>12. ASSUME NEW w \in Workers, Succeed(w) \/ DeadLetter(w) \/ Forget(w)
         PROVE  CausedBy(t, n)'
    <2>1. /\ pc[w] # "idle" /\ batch' = batch /\ Goto(w, "ack")
          /\ UNCHANGED <<stream, delivered, effects, redelivered, lateFailures>>
      BY <1>12 DEF Succeed, DeadLetter, Forget, streamVars, outcomeVars, counters
    <2>2. Undone(t)' = Undone(t) \ {<<w, Current(w)>>}
      BY <2>1, MovesOn
    <2>3. Undone(t)' \subseteq Undone(t)
      BY <2>2
    <2>4. Waiting(t)' = Waiting(t)
      BY <2>1 DEF Waiting
    <2>5. QED BY <1>5, <2>1, <2>3, <2>4
  <1>13. ASSUME NEW w \in Workers, Ack(w) \/ Crash(w) PROVE CausedBy(t, n)'
    <2>1. UNCHANGED <<stream, delivered, effects, redelivered, lateFailures>>
      BY <1>13 DEF Ack, Crash, streamVars, outcomeVars, counters
    <2>2. ASSUME NEW v \in Workers \ {w}
          PROVE  batch'[v] = batch[v] /\ pc'[v] = pc[v] /\ Current(v)' = Current(v)
      BY <1>13 DEF Ack, Crash, Goto, Current, Inv, TypeOK
    <2>3. \/ batch'[w] = {}
          \/ batch'[w] = batch[w] \ {Current(w)}
      BY <1>13 DEF Ack, Crash, Inv, TypeOK
    <2>4. Undone(t)' \subseteq Undone(t)
      <3>1. ASSUME NEW v \in Workers, NEW i \in Ids, <<v, i>> \in Undone(t)'
            PROVE  <<v, i>> \in Undone(t)
        <4>1. CASE v = w
          BY <2>1, <2>3, <3>1, <4>1 DEF Undone
        <4>2. CASE v # w
          BY <2>1, <2>2, <3>1, <4>2 DEF Undone
        <4>3. QED BY <4>1, <4>2
      <3>2. Undone(t)' \subseteq Workers \X Ids
        BY DEF Undone
      <3>3. QED BY <3>1, <3>2
    <2>5. Waiting(t)' = Waiting(t)
      BY <2>1 DEF Waiting
    <2>6. QED BY <1>5, <2>1, <2>4, <2>5
  <1>14. CASE UNCHANGED vars
    <2>1. /\ UNCHANGED <<stream, delivered, effects, redelivered, lateFailures, batch, pc>>
      BY <1>14 DEF vars, streamVars, workerVars, outcomeVars, counters
    <2>2. Undone(t)' = Undone(t) /\ Waiting(t)' = Waiting(t)
      BY <2>1 DEF Undone, Waiting, Current
    <2>3. QED BY <1>5, <2>1, <2>2
  <1>15. QED
    BY <1>6, <1>7, <1>8, <1>9, <1>10, <1>11, <1>12, <1>13, <1>14 DEF Next, Process

LEMMA EnqueuedStays ==
  ASSUME Inv, [Next]_vars, NEW t
  PROVE  Enqueued(t) => Enqueued(t)'
  <1>1. /\ Len(stream) <= Len(stream')
        /\ \A i \in 1..Len(stream) : stream'[i] = stream[i]
    BY StreamGrows
  <1>2. Len(stream) \in Nat /\ DOMAIN stream = 1..Len(stream)
    BY DEF Inv, TypeOK
  <1>3. Len(stream') \in Nat /\ DOMAIN stream' = 1..Len(stream')
    BY InvStep DEF Inv, TypeOK
  <1>4. QED BY <1>1, <1>2, <1>3 DEF Enqueued

LEMMA NowEnqueued ==
  ASSUME Inv, NEW s \in Tasks, AppendEntry([task |-> s, retry |-> 0])
  PROVE  Enqueued(s)'
  <1>1. stream \in Seq(Entries) /\ stream' = Append(stream, [task |-> s, retry |-> 0])
    BY DEF AppendEntry, Inv, TypeOK
  <1>2. Len(stream') \in 1..Len(stream') /\ stream'[Len(stream')] = [task |-> s, retry |-> 0]
    BY <1>1
  <1>3. QED BY <1>2 DEF Enqueued

LEMMA EffectsCausedInit == Init => EffectsCaused
  BY CausedInit DEF EffectsCaused, FirstEntry

\* A submission is a first entry.
LEMMA EffectsCausedStep ==
  ASSUME Inv, EffectsCaused, [Next]_vars
  PROVE  EffectsCaused'
  <1> SUFFICES ASSUME NEW t \in Tasks PROVE CausedBy(t, FirstEntry(t))'
    BY DEF EffectsCaused
  <1>1. Inv'
    BY InvStep
  <1>2. PICK n \in Nat : n = FirstEntry(t)
    BY DEF FirstEntry
  <1>3. PICK m \in Nat : m = FirstEntry(t)'
    BY DEF FirstEntry
  <1>4. n <= m
    BY <1>2, <1>3, EnqueuedStays DEF FirstEntry
  <1>5. CausedBy(t, n) /\ CausedBy(t, m)
    BY <1>2, <1>4, CausesMore DEF EffectsCaused
  <1>6. ASSUME NEW s \in Tasks, Submit(s) PROVE CausedBy(t, m)'
    <2>1. /\ AppendEntry([task |-> s, retry |-> 0]) /\ ~Enqueued(s)
          /\ UNCHANGED <<delivered, batch, pc, effects, redelivered, lateFailures>>
      BY <1>6 DEF Submit, workerVars, outcomeVars, counters
    <2>2. CASE s = t
      <3>1. Enqueued(s)'
        BY <2>1, NowEnqueued
      <3>2. n = 0 /\ m = 1
        BY <1>2, <1>3, <2>1, <2>2, <3>1 DEF FirstEntry
      <3>3. CausedBy(t, IF s = t THEN n + 1 ELSE n)'
        BY <1>1, <1>5, <2>1, CausesAppend
      <3>4. QED BY <2>2, <3>2, <3>3
    <2>3. CASE s # t
      <3>1. CausedBy(t, IF s = t THEN m + 1 ELSE m)'
        BY <1>1, <1>5, <2>1, CausesAppend
      <3>2. QED BY <2>3, <3>1
    <2>4. QED BY <2>2, <2>3
  <1>7. CausedBy(t, m)'
    BY <1>5, <1>6, CausesStay
  <1>8. QED BY <1>3, <1>7

(* A task's action is performed again only for a cause: an entry of it was    *)
(* handed out again, or a performed action was reported as failed.            *)
THEOREM RepeatsHaveCauses == Spec => []NoCauselessRepeat
  <1>1. ASSUME Inv, EffectsCaused, NEW t \in Tasks
        PROVE  effects[t] <= 1 + redelivered[t] + lateFailures[t]
    <2>1. FirstEntry(t) \in Nat /\ FirstEntry(t) <= 1 /\ 1 \in Nat
      BY DEF FirstEntry
    <2>2. CausedBy(t, 1)
      BY <1>1, <2>1, CausesMore DEF EffectsCaused
    <2>3. QED BY <1>1, <2>1, <2>2, EffectsBounded
  <1>2. Inv /\ EffectsCaused => NoCauselessRepeat
    BY <1>1 DEF NoCauselessRepeat
  <1>3. QED
    BY <1>2, InvInit, InvStep, EffectsCausedInit, EffectsCausedStep, PTL DEF Spec

=============================================================================
