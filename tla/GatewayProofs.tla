--------------------------- MODULE GatewayProofs ---------------------------
(***************************************************************************)
(* Proofs about the control-plane loop, for any number of users, messages  *)
(* and crashes, any window and any clocks.  What is flushed was quiet for  *)
(* the whole window by the stamp of its last message; the messages of a    *)
(* user reach its plans in order and once; none is in two places, and none *)
(* is lost while the service runs.                                         *)
(***************************************************************************)
EXTENDS Gateway, FiniteSetTheorems, SequenceTheorems, TLAPS

\* A batch of messages that were observed.
Batches == {batch \in [user : Users, messages : Seq(1..Len(observed))] :
              batch.messages # <<>>}

EventsOfBatches ==
  [type : {"buffered", "debounced", "compacted"}, own : BOOLEAN, batch : Batches]

Types ==
  /\ now \in Nat
  /\ observed \in Seq([user : Users, at : Int])
  /\ source \in Sources
  /\ events \in Seq(EventsOfBatches)
  /\ cursor \in Nat /\ upTo \in Nat
  /\ cursor <= upTo /\ upTo <= Len(events)
  /\ buffers \in [Users -> [messages : Seq(1..Len(observed)), deadline : Int]]
  /\ flushed \in Seq(Batches)

\* The deadline of a buffer is a window after its last message.
DeadlineIsLast ==
  \A u \in Users : LET messages == buffers[u].messages IN
    messages # <<>> =>
      buffers[u].deadline = observed[messages[Len(messages)]].at + Window

\* What is still to be flushed in this turn was due.
DueIsDue ==
  \A u \in due : u \in Users /\ buffers[u].messages # <<>> /\ buffers[u].deadline <= now

Inv == Types /\ DeadlineIsLast /\ DueIsDue

\* Buffers are filled between the flushes, never in the middle of one.
DueInFlush == pc # "flush" => due = {}

LEMMA InvInit == Init => Inv
  <1> SUFFICES ASSUME Init PROVE Inv
    OBVIOUS
  <1>1. /\ now = 0 /\ source \in Sources /\ observed = <<>> /\ events = <<>>
        /\ cursor = 0 /\ upTo = 0
        /\ buffers = [u \in Users |-> [messages |-> <<>>, deadline |-> 0]]
        /\ due = {} /\ flushed = <<>>
    BY DEF Init, Empty
  <1>2. Types
    BY <1>1 DEF Types
  <1>3. QED BY <1>1, <1>2 DEF Inv, DeadlineIsLast, DueIsDue

\* New observations leave what was observed in place.
LEMMA Extends ==
  ASSUME NEW S, NEW old \in Seq(S), NEW n \in Nat, NEW more \in [1..n -> S]
  PROVE  /\ old \o more \in Seq(S)
         /\ Len(old \o more) = Len(old) + n
         /\ \A m \in 1..Len(old) : (old \o more)[m] = old[m]
  <1>1. more \in Seq(S)
    <2>1. DOMAIN more = 1..n /\ \A i \in 1..n : more[i] \in S
      OBVIOUS
    <2>2. more = [i \in 1..n |-> more[i]]
      OBVIOUS
    <2>3. [i \in 1..n |-> more[i]] \in Seq(S)
      BY <2>1
    <2>4. QED BY <2>2, <2>3, Zenon
  <1>2. Len(more) = n
    BY <1>1, LenProperties
  <1>3. /\ old \o more \in Seq(S)
        /\ Len(old \o more) = Len(old) + Len(more)
        /\ \A i \in 1..(Len(old) + Len(more)) :
             (old \o more)[i] = IF i <= Len(old) THEN old[i] ELSE more[i - Len(old)]
    BY <1>1, ConcatProperties
  <1>4. Len(old) \in Nat
    OBVIOUS
  <1>5. QED BY <1>2, <1>3, <1>4

LEMMA BatchesGrow ==
  ASSUME Types, NEW n \in Nat, NEW stamps,
         stamps \in [1..n -> [user : Users, at : Int]],
         observed' = observed \o stamps
  PROVE  /\ observed' \in Seq([user : Users, at : Int])
         /\ Len(observed') = Len(observed) + n
         /\ \A m \in 1..Len(observed) : observed'[m] = observed[m]
         /\ Seq(1..Len(observed)) \subseteq Seq(1..Len(observed'))
         /\ Batches \subseteq Batches'
         /\ EventsOfBatches \subseteq EventsOfBatches'
  <1> DEFINE Stamp == [user : Users, at : Int]
  <1>1. observed \in Seq(Stamp) /\ stamps \in [1..n -> Stamp]
    BY DEF Types
  <1> HIDE DEF Stamp
  <1>2. /\ observed' \in Seq(Stamp)
        /\ Len(observed') = Len(observed) + n
        /\ \A m \in 1..Len(observed) : observed'[m] = observed[m]
    BY <1>1, Extends
  <1>3. Len(observed) \in Nat /\ 1..Len(observed) \subseteq 1..Len(observed')
    BY <1>1, <1>2
  <1>4. Seq(1..Len(observed)) \subseteq Seq(1..Len(observed'))
    BY <1>3
  <1>5. Batches \subseteq Batches'
    BY <1>4 DEF Batches
  <1>6. EventsOfBatches \subseteq EventsOfBatches'
    BY <1>5 DEF EventsOfBatches
  <1>7. QED BY <1>2, <1>4, <1>5, <1>6 DEF Stamp

LEMMA ObserveKeeps ==
  ASSUME Inv, NEW u \in Users, NEW n \in 1..MaxPerEvent, NEW lag \in Lags[u],
         Observe(u, n, lag)
  PROVE  Inv'
  <1> DEFINE stamps == [k \in 1..n |-> [user |-> u, at |-> now - lag]]
             batch == [user |-> u, messages |-> [k \in 1..n |-> Len(observed) + k]]
             event == [type |-> source[u], own |-> FALSE, batch |-> batch]
  <1>1. /\ observed' = observed \o stamps /\ events' = Append(events, event)
        /\ UNCHANGED <<now, source, cursor, upTo, buffers, due, flushed>>
    BY DEF Observe, Publish, memory
  <1>2. Types /\ n \in Nat /\ n >= 1 /\ lag \in Int
    BY GatewayAssumption DEF Inv, GatewayAssumption
  <1>3. stamps \in [1..n -> [user : Users, at : Int]]
    BY <1>2 DEF Types
  <1> HIDE DEF stamps
  <1>4. /\ observed' \in Seq([user : Users, at : Int])
        /\ Len(observed') = Len(observed) + n
        /\ \A m \in 1..Len(observed) : observed'[m] = observed[m]
        /\ Seq(1..Len(observed)) \subseteq Seq(1..Len(observed'))
        /\ Batches \subseteq Batches'
        /\ EventsOfBatches \subseteq EventsOfBatches'
    BY <1>1, <1>2, <1>3, BatchesGrow
  <1>5. event \in EventsOfBatches'
    <2>1. Len(observed) \in Nat
      BY <1>2 DEF Types
    <2>2. batch.messages \in Seq(1..Len(observed')) /\ batch.messages # <<>>
      BY <1>2, <1>4, <2>1
    <2>3. batch \in Batches'
      BY <2>2 DEF Batches
    <2>4. source[u] \in {"buffered", "debounced"}
      BY <1>2, GatewayAssumption DEF Types, GatewayAssumption
    <2>5. QED BY <2>3, <2>4 DEF EventsOfBatches
  <1> HIDE DEF event
  <1>6. Types'
    <2>1. events \in Seq(EventsOfBatches') /\ flushed' \in Seq(Batches')
      BY <1>1, <1>2, <1>4, SMTT(30) DEF Types
    <2>2. events' \in Seq(EventsOfBatches') /\ Len(events') = Len(events) + 1
      BY <1>1, <1>5, <2>1
    <2>3. buffers' \in [Users -> [messages : Seq(1..Len(observed')), deadline : Int]]
      BY <1>1, <1>2, <1>4 DEF Types
    <2>4. Len(events) \in Nat
      BY <1>2 DEF Types
    <2>5. QED BY <1>1, <1>2, <1>4, <2>1, <2>2, <2>3, <2>4, SMTT(30) DEF Types
  <1>7. DeadlineIsLast'
    <2> SUFFICES ASSUME NEW v \in Users, buffers[v].messages # <<>>
                 PROVE  LET messages == buffers[v].messages IN
                          buffers[v].deadline = observed'[messages[Len(messages)]].at + Window
      BY <1>1 DEF DeadlineIsLast
    <2>1. buffers[v].messages \in Seq(1..Len(observed))
      BY <1>2 DEF Types
    <2>2. buffers[v].messages[Len(buffers[v].messages)] \in 1..Len(observed)
      BY <2>1
    <2>3. QED BY <1>4, <2>2 DEF Inv, DeadlineIsLast
  <1>8. QED BY <1>1, <1>6, <1>7 DEF Inv, DueIsDue

\* A step that observes nothing and leaves the buffers alone.
LEMMA Keeps ==
  ASSUME Inv, UNCHANGED <<observed, source, buffers>>,
         now' \in Nat, now <= now', due' \subseteq due,
         events' \in Seq(EventsOfBatches), Len(events) <= Len(events'),
         cursor' \in Nat, upTo' \in Nat, cursor' <= upTo', upTo' <= Len(events'),
         flushed' \in Seq(Batches)
  PROVE  Inv'
  <1>1. Batches' = Batches /\ EventsOfBatches' = EventsOfBatches
    BY DEF Batches, EventsOfBatches
  <1>2. Types'
    BY <1>1 DEF Inv, Types
  <1>3. DeadlineIsLast'
    BY DEF Inv, DeadlineIsLast
  <1>4. DueIsDue'
    <2> SUFFICES ASSUME NEW u \in due'
                 PROVE  u \in Users /\ buffers[u].messages # <<>> /\ buffers[u].deadline <= now'
      BY DEF DueIsDue
    <2>1. u \in Users /\ buffers[u].messages # <<>> /\ buffers[u].deadline <= now
      BY DEF Inv, DueIsDue
    <2>2. buffers[u].deadline \in Int /\ now \in Nat
      BY <2>1 DEF Inv, Types
    <2>3. QED BY <2>1, <2>2
  <1>5. QED BY <1>2, <1>3, <1>4 DEF Inv

\* The entry that is processed is one of the stream.
LEMMA NextIsBatch ==
  ASSUME Inv, NEW type, Processes(type)
  PROVE  /\ NextBatch \in Batches
         /\ cursor' = cursor + 1
         /\ cursor' \in Nat /\ cursor' <= upTo
  <1>1. cursor \in Nat /\ upTo \in Nat /\ cursor < upTo /\ upTo <= Len(events)
        /\ Len(events) \in Nat /\ cursor' = cursor + 1
    BY DEF Inv, Types, Processes
  <1>2. events[cursor + 1] \in EventsOfBatches
    <2>1. cursor + 1 \in 1..Len(events)
      BY <1>1
    <2>2. events \in Seq(EventsOfBatches)
      BY DEF Inv, Types
    <2>3. QED BY <2>1, <2>2
  <1>3. QED BY <1>1, <1>2 DEF NextBatch, EventsOfBatches

\* A published batch extends the stream.
LEMMA PublishGrows ==
  ASSUME Inv, NEW type \in {"buffered", "debounced", "compacted"}, NEW own \in BOOLEAN,
         NEW batch \in Batches, Publish(type, own, batch)
  PROVE  /\ events' \in Seq(EventsOfBatches)
         /\ Len(events') = Len(events) + 1
         /\ Len(events) \in Nat
  <1>1. [type |-> type, own |-> own, batch |-> batch] \in EventsOfBatches
    BY DEF EventsOfBatches
  <1>2. events \in Seq(EventsOfBatches)
    BY DEF Inv, Types
  <1>3. QED BY <1>1, <1>2 DEF Publish

LEMMA BufferKeeps == ASSUME Inv, Buffer, due = {} PROVE Inv'
  <1> DEFINE u == NextBatch.user
             new == NextBatch.messages
             old == buffers[u].messages
             at == observed[Last(new)].at
             buffer == [messages |-> old \o new, deadline |-> at + Window]
  <1>1. /\ NextBatch \in Batches
        /\ cursor' \in Nat /\ cursor' <= upTo
        /\ UNCHANGED <<now, observed, source, events, upTo, due, flushed>>
    BY NextIsBatch DEF Buffer, world
  <1>2. u \in Users /\ new \in Seq(1..Len(observed)) /\ new # <<>>
    <2>1. NextBatch \in [user : Users, messages : Seq(1..Len(observed))]
          /\ NextBatch.messages # <<>>
      BY <1>1, Zenon DEF Batches
    <2>2. QED BY <2>1
  <1> HIDE DEF u, new
  <1>3. old \in Seq(1..Len(observed)) /\ Len(observed) \in Nat
    <2>1. /\ buffers[u] \in [messages : Seq(1..Len(observed)), deadline : Int]
          /\ observed \in Seq([user : Users, at : Int])
      BY <1>2 DEF Inv, Types
    <2>2. QED BY <2>1
  <1>4. buffers' = [buffers EXCEPT ![u] = buffer]
    BY DEF Buffer, u, new
  <1>5. /\ Len(new) \in 1..Len(new) /\ Last(new) = new[Len(new)]
        /\ Last(new) \in 1..Len(observed)
    BY <1>2 DEF Last
  <1>6. at \in Int /\ Window \in Int
    <2>1. observed[Last(new)] \in [user : Users, at : Int]
      <3>1. observed \in Seq([user : Users, at : Int])
        BY DEF Inv, Types
      <3>2. QED BY <1>5, <3>1, ElementOfSeq
    <2>2. QED BY <2>1, GatewayAssumption
  <1> HIDE DEF old, at
  <1>7. /\ buffer.messages \in Seq(1..Len(observed))
        /\ buffer.messages[Len(buffer.messages)] = Last(new)
        /\ buffer.deadline = at + Window
    <2>1. /\ old \o new \in Seq(1..Len(observed))
          /\ Len(old \o new) = Len(old) + Len(new)
          /\ \A i \in 1..(Len(old) + Len(new)) :
               (old \o new)[i] = IF i <= Len(old) THEN old[i] ELSE new[i - Len(old)]
      BY <1>2, <1>3, ConcatProperties
    <2>2. Len(old) \in Nat /\ Len(new) \in Nat \ {0}
      BY <1>2, <1>3
    <2>3. (old \o new)[Len(old) + Len(new)] = new[Len(new)]
      BY <2>1, <2>2
    <2>4. QED BY <1>5, <2>1, <2>3
  <1>8. buffer \in [messages : Seq(1..Len(observed)), deadline : Int]
    BY <1>6, <1>7
  <1> HIDE DEF buffer
  <1>9. buffers' \in [Users -> [messages : Seq(1..Len(observed)), deadline : Int]]
    BY <1>4, <1>8 DEF Inv, Types
  <1>10. Batches' = Batches /\ EventsOfBatches' = EventsOfBatches
    BY <1>1 DEF Batches, EventsOfBatches
  <1>11. Types'
    BY <1>1, <1>9, <1>10 DEF Inv, Types
  <1>12. DeadlineIsLast'
    <2> SUFFICES ASSUME NEW v \in Users, buffers'[v].messages # <<>>
                 PROVE  LET messages == buffers'[v].messages IN
                          buffers'[v].deadline = observed[messages[Len(messages)]].at + Window
      BY <1>1 DEF DeadlineIsLast
    <2>1. CASE v = u
      <3>1. buffers'[v] = buffer
        BY <1>2, <1>4, <2>1 DEF Inv, Types
      <3>2. QED BY <1>7, <3>1 DEF at
    <2>2. CASE v # u
      BY <1>4, <2>2 DEF Inv, DeadlineIsLast, Types
    <2>3. QED BY <2>1, <2>2
  <1>13. QED BY <1>1, <1>11, <1>12 DEF Inv, DueIsDue

LEMMA EmptyIsBuffer == Empty \in [messages : Seq(1..Len(observed)), deadline : Int]
  BY DEF Empty

\* A buffer that is flushed, or the loss of all of them.
LEMMA EmptyKeeps ==
  ASSUME Inv,
         buffers' \in [Users -> [messages : Seq(1..Len(observed)), deadline : Int]],
         \A u \in Users : buffers'[u] = Empty \/ buffers'[u] = buffers[u],
         due' \subseteq due, \A u \in due' : buffers'[u] = buffers[u],
         UNCHANGED <<now, observed, source, cursor, upTo>>,
         events' \in Seq(EventsOfBatches), Len(events) <= Len(events'),
         flushed' \in Seq(Batches)
  PROVE  Inv'
  <1>1. Batches' = Batches /\ EventsOfBatches' = EventsOfBatches
    BY DEF Batches, EventsOfBatches
  <1>2. Empty.messages = <<>>
    BY DEF Empty
  <1>4. Types'
    <2>1. Len(events) \in Nat /\ Len(events') \in Nat
      BY DEF Inv, Types
    <2>2. QED BY <1>1, <2>1 DEF Inv, Types
  <1>5. DeadlineIsLast'
    BY <1>2 DEF Inv, DeadlineIsLast
  <1>6. DueIsDue'
    BY DEF Inv, DueIsDue
  <1>7. QED BY <1>4, <1>5, <1>6 DEF Inv

LEMMA FlushIsQuiet ==
  ASSUME Inv, NEW u \in Users, Flush(u)
  PROVE  /\ Inv'
         /\ flushed' = Append(flushed, [user |-> u, messages |-> buffers[u].messages])
         /\ observed[Last(buffers[u].messages)].at + Window <= now
  <1> DEFINE batch == [user |-> u, messages |-> buffers[u].messages]
  <1>1. /\ u \in due /\ due' = due \ {u}
        /\ Publish("debounced", TRUE, batch)
        /\ flushed' = Append(flushed, batch)
        /\ buffers' = [buffers EXCEPT ![u] = Empty]
        /\ UNCHANGED <<now, observed, source, cursor, upTo>>
    BY DEF Flush, world
  <1>2. buffers[u].messages # <<>> /\ buffers[u].deadline <= now
    BY <1>1 DEF Inv, DueIsDue
  <1>3. batch \in Batches
    BY <1>2 DEF Inv, Types, Batches
  <1>4. events' \in Seq(EventsOfBatches) /\ Len(events') = Len(events) + 1 /\ Len(events) \in Nat
    BY <1>1, <1>3, PublishGrows
  <1>5. flushed' \in Seq(Batches)
    BY <1>1, <1>3 DEF Inv, Types
  <1>6. /\ buffers' \in [Users -> [messages : Seq(1..Len(observed)), deadline : Int]]
        /\ \A v \in Users : buffers'[v] = IF v = u THEN Empty ELSE buffers[v]
    BY <1>1, EmptyIsBuffer DEF Inv, Types
  <1>7. due' \subseteq due /\ \A v \in due' : v \in Users /\ v # u
    BY <1>1 DEF Inv, DueIsDue
  <1> HIDE DEF batch
  <1>8. Inv'
    BY <1>1, <1>4, <1>5, <1>6, <1>7, EmptyKeeps
  <1>9. observed[Last(buffers[u].messages)].at + Window = buffers[u].deadline
    BY <1>2 DEF Inv, DeadlineIsLast, Last
  <1>10. QED BY <1>1, <1>2, <1>8, <1>9 DEF batch

LEMMA StepKeeps == ASSUME Inv, DueInFlush, Next PROVE Inv' /\ DueInFlush'
  <1>1. /\ now \in Nat /\ cursor \in Nat /\ upTo \in Nat /\ Len(events) \in Nat
        /\ cursor <= upTo /\ upTo <= Len(events)
        /\ events \in Seq(EventsOfBatches) /\ flushed \in Seq(Batches)
    BY DEF Inv, Types
  <1>2. ASSUME NEW u \in Users, NEW n \in 1..MaxPerEvent, NEW lag \in Lags[u],
               Observe(u, n, lag)
        PROVE  Inv' /\ DueInFlush'
    BY <1>2, ObserveKeeps DEF Observe, memory, DueInFlush
  <1>3. CASE Tick
    <2>1. /\ now' = now + 1
          /\ UNCHANGED <<observed, source, events, pc, cursor, upTo, buffers, due, flushed>>
      BY <1>3 DEF Tick, memory
    <2>2. QED BY <1>1, <2>1, Keeps DEF DueInFlush
  <1>4. CASE Read
    <2>1. PICK n \in 0..Count : upTo' = Min({cursor + n, Len(events)})
      BY <1>4 DEF Read
    <2>2. n \in Nat
      BY GatewayAssumption DEF GatewayAssumption
    <2>3. upTo' \in {cursor + n, Len(events)} /\ upTo' <= Len(events) /\ cursor <= upTo'
      BY <1>1, <2>1, <2>2 DEF Min
    <2>4. /\ pc' = "batch" /\ due = {}
          /\ UNCHANGED <<now, observed, source, events, cursor, buffers, due, flushed>>
      BY <1>4 DEF Read, world
    <2>5. QED BY <1>1, <2>2, <2>3, <2>4, Keeps DEF DueInFlush
  <1>5. CASE Buffer
    BY <1>5, BufferKeeps DEF Buffer, Processes, DueInFlush
  <1>6. CASE SkipOwn
    <2>1. cursor' \in Nat /\ cursor' <= upTo
      BY <1>6, NextIsBatch DEF SkipOwn
    <2>2. /\ pc' = pc
          /\ UNCHANGED <<now, observed, source, events, upTo, buffers, due, flushed>>
      BY <1>6 DEF SkipOwn, world
    <2>3. QED BY <1>1, <2>1, <2>2, Keeps DEF DueInFlush
  <1>7. CASE CompactForeign
    <2>1. cursor' \in Nat /\ cursor' <= upTo /\ NextBatch \in Batches
      BY <1>7, NextIsBatch DEF CompactForeign
    <2>2. events' \in Seq(EventsOfBatches) /\ Len(events') = Len(events) + 1
      BY <1>7, <2>1, PublishGrows DEF CompactForeign
    <2>3. UNCHANGED <<now, observed, source, pc, upTo, buffers, due, flushed>>
      BY <1>7 DEF CompactForeign, world
    <2>4. QED BY <1>1, <2>1, <2>2, <2>3, Keeps DEF DueInFlush
  <1>8. CASE Plan
    <2>1. cursor' \in Nat /\ cursor' <= upTo
      BY <1>8, NextIsBatch DEF Plan
    <2>2. UNCHANGED <<now, observed, source, events, pc, upTo, buffers, due, flushed>>
      BY <1>8 DEF Plan, world
    <2>3. QED BY <1>1, <2>1, <2>2, Keeps DEF DueInFlush
  <1>9. CASE StartFlush
    <2>1. /\ pc' = "flush"
          /\ due' = {u \in Users : buffers[u].messages # <<>> /\ buffers[u].deadline <= now}
          /\ UNCHANGED <<now, observed, source, events, cursor, upTo, buffers, flushed>>
      BY <1>9 DEF StartFlush, world
    <2>2. Types'
      BY <2>1 DEF Inv, Types, EventsOfBatches, Batches
    <2>3. QED BY <2>1, <2>2 DEF Inv, DeadlineIsLast, DueIsDue, DueInFlush
  <1>10. ASSUME NEW u \in Users, Flush(u) PROVE Inv' /\ DueInFlush'
    <2>1. pc' = pc /\ due # {}
      BY <1>10 DEF Flush
    <2>2. QED BY <1>10, <2>1, FlushIsQuiet DEF DueInFlush
  <1>11. CASE Compact
    <2>1. Head(flushed) \in Batches /\ Tail(flushed) \in Seq(Batches)
      BY <1>1, <1>11 DEF Compact
    <2>2. events' \in Seq(EventsOfBatches) /\ Len(events') = Len(events) + 1
      BY <1>11, <2>1, PublishGrows DEF Compact
    <2>3. /\ flushed' = Tail(flushed)
          /\ UNCHANGED <<now, observed, source, pc, cursor, upTo, buffers, due>>
      BY <1>11 DEF Compact, world
    <2>4. QED BY <1>1, <2>1, <2>2, <2>3, Keeps DEF DueInFlush
  <1>12. CASE Crash
    <2>1. /\ buffers' = [u \in Users |-> Empty]
          /\ due' = {} /\ flushed' = <<>>
          /\ UNCHANGED <<now, observed, source, events, cursor, upTo>>
      BY <1>12 DEF Crash, world
    <2>2. /\ buffers' \in [Users -> [messages : Seq(1..Len(observed)), deadline : Int]]
          /\ \A u \in Users : buffers'[u] = Empty
          /\ <<>> \in Seq(Batches)
      BY <2>1, EmptyIsBuffer
    <2>3. Inv'
      BY <1>1, <2>1, <2>2, EmptyKeeps
    <2>4. QED BY <2>1, <2>3 DEF DueInFlush
  <1>13. CASE Start
    <2>1. /\ pc' = "flush" /\ cursor' = Len(events) /\ upTo' = Len(events)
          /\ UNCHANGED <<now, observed, source, events, buffers, due, flushed>>
      BY <1>13 DEF Start, world
    <2>2. QED BY <1>1, <2>1, Keeps DEF DueInFlush
  <1>14. QED
    BY <1>2, <1>3, <1>4, <1>5, <1>6, <1>7, <1>8, <1>9, <1>10, <1>11, <1>12, <1>13
    DEF Next, Turn

LEMMA StutterKeeps == ASSUME Inv, DueInFlush, UNCHANGED vars PROVE Inv' /\ DueInFlush'
  <1>1. UNCHANGED <<now, observed, source, events, pc, cursor, upTo, buffers, due, flushed>>
    BY DEF vars, world, memory
  <1>2. QED
    BY <1>1 DEF Inv, DueInFlush, Types, DeadlineIsLast, DueIsDue, EventsOfBatches, Batches

\* A step adds at most one batch to the flushed ones, and that one was quiet.
LEMMA StepIsQuiet ==
  ASSUME Inv, Next
  PROVE  \A i \in DOMAIN flushed' \ DOMAIN flushed :
           observed[Last(flushed'[i].messages)].at + Window <= now
  <1>1. flushed \in Seq(Batches)
    BY DEF Inv, Types
  <1>2. ASSUME NEW u \in Users, Flush(u), NEW i \in DOMAIN flushed' \ DOMAIN flushed
        PROVE  observed[Last(flushed'[i].messages)].at + Window <= now
    <2> DEFINE batch == [user |-> u, messages |-> buffers[u].messages]
    <2>1. /\ flushed' = Append(flushed, batch)
          /\ observed[Last(buffers[u].messages)].at + Window <= now
      BY <1>2, FlushIsQuiet
    <2>2. batch.messages = buffers[u].messages
      OBVIOUS
    <2> HIDE DEF batch
    <2>3. flushed'[i] = batch
      BY <1>1, <1>2, <2>1
    <2>4. QED BY <2>1, <2>2, <2>3
  <1>3. CASE Compact
    BY <1>1, <1>3 DEF Compact
  <1>4. CASE Crash
    BY <1>4 DEF Crash
  <1>5. CASE flushed' = flushed
    BY <1>5
  <1>6. QED
    BY <1>2, <1>3, <1>4, <1>5 DEF Next, Turn, Observe, Tick, Read, Buffer, SkipOwn,
       CompactForeign, Plan, StartFlush, Start, memory

(* Debouncing: whatever the clocks of the observers and however late the loop *)
(* reads, a batch is flushed only when its last message is a window old.      *)
THEOREM WindowKept == Spec => QuietWindow
  <1>1. Init => Inv /\ DueInFlush
    BY InvInit DEF Init, DueInFlush
  <1>2. Inv /\ DueInFlush /\ [Next]_vars => (Inv /\ DueInFlush)'
    BY StepKeeps, StutterKeeps
  <1>3. Inv /\ [Next]_vars =>
          [\A i \in DOMAIN flushed' \ DOMAIN flushed :
             observed[Last(flushed'[i].messages)].at + Window <= now]_vars
    BY StepIsQuiet
  <1>4. QED BY <1>1, <1>2, <1>3, PTL DEF Spec, QuietWindow

-----------------------------------------------------------------------------

\* The way of the messages.  A message on it has a user, the rank of the place
\* where it is (0 planned, 1 compacted, 2 flushed, 3 buffered, 4 observed and
\* unread), the number of its batch at that place, and its position there.
Holds(batch, u, k, m) ==
  batch.user = u /\ k \in DOMAIN batch.messages /\ batch.messages[k] = m

Unread == (cursor + 1)..Len(events)

Arrives(event) == event.type # "compacted" /\ ~ (event.type = "debounced" /\ event.own)

Line ==
  {p \in Users \X (0..4) \X Nat \X Nat \X Nat :
     \/ /\ p[2] = 0 /\ p[3] \in DOMAIN plans
        /\ Holds(plans[p[3]], p[1], p[4], p[5])
     \/ /\ p[2] = 1 /\ p[3] \in Unread /\ events[p[3]].type = "compacted"
        /\ Holds(events[p[3]].batch, p[1], p[4], p[5])
     \/ /\ p[2] = 2 /\ p[3] \in DOMAIN flushed
        /\ Holds(flushed[p[3]], p[1], p[4], p[5])
     \/ /\ p[2] = 3 /\ p[3] = 0 /\ p[4] \in DOMAIN buffers[p[1]].messages
        /\ buffers[p[1]].messages[p[4]] = p[5]
     \/ /\ p[2] = 4 /\ p[3] \in Unread /\ Arrives(events[p[3]])
        /\ Holds(events[p[3]].batch, p[1], p[4], p[5])}

Before(p, q) ==
  p[2] < q[2] \/ (p[2] = q[2] /\ (p[3] < q[3] \/ (p[3] = q[3] /\ p[4] < q[4])))

\* Along the way the messages of a user are in the order of their numbers.
InOrder == \A p, q \in Line : p[1] = q[1] /\ Before(p, q) => p[5] < q[5]

OwnMessages == \A p \in Line : p[5] \in Observed /\ observed[p[5]].user = p[1]

\* The messages of a user take the same way from the stream to a plan.
Routed ==
  /\ \A i \in DOMAIN events : Arrives(events[i]) =>
        source[events[i].batch.user] = events[i].type
  /\ \A u \in Users : buffers[u].messages # <<>> => source[u] = "buffered"
  /\ \A i \in DOMAIN flushed : source[flushed[i].user] = "buffered"

PlansOfBatches == plans \in Seq(Batches)

\* What was observed since the service was started is on the way.
Kept == pc # "down" => \A m \in Observed : m > missed => \E p \in Line : p[5] = m

WayInv == Inv /\ DueInFlush /\ PlansOfBatches /\ Routed /\ OwnMessages /\ InOrder /\ Kept

LEMMA Member ==
  ASSUME NEW u \in Users, NEW i \in Nat, NEW k \in Nat, NEW m \in Nat
  PROVE  /\ <<u, 0, i, k, m>> \in Line <=> i \in DOMAIN plans /\ Holds(plans[i], u, k, m)
         /\ <<u, 1, i, k, m>> \in Line <=>
              i \in Unread /\ events[i].type = "compacted" /\ Holds(events[i].batch, u, k, m)
         /\ <<u, 2, i, k, m>> \in Line <=> i \in DOMAIN flushed /\ Holds(flushed[i], u, k, m)
         /\ <<u, 3, i, k, m>> \in Line <=>
              i = 0 /\ k \in DOMAIN buffers[u].messages /\ buffers[u].messages[k] = m
         /\ <<u, 4, i, k, m>> \in Line <=>
              i \in Unread /\ Arrives(events[i]) /\ Holds(events[i].batch, u, k, m)
  <1>1. \A r \in 0..4 : <<u, r, i, k, m>> \in Users \X (0..4) \X Nat \X Nat \X Nat
    OBVIOUS
  <1>2. QED BY <1>1 DEF Line

LEMMA MemberAfter ==
  ASSUME NEW u \in Users, NEW i \in Nat, NEW k \in Nat, NEW m \in Nat
  PROVE  /\ <<u, 0, i, k, m>> \in Line' <=> i \in DOMAIN plans' /\ Holds(plans'[i], u, k, m)
         /\ <<u, 1, i, k, m>> \in Line' <=>
              i \in Unread' /\ events'[i].type = "compacted" /\ Holds(events'[i].batch, u, k, m)
         /\ <<u, 2, i, k, m>> \in Line' <=> i \in DOMAIN flushed' /\ Holds(flushed'[i], u, k, m)
         /\ <<u, 3, i, k, m>> \in Line' <=>
              i = 0 /\ k \in DOMAIN buffers'[u].messages /\ buffers'[u].messages[k] = m
         /\ <<u, 4, i, k, m>> \in Line' <=>
              i \in Unread' /\ Arrives(events'[i]) /\ Holds(events'[i].batch, u, k, m)
  <1>1. \A r \in 0..4 : <<u, r, i, k, m>> \in Users \X (0..4) \X Nat \X Nat \X Nat
    OBVIOUS
  <1>2. QED BY <1>1 DEF Line

\* Every element of the way is such a tuple.
LEMMA Tuples ==
  /\ \A p \in Line : \E u \in Users, r \in 0..4, i, k, m \in Nat : p = <<u, r, i, k, m>>
  /\ \A p \in Line' : \E u \in Users, r \in 0..4, i, k, m \in Nat : p = <<u, r, i, k, m>>
  BY DEF Line

\* InOrder without the tuples.
LEMMA Ordered ==
  ASSUME InOrder, NEW u \in Users, NEW r \in 0..4, NEW s \in 0..4,
         NEW i \in Nat, NEW j \in Nat, NEW k \in Nat, NEW l \in Nat, NEW m \in Nat, NEW n \in Nat,
         <<u, r, i, k, m>> \in Line, <<u, s, j, l, n>> \in Line,
         r < s \/ (r = s /\ (i < j \/ (i = j /\ k < l)))
  PROVE  m < n
  BY DEF InOrder, Before

\* The order of the way stays when every message keeps its place or comes from
\* one that leaves the order as it was.
LEMMA OrderFrom ==
  ASSUME \A u \in Users : \A r, s \in 0..4 : \A i, j, k, l, m, n \in Nat :
           /\ <<u, r, i, k, m>> \in Line' /\ <<u, s, j, l, n>> \in Line'
           /\ r < s \/ (r = s /\ (i < j \/ (i = j /\ k < l)))
           => m < n
  PROVE  InOrder'
  <1> SUFFICES ASSUME NEW p \in Line', NEW q \in Line', p[1] = q[1], Before(p, q)
               PROVE  p[5] < q[5]
    BY DEF InOrder
  <1>1. PICK u \in Users, r \in 0..4, i \in Nat, k \in Nat, m \in Nat : p = <<u, r, i, k, m>>
    BY Tuples
  <1>2. PICK v \in Users, s \in 0..4, j \in Nat, l \in Nat, n \in Nat : q = <<v, s, j, l, n>>
    BY Tuples
  <1>3. u = v /\ (r < s \/ (r = s /\ (i < j \/ (i = j /\ k < l))))
    BY <1>1, <1>2 DEF Before
  <1>4. QED BY <1>1, <1>2, <1>3

\* Types as they are needed on the way.
LEMMA Sizes ==
  ASSUME Inv, PlansOfBatches
  PROVE  /\ cursor \in Nat /\ upTo \in Nat /\ Len(events) \in Nat
         /\ cursor <= upTo /\ upTo <= Len(events)
         /\ DOMAIN events = 1..Len(events)
         /\ Len(plans) \in Nat /\ DOMAIN plans = 1..Len(plans)
         /\ Len(flushed) \in Nat /\ DOMAIN flushed = 1..Len(flushed)
         /\ Len(observed) \in Nat
  <1>1. events \in Seq(EventsOfBatches) /\ plans \in Seq(Batches) /\ flushed \in Seq(Batches)
        /\ observed \in Seq([user : Users, at : Int])
    BY DEF Inv, Types, PlansOfBatches
  <1>2. QED BY <1>1 DEF Inv, Types

LEMMA PublishAppends ==
  ASSUME Inv, NEW type, NEW own, NEW batch, Publish(type, own, batch)
  PROVE  /\ Len(events') = Len(events) + 1
         /\ events'[Len(events) + 1] = [type |-> type, own |-> own, batch |-> batch]
         /\ \A i \in 1..Len(events) : events'[i] = events[i]
         /\ DOMAIN events' = 1..(Len(events) + 1)
  <1>1. events \in Seq(EventsOfBatches)
    BY DEF Inv, Types
  <1>2. QED BY <1>1 DEF Publish

\* What a message's user and its being on the way follow from.
LEMMA OwnFrom ==
  ASSUME OwnMessages, observed' = observed,
         \A u \in Users : \A r \in 0..4 : \A i, k, m \in Nat : <<u, r, i, k, m>> \in Line' =>
           \E s \in 0..4, j, l \in Nat : <<u, s, j, l, m>> \in Line
  PROVE  OwnMessages'
  <1> SUFFICES ASSUME NEW p \in Line' PROVE p[5] \in Observed /\ observed[p[5]].user = p[1]
    BY DEF OwnMessages, Observed
  <1>1. PICK u \in Users, r \in 0..4, i \in Nat, k \in Nat, m \in Nat : p = <<u, r, i, k, m>>
    BY Tuples
  <1>2. PICK s \in 0..4, j \in Nat, l \in Nat : <<u, s, j, l, m>> \in Line
    BY <1>1
  <1>3. QED BY <1>1, <1>2 DEF OwnMessages

LEMMA KeptFrom ==
  ASSUME Kept, pc # "down", observed' = observed, missed' = missed,
         \A u \in Users : \A r \in 0..4 : \A i, k, m \in Nat : <<u, r, i, k, m>> \in Line =>
           \E s \in 0..4, j, l \in Nat : <<u, s, j, l, m>> \in Line'
  PROVE  Kept'
  <1> SUFFICES ASSUME NEW m \in Observed, m > missed PROVE \E p \in Line' : p[5] = m
    BY DEF Kept, Observed
  <1>1. PICK p \in Line : p[5] = m
    BY DEF Kept
  <1>2. PICK u \in Users, r \in 0..4, i \in Nat, k \in Nat, n \in Nat : p = <<u, r, i, k, n>>
    BY Tuples
  <1>3. PICK s \in 0..4, j \in Nat, l \in Nat : <<u, s, j, l, n>> \in Line'
    BY <1>2
  <1>4. <<u, s, j, l, n>>[5] = m
    BY <1>1, <1>2
  <1>5. QED BY <1>3, <1>4

\* What leaves the messages of a rank alone.
LEMMA SameRanks ==
  ASSUME NEW u \in Users, NEW i \in Nat, NEW k \in Nat, NEW m \in Nat
  PROVE  /\ plans' = plans => (<<u, 0, i, k, m>> \in Line' <=> <<u, 0, i, k, m>> \in Line)
         /\ (i \in Unread <=> i \in Unread') /\ (i \in Unread => events'[i] = events[i]) =>
              /\ <<u, 1, i, k, m>> \in Line' <=> <<u, 1, i, k, m>> \in Line
              /\ <<u, 4, i, k, m>> \in Line' <=> <<u, 4, i, k, m>> \in Line
         /\ flushed' = flushed => (<<u, 2, i, k, m>> \in Line' <=> <<u, 2, i, k, m>> \in Line)
         /\ buffers'[u] = buffers[u] =>
              (<<u, 3, i, k, m>> \in Line' <=> <<u, 3, i, k, m>> \in Line)
  <1>1. ASSUME plans' = plans
        PROVE  <<u, 0, i, k, m>> \in Line' <=> <<u, 0, i, k, m>> \in Line
    <2>1. <<u, 0, i, k, m>> \in Line <=> i \in DOMAIN plans /\ Holds(plans[i], u, k, m)
      BY Member
    <2>2. <<u, 0, i, k, m>> \in Line' <=> i \in DOMAIN plans' /\ Holds(plans'[i], u, k, m)
      BY MemberAfter
    <2>3. QED BY <1>1, <2>1, <2>2
  <1>2. ASSUME i \in Unread <=> i \in Unread', i \in Unread => events'[i] = events[i]
        PROVE  <<u, 1, i, k, m>> \in Line' <=> <<u, 1, i, k, m>> \in Line
    <2>1. <<u, 1, i, k, m>> \in Line <=>
            i \in Unread /\ events[i].type = "compacted" /\ Holds(events[i].batch, u, k, m)
      BY Member
    <2>2. <<u, 1, i, k, m>> \in Line' <=>
            i \in Unread' /\ events'[i].type = "compacted" /\ Holds(events'[i].batch, u, k, m)
      BY MemberAfter
    <2>3. QED BY <1>2, <2>1, <2>2
  <1>3. ASSUME i \in Unread <=> i \in Unread', i \in Unread => events'[i] = events[i]
        PROVE  <<u, 4, i, k, m>> \in Line' <=> <<u, 4, i, k, m>> \in Line
    <2>1. <<u, 4, i, k, m>> \in Line <=>
            i \in Unread /\ Arrives(events[i]) /\ Holds(events[i].batch, u, k, m)
      BY Member
    <2>2. <<u, 4, i, k, m>> \in Line' <=>
            i \in Unread' /\ Arrives(events'[i]) /\ Holds(events'[i].batch, u, k, m)
      BY MemberAfter
    <2>3. QED BY <1>3, <2>1, <2>2
  <1>4. ASSUME flushed' = flushed
        PROVE  <<u, 2, i, k, m>> \in Line' <=> <<u, 2, i, k, m>> \in Line
    <2>1. <<u, 2, i, k, m>> \in Line <=> i \in DOMAIN flushed /\ Holds(flushed[i], u, k, m)
      BY Member
    <2>2. <<u, 2, i, k, m>> \in Line' <=> i \in DOMAIN flushed' /\ Holds(flushed'[i], u, k, m)
      BY MemberAfter
    <2>3. QED BY <1>4, <2>1, <2>2
  <1>5. ASSUME buffers'[u] = buffers[u]
        PROVE  <<u, 3, i, k, m>> \in Line' <=> <<u, 3, i, k, m>> \in Line
    <2>1. <<u, 3, i, k, m>> \in Line <=>
            i = 0 /\ k \in DOMAIN buffers[u].messages /\ buffers[u].messages[k] = m
      BY Member
    <2>2. <<u, 3, i, k, m>> \in Line' <=>
            i = 0 /\ k \in DOMAIN buffers'[u].messages /\ buffers'[u].messages[k] = m
      BY MemberAfter
    <2>3. QED BY <1>5, <2>1, <2>2
  <1>6. QED BY <1>1, <1>2, <1>3, <1>4, <1>5

\* A rank is one of five.
LEMMA Ranks == \A r \in 0..4 : r = 0 \/ r = 1 \/ r = 2 \/ r = 3 \/ r = 4
  OBVIOUS

\* Where a message of user v may be when the batch numbered i0 of rank r0 moves
\* behind the first e messages of the batch i1 of rank r1: not in between.
Aside(r, j, k, r0, i0, r1, i1, e) ==
  \/ r < r1 \/ (r = r1 /\ (j < i1 \/ (j = i1 /\ k <= e)))
  \/ r > r0 \/ (r = r0 /\ j > i0)

\* In rank 2, where batches leave at the head, the others move up by d.
Earlier(r, i, d) == IF r = 2 THEN i + d ELSE i

\* What is in Line' stayed or was moved.
Origin(v, r0, i0, r1, i1, d, e) ==
  \A u \in Users : \A r \in 0..4 : \A i, k, m \in Nat :
    <<u, r, i, k, m>> \in Line' =>
      \/ /\ <<u, r, Earlier(r, i, d), k, m>> \in Line
         /\ u = v => Aside(r, Earlier(r, i, d), k, r0, i0, r1, i1, e)
      \/ u = v /\ r = r1 /\ i = i1 /\ k > e /\ <<v, r0, i0, k - e, m>> \in Line

Remains ==
  \A u \in Users : \A r \in 0..4 : \A i, k, m \in Nat :
    <<u, r, i, k, m>> \in Line => \E s \in 0..4, j, l \in Nat : <<u, s, j, l, m>> \in Line'

LEMMA Moves ==
  ASSUME WayInv, NEW v \in Users, NEW d \in Nat, NEW e \in Nat,
         NEW r0 \in 0..4, NEW r1 \in 0..4, NEW i0 \in Nat, NEW i1 \in Nat, r1 < r0,
         r1 = 2 => d = 0,
         Origin(v, r0, i0, r1, i1, d, e), Remains,
         pc # "down", observed' = observed, missed' = missed
  PROVE  InOrder' /\ OwnMessages' /\ Kept'
  <1>1. \A r \in 0..4 : \A i \in Nat : Earlier(r, i, d) \in Nat
    BY DEF Earlier
  <1>2. InOrder'
    <2>1. ASSUME NEW u \in Users, NEW r \in 0..4, NEW s \in 0..4,
                 NEW i \in Nat, NEW j \in Nat, NEW k \in Nat, NEW l \in Nat,
                 NEW m \in Nat, NEW o \in Nat,
                 <<u, r, i, k, m>> \in Line', <<u, s, j, l, o>> \in Line',
                 r < s \/ (r = s /\ (i < j \/ (i = j /\ k < l)))
          PROVE  m < o
      <3> DEFINE i2 == Earlier(r, i, d)
                 j2 == Earlier(s, j, d)
      <3>1. /\ i2 \in Nat /\ j2 \in Nat
            /\ r < s \/ (r = s /\ (i2 < j2 \/ (i2 = j2 /\ k < l)))
            /\ r = r1 => i2 = i
            /\ s = r1 => j2 = j
        BY <2>1 DEF Earlier
      <3>2. \/ <<u, r, i2, k, m>> \in Line /\ (u = v => Aside(r, i2, k, r0, i0, r1, i1, e))
            \/ u = v /\ r = r1 /\ i = i1 /\ k > e /\ <<v, r0, i0, k - e, m>> \in Line
        BY <2>1 DEF Origin
      <3>3. \/ <<u, s, j2, l, o>> \in Line /\ (u = v => Aside(s, j2, l, r0, i0, r1, i1, e))
            \/ u = v /\ s = r1 /\ j = i1 /\ l > e /\ <<v, r0, i0, l - e, o>> \in Line
        BY <2>1 DEF Origin
      <3> HIDE DEF i2, j2
      <3>4. CASE <<u, r, i2, k, m>> \in Line /\ <<u, s, j2, l, o>> \in Line
        BY <3>1, <3>4, Ordered DEF WayInv
      <3>5. CASE /\ u = v /\ r = r1 /\ i = i1 /\ k > e /\ <<v, r0, i0, k - e, m>> \in Line
                 /\ <<u, s, j2, l, o>> \in Line /\ Aside(s, j2, l, r0, i0, r1, i1, e)
        <4>1. r0 < s \/ (r0 = s /\ i0 < j2)
          BY <2>1, <3>1, <3>5 DEF Aside
        <4>2. k - e \in Nat
          BY <3>5
        <4>3. QED BY <3>1, <3>5, <4>1, <4>2, Ordered, ZenonT(30) DEF WayInv
      <3>6. CASE /\ <<u, r, i2, k, m>> \in Line /\ Aside(r, i2, k, r0, i0, r1, i1, e)
                 /\ u = v /\ s = r1 /\ j = i1 /\ l > e /\ <<v, r0, i0, l - e, o>> \in Line
        <4>1. r < r0
          BY <2>1, <3>1, <3>6 DEF Aside
        <4>2. l - e \in Nat
          BY <3>6
        <4>3. QED BY <3>1, <3>6, <4>1, <4>2, Ordered DEF WayInv
      <3>7. CASE /\ u = v /\ r = r1 /\ i = i1 /\ k > e /\ <<v, r0, i0, k - e, m>> \in Line
                 /\ s = r1 /\ j = i1 /\ l > e /\ <<v, r0, i0, l - e, o>> \in Line
        <4>1. k - e \in Nat /\ l - e \in Nat /\ k - e < l - e
          BY <2>1, <3>7
        <4>2. QED BY <3>7, <4>1, Ordered DEF WayInv
      <3>8. QED BY <3>2, <3>3, <3>4, <3>5, <3>6, <3>7
    <2>2. \A u \in Users : \A r, s \in 0..4 : \A i, j, k, l, m, o \in Nat :
            /\ <<u, r, i, k, m>> \in Line' /\ <<u, s, j, l, o>> \in Line'
            /\ r < s \/ (r = s /\ (i < j \/ (i = j /\ k < l)))
            => m < o
      <3> TAKE u \in Users
      <3> TAKE r, s \in 0..4
      <3> TAKE i, j, k, l, m, o \in Nat
      <3> HAVE /\ <<u, r, i, k, m>> \in Line' /\ <<u, s, j, l, o>> \in Line'
               /\ r < s \/ (r = s /\ (i < j \/ (i = j /\ k < l)))
      <3> QED BY <2>1
    <2>3. QED BY <2>2, OrderFrom, Zenon
  <1>3. OwnMessages'
    <2>1. ASSUME NEW u \in Users, NEW r \in 0..4, NEW i \in Nat, NEW k \in Nat, NEW m \in Nat,
                 <<u, r, i, k, m>> \in Line'
          PROVE  \E s \in 0..4, j, l \in Nat : <<u, s, j, l, m>> \in Line
      <3>1. CASE <<u, r, Earlier(r, i, d), k, m>> \in Line
        BY <1>1, <3>1
      <3>2. CASE u = v /\ k > e /\ <<v, r0, i0, k - e, m>> \in Line
        <4>1. k - e \in Nat
          BY <3>2
        <4>2. QED BY <3>2, <4>1
      <3>3. QED BY <2>1, <3>1, <3>2 DEF Origin
    <2>2. QED BY <2>1, OwnFrom DEF WayInv
  <1>4. Kept'
    BY KeptFrom DEF WayInv, Remains
  <1>5. QED BY <1>2, <1>3, <1>4

LEMMA Held ==
  ASSUME NEW batch \in Batches, NEW u, NEW k, NEW m, Holds(batch, u, k, m)
  PROVE  u = batch.user /\ k \in Nat /\ k > 0
  <1>1. batch.messages \in Seq(1..Len(observed))
    BY DEF Batches
  <1>2. DOMAIN batch.messages = 1..Len(batch.messages)
    BY <1>1
  <1>3. QED BY <1>2 DEF Holds

LEMMA RemainsAt ==
  ASSUME NEW r1 \in 0..4, NEW i1 \in Nat,
         \A u \in Users : \A r \in 0..4 : \A i, k, m \in Nat : <<u, r, i, k, m>> \in Line =>
           <<u, r, i, k, m>> \in Line' \/ <<u, r1, i1, k, m>> \in Line'
  PROVE  Remains
  <1> SUFFICES ASSUME NEW u \in Users, NEW r \in 0..4, NEW i \in Nat, NEW k \in Nat, NEW m \in Nat,
                      <<u, r, i, k, m>> \in Line
               PROVE  \E s \in 0..4, j, l \in Nat : <<u, s, j, l, m>> \in Line'
    BY DEF Remains
  <1>1. QED BY ZenonT(30)

LEMMA PlanMoves == ASSUME WayInv, Plan PROVE InOrder' /\ OwnMessages' /\ Kept'
  <1> DEFINE c == cursor + 1
             n == Len(plans) + 1
             v == events[c].batch.user
  <1>1. /\ cursor \in Nat /\ Len(events) \in Nat /\ cursor < Len(events)
        /\ Len(plans) \in Nat /\ DOMAIN plans = 1..Len(plans) /\ plans \in Seq(Batches)
    BY Sizes DEF WayInv, Plan, Processes, PlansOfBatches
  <1>2. /\ pc = "batch" /\ events[c].type = "compacted" /\ cursor' = c
        /\ plans' = Append(plans, events[c].batch)
        /\ UNCHANGED <<observed, events, buffers, flushed, missed>>
    BY DEF Plan, Processes, NextBatch, world
  <1>3. events[c].batch \in Batches /\ v \in Users
    BY NextIsBatch DEF WayInv, Plan, NextBatch, Batches
  <1>4. /\ DOMAIN plans' = 1..n /\ plans'[n] = events[c].batch
        /\ \A j \in 1..Len(plans) : plans'[j] = plans[j]
    BY <1>1, <1>2, <1>3
  <1>5. /\ Unread = c..Len(events) /\ Unread' = (c + 1)..Len(events)
        /\ ~ Arrives(events[c])
    BY <1>1, <1>2 DEF Unread, Arrives
  <1>0. c \in Nat /\ n \in Nat
    BY <1>1
  <1>6. c \in Nat /\ n \in Nat /\ n = Len(plans) + 1 /\ c <= Len(events)
    BY <1>1
  <1> HIDE DEF c, n
  <1>7. \A u \in Users : \A k, m \in Nat : Holds(events[c].batch, u, k, m) =>
          u = v /\ k > 0 /\ <<u, 1, c, k, m>> \in Line /\ <<u, 0, n, k, m>> \in Line'
    <2> TAKE u \in Users
    <2> TAKE k, m \in Nat
    <2> HAVE Holds(events[c].batch, u, k, m)
    <2>1. u = v /\ k > 0
      BY <1>3, Held
    <2> HIDE DEF v
    <2>2. <<u, 1, c, k, m>> \in Line
      <3>1. c \in Unread
        BY <1>1, <1>5, <1>6
      <3>2. QED BY <1>2, <1>6, <3>1, Member
    <2>3. <<u, 0, n, k, m>> \in Line'
      <3>1. n \in 1..n
        BY <1>1, <1>6
      <3>2. n \in DOMAIN plans' /\ Holds(plans'[n], u, k, m)
        BY <1>4, <3>1
      <3>3. <<u, 0, n, k, m>> \in Line' <=> n \in DOMAIN plans' /\ Holds(plans'[n], u, k, m)
        BY <1>0, MemberAfter
      <3>4. QED BY <3>2, <3>3
    <2>4. QED BY <2>1, <2>2, <2>3
  <1> HIDE DEF v
  <1>8. Origin(v, 1, c, 0, n, 0, 0)
    <2> SUFFICES ASSUME NEW u \in Users, NEW r \in 0..4, NEW i \in Nat, NEW k \in Nat, NEW m \in Nat,
                        <<u, r, i, k, m>> \in Line'
                 PROVE  \/ /\ <<u, r, i, k, m>> \in Line
                           /\ u = v => Aside(r, i, k, 1, c, 0, n, 0)
                        \/ u = v /\ r = 0 /\ i = n /\ k > 0 /\ <<v, 1, c, k, m>> \in Line
      BY DEF Origin, Earlier
    <2>1. CASE r = 0
      <3>1. i \in 1..n /\ Holds(plans'[i], u, k, m)
        BY <1>4, <2>1, MemberAfter
      <3>2. CASE i = n
        BY <1>4, <1>7, <2>1, <3>1, <3>2
      <3>3. CASE i # n
        <4>1. i \in 1..Len(plans) /\ Holds(plans[i], u, k, m)
          BY <1>4, <1>6, <1>1, <3>1, <3>3
        <4>2. <<u, 0, i, k, m>> \in Line
          BY <1>1, <4>1, Member
        <4>3. QED BY <1>1, <1>6, <2>1, <4>1, <4>2 DEF Aside
      <3>4. QED BY <3>2, <3>3
    <2>2. CASE r = 1
      <3>1. i \in Unread' /\ events[i].type = "compacted" /\ Holds(events[i].batch, u, k, m)
        BY <1>2, <2>2, MemberAfter, ZenonT(30)
      <3>2. i \in Unread /\ i > c
        BY <1>5, <1>6, <1>1, <3>1, SMTT(30)
      <3>3. <<u, 1, i, k, m>> \in Line
        BY <3>1, <3>2, Member
      <3>4. QED BY <2>2, <3>2, <3>3 DEF Aside
    <2>3. CASE r = 2 \/ r = 3
      <3>1. /\ <<u, 2, i, k, m>> \in Line' <=> <<u, 2, i, k, m>> \in Line
            /\ <<u, 3, i, k, m>> \in Line' <=> <<u, 3, i, k, m>> \in Line
        BY <1>2, SameRanks
      <3>2. QED BY <2>3, <3>1 DEF Aside
    <2>4. CASE r = 4
      <3>1. i \in Unread' /\ Arrives(events[i]) /\ Holds(events[i].batch, u, k, m)
        BY <1>2, <2>4, MemberAfter
      <3>2. i \in Unread
        BY <1>5, <1>6, <1>1, <3>1
      <3>3. <<u, 4, i, k, m>> \in Line
        BY <3>1, <3>2, Member
      <3>4. QED BY <2>4, <3>3 DEF Aside
    <2>5. QED BY <2>1, <2>2, <2>3, <2>4, Ranks
  <1>9. Remains
    <2>0. 0 \in 0..4
      OBVIOUS
    <2> SUFFICES ASSUME NEW u \in Users, NEW r \in 0..4, NEW i \in Nat, NEW k \in Nat, NEW m \in Nat,
                        <<u, r, i, k, m>> \in Line
                 PROVE  <<u, r, i, k, m>> \in Line' \/ <<u, 0, n, k, m>> \in Line'
      BY <1>6, <2>0, RemainsAt
    <2>1. CASE r = 0
      <3>1. i \in 1..Len(plans) /\ Holds(plans[i], u, k, m)
        BY <1>1, <2>1, Member
      <3>2. i \in 1..n /\ Holds(plans'[i], u, k, m)
        BY <1>1, <1>4, <1>6, <3>1
      <3>3. QED BY <1>4, <2>1, <3>2, MemberAfter
    <2>2. CASE r = 1
      <3>1. i \in Unread /\ events[i].type = "compacted" /\ Holds(events[i].batch, u, k, m)
        BY <2>2, Member
      <3>2. CASE i = c
        BY <1>7, <3>1, <3>2
      <3>3. CASE i # c
        <4>1. i \in Unread'
          BY <1>1, <1>5, <1>6, <3>1, <3>3
        <4>2. <<u, 1, i, k, m>> \in Line'
          BY <1>2, <3>1, <4>1, MemberAfter
        <4>3. QED BY <2>2, <4>2
      <3>4. QED BY <3>2, <3>3
    <2>3. CASE r = 2 \/ r = 3
      <3>1. /\ <<u, 2, i, k, m>> \in Line' <=> <<u, 2, i, k, m>> \in Line
            /\ <<u, 3, i, k, m>> \in Line' <=> <<u, 3, i, k, m>> \in Line
        BY <1>2, SameRanks
      <3>2. QED BY <2>3, <3>1
    <2>4. CASE r = 4
      <3>1. i \in Unread /\ Arrives(events[i]) /\ Holds(events[i].batch, u, k, m)
        BY <2>4, Member
      <3>2. i \in Unread'
        BY <1>1, <1>5, <1>6, <3>1
      <3>3. <<u, 4, i, k, m>> \in Line'
        BY <1>2, <3>1, <3>2, MemberAfter
      <3>4. QED BY <2>4, <3>3
    <2>5. QED BY <2>1, <2>2, <2>3, <2>4, Ranks
  <1>10. QED
    <2>1. /\ 0 \in Nat /\ 0 \in 0..4 /\ 1 \in 0..4 /\ 0 < 1 /\ (0 = 2 => 0 = 0)
          /\ pc # "down" /\ observed' = observed /\ missed' = missed
      BY <1>2
    <2>2. QED BY <1>3, <1>6, <1>8, <1>9, <2>1, Moves

\* The unread events when some were read, and when one was published as well.
LEMMA AfterReading ==
  ASSUME WayInv, events' = events, NEW c \in Nat, cursor' = c, cursor <= c,
         NEW u \in Users, NEW i \in Nat, NEW k \in Nat, NEW m \in Nat
  PROVE  /\ <<u, 1, i, k, m>> \in Line' <=> <<u, 1, i, k, m>> \in Line /\ i > c
         /\ <<u, 4, i, k, m>> \in Line' <=> <<u, 4, i, k, m>> \in Line /\ i > c
  <1>1. cursor \in Nat /\ Len(events) \in Nat
    BY Sizes DEF WayInv
  <1>2. i \in Unread' <=> i \in Unread /\ i > c
    <2>1. i \in Unread <=> cursor < i /\ i <= Len(events)
      BY <1>1 DEF Unread
    <2>2. i \in Unread' <=> c < i /\ i <= Len(events)
      BY <1>1 DEF Unread
    <2>3. QED BY <1>1, <2>1, <2>2
  <1>3. /\ <<u, 1, i, k, m>> \in Line <=>
             i \in Unread /\ events[i].type = "compacted" /\ Holds(events[i].batch, u, k, m)
        /\ <<u, 4, i, k, m>> \in Line <=>
             i \in Unread /\ Arrives(events[i]) /\ Holds(events[i].batch, u, k, m)
    BY Member
  <1>4. /\ <<u, 1, i, k, m>> \in Line' <=>
             i \in Unread' /\ events'[i].type = "compacted" /\ Holds(events'[i].batch, u, k, m)
        /\ <<u, 4, i, k, m>> \in Line' <=>
             i \in Unread' /\ Arrives(events'[i]) /\ Holds(events'[i].batch, u, k, m)
    BY MemberAfter
  <1>5. QED BY <1>2, <1>3, <1>4

LEMMA AfterPublishing ==
  ASSUME WayInv, NEW type, NEW own, NEW batch, Publish(type, own, batch),
         NEW c \in Nat, cursor' = c, cursor <= c, c <= Len(events),
         NEW new \in Nat, new = Len(events) + 1,
         NEW u \in Users, NEW i \in Nat, NEW k \in Nat, NEW m \in Nat
  PROVE  /\ <<u, 1, i, k, m>> \in Line' <=>
              \/ <<u, 1, i, k, m>> \in Line /\ i > c
              \/ i = new /\ type = "compacted" /\ Holds(batch, u, k, m)
         /\ <<u, 4, i, k, m>> \in Line' <=>
              \/ <<u, 4, i, k, m>> \in Line /\ i > c
              \/ /\ i = new /\ type # "compacted" /\ ~ (type = "debounced" /\ own)
                 /\ Holds(batch, u, k, m)
         /\ <<u, 1, i, k, m>> \in Line => i < new
         /\ <<u, 4, i, k, m>> \in Line => i < new
  <1>1. cursor \in Nat /\ Len(events) \in Nat
    BY Sizes DEF WayInv
  <1>2. /\ Len(events') = new
        /\ events'[new] = [type |-> type, own |-> own, batch |-> batch]
        /\ \A j \in 1..Len(events) : events'[j] = events[j]
    BY PublishAppends DEF WayInv
  <1>3. /\ i \in Unread' <=> (i \in Unread /\ i > c) \/ i = new
        /\ i \in Unread => i < new /\ i \in 1..Len(events)
    <2>1. i \in Unread <=> cursor < i /\ i < new
      BY <1>1 DEF Unread
    <2>2. i \in Unread' <=> c < i /\ i <= new
      BY <1>1, <1>2 DEF Unread
    <2>3. QED BY <1>1, <2>1, <2>2
  <1>4. /\ events'[new].type = type /\ events'[new].batch = batch
        /\ Arrives(events'[new]) <=> type # "compacted" /\ ~ (type = "debounced" /\ own)
    BY <1>2 DEF Arrives
  <1>5. i \in Unread => events'[i] = events[i]
    BY <1>2, <1>3
  <1>6. /\ <<u, 1, i, k, m>> \in Line <=>
             i \in Unread /\ events[i].type = "compacted" /\ Holds(events[i].batch, u, k, m)
        /\ <<u, 4, i, k, m>> \in Line <=>
             i \in Unread /\ Arrives(events[i]) /\ Holds(events[i].batch, u, k, m)
    BY Member
  <1>7. /\ <<u, 1, i, k, m>> \in Line' <=>
             i \in Unread' /\ events'[i].type = "compacted" /\ Holds(events'[i].batch, u, k, m)
        /\ <<u, 4, i, k, m>> \in Line' <=>
             i \in Unread' /\ Arrives(events'[i]) /\ Holds(events'[i].batch, u, k, m)
    BY MemberAfter
  <1>8. CASE i = new
    BY <1>3, <1>4, <1>6, <1>7, <1>8
  <1>9. CASE i # new
    BY <1>3, <1>5, <1>6, <1>7, <1>9
  <1>10. QED BY <1>8, <1>9

LEMMA UnreadBehind ==
  ASSUME WayInv, NEW u \in Users, NEW i \in Nat, NEW k \in Nat, NEW m \in Nat
  PROVE  /\ <<u, 1, i, k, m>> \in Line => i > cursor
         /\ <<u, 4, i, k, m>> \in Line => i > cursor
  <1>1. cursor \in Nat /\ Len(events) \in Nat
    BY Sizes DEF WayInv
  <1>2. i \in Unread => i > cursor
    BY <1>1 DEF Unread
  <1>3. QED BY <1>2, Member

LEMMA CompactMoves == ASSUME WayInv, Compact PROVE InOrder' /\ OwnMessages' /\ Kept'
  <1> DEFINE new == Len(events) + 1
             batch == Head(flushed)
             v == batch.user
  <1>1. /\ pc = "flush" /\ flushed # <<>> /\ Publish("compacted", TRUE, batch)
        /\ flushed' = Tail(flushed)
        /\ UNCHANGED <<observed, cursor, buffers, plans, missed>>
    BY DEF Compact, world
  <1>2. /\ cursor \in Nat /\ Len(events) \in Nat /\ cursor <= Len(events)
        /\ Len(flushed) \in Nat /\ DOMAIN flushed = 1..Len(flushed) /\ flushed \in Seq(Batches)
    BY Sizes DEF WayInv, Inv, Types
  <1>3. /\ batch = flushed[1] /\ batch \in Batches /\ v \in Users
        /\ 1 \in DOMAIN flushed
        /\ DOMAIN flushed' = 1..(Len(flushed) - 1)
        /\ \A j \in 1..(Len(flushed) - 1) : flushed'[j] = flushed[j + 1]
    BY <1>1, <1>2 DEF Batches
  <1>4. new \in Nat
    BY <1>2
  <1>5. /\ cursor \in Nat /\ cursor' = cursor /\ cursor <= cursor /\ cursor <= Len(events) /\ new = Len(events) + 1
    BY <1>1, <1>2
  <1> HIDE DEF new, batch
  <1>6. ASSUME NEW u \in Users, NEW i \in Nat, NEW k \in Nat, NEW m \in Nat
        PROVE  /\ <<u, 1, i, k, m>> \in Line' <=>
                    <<u, 1, i, k, m>> \in Line \/ (i = new /\ Holds(batch, u, k, m))
               /\ <<u, 4, i, k, m>> \in Line' <=> <<u, 4, i, k, m>> \in Line
               /\ <<u, 1, i, k, m>> \in Line => i < new
               /\ <<u, 0, i, k, m>> \in Line' <=> <<u, 0, i, k, m>> \in Line
               /\ <<u, 3, i, k, m>> \in Line' <=> <<u, 3, i, k, m>> \in Line
    <2>1. PICK type, own : type = "compacted" /\ own = TRUE
      OBVIOUS
    <2>2. Publish(type, own, batch)
      BY <1>1, <2>1
    <2>3. /\ <<u, 1, i, k, m>> \in Line' <=>
               \/ <<u, 1, i, k, m>> \in Line /\ i > cursor
               \/ i = new /\ type = "compacted" /\ Holds(batch, u, k, m)
          /\ <<u, 4, i, k, m>> \in Line' <=>
               \/ <<u, 4, i, k, m>> \in Line /\ i > cursor
               \/ /\ i = new /\ type # "compacted" /\ ~ (type = "debounced" /\ own)
                  /\ Holds(batch, u, k, m)
          /\ <<u, 1, i, k, m>> \in Line => i < new
      BY <1>4, <1>5, <2>2, AfterPublishing
    <2>4. /\ <<u, 1, i, k, m>> \in Line => i > cursor
          /\ <<u, 4, i, k, m>> \in Line => i > cursor
      BY UnreadBehind
    <2>5. /\ <<u, 0, i, k, m>> \in Line' <=> <<u, 0, i, k, m>> \in Line
          /\ <<u, 3, i, k, m>> \in Line' <=> <<u, 3, i, k, m>> \in Line
      BY <1>1, SameRanks
    <2>6. QED BY <2>1, <2>3, <2>4, <2>5
  <1>7. ASSUME NEW u \in Users, NEW k \in Nat, NEW m \in Nat
        PROVE  <<u, 2, 1, k, m>> \in Line <=> Holds(batch, u, k, m)
    BY <1>3, Member
  <1>8. ASSUME NEW u \in Users, NEW i \in Nat, NEW k \in Nat, NEW m \in Nat
        PROVE  <<u, 2, i, k, m>> \in Line' <=> i > 0 /\ <<u, 2, i + 1, k, m>> \in Line
    <2>1. <<u, 2, i, k, m>> \in Line' <=> i \in DOMAIN flushed' /\ Holds(flushed'[i], u, k, m)
      BY MemberAfter
    <2>2. PICK j \in Nat : j = i + 1
      OBVIOUS
    <2>3. <<u, 2, j, k, m>> \in Line <=> j \in DOMAIN flushed /\ Holds(flushed[j], u, k, m)
      BY Member
    <2>4. i \in DOMAIN flushed' <=> i > 0 /\ j \in DOMAIN flushed
      BY <1>2, <1>3, <2>2
    <2>5. i \in DOMAIN flushed' => flushed'[i] = flushed[j]
      BY <1>3, <2>2
    <2>6. QED BY <2>1, <2>2, <2>3, <2>4, <2>5
  <1>9. Origin(v, 2, 1, 1, new, 1, 0)
    <2> SUFFICES ASSUME NEW u \in Users, NEW r \in 0..4, NEW i \in Nat, NEW k \in Nat, NEW m \in Nat,
                        <<u, r, i, k, m>> \in Line'
                 PROVE  \/ /\ <<u, r, Earlier(r, i, 1), k, m>> \in Line
                           /\ u = v => Aside(r, Earlier(r, i, 1), k, 2, 1, 1, new, 0)
                        \/ u = v /\ r = 1 /\ i = new /\ k > 0 /\ <<v, 2, 1, k, m>> \in Line
      BY DEF Origin
    <2>1. CASE r = 0 \/ r = 3 \/ r = 4
      <3>1. <<u, r, i, k, m>> \in Line
        BY <1>6, <2>1
      <3>2. QED BY <2>1, <3>1 DEF Earlier, Aside
    <2>2. CASE r = 1
      <3>1. CASE <<u, 1, i, k, m>> \in Line
        <4>1. i < new
          BY <1>6, <3>1
        <4>2. QED BY <2>2, <3>1, <4>1 DEF Earlier, Aside
      <3>2. CASE i = new /\ Holds(batch, u, k, m)
        <4>1. u = v /\ k > 0
          BY <1>3, <3>2, Held
        <4>2. QED BY <1>7, <2>2, <3>2, <4>1
      <3>3. QED BY <1>6, <2>2, <3>1, <3>2
    <2>3. CASE r = 2
      <3>1. i > 0 /\ <<u, 2, i + 1, k, m>> \in Line
        BY <1>8, <2>3
      <3>2. QED BY <2>3, <3>1 DEF Earlier, Aside
    <2>4. QED BY <2>1, <2>2, <2>3, Ranks
  <1>10. Remains
    <2> SUFFICES ASSUME NEW u \in Users, NEW r \in 0..4, NEW i \in Nat, NEW k \in Nat, NEW m \in Nat,
                        <<u, r, i, k, m>> \in Line
                 PROVE  \E s \in 0..4, j, l \in Nat : <<u, s, j, l, m>> \in Line'
      BY DEF Remains
    <2>1. CASE r # 2
      <3>1. <<u, r, i, k, m>> \in Line'
        BY <1>6, <2>1, Ranks
      <3>2. QED BY <3>1
    <2>2. CASE r = 2 /\ i = 1
      <3>1. <<u, 2, 1, k, m>> \in Line
        BY <2>2
      <3>2. Holds(batch, u, k, m)
        BY <1>7, <3>1
      <3>3. <<u, 1, new, k, m>> \in Line'
        BY <1>4, <1>6, <3>2
      <3>4. 1 \in 0..4
        OBVIOUS
      <3>5. QED BY <1>4, <3>3, <3>4
    <2>3. CASE r = 2 /\ i # 1
      <3>1. <<u, 2, i, k, m>> \in Line
        BY <2>3
      <3>2. i \in DOMAIN flushed
        BY <3>1, Member
      <3>3. i > 0
        BY <1>2, <3>2
      <3>4. PICK j \in Nat : i = j + 1 /\ j > 0
        <4>1. i - 1 \in Nat /\ i = (i - 1) + 1 /\ i - 1 > 0
          BY <2>3, <3>3
        <4>2. QED BY <4>1
      <3>5. <<u, 2, j + 1, k, m>> \in Line
        BY <3>1, <3>4
      <3>6. <<u, 2, j, k, m>> \in Line'
        BY <1>8, <3>4, <3>5
      <3>7. 2 \in 0..4
        OBVIOUS
      <3>8. QED BY <3>4, <3>6, <3>7
    <2>4. QED BY <2>1, <2>2, <2>3
  <1>11. QED
    <2>1. /\ 0 \in Nat /\ 1 \in Nat /\ 1 \in 0..4 /\ 2 \in 0..4 /\ 1 < 2 /\ (1 = 2 => 1 = 0)
          /\ pc # "down" /\ observed' = observed /\ missed' = missed
      BY <1>1
    <2>2. QED BY <1>3, <1>4, <1>9, <1>10, <2>1, Moves

LEMMA ForeignMoves == ASSUME WayInv, CompactForeign PROVE InOrder' /\ OwnMessages' /\ Kept'
  <1> DEFINE c == cursor + 1
             new == Len(events) + 1
             batch == events[c].batch
             v == batch.user
  <1>1. /\ pc = "batch" /\ cursor < upTo /\ events[c].type = "debounced" /\ ~events[c].own
        /\ cursor' = c /\ Publish("compacted", TRUE, batch)
        /\ UNCHANGED <<observed, source, buffers, flushed, plans, missed>>
    BY DEF CompactForeign, Processes, NextBatch, world
  <1>2. cursor \in Nat /\ Len(events) \in Nat /\ cursor < Len(events) /\ DOMAIN events = 1..Len(events)
    BY <1>1, Sizes DEF WayInv
  <1>3. batch \in Batches /\ v \in Users
    BY NextIsBatch DEF WayInv, CompactForeign, NextBatch, Batches
  <1>4. c \in Nat /\ new \in Nat /\ new = Len(events) + 1 /\ cursor <= c /\ c <= Len(events)
    BY <1>2
  <1>5. c \in 1..Len(events) /\ c \in Unread
    BY <1>2 DEF Unread
  <1>6. Arrives(events[c]) /\ source[v] = "debounced"
    <2>1. Arrives(events[c])
      BY <1>1 DEF Arrives
    <2>2. QED BY <1>1, <1>2, <1>5, <2>1 DEF WayInv, Routed
  <1>7. \A i \in Nat : i > cursor => i = c \/ i > c
    BY <1>2
  <1>8. cursor' = c
    BY <1>1
  <1> HIDE DEF c, new
  <1>9. ASSUME NEW u \in Users, NEW i \in Nat, NEW k \in Nat, NEW m \in Nat
        PROVE  /\ <<u, 1, i, k, m>> \in Line' <=>
                    \/ <<u, 1, i, k, m>> \in Line /\ i > c
                    \/ i = new /\ Holds(batch, u, k, m)
               /\ <<u, 4, i, k, m>> \in Line' <=> <<u, 4, i, k, m>> \in Line /\ i > c
               /\ <<u, 1, i, k, m>> \in Line => i < new
               /\ <<u, 0, i, k, m>> \in Line' <=> <<u, 0, i, k, m>> \in Line
               /\ <<u, 2, i, k, m>> \in Line' <=> <<u, 2, i, k, m>> \in Line
               /\ <<u, 3, i, k, m>> \in Line' <=> <<u, 3, i, k, m>> \in Line
    <2>1. PICK type, own : type = "compacted" /\ own = TRUE
      OBVIOUS
    <2>2. Publish(type, own, batch)
      BY <1>1, <2>1
    <2>3. /\ <<u, 1, i, k, m>> \in Line' <=>
               \/ <<u, 1, i, k, m>> \in Line /\ i > c
               \/ i = new /\ type = "compacted" /\ Holds(batch, u, k, m)
          /\ <<u, 4, i, k, m>> \in Line' <=>
               \/ <<u, 4, i, k, m>> \in Line /\ i > c
               \/ /\ i = new /\ type # "compacted" /\ ~ (type = "debounced" /\ own)
                  /\ Holds(batch, u, k, m)
          /\ <<u, 1, i, k, m>> \in Line => i < new
      BY <1>4, <1>8, <2>2, AfterPublishing
    <2>4. /\ <<u, 0, i, k, m>> \in Line' <=> <<u, 0, i, k, m>> \in Line
          /\ <<u, 2, i, k, m>> \in Line' <=> <<u, 2, i, k, m>> \in Line
          /\ <<u, 3, i, k, m>> \in Line' <=> <<u, 3, i, k, m>> \in Line
      BY <1>1, SameRanks
    <2>5. QED BY <2>1, <2>3, <2>4
  <1>10. ASSUME NEW u \in Users, NEW k \in Nat, NEW m \in Nat
         PROVE  <<u, 4, c, k, m>> \in Line <=> Holds(batch, u, k, m)
    BY <1>4, <1>5, <1>6, Member
  \* The messages of this user are not debounced here.
  <1>11. ASSUME NEW i \in Nat, NEW k \in Nat, NEW m \in Nat
         PROVE  <<v, 2, i, k, m>> \notin Line /\ <<v, 3, i, k, m>> \notin Line
    <2>1. ASSUME <<v, 2, i, k, m>> \in Line PROVE FALSE
      <3>1. i \in DOMAIN flushed /\ Holds(flushed[i], v, k, m)
        BY <1>3, <2>1, Member
      <3>2. source[flushed[i].user] = "buffered"
        BY <3>1 DEF WayInv, Routed
      <3>3. QED BY <1>6, <3>1, <3>2 DEF Holds
    <2>2. ASSUME <<v, 3, i, k, m>> \in Line PROVE FALSE
      <3>1. k \in DOMAIN buffers[v].messages
        BY <1>3, <2>2, Member
      <3>2. buffers[v].messages # <<>>
        BY <3>1
      <3>3. QED BY <1>3, <1>6, <3>2 DEF WayInv, Routed
    <2>3. QED BY <2>1, <2>2
  <1>12. Origin(v, 4, c, 1, new, 0, 0)
    <2> SUFFICES ASSUME NEW u \in Users, NEW r \in 0..4, NEW i \in Nat, NEW k \in Nat, NEW m \in Nat,
                        <<u, r, i, k, m>> \in Line'
                 PROVE  \/ /\ <<u, r, i, k, m>> \in Line
                           /\ u = v => Aside(r, i, k, 4, c, 1, new, 0)
                        \/ u = v /\ r = 1 /\ i = new /\ k > 0 /\ <<v, 4, c, k, m>> \in Line
      BY DEF Origin, Earlier
    <2>1. CASE r = 0
      <3>1. <<u, r, i, k, m>> \in Line
        BY <1>9, <2>1
      <3>2. QED BY <2>1, <3>1 DEF Aside
    <2>2. CASE r = 1
      <3>1. CASE <<u, 1, i, k, m>> \in Line
        <4>1. i < new
          BY <1>9, <3>1
        <4>2. QED BY <2>2, <3>1, <4>1 DEF Aside
      <3>2. CASE i = new /\ Holds(batch, u, k, m)
        <4>1. u = v /\ k > 0
          BY <1>3, <3>2, Held
        <4>2. QED BY <1>10, <2>2, <3>2, <4>1
      <3>3. QED BY <1>9, <2>2, <3>1, <3>2
    <2>3. CASE r = 2
      <3>1. <<u, 2, i, k, m>> \in Line
        BY <1>9, <2>3
      <3>2. u # v
        BY <1>11, <3>1
      <3>3. QED BY <2>3, <3>1, <3>2
    <2>4. CASE r = 3
      <3>1. <<u, 3, i, k, m>> \in Line
        BY <1>9, <2>4
      <3>2. u # v
        BY <1>11, <3>1
      <3>3. QED BY <2>4, <3>1, <3>2
    <2>5. CASE r = 4
      <3>1. <<u, 4, i, k, m>> \in Line /\ i > c
        BY <1>9, <2>5
      <3>2. QED BY <2>5, <3>1 DEF Aside
    <2>6. QED BY <2>1, <2>2, <2>3, <2>4, <2>5, Ranks
  <1>13. Remains
    <2>0. 1 \in 0..4
      OBVIOUS
    <2> SUFFICES ASSUME NEW u \in Users, NEW r \in 0..4, NEW i \in Nat, NEW k \in Nat, NEW m \in Nat,
                        <<u, r, i, k, m>> \in Line
                 PROVE  <<u, r, i, k, m>> \in Line' \/ <<u, 1, new, k, m>> \in Line'
      BY <1>4, <2>0, RemainsAt
    <2>1. CASE r = 0 \/ r = 2 \/ r = 3
      BY <1>9, <2>1
    <2>2. CASE r = 1
      <3>1. <<u, 1, i, k, m>> \in Line
        BY <2>2
      <3>2. i > cursor
        BY <3>1, UnreadBehind
      <3>3. i # c
        <4>1. events[i].type = "compacted"
          BY <3>1, Member
        <4>2. QED BY <1>1, <4>1
      <3>4. i > c
        BY <1>7, <3>2, <3>3
      <3>5. <<u, 1, i, k, m>> \in Line'
        BY <1>9, <3>1, <3>4
      <3>6. QED BY <2>2, <3>5
    <2>3. CASE r = 4
      <3>1. <<u, 4, i, k, m>> \in Line
        BY <2>3
      <3>2. i = c \/ i > c
        <4>1. i > cursor
          BY <3>1, UnreadBehind
        <4>2. QED BY <1>7, <4>1
      <3>3. CASE i = c
        <4>1. Holds(batch, u, k, m)
          BY <1>10, <3>1, <3>3
        <4>2. QED BY <1>4, <1>9, <4>1
      <3>4. CASE i > c
        BY <1>9, <2>3, <3>1, <3>4
      <3>5. QED BY <3>2, <3>3, <3>4
    <2>4. QED BY <2>1, <2>2, <2>3, Ranks
  <1>14. QED
    <2>1. /\ 0 \in Nat /\ 1 \in 0..4 /\ 4 \in 0..4 /\ 1 < 4 /\ (1 = 2 => 0 = 0)
          /\ pc # "down" /\ observed' = observed /\ missed' = missed
      BY <1>1
    <2>2. QED BY <1>3, <1>4, <1>12, <1>13, <2>1, Moves

LEMMA FlushMoves ==
  ASSUME WayInv, NEW v \in Users, Flush(v)
  PROVE  InOrder' /\ OwnMessages' /\ Kept'
  <1> DEFINE n == Len(flushed) + 1
             new == Len(events) + 1
             batch == [user |-> v, messages |-> buffers[v].messages]
  <1>1. /\ due # {} /\ Publish("debounced", TRUE, batch)
        /\ flushed' = Append(flushed, batch)
        /\ buffers' = [buffers EXCEPT ![v] = Empty]
        /\ UNCHANGED <<observed, source, cursor, plans, missed>>
    BY DEF Flush, world
  <1>2. /\ cursor \in Nat /\ Len(events) \in Nat /\ cursor <= Len(events)
        /\ Len(flushed) \in Nat /\ DOMAIN flushed = 1..Len(flushed)
    BY Sizes DEF WayInv
  <1>3. pc # "down"
    BY <1>1 DEF WayInv, DueInFlush
  <1>4. new \in Nat /\ new = Len(events) + 1 /\ n \in Nat /\ 2 \in 0..4
    BY <1>2
  <1>5. /\ buffers'[v] = Empty
        /\ \A u \in Users : u # v => buffers'[u] = buffers[u]
    BY <1>1 DEF WayInv, Inv, Types
  <1>6. buffers[v].messages \in Seq(1..Len(observed))
    BY DEF WayInv, Inv, Types
  <1>7. /\ \A i \in 1..n : i # n => i \in DOMAIN flushed
        /\ \A i \in DOMAIN flushed : i \in 1..n /\ i < n
        /\ n \in 1..n /\ DOMAIN flushed' = 1..n
        /\ flushed'[n] = batch
        /\ \A i \in DOMAIN flushed : flushed'[i] = flushed[i]
    BY <1>1, <1>2 DEF WayInv, Inv, Types
  <1> HIDE DEF n, new
  <1>8. ASSUME NEW u \in Users, NEW i \in Nat, NEW k \in Nat, NEW m \in Nat
        PROVE  /\ <<u, 1, i, k, m>> \in Line' <=> <<u, 1, i, k, m>> \in Line
               /\ <<u, 4, i, k, m>> \in Line' <=> <<u, 4, i, k, m>> \in Line
               /\ <<u, 0, i, k, m>> \in Line' <=> <<u, 0, i, k, m>> \in Line
               /\ u # v => (<<u, 3, i, k, m>> \in Line' <=> <<u, 3, i, k, m>> \in Line)
    <2>1. PICK type, own : type = "debounced" /\ own = TRUE
      OBVIOUS
    <2>2. Publish(type, own, batch)
      BY <1>1, <2>1
    <2>3. cursor' = cursor
      BY <1>1
    <2>4. /\ <<u, 1, i, k, m>> \in Line' <=>
               \/ <<u, 1, i, k, m>> \in Line /\ i > cursor
               \/ i = new /\ type = "compacted" /\ Holds(batch, u, k, m)
          /\ <<u, 4, i, k, m>> \in Line' <=>
               \/ <<u, 4, i, k, m>> \in Line /\ i > cursor
               \/ /\ i = new /\ type # "compacted" /\ ~ (type = "debounced" /\ own)
                  /\ Holds(batch, u, k, m)
      BY <1>2, <1>4, <2>2, <2>3, AfterPublishing, SMTT(30)
    <2>5. /\ <<u, 1, i, k, m>> \in Line => i > cursor
          /\ <<u, 4, i, k, m>> \in Line => i > cursor
      BY UnreadBehind
    <2>6. <<u, 0, i, k, m>> \in Line' <=> <<u, 0, i, k, m>> \in Line
      BY <1>1, SameRanks
    <2>7. u # v => (<<u, 3, i, k, m>> \in Line' <=> <<u, 3, i, k, m>> \in Line)
      BY <1>5, SameRanks
    <2>8. QED BY <2>1, <2>4, <2>5, <2>6, <2>7
  <1>9. ASSUME NEW i \in Nat, NEW k \in Nat, NEW m \in Nat
        PROVE  <<v, 3, i, k, m>> \notin Line'
    <2>1. <<v, 3, i, k, m>> \in Line' => k \in DOMAIN buffers'[v].messages
      BY MemberAfter
    <2>2. buffers'[v].messages = <<>>
      BY <1>5 DEF Empty
    <2>3. QED BY <2>1, <2>2
  <1>10. ASSUME NEW u \in Users, NEW i \in Nat, NEW k \in Nat, NEW m \in Nat
         PROVE  /\ <<u, 2, i, k, m>> \in Line' <=>
                     \/ <<u, 2, i, k, m>> \in Line
                     \/ i = n /\ Holds(batch, u, k, m)
                /\ <<u, 2, i, k, m>> \in Line => i < n
    <2>1. <<u, 2, i, k, m>> \in Line' <=> i \in DOMAIN flushed' /\ Holds(flushed'[i], u, k, m)
      BY MemberAfter
    <2>2. <<u, 2, i, k, m>> \in Line <=> i \in DOMAIN flushed /\ Holds(flushed[i], u, k, m)
      BY Member
    <2>3. CASE i = n
      BY <1>7, <2>1, <2>2, <2>3
    <2>4. CASE i # n
      BY <1>7, <2>1, <2>2, <2>4
    <2>5. QED BY <2>3, <2>4
  <1>11. ASSUME NEW u \in Users, NEW k \in Nat, NEW m \in Nat, Holds(batch, u, k, m)
         PROVE  u = v /\ k > 0 /\ <<v, 3, 0, k, m>> \in Line
    <2>1. u = v /\ k \in DOMAIN buffers[v].messages /\ buffers[v].messages[k] = m
      BY <1>11 DEF Holds
    <2>2. k > 0
      BY <1>6, <2>1
    <2>3. PICK z \in Nat : z = 0
      OBVIOUS
    <2>4. <<v, 3, z, k, m>> \in Line
      <3>1. <<v, 3, z, k, m>> \in Line <=>
              z = 0 /\ k \in DOMAIN buffers[v].messages /\ buffers[v].messages[k] = m
        BY Member
      <3>2. QED BY <2>1, <2>3, <3>1
    <2>5. QED BY <2>1, <2>2, <2>3, <2>4
  <1>12. ASSUME NEW i \in Nat, NEW k \in Nat, NEW m \in Nat, <<v, 3, i, k, m>> \in Line
         PROVE  Holds(batch, v, k, m)
    <2>1. k \in DOMAIN buffers[v].messages /\ buffers[v].messages[k] = m
      BY <1>12, Member
    <2>2. QED BY <2>1 DEF Holds
  <1> HIDE DEF batch
  <1>13. Origin(v, 3, 0, 2, n, 0, 0)
    <2> SUFFICES ASSUME NEW u \in Users, NEW r \in 0..4, NEW i \in Nat, NEW k \in Nat, NEW m \in Nat,
                        <<u, r, i, k, m>> \in Line'
                 PROVE  \/ /\ <<u, r, i, k, m>> \in Line
                           /\ u = v => Aside(r, i, k, 3, 0, 2, n, 0)
                        \/ u = v /\ r = 2 /\ i = n /\ k > 0 /\ <<v, 3, 0, k, m>> \in Line
      BY DEF Origin, Earlier
    <2>1. CASE r = 0 \/ r = 1 \/ r = 4
      <3>1. <<u, r, i, k, m>> \in Line
        BY <1>8, <2>1
      <3>2. QED BY <2>1, <3>1 DEF Aside
    <2>2. CASE r = 2
      <3>1. CASE <<u, 2, i, k, m>> \in Line
        <4>1. i < n
          BY <1>10, <3>1
        <4>2. QED BY <2>2, <3>1, <4>1 DEF Aside
      <3>2. CASE i = n /\ Holds(batch, u, k, m)
        BY <1>11, <2>2, <3>2
      <3>3. QED BY <1>10, <2>2, <3>1, <3>2
    <2>3. CASE r = 3
      <3>1. u # v
        BY <1>9, <2>3
      <3>2. <<u, 3, i, k, m>> \in Line
        BY <1>8, <2>3, <3>1
      <3>3. QED BY <2>3, <3>1, <3>2
    <2>4. QED BY <2>1, <2>2, <2>3, Ranks
  <1>14. Remains
    <2> SUFFICES ASSUME NEW u \in Users, NEW r \in 0..4, NEW i \in Nat, NEW k \in Nat, NEW m \in Nat,
                        <<u, r, i, k, m>> \in Line
                 PROVE  <<u, r, i, k, m>> \in Line' \/ <<u, 2, n, k, m>> \in Line'
      BY <1>4, RemainsAt
    <2>1. CASE r = 0 \/ r = 1 \/ r = 4
      BY <1>8, <2>1
    <2>2. CASE r = 2
      BY <1>10, <2>2
    <2>3. CASE r = 3 /\ u # v
      BY <1>8, <2>3
    <2>4. CASE r = 3 /\ u = v
      <3>1. Holds(batch, v, k, m)
        BY <1>12, <2>4
      <3>2. QED BY <1>4, <1>10, <2>4, <3>1
    <2>5. QED BY <2>1, <2>2, <2>3, <2>4, Ranks
  <1>15. QED
    <2>1. /\ 0 \in Nat /\ 2 \in 0..4 /\ 3 \in 0..4 /\ 2 < 3 /\ (2 = 2 => 0 = 0)
          /\ observed' = observed /\ missed' = missed
      BY <1>1
    <2>2. QED BY <1>3, <1>4, <1>13, <1>14, <2>1, Moves

LEMMA BufferMoves == ASSUME WayInv, Buffer PROVE InOrder' /\ OwnMessages' /\ Kept'
  <1> DEFINE c == cursor + 1
             batch == events[c].batch
             v == batch.user
             old == buffers[v].messages
             e == Len(old)
             full == old \o batch.messages
  <1>1. /\ pc = "batch" /\ cursor < upTo /\ events[c].type = "buffered" /\ cursor' = c
        /\ UNCHANGED <<observed, events, flushed, plans, missed>>
    BY DEF Buffer, Processes, NextBatch, world
  <1>2. cursor \in Nat /\ Len(events) \in Nat /\ cursor < Len(events)
    BY <1>1, Sizes DEF WayInv
  <1>3. batch \in Batches /\ v \in Users
    BY NextIsBatch DEF WayInv, Buffer, NextBatch, Batches
  <1>4. c \in Nat /\ cursor <= c /\ c \in Unread
    BY <1>2 DEF Unread
  <1>5. Arrives(events[c])
    BY <1>1 DEF Arrives
  <1>6. \A i \in Nat : i > cursor => i = c \/ i > c
    BY <1>2
  <1>7. /\ buffers'[v].messages = full
        /\ \A u \in Users : u # v => buffers'[u] = buffers[u]
    <2> DEFINE buffer == [messages |-> buffers[v].messages \o batch.messages,
                          deadline |-> observed[Last(batch.messages)].at + Window]
    <2>1. buffers' = [buffers EXCEPT ![v] = buffer]
      BY DEF Buffer, NextBatch
    <2>2. buffer.messages = full
      OBVIOUS
    <2>3. v \in DOMAIN buffers /\ DOMAIN buffers = Users
      BY <1>3 DEF WayInv, Inv, Types
    <2> HIDE DEF buffer, full, v
    <2>4. QED BY <2>1, <2>2, <2>3
  <1>8. old \in Seq(1..Len(observed)) /\ batch.messages \in Seq(1..Len(observed))
    BY <1>3 DEF WayInv, Inv, Types, Batches
  <1>9. e \in Nat /\ DOMAIN old = 1..e
    BY <1>8
  <1> HIDE DEF c, batch, v, old
  <1>10. /\ DOMAIN full = 1..(e + Len(batch.messages))
         /\ \A k \in 1..(e + Len(batch.messages)) :
              full[k] = IF k <= e THEN old[k] ELSE batch.messages[k - e]
         /\ Len(batch.messages) \in Nat
         /\ DOMAIN batch.messages = 1..Len(batch.messages)
    <2>1. /\ full \in Seq(1..Len(observed))
          /\ Len(full) = e + Len(batch.messages)
          /\ \A k \in 1..(e + Len(batch.messages)) :
              full[k] = IF k <= e THEN old[k] ELSE batch.messages[k - e]
      BY <1>8, ConcatProperties
    <2> HIDE DEF full
    <2>2. QED BY <1>8, <2>1
  <1> HIDE DEF e, full
  <1>11. ASSUME NEW u \in Users, NEW i \in Nat, NEW k \in Nat, NEW m \in Nat
         PROVE  /\ <<u, 1, i, k, m>> \in Line' <=> <<u, 1, i, k, m>> \in Line /\ i > c
                /\ <<u, 4, i, k, m>> \in Line' <=> <<u, 4, i, k, m>> \in Line /\ i > c
                /\ <<u, 0, i, k, m>> \in Line' <=> <<u, 0, i, k, m>> \in Line
                /\ <<u, 2, i, k, m>> \in Line' <=> <<u, 2, i, k, m>> \in Line
                /\ u # v => (<<u, 3, i, k, m>> \in Line' <=> <<u, 3, i, k, m>> \in Line)
    <2>1. /\ <<u, 1, i, k, m>> \in Line' <=> <<u, 1, i, k, m>> \in Line /\ i > c
          /\ <<u, 4, i, k, m>> \in Line' <=> <<u, 4, i, k, m>> \in Line /\ i > c
      BY <1>1, <1>4, AfterReading
    <2>2. /\ <<u, 0, i, k, m>> \in Line' <=> <<u, 0, i, k, m>> \in Line
          /\ <<u, 2, i, k, m>> \in Line' <=> <<u, 2, i, k, m>> \in Line
      BY <1>1, SameRanks
    <2>3. u # v => (<<u, 3, i, k, m>> \in Line' <=> <<u, 3, i, k, m>> \in Line)
      BY <1>7, SameRanks
    <2>4. QED BY <2>1, <2>2, <2>3
  <1>12. ASSUME NEW u \in Users, NEW k \in Nat, NEW m \in Nat
         PROVE  <<u, 4, c, k, m>> \in Line <=> Holds(batch, u, k, m)
    <2>1. <<u, 4, c, k, m>> \in Line <=>
            c \in Unread /\ Arrives(events[c]) /\ Holds(events[c].batch, u, k, m)
      BY <1>4, Member
    <2>2. QED BY <1>4, <1>5, <2>1 DEF batch
  \* The buffer of the user before and after.
  <1>13. ASSUME NEW i \in Nat, NEW k \in Nat, NEW m \in Nat
         PROVE  /\ <<v, 3, i, k, m>> \in Line <=> i = 0 /\ k \in 1..e /\ old[k] = m
                /\ <<v, 3, i, k, m>> \in Line' <=> i = 0 /\ k \in DOMAIN full /\ full[k] = m
    <2>1. <<v, 3, i, k, m>> \in Line <=>
            i = 0 /\ k \in DOMAIN buffers[v].messages /\ buffers[v].messages[k] = m
      BY <1>3, Member
    <2>2. <<v, 3, i, k, m>> \in Line' <=>
            i = 0 /\ k \in DOMAIN buffers'[v].messages /\ buffers'[v].messages[k] = m
      BY <1>3, MemberAfter
    <2>3. QED BY <1>7, <1>9, <2>1, <2>2 DEF old
  <1>14. ASSUME NEW i \in Nat, NEW k \in Nat, NEW m \in Nat, <<v, 3, i, k, m>> \in Line'
         PROVE  i = 0 /\ ( \/ k <= e /\ <<v, 3, i, k, m>> \in Line
                           \/ k > e /\ k - e \in Nat /\ <<v, 4, c, k - e, m>> \in Line)
    <2>1. i = 0 /\ k \in DOMAIN full /\ full[k] = m
      BY <1>13, <1>14
    <2>2. k \in 1..(e + Len(batch.messages))
      BY <1>10, <2>1
    <2>3. CASE k <= e
      <3>1. full[k] = old[k] /\ k \in 1..e
        BY <1>9, <1>10, <2>2, <2>3
      <3>2. QED BY <1>13, <2>1, <2>3, <3>1
    <2>4. CASE k > e
      <3>1. k - e \in Nat /\ k - e \in 1..Len(batch.messages) /\ ~ (k <= e)
        BY <1>9, <1>10, <2>2, <2>4
      <3>2. batch.messages[k - e] = m
        BY <1>10, <2>1, <2>2, <3>1
      <3>3. PICK l \in Nat : l = k - e
        BY <3>1
      <3>4. l \in DOMAIN batch.messages /\ batch.messages[l] = m
        BY <1>10, <3>1, <3>2, <3>3
      <3>5. Holds(batch, v, l, m)
        BY <3>4 DEF Holds, v
      <3>6. <<v, 4, c, l, m>> \in Line
        BY <1>3, <1>12, <3>5
      <3>7. QED BY <2>1, <2>4, <3>1, <3>3, <3>6
    <2>5. QED BY <1>9, <2>3, <2>4
  <1>15. ASSUME NEW i \in Nat, NEW k \in Nat, NEW m \in Nat, <<v, 3, i, k, m>> \in Line
         PROVE  <<v, 3, i, k, m>> \in Line'
    <2>1. i = 0 /\ k \in 1..e /\ old[k] = m
      BY <1>13, <1>15
    <2>2. k \in 1..(e + Len(batch.messages)) /\ k <= e
      BY <1>9, <1>10, <2>1
    <2>3. full[k] = old[k]
      BY <1>10, <2>2
    <2>4. k \in DOMAIN full /\ full[k] = m
      BY <1>10, <2>1, <2>2, <2>3
    <2>5. QED BY <1>13, <2>1, <2>4
  <1>16. ASSUME NEW u \in Users, NEW k \in Nat, NEW m \in Nat, <<u, 4, c, k, m>> \in Line
         PROVE  \E l \in Nat, z \in Nat : <<u, 3, z, l, m>> \in Line'
    <2>1. Holds(batch, u, k, m)
      BY <1>12, <1>16
    <2>2. u = v /\ k > 0 /\ k \in 1..Len(batch.messages) /\ batch.messages[k] = m
      BY <1>3, <1>10, <2>1, Held DEF Holds, v
    <2>3. PICK l \in Nat : l = e + k
      BY <1>9
    <2>4. l \in 1..(e + Len(batch.messages)) /\ ~ (l <= e) /\ l - e = k
      BY <1>9, <1>10, <2>2, <2>3
    <2>5. l \in DOMAIN full /\ full[l] = m
      BY <1>10, <2>2, <2>4
    <2>6. PICK z \in Nat : z = 0
      OBVIOUS
    <2>7. <<v, 3, z, l, m>> \in Line' <=> z = 0 /\ l \in DOMAIN full /\ full[l] = m
      BY <1>13
    <2>8. QED BY <2>2, <2>5, <2>6, <2>7
  <1>17. Origin(v, 4, c, 3, 0, 0, e)
    <2> SUFFICES ASSUME NEW u \in Users, NEW r \in 0..4, NEW i \in Nat, NEW k \in Nat, NEW m \in Nat,
                        <<u, r, i, k, m>> \in Line'
                 PROVE  \/ /\ <<u, r, i, k, m>> \in Line
                           /\ u = v => Aside(r, i, k, 4, c, 3, 0, e)
                        \/ u = v /\ r = 3 /\ i = 0 /\ k > e /\ <<v, 4, c, k - e, m>> \in Line
      BY DEF Origin, Earlier
    <2>1. CASE r = 0 \/ r = 1 \/ r = 2
      <3>1. <<u, r, i, k, m>> \in Line
        BY <1>11, <2>1
      <3>2. QED BY <2>1, <3>1 DEF Aside
    <2>2. CASE r = 3 /\ u # v
      BY <1>11, <2>2
    <2>3. CASE r = 3 /\ u = v
      <3>1. i = 0 /\ ( \/ k <= e /\ <<v, 3, i, k, m>> \in Line
                       \/ k > e /\ k - e \in Nat /\ <<v, 4, c, k - e, m>> \in Line)
        BY <1>14, <2>3
      <3>2. CASE k <= e /\ <<v, 3, i, k, m>> \in Line
        BY <2>3, <3>1, <3>2 DEF Aside
      <3>3. CASE k > e /\ <<v, 4, c, k - e, m>> \in Line
        BY <2>3, <3>1, <3>3
      <3>4. QED BY <3>1, <3>2, <3>3
    <2>4. CASE r = 4
      <3>1. <<u, 4, i, k, m>> \in Line /\ i > c
        BY <1>11, <2>4
      <3>2. QED BY <2>4, <3>1 DEF Aside
    <2>5. QED BY <2>1, <2>2, <2>3, <2>4, Ranks
  <1>18. Remains
    <2> SUFFICES ASSUME NEW u \in Users, NEW r \in 0..4, NEW i \in Nat, NEW k \in Nat, NEW m \in Nat,
                        <<u, r, i, k, m>> \in Line
                 PROVE  \E s \in 0..4, j, l \in Nat : <<u, s, j, l, m>> \in Line'
      BY DEF Remains
    <2>1. CASE r = 0 \/ r = 2 \/ (r = 3 /\ u # v)
      <3>1. <<u, r, i, k, m>> \in Line'
        BY <1>11, <2>1
      <3>2. QED BY <3>1
    <2>2. CASE r = 1
      <3>1. <<u, 1, i, k, m>> \in Line
        BY <2>2
      <3>2. i > cursor
        BY <3>1, UnreadBehind
      <3>3. i # c
        <4>1. events[i].type = "compacted"
          BY <3>1, Member
        <4>2. QED BY <1>1, <4>1 DEF c
      <3>4. i > c
        BY <1>6, <3>2, <3>3
      <3>5. <<u, r, i, k, m>> \in Line'
        BY <1>11, <2>2, <3>1, <3>4
      <3>6. QED BY <3>5
    <2>3. CASE r = 3 /\ u = v
      <3>1. <<u, r, i, k, m>> \in Line'
        BY <1>15, <2>3
      <3>2. QED BY <3>1
    <2>4. CASE r = 4
      <3>1. <<u, 4, i, k, m>> \in Line
        BY <2>4
      <3>2. i = c \/ i > c
        <4>1. i > cursor
          BY <3>1, UnreadBehind
        <4>2. QED BY <1>6, <4>1
      <3>3. CASE i = c
        <4>1. PICK l \in Nat, z \in Nat : <<u, 3, z, l, m>> \in Line'
          BY <1>16, <3>1, <3>3
        <4>2. 3 \in 0..4
          OBVIOUS
        <4>3. QED BY <4>1, <4>2
      <3>4. CASE i > c
        <4>1. <<u, r, i, k, m>> \in Line'
          BY <1>11, <2>4, <3>1, <3>4
        <4>2. QED BY <4>1
      <3>5. QED BY <3>2, <3>3, <3>4
    <2>5. QED BY <2>1, <2>2, <2>3, <2>4, Ranks
  <1>19. QED
    <2>1. /\ 0 \in Nat /\ 3 \in 0..4 /\ 4 \in 0..4 /\ 3 < 4 /\ (3 = 2 => 0 = 0)
          /\ pc # "down" /\ observed' = observed /\ missed' = missed
      BY <1>1
    <2>2. QED BY <1>3, <1>4, <1>9, <1>17, <1>18, <2>1, Moves

LEMMA ObserveMoves ==
  ASSUME WayInv, NEW u \in Users, NEW n \in 1..MaxPerEvent, NEW lag \in Lags[u],
         Observe(u, n, lag)
  PROVE  InOrder' /\ OwnMessages' /\ Kept'
  <1> DEFINE top == Len(observed)
             new == Len(events) + 1
             stamps == [k \in 1..n |-> [user |-> u, at |-> now - lag]]
             batch == [user |-> u, messages |-> [k \in 1..n |-> top + k]]
  <1>1. /\ observed' = observed \o stamps
        /\ Publish(source[u], FALSE, batch)
        /\ UNCHANGED <<source, pc, cursor, buffers, flushed, plans, missed>>
    BY DEF Observe, memory
  <1>2. /\ top \in Nat /\ n \in Nat /\ new \in Nat
        /\ cursor \in Nat /\ Len(events) \in Nat /\ cursor <= Len(events)
    BY Sizes, GatewayAssumption DEF WayInv, GatewayAssumption
  <1>3. source[u] \in {"buffered", "debounced"}
    BY GatewayAssumption DEF WayInv, Inv, Types, GatewayAssumption
  <1>4. /\ Len(observed') = top + n
        /\ \A m \in 1..top : observed'[m] = observed[m]
        /\ \A k \in 1..n : observed'[top + k].user = u
    <2> DEFINE Stamp == [user : Users, at : Int]
    <2>0. stamps \in [1..n -> Stamp] /\ DOMAIN stamps = 1..n
          /\ \A k \in 1..n : stamps[k].user = u
      BY GatewayAssumption DEF WayInv, Inv, Types, GatewayAssumption
    <2> HIDE DEF stamps
    <2>1. stamps \in Seq(Stamp) /\ Len(stamps) = n /\ \A k \in 1..n : stamps[k].user = u
      <3> HIDE DEF Stamp
      <3>1. stamps = [i \in 1..n |-> stamps[i]] /\ \A i \in 1..n : stamps[i] \in Stamp
        BY <2>0
      <3>2. [i \in 1..n |-> stamps[i]] \in Seq(Stamp)
        BY <1>2, <3>1
      <3>3. stamps \in Seq(Stamp)
        BY <3>1, <3>2, Zenon
      <3>4. QED BY <1>2, <2>0, <3>3, LenProperties
    <2>2. observed \in Seq(Stamp)
      BY DEF WayInv, Inv, Types
    <2> HIDE DEF Stamp
    <2>3. /\ Len(observed') = top + n
          /\ \A m \in 1..(top + n) :
               observed'[m] = IF m <= top THEN observed[m] ELSE stamps[m - top]
      BY <1>1, <2>1, <2>2, ConcatProperties
    <2> HIDE DEF top
    <2>4. ASSUME NEW k \in 1..n PROVE observed'[top + k].user = u
      <3>1. PICK m : m = top + k
        OBVIOUS
      <3>2. m \in 1..(top + n) /\ ~ (m <= top) /\ m - top = k
        BY <1>2, <3>1
      <3>3. observed'[m] = stamps[k]
        BY <2>3, <3>2
      <3>4. QED BY <2>1, <3>1, <3>3
    <2>5. \A m \in 1..top : m \in 1..(top + n) /\ m <= top
      BY <1>2
    <2>6. QED BY <2>3, <2>4, <2>5
  <1>5. ASSUME NEW w, NEW k \in Nat, NEW m \in Nat
        PROVE  Holds(batch, w, k, m) <=> w = u /\ k \in 1..n /\ m = top + k
    BY DEF Holds
  <1> HIDE DEF stamps, batch
  <1>6. PICK type, own : type = source[u] /\ own = FALSE
    OBVIOUS
  <1>7. type # "compacted" /\ ~ (type = "debounced" /\ own) /\ Publish(type, own, batch)
    BY <1>1, <1>3, <1>6
  <1> HIDE DEF top
  <1>7a. new = Len(events) + 1 /\ new \in Nat
    BY <1>2
  <1> HIDE DEF new
  <1>8. ASSUME NEW w \in Users, NEW i \in Nat, NEW k \in Nat, NEW m \in Nat
        PROVE  /\ <<w, 0, i, k, m>> \in Line' <=> <<w, 0, i, k, m>> \in Line
               /\ <<w, 1, i, k, m>> \in Line' <=> <<w, 1, i, k, m>> \in Line
               /\ <<w, 2, i, k, m>> \in Line' <=> <<w, 2, i, k, m>> \in Line
               /\ <<w, 3, i, k, m>> \in Line' <=> <<w, 3, i, k, m>> \in Line
               /\ <<w, 4, i, k, m>> \in Line' <=>
                    \/ <<w, 4, i, k, m>> \in Line
                    \/ i = new /\ w = u /\ k \in 1..n /\ m = top + k
               /\ <<w, 4, i, k, m>> \in Line => i < new
    <2>1. /\ <<w, 0, i, k, m>> \in Line' <=> <<w, 0, i, k, m>> \in Line
          /\ <<w, 2, i, k, m>> \in Line' <=> <<w, 2, i, k, m>> \in Line
          /\ <<w, 3, i, k, m>> \in Line' <=> <<w, 3, i, k, m>> \in Line
      BY <1>1, SameRanks
    <2>2. PICK c \in Nat : c = cursor
      BY <1>2
    <2>3. cursor' = c /\ cursor <= c /\ c <= Len(events)
      BY <1>1, <1>2, <2>2
    <2>4. /\ <<w, 1, i, k, m>> \in Line' <=>
               \/ <<w, 1, i, k, m>> \in Line /\ i > c
               \/ i = new /\ type = "compacted" /\ Holds(batch, w, k, m)
          /\ <<w, 4, i, k, m>> \in Line' <=>
               \/ <<w, 4, i, k, m>> \in Line /\ i > c
               \/ /\ i = new /\ type # "compacted" /\ ~ (type = "debounced" /\ own)
                  /\ Holds(batch, w, k, m)
          /\ <<w, 4, i, k, m>> \in Line => i < new
      BY <1>7a, <1>7, <2>3, AfterPublishing, SMTT(30)
    <2>5. /\ <<w, 1, i, k, m>> \in Line => i > c
          /\ <<w, 4, i, k, m>> \in Line => i > c
      BY <2>2, UnreadBehind
    <2>6. QED BY <1>5, <1>7, <2>1, <2>4, <2>5
  <1>9. ASSUME NEW w \in Users, NEW r \in 0..4, NEW i \in Nat, NEW k \in Nat, NEW m \in Nat,
               <<w, r, i, k, m>> \in Line
        PROVE  m \in 1..top /\ observed[m].user = w
    BY <1>9 DEF WayInv, OwnMessages, Observed, top
  \* What is on the way was, or is one of the new messages.
  <1>10. ASSUME NEW w \in Users, NEW r \in 0..4, NEW i \in Nat, NEW k \in Nat, NEW m \in Nat,
                <<w, r, i, k, m>> \in Line'
         PROVE  \/ <<w, r, i, k, m>> \in Line /\ (r = 4 => i < new)
                \/ r = 4 /\ i = new /\ w = u /\ k \in 1..n /\ m = top + k
    <2>1. CASE r # 4
      <3>1. r = 0 \/ r = 1 \/ r = 2 \/ r = 3
        BY <2>1, Ranks
      <3>2. QED BY <1>8, <1>10, <3>1
    <2>2. CASE r = 4
      BY <1>8, <1>10, <2>2
    <2>3. QED BY <2>1, <2>2
  <1>11. ASSUME NEW w \in Users, NEW r \in 0..4, NEW i \in Nat, NEW k \in Nat, NEW m \in Nat,
                <<w, r, i, k, m>> \in Line
         PROVE  <<w, r, i, k, m>> \in Line'
    BY <1>8, <1>11, Ranks
  <1>12. InOrder'
    <2>1. ASSUME NEW w \in Users, NEW r \in 0..4, NEW s \in 0..4,
                 NEW i \in Nat, NEW j \in Nat, NEW k \in Nat, NEW l \in Nat,
                 NEW m \in Nat, NEW o \in Nat,
                 <<w, r, i, k, m>> \in Line', <<w, s, j, l, o>> \in Line',
                 r < s \/ (r = s /\ (i < j \/ (i = j /\ k < l)))
          PROVE  m < o
      <3>1. CASE <<w, r, i, k, m>> \in Line /\ <<w, s, j, l, o>> \in Line
        BY <2>1, <3>1, Ordered DEF WayInv
      <3>2. CASE <<w, r, i, k, m>> \in Line /\ l \in 1..n /\ o = top + l
        <4>1. m \in 1..top
          BY <1>9, <3>2
        <4>2. QED BY <1>2, <3>2, <4>1
      <3>3. CASE /\ r = 4 /\ i = new /\ k \in 1..n /\ m = top + k
                 /\ <<w, s, j, l, o>> \in Line /\ (s = 4 => j < new)
        BY <1>2, <2>1, <3>3
      <3>4. CASE /\ r = 4 /\ i = new /\ k \in 1..n /\ m = top + k
                 /\ s = 4 /\ j = new /\ l \in 1..n /\ o = top + l
        BY <1>2, <2>1, <3>4
      <3>5. /\ \/ <<w, r, i, k, m>> \in Line /\ (r = 4 => i < new)
               \/ r = 4 /\ i = new /\ k \in 1..n /\ m = top + k
            /\ \/ <<w, s, j, l, o>> \in Line /\ (s = 4 => j < new)
               \/ s = 4 /\ j = new /\ l \in 1..n /\ o = top + l
        BY <1>10, <2>1
      <3>6. QED BY <3>1, <3>2, <3>3, <3>4, <3>5
    <2>2. \A w \in Users : \A r, s \in 0..4 : \A i, j, k, l, m, o \in Nat :
            /\ <<w, r, i, k, m>> \in Line' /\ <<w, s, j, l, o>> \in Line'
            /\ r < s \/ (r = s /\ (i < j \/ (i = j /\ k < l)))
            => m < o
      <3> TAKE w \in Users
      <3> TAKE r, s \in 0..4
      <3> TAKE i, j, k, l, m, o \in Nat
      <3> HAVE /\ <<w, r, i, k, m>> \in Line' /\ <<w, s, j, l, o>> \in Line'
               /\ r < s \/ (r = s /\ (i < j \/ (i = j /\ k < l)))
      <3> QED BY <2>1
    <2>3. QED BY <2>2, OrderFrom, Zenon
  <1>13. OwnMessages'
    <2> SUFFICES ASSUME NEW p \in Line' PROVE p[5] \in 1..Len(observed') /\ observed'[p[5]].user = p[1]
      BY DEF OwnMessages, Observed
    <2>1. PICK w \in Users, r \in 0..4, i \in Nat, k \in Nat, m \in Nat : p = <<w, r, i, k, m>>
      BY Tuples
    <2>2. CASE <<w, r, i, k, m>> \in Line
      <3>1. m \in 1..top /\ observed[m].user = w
        BY <1>9, <2>2
      <3>2. m \in 1..Len(observed') /\ observed'[m].user = w
        BY <1>2, <1>4, <3>1
      <3>3. QED BY <2>1, <3>2
    <2>3. CASE w = u /\ k \in 1..n /\ m = top + k
      <3>1. m \in 1..Len(observed')
        BY <1>2, <1>4, <2>3
      <3>2. observed'[m].user = w
        BY <1>4, <2>3
      <3>3. QED BY <2>1, <3>1, <3>2
    <2>4. QED BY <1>10, <2>1, <2>2, <2>3
  <1>14. Kept'
    <2> SUFFICES ASSUME pc # "down", NEW m \in 1..Len(observed'), m > missed
                 PROVE  \E p \in Line' : p[5] = m
      BY <1>1 DEF Kept, Observed
    <2>1. CASE m \in 1..top
      <3>1. PICK p \in Line : p[5] = m
        BY <2>1 DEF WayInv, Kept, Observed, top
      <3>2. PICK w \in Users, r \in 0..4, i \in Nat, k \in Nat, o \in Nat : p = <<w, r, i, k, o>>
        BY Tuples
      <3>3. p \in Line'
        BY <1>11, <3>1, <3>2
      <3>4. QED BY <3>1, <3>3
    <2>2. CASE m \notin 1..top
      <3>1. PICK k \in Nat : k \in 1..n /\ m = top + k
        <4>1. m - top \in 1..n /\ m = top + (m - top) /\ m - top \in Nat
          BY <1>2, <1>4, <2>2
        <4>2. QED BY <4>1
      <3>2. m \in Nat
        BY <1>2, <3>1
      <3>3. PICK i \in Nat : i = new
        BY <1>2
      <3>4. <<u, 4, i, k, m>> \in Line'
        BY <1>8, <3>1, <3>2, <3>3
      <3>5. <<u, 4, i, k, m>>[5] = m
        OBVIOUS
      <3>6. QED BY <3>4, <3>5
    <2>3. QED BY <2>1, <2>2
  <1>15. QED BY <1>12, <1>13, <1>14

\* Steps that move no message, and steps that only lose some.
LEMMA StandsStill ==
  ASSUME WayInv, Line' = Line, UNCHANGED <<observed, missed>>, pc # "down"
  PROVE  InOrder' /\ OwnMessages' /\ Kept'
  BY DEF WayInv, InOrder, OwnMessages, Kept, Observed

LEMMA Loses ==
  ASSUME WayInv, observed' = observed,
         \A u \in Users : \A r \in 0..4 : \A i, k, m \in Nat :
           <<u, r, i, k, m>> \in Line' => <<u, r, i, k, m>> \in Line
  PROVE  InOrder' /\ OwnMessages'
  <1>1. ASSUME NEW p \in Line' PROVE p \in Line
    <2>1. PICK u \in Users, r \in 0..4, i \in Nat, k \in Nat, m \in Nat : p = <<u, r, i, k, m>>
      BY Tuples
    <2>2. QED BY <2>1
  <1>2. QED BY <1>1 DEF WayInv, InOrder, OwnMessages, Observed

LEMMA SameLine == ASSUME UNCHANGED <<events, cursor, buffers, flushed, plans>> PROVE Line' = Line
  BY DEF Line, Unread

\* The debounced events of its own are not where the messages are.
LEMMA SkipMoves == ASSUME WayInv, SkipOwn PROVE InOrder' /\ OwnMessages' /\ Kept'
  <1> DEFINE c == cursor + 1
  <1>1. /\ pc = "batch" /\ events[c].type = "debounced" /\ events[c].own /\ cursor' = c
        /\ UNCHANGED <<observed, events, buffers, flushed, plans, missed>>
    BY DEF SkipOwn, Processes, world
  <1>2. cursor \in Nat /\ c \in Nat /\ cursor <= c /\ \A i \in Nat : i > cursor => i = c \/ i > c
    BY Sizes DEF WayInv
  <1>3. ~ Arrives(events[c]) /\ events[c].type # "compacted"
    BY <1>1 DEF Arrives
  <1> HIDE DEF c
  <1>4. ASSUME NEW u \in Users, NEW r \in 0..4, NEW i \in Nat, NEW k \in Nat, NEW m \in Nat
        PROVE  <<u, r, i, k, m>> \in Line' <=> <<u, r, i, k, m>> \in Line
    <2>1. CASE r = 0 \/ r = 2 \/ r = 3
      BY <1>1, <2>1, SameRanks
    <2>2. CASE r = 1 \/ r = 4
      <3>1. /\ <<u, 1, i, k, m>> \in Line' <=> <<u, 1, i, k, m>> \in Line /\ i > c
            /\ <<u, 4, i, k, m>> \in Line' <=> <<u, 4, i, k, m>> \in Line /\ i > c
        BY <1>1, <1>2, AfterReading
      <3>2. <<u, 1, i, k, m>> \in Line => i > cursor /\ events[i].type = "compacted"
        BY Member, UnreadBehind
      <3>3. <<u, 4, i, k, m>> \in Line => i > cursor /\ Arrives(events[i])
        BY Member, UnreadBehind
      <3>4. (<<u, 1, i, k, m>> \in Line \/ <<u, 4, i, k, m>> \in Line) => i > c
        BY <1>2, <1>3, <3>2, <3>3
      <3>5. QED BY <2>2, <3>1, <3>4
    <2>3. QED BY <2>1, <2>2, Ranks
  <1>5. Line' = Line
    <2>1. ASSUME NEW p \in Line' PROVE p \in Line
      <3>1. PICK u \in Users, r \in 0..4, i \in Nat, k \in Nat, m \in Nat : p = <<u, r, i, k, m>>
        BY Tuples
      <3>2. QED BY <1>4, <3>1
    <2>2. ASSUME NEW p \in Line PROVE p \in Line'
      <3>1. PICK u \in Users, r \in 0..4, i \in Nat, k \in Nat, m \in Nat : p = <<u, r, i, k, m>>
        BY Tuples
      <3>2. QED BY <1>4, <3>1
    <2>3. QED BY <2>1, <2>2
  <1>6. QED BY <1>1, <1>5, StandsStill

LEMMA CrashMoves == ASSUME WayInv, Crash PROVE InOrder' /\ OwnMessages' /\ Kept'
  <1>1. /\ pc' = "down" /\ buffers' = [u \in Users |-> Empty] /\ flushed' = <<>>
        /\ UNCHANGED <<observed, events, cursor, plans>>
    BY DEF Crash, world
  <1>2. ASSUME NEW u \in Users, NEW r \in 0..4, NEW i \in Nat, NEW k \in Nat, NEW m \in Nat,
               <<u, r, i, k, m>> \in Line'
        PROVE  <<u, r, i, k, m>> \in Line
    <2>1. CASE r = 0
      BY <1>1, <1>2, <2>1, SameRanks
    <2>2. CASE r = 1 \/ r = 4
      <3>1. (i \in Unread <=> i \in Unread') /\ (i \in Unread => events'[i] = events[i])
        BY <1>1 DEF Unread
      <3>2. /\ <<u, 1, i, k, m>> \in Line' <=> <<u, 1, i, k, m>> \in Line
            /\ <<u, 4, i, k, m>> \in Line' <=> <<u, 4, i, k, m>> \in Line
        BY <3>1, SameRanks
      <3>3. QED BY <1>2, <2>2, <3>2
    <2>3. CASE r = 2
      <3>1. DOMAIN flushed' = {}
        BY <1>1
      <3>2. <<u, 2, i, k, m>> \in Line' => i \in DOMAIN flushed'
        BY MemberAfter
      <3>3. QED BY <1>2, <2>3, <3>1, <3>2
    <2>4. CASE r = 3
      <3>1. buffers'[u].messages = <<>>
        BY <1>1 DEF Empty
      <3>2. <<u, 3, i, k, m>> \in Line' => k \in DOMAIN buffers'[u].messages
        BY MemberAfter
      <3>3. QED BY <1>2, <2>4, <3>1, <3>2
    <2>5. QED BY <2>1, <2>2, <2>3, <2>4, Ranks
  <1>3. InOrder' /\ OwnMessages'
    BY <1>1, <1>2, Loses
  <1>4. QED BY <1>1, <1>3 DEF Kept

LEMMA StartMoves == ASSUME WayInv, Start PROVE InOrder' /\ OwnMessages' /\ Kept'
  <1>1. /\ cursor' = Len(events) /\ missed' = Len(observed)
        /\ UNCHANGED <<observed, events, buffers, flushed, plans>>
    BY DEF Start, world
  <1>2. Len(events) \in Nat /\ cursor <= Len(events) /\ Len(observed) \in Nat
    BY Sizes DEF WayInv
  <1>3. ASSUME NEW u \in Users, NEW r \in 0..4, NEW i \in Nat, NEW k \in Nat, NEW m \in Nat,
               <<u, r, i, k, m>> \in Line'
        PROVE  <<u, r, i, k, m>> \in Line
    <2>1. CASE r = 0 \/ r = 2 \/ r = 3
      BY <1>1, <1>3, <2>1, SameRanks
    <2>2. CASE r = 1 \/ r = 4
      <3>1. PICK c \in Nat : c = Len(events)
        BY <1>2
      <3>2. events' = events /\ cursor' = c /\ cursor <= c
        BY <1>1, <1>2, <3>1
      <3>3. /\ <<u, 1, i, k, m>> \in Line' <=> <<u, 1, i, k, m>> \in Line /\ i > c
            /\ <<u, 4, i, k, m>> \in Line' <=> <<u, 4, i, k, m>> \in Line /\ i > c
        BY <3>2, AfterReading
      <3>4. QED BY <1>3, <2>2, <3>3
    <2>3. QED BY <2>1, <2>2, Ranks
  <1>4. InOrder' /\ OwnMessages'
    BY <1>1, <1>3, Loses
  <1>5. Kept'
    BY <1>1, <1>2 DEF Kept, Observed
  <1>6. QED BY <1>4, <1>5

\* The entry that is processed takes the way of its user.
LEMMA NextArrives ==
  ASSUME WayInv, NEW type, Processes(type)
  PROVE  /\ cursor + 1 \in DOMAIN events
         /\ events[cursor + 1].batch = NextBatch
         /\ Arrives(events[cursor + 1]) => source[NextBatch.user] = type
  <1>1. /\ cursor \in Nat /\ upTo \in Nat /\ cursor < upTo /\ upTo <= Len(events)
        /\ Len(events) \in Nat /\ DOMAIN events = 1..Len(events)
    BY Sizes DEF WayInv, Processes
  <1>2. cursor + 1 \in DOMAIN events
    BY <1>1
  <1>3. events[cursor + 1].type = type
    BY DEF Processes
  <1>4. QED BY <1>2, <1>3 DEF WayInv, Routed, NextBatch

\* A published event keeps the way when it does not arrive or is what its user's
\* observers publish.
LEMMA PublishRoutes ==
  ASSUME WayInv, source' = source, NEW type, NEW own, NEW batch, Publish(type, own, batch),
         type # "compacted" /\ ~ (type = "debounced" /\ own) => source[batch.user] = type
  PROVE  \A i \in DOMAIN events' : Arrives(events'[i]) =>
            source'[events'[i].batch.user] = events'[i].type
  <1> SUFFICES ASSUME NEW i \in DOMAIN events', Arrives(events'[i])
               PROVE  source[events'[i].batch.user] = events'[i].type
    OBVIOUS
  <1>1. Len(events) \in Nat /\ DOMAIN events = 1..Len(events)
    BY Sizes DEF WayInv
  <1>2. /\ events'[Len(events) + 1] = [type |-> type, own |-> own, batch |-> batch]
        /\ \A j \in 1..Len(events) : events'[j] = events[j]
        /\ DOMAIN events' = 1..(Len(events) + 1)
    BY PublishAppends DEF WayInv
  <1>3. CASE i \in 1..Len(events)
    BY <1>1, <1>2, <1>3 DEF WayInv, Routed
  <1>4. CASE i = Len(events) + 1
    BY <1>2, <1>4 DEF Arrives
  <1>5. QED BY <1>1, <1>2, <1>3, <1>4

LEMMA RoutedObserve ==
  ASSUME WayInv, NEW u \in Users, NEW n \in 1..MaxPerEvent, NEW lag \in Lags[u],
         Observe(u, n, lag)
  PROVE  PlansOfBatches' /\ Routed'
  <1> DEFINE stamps == [k \in 1..n |-> [user |-> u, at |-> now - lag]]
             batch == [user |-> u, messages |-> [k \in 1..n |-> Len(observed) + k]]
  <1>1. /\ observed' = observed \o stamps
        /\ Publish(source[u], FALSE, batch)
        /\ UNCHANGED <<source, buffers, flushed, plans>>
    BY DEF Observe, memory
  <1>2. PlansOfBatches'
    <2>1. Types /\ n \in Nat /\ stamps \in [1..n -> [user : Users, at : Int]]
      BY GatewayAssumption DEF WayInv, Inv, Types, GatewayAssumption
    <2> HIDE DEF stamps
    <2>2. Batches \subseteq Batches'
      BY <1>1, <2>1, BatchesGrow
    <2>3. QED BY <1>1, <2>2 DEF WayInv, PlansOfBatches
  <1>3. PICK type, own : type = source[u] /\ own = FALSE
    OBVIOUS
  <1>4. batch.user = u
    OBVIOUS
  <1> HIDE DEF batch
  <1>5. \A i \in DOMAIN events' : Arrives(events'[i]) =>
          source'[events'[i].batch.user] = events'[i].type
    BY <1>1, <1>3, <1>4, PublishRoutes
  <1>6. QED BY <1>1, <1>2, <1>5 DEF WayInv, Routed

LEMMA RoutedStep ==
  ASSUME WayInv, Turn \/ Tick \/ Crash \/ Start
  PROVE  PlansOfBatches' /\ Routed'
  <1>1. CASE Tick \/ Read \/ SkipOwn \/ StartFlush \/ Start
    BY <1>1 DEF Tick, Read, SkipOwn, StartFlush, Start, world, memory, WayInv,
       PlansOfBatches, Batches, Routed
  <1>2. ASSUME observed' = observed PROVE Batches' = Batches
    BY <1>2 DEF Batches
  <1>3. CASE Buffer
    <2>1. /\ Processes("buffered")
          /\ UNCHANGED <<observed, source, events, flushed, plans>>
      BY <1>3 DEF Buffer, world
    <2>2. Arrives(events[cursor + 1])
      BY <2>1 DEF Processes, Arrives
    <2>3. source[NextBatch.user] = "buffered"
      BY <2>1, <2>2, NextArrives
    <2>4. \A u \in Users : u # NextBatch.user => buffers'[u] = buffers[u]
      BY <1>3 DEF Buffer, WayInv, Inv, Types
    <2>5. \A u \in Users : buffers'[u].messages # <<>> => source[u] = "buffered"
      BY <2>3, <2>4 DEF WayInv, Routed
    <2>6. QED BY <1>2, <2>1, <2>5 DEF WayInv, Routed, PlansOfBatches
  <1>4. CASE CompactForeign
    <2>1. /\ Publish("compacted", TRUE, NextBatch)
          /\ UNCHANGED <<observed, source, buffers, flushed, plans>>
      BY <1>4 DEF CompactForeign, world
    <2>2. \A i \in DOMAIN events' : Arrives(events'[i]) =>
            source'[events'[i].batch.user] = events'[i].type
      <3>1. PICK type, own : type = "compacted" /\ own = TRUE
        OBVIOUS
      <3>2. QED BY <2>1, <3>1, PublishRoutes
    <2>3. QED BY <1>2, <2>1, <2>2 DEF WayInv, Routed, PlansOfBatches
  <1>5. CASE Plan
    <2>1. /\ plans' = Append(plans, NextBatch)
          /\ UNCHANGED <<observed, source, events, buffers, flushed>>
      BY <1>5 DEF Plan, world
    <2>2. NextBatch \in Batches
      BY <1>5, NextIsBatch DEF WayInv, Plan
    <2>3. PlansOfBatches'
      BY <1>2, <2>1, <2>2 DEF WayInv, PlansOfBatches
    <2>4. QED BY <2>1, <2>3 DEF WayInv, Routed
  <1>6. ASSUME NEW u \in Users, Flush(u) PROVE PlansOfBatches' /\ Routed'
    <2> DEFINE batch == [user |-> u, messages |-> buffers[u].messages]
    <2>1. /\ u \in due
          /\ Publish("debounced", TRUE, batch)
          /\ flushed' = Append(flushed, batch)
          /\ buffers' = [buffers EXCEPT ![u] = Empty]
          /\ UNCHANGED <<observed, source, plans>>
      BY <1>6 DEF Flush, world
    <2>2. batch.user = u
      OBVIOUS
    <2> HIDE DEF batch
    <2>3. \A i \in DOMAIN events' : Arrives(events'[i]) =>
            source'[events'[i].batch.user] = events'[i].type
      <3>1. PICK type, own : type = "debounced" /\ own = TRUE
        OBVIOUS
      <3>2. QED BY <2>1, <3>1, PublishRoutes
    <2>4. source[u] = "buffered"
      BY <2>1 DEF WayInv, Inv, DueIsDue, Routed
    <2>5. \A v \in Users : buffers'[v].messages # <<>> => source[v] = "buffered"
      BY <2>1 DEF WayInv, Inv, Types, Routed, Empty
    <2>6. \A i \in DOMAIN flushed' : source[flushed'[i].user] = "buffered"
      <3>1. flushed \in Seq(Batches)
        BY DEF WayInv, Inv, Types
      <3>2. \A i \in DOMAIN flushed' : flushed'[i] = batch \/ (i \in DOMAIN flushed /\ flushed'[i] = flushed[i])
        BY <2>1, <3>1
      <3>3. QED BY <2>2, <2>4, <3>2 DEF WayInv, Routed
    <2>7. QED BY <1>2, <2>1, <2>3, <2>5, <2>6 DEF WayInv, Routed, PlansOfBatches
  <1>7. CASE Compact
    <2>1. /\ Publish("compacted", TRUE, Head(flushed)) /\ flushed # <<>>
          /\ flushed' = Tail(flushed)
          /\ UNCHANGED <<observed, source, buffers, plans>>
      BY <1>7 DEF Compact, world
    <2>2. \A i \in DOMAIN events' : Arrives(events'[i]) =>
            source'[events'[i].batch.user] = events'[i].type
      <3>1. PICK type, own, batch : type = "compacted" /\ own = TRUE /\ batch = Head(flushed)
        OBVIOUS
      <3>2. QED BY <2>1, <3>1, PublishRoutes
    <2>3. \A i \in DOMAIN flushed' : source[flushed'[i].user] = "buffered"
      <3>1. flushed \in Seq(Batches)
        BY DEF WayInv, Inv, Types
      <3>2. \A i \in DOMAIN flushed' : i + 1 \in DOMAIN flushed /\ flushed'[i] = flushed[i + 1]
        BY <2>1, <3>1
      <3>3. QED BY <3>2 DEF WayInv, Routed
    <2>4. QED BY <1>2, <2>1, <2>2, <2>3 DEF WayInv, Routed, PlansOfBatches
  <1>8. CASE Crash
    <2>1. /\ buffers' = [u \in Users |-> Empty] /\ flushed' = <<>>
          /\ UNCHANGED <<observed, source, events, plans>>
      BY <1>8 DEF Crash, world
    <2>2. \A u \in Users : buffers'[u].messages = <<>>
      BY <2>1 DEF Empty
    <2>3. DOMAIN flushed' = {}
      BY <2>1
    <2>4. QED BY <1>2, <2>1, <2>2, <2>3 DEF WayInv, Routed, PlansOfBatches
  <1>9. QED BY <1>1, <1>3, <1>4, <1>5, <1>6, <1>7, <1>8 DEF Turn

LEMMA WayInit == Init => WayInv
  <1> SUFFICES ASSUME Init PROVE WayInv
    OBVIOUS
  <1>1. /\ observed = <<>> /\ events = <<>> /\ cursor = 0 /\ due = {} /\ plans = <<>>
        /\ flushed = <<>> /\ buffers = [u \in Users |-> Empty]
    BY DEF Init
  <1>2. Inv /\ DueInFlush
    BY InvInit DEF Init, DueInFlush
  <1>3. PlansOfBatches /\ Routed
    BY <1>1 DEF PlansOfBatches, Routed, Empty
  <1>4. Line = {}
    <2>1. Unread = {}
      BY <1>1 DEF Unread
    <2>2. /\ DOMAIN plans = {} /\ DOMAIN flushed = {}
          /\ \A u \in Users : DOMAIN buffers[u].messages = {}
      BY <1>1 DEF Empty
    <2>3. QED BY <2>1, <2>2 DEF Line
  <1>5. Observed = {}
    BY <1>1 DEF Observed
  <1>6. QED BY <1>2, <1>3, <1>4, <1>5 DEF WayInv, InOrder, OwnMessages, Kept

LEMMA WayStep == ASSUME WayInv, [Next]_vars PROVE WayInv'
  <1>1. Inv' /\ DueInFlush'
    BY StepKeeps, StutterKeeps DEF WayInv
  <1>2. CASE UNCHANGED vars
    <2>1. UNCHANGED <<source, observed, events, pc, cursor, buffers, flushed, plans, missed>>
      BY <1>2 DEF vars, world, memory
    <2>2. Line' = Line
      BY <2>1, SameLine
    <2>3. QED
      BY <1>1, <2>1, <2>2 DEF WayInv, PlansOfBatches, Batches, Routed, OwnMessages, InOrder,
         Kept, Observed
  <1>3. CASE Next
    <2>1. PlansOfBatches' /\ Routed'
      BY <1>3, RoutedObserve, RoutedStep DEF Next
    <2>2. CASE Tick \/ Read \/ StartFlush
      <3>1. UNCHANGED <<observed, events, cursor, buffers, flushed, plans, missed>>
        BY <2>2 DEF Tick, Read, StartFlush, world, memory
      <3>2. Line' = Line
        BY <3>1, SameLine
      <3>3. pc' = "down" => pc = "down"
        BY <2>2 DEF Tick, Read, StartFlush, memory
      <3>4. pc = "down" => pc' = "down"
        BY <2>2 DEF Tick, Read, StartFlush, memory
      <3>5. InOrder' /\ OwnMessages' /\ Kept'
        BY <3>1, <3>2, <3>4 DEF WayInv, InOrder, OwnMessages, Kept, Observed
      <3>6. QED BY <1>1, <2>1, <3>5 DEF WayInv
    <2>3. (InOrder' /\ OwnMessages' /\ Kept') \/ Tick \/ Read \/ StartFlush
      BY <1>3, ObserveMoves, BufferMoves, SkipMoves, ForeignMoves, PlanMoves, FlushMoves,
         CompactMoves, CrashMoves, StartMoves DEF Next, Turn
    <2>4. QED BY <1>1, <2>1, <2>2, <2>3 DEF WayInv
  <1>4. QED BY <1>2, <1>3

(* A user's messages reach the plans in the order in which they were observed *)
(* and none of them twice, whatever the loop and its crashes do in between.   *)
THEOREM PlannedInOrder == Spec => []OrderedOnce
  <1>1. ASSUME WayInv PROVE OrderedOnce
    <2> SUFFICES ASSUME NEW i \in DOMAIN plans, NEW j \in DOMAIN plans,
                        plans[i].user = plans[j].user,
                        NEW k \in DOMAIN plans[i].messages, NEW l \in DOMAIN plans[j].messages,
                        i < j \/ (i = j /\ k < l)
                 PROVE  plans[i].messages[k] < plans[j].messages[l]
      BY DEF OrderedOnce
    <2>1. i \in Nat /\ j \in Nat
      BY <1>1, Sizes DEF WayInv
    <2>2. plans[i] \in Batches /\ plans[j] \in Batches
      BY <1>1 DEF WayInv, PlansOfBatches
    <2>3. PICK u, m, n : u = plans[i].user /\ m = plans[i].messages[k] /\ n = plans[j].messages[l]
      OBVIOUS
    <2>4. Holds(plans[i], u, k, m) /\ Holds(plans[j], u, l, n)
      BY <2>3 DEF Holds
    <2>5. u \in Users /\ k \in Nat /\ l \in Nat /\ m \in Nat /\ n \in Nat
      <3>1. /\ plans[i].messages \in Seq(1..Len(observed))
            /\ plans[j].messages \in Seq(1..Len(observed))
            /\ plans[i].user \in Users
        BY <2>2 DEF Batches
      <3>2. /\ k \in Nat /\ plans[i].messages[k] \in 1..Len(observed)
            /\ l \in Nat /\ plans[j].messages[l] \in 1..Len(observed)
        <4>1. \A messages \in Seq(1..Len(observed)) : \A x \in DOMAIN messages :
                x \in Nat /\ messages[x] \in 1..Len(observed)
          OBVIOUS
        <4>2. QED BY <3>1, <4>1
      <3>3. Len(observed) \in Nat
        BY <1>1 DEF WayInv, Inv, Types
      <3>4. m \in Nat /\ n \in Nat
        BY <2>3, <3>2, <3>3
      <3>5. QED BY <2>3, <3>1, <3>2, <3>4
    <2>6. PICK z \in 0..4 : z = 0
      OBVIOUS
    <2>7. <<u, z, i, k, m>> \in Line /\ <<u, z, j, l, n>> \in Line
      BY <2>1, <2>4, <2>5, <2>6, Member
    <2>8. m < n
      BY <1>1, <2>1, <2>5, <2>7, Ordered DEF WayInv
    <2>9. QED BY <2>3, <2>8
  <1>2. QED BY <1>1, WayInit, WayStep, PTL DEF Spec

\* A message is at one point of the way.
LEMMA OnePoint ==
  ASSUME WayInv, NEW u \in Users, NEW v \in Users, NEW r \in 0..4, NEW s \in 0..4,
         NEW i \in Nat, NEW j \in Nat, NEW k \in Nat, NEW l \in Nat, NEW m \in Nat,
         <<u, r, i, k, m>> \in Line, <<v, s, j, l, m>> \in Line
  PROVE  u = v /\ r = s /\ i = j
  <1>1. u = v
    <2>1. \A p \in Line : observed[p[5]].user = p[1]
      BY DEF WayInv, OwnMessages
    <2>2. observed[m].user = u /\ observed[m].user = v
      BY <2>1
    <2>3. QED BY <2>2
  <1>2. ~ (r < s \/ (r = s /\ (i < j \/ (i = j /\ k < l))))
    <2>1. SUFFICES ASSUME r < s \/ (r = s /\ (i < j \/ (i = j /\ k < l))) PROVE m < m
      OBVIOUS
    <2>2. <<u, s, j, l, m>> \in Line
      BY <1>1
    <2>3. QED BY <2>1, <2>2, Ordered DEF WayInv
  <1>3. ~ (s < r \/ (s = r /\ (j < i \/ (j = i /\ l < k))))
    <2>1. SUFFICES ASSUME s < r \/ (s = r /\ (j < i \/ (j = i /\ l < k))) PROVE m < m
      OBVIOUS
    <2>2. <<u, s, j, l, m>> \in Line
      BY <1>1
    <2>3. QED BY <2>1, <2>2, Ordered DEF WayInv
  <1>4. QED BY <1>1, <1>2, <1>3

\* The place of a point of the way.
PlaceOf(u, r, i) ==
  IF r = 0 THEN <<"plan", i>> ELSE IF r = 2 THEN <<"flushed", i>>
  ELSE IF r = 3 THEN <<"buffer", u>> ELSE <<"event", i>>

LEMMA HasPosition ==
  ASSUME NEW batch \in Batches, NEW m, Has(batch, m)
  PROVE  batch.user \in Users /\ \E k \in Nat : Holds(batch, batch.user, k, m)
  <1>1. batch.messages \in Seq(1..Len(observed)) /\ batch.user \in Users
    BY DEF Batches
  <1>2. PICK k \in DOMAIN batch.messages : batch.messages[k] = m
    BY DEF Has, Range
  <1>3. QED BY <1>1, <1>2 DEF Holds

LEMMA PlaceOnWay ==
  ASSUME WayInv, NEW m \in Nat, NEW place \in Places(m)
  PROVE  \E u \in Users, r \in 0..4, i, k \in Nat :
           <<u, r, i, k, m>> \in Line /\ place = PlaceOf(u, r, i)
  <1>1. /\ cursor \in Nat /\ Len(events) \in Nat /\ DOMAIN plans \subseteq Nat
        /\ DOMAIN flushed \subseteq Nat
    BY Sizes DEF WayInv
  <1>2. CASE \E i \in (cursor + 1)..Len(events) :
               /\ place = <<"event", i>> /\ Has(events[i].batch, m)
               /\ ~ (events[i].type = "debounced" /\ events[i].own)
    <2>1. PICK i \in (cursor + 1)..Len(events) :
            /\ place = <<"event", i>> /\ Has(events[i].batch, m)
            /\ ~ (events[i].type = "debounced" /\ events[i].own)
      BY <1>2
    <2>2. i \in Nat /\ i \in Unread /\ i \in 1..Len(events)
      BY <1>1 DEF Unread
    <2>3. events[i].batch \in Batches
      <3>1. events \in Seq(EventsOfBatches)
        BY DEF WayInv, Inv, Types
      <3>2. events[i] \in EventsOfBatches
        BY <2>2, <3>1
      <3>3. QED BY <3>2 DEF EventsOfBatches
    <2>4. PICK u \in Users, k \in Nat : Holds(events[i].batch, u, k, m)
      BY <2>1, <2>3, HasPosition
    <2>5. PICK r \in 0..4 : (r = 1 /\ events[i].type = "compacted") \/ (r = 4 /\ Arrives(events[i]))
      <3>1. 1 \in 0..4 /\ 4 \in 0..4
        OBVIOUS
      <3>2. QED BY <2>1, <3>1 DEF Arrives
    <2>6. <<u, r, i, k, m>> \in Line
      BY <2>2, <2>4, <2>5, Member
    <2>7. place = PlaceOf(u, r, i)
      BY <2>1, <2>5 DEF PlaceOf
    <2>8. QED BY <2>2, <2>6, <2>7
  <1>3. CASE \E u \in Users : place = <<"buffer", u>> /\ Has(buffers[u], m)
    <2>1. PICK u \in Users : place = <<"buffer", u>> /\ Has(buffers[u], m)
      BY <1>3
    <2>2. PICK k : k \in DOMAIN buffers[u].messages /\ buffers[u].messages[k] = m
      BY <2>1 DEF Has, Range
    <2>3. k \in Nat
      <3>1. buffers[u].messages \in Seq(1..Len(observed))
        BY DEF WayInv, Inv, Types
      <3>2. QED BY <2>2, <3>1
    <2>4. PICK r \in 0..4, z \in Nat : r = 3 /\ z = 0
      OBVIOUS
    <2>5. <<u, r, z, k, m>> \in Line
      <3>1. <<u, 3, z, k, m>> \in Line <=>
              z = 0 /\ k \in DOMAIN buffers[u].messages /\ buffers[u].messages[k] = m
        BY <2>3, Member
      <3>2. QED BY <2>2, <2>4, <3>1
    <2>6. place = PlaceOf(u, r, z)
      BY <2>1, <2>4 DEF PlaceOf
    <2>7. QED BY <2>3, <2>5, <2>6
  <1>4. CASE \E i \in DOMAIN flushed : place = <<"flushed", i>> /\ Has(flushed[i], m)
    <2>1. PICK i \in DOMAIN flushed : place = <<"flushed", i>> /\ Has(flushed[i], m)
      BY <1>4
    <2>2. flushed[i] \in Batches
      BY DEF WayInv, Inv, Types
    <2>3. PICK u \in Users, k \in Nat : Holds(flushed[i], u, k, m)
      BY <2>1, <2>2, HasPosition
    <2>4. PICK r \in 0..4 : r = 2
      OBVIOUS
    <2>5. i \in Nat /\ <<u, r, i, k, m>> \in Line
      BY <1>1, <2>3, <2>4, Member
    <2>6. place = PlaceOf(u, r, i)
      BY <2>1, <2>4 DEF PlaceOf
    <2>7. QED BY <2>5, <2>6
  <1>5. CASE \E i \in DOMAIN plans : place = <<"plan", i>> /\ Has(plans[i], m)
    <2>1. PICK i \in DOMAIN plans : place = <<"plan", i>> /\ Has(plans[i], m)
      BY <1>5
    <2>2. plans[i] \in Batches
      BY DEF WayInv, PlansOfBatches
    <2>3. PICK u \in Users, k \in Nat : Holds(plans[i], u, k, m)
      BY <2>1, <2>2, HasPosition
    <2>4. PICK r \in 0..4 : r = 0
      OBVIOUS
    <2>5. i \in Nat /\ <<u, r, i, k, m>> \in Line
      BY <1>1, <2>3, <2>4, Member
    <2>6. place = PlaceOf(u, r, i)
      BY <2>1, <2>4 DEF PlaceOf
    <2>7. QED BY <2>5, <2>6
  <1>6. QED BY <1>2, <1>3, <1>4, <1>5 DEF Places

LEMMA PointHasPlace ==
  ASSUME NEW u \in Users, NEW r \in 0..4, NEW i \in Nat, NEW k \in Nat, NEW m \in Nat,
         <<u, r, i, k, m>> \in Line
  PROVE  PlaceOf(u, r, i) \in Places(m)
  <1>1. ASSUME NEW batch, Holds(batch, u, k, m) PROVE Has(batch, m)
    BY <1>1 DEF Holds, Has, Range
  <1>2. CASE r = 0
    BY <1>1, <1>2, Member DEF PlaceOf, Places
  <1>3. CASE r = 1
    <2>1. i \in (cursor + 1)..Len(events) /\ events[i].type = "compacted" /\ Has(events[i].batch, m)
      <3>1. <<u, 1, i, k, m>> \in Line <=>
              i \in Unread /\ events[i].type = "compacted" /\ Holds(events[i].batch, u, k, m)
        BY Member
      <3>2. QED BY <1>1, <1>3, <3>1 DEF Unread
    <2>2. PlaceOf(u, r, i) = <<"event", i>>
      BY <1>3 DEF PlaceOf
    <2>3. QED BY <2>1, <2>2 DEF Places
  <1>4. CASE r = 2
    BY <1>1, <1>4, Member, ZenonT(30) DEF PlaceOf, Places
  <1>5. CASE r = 3
    <2>1. Has(buffers[u], m)
      <3>1. <<u, 3, i, k, m>> \in Line <=>
              i = 0 /\ k \in DOMAIN buffers[u].messages /\ buffers[u].messages[k] = m
        BY Member
      <3>2. QED BY <1>5, <3>1 DEF Has, Range
    <2>2. QED BY <1>5, <2>1 DEF PlaceOf, Places
  <1>6. CASE r = 4
    <2>1. i \in (cursor + 1)..Len(events) /\ Arrives(events[i]) /\ Has(events[i].batch, m)
      <3>1. <<u, 4, i, k, m>> \in Line <=>
              i \in Unread /\ Arrives(events[i]) /\ Holds(events[i].batch, u, k, m)
        BY Member
      <3>2. QED BY <1>1, <1>6, <3>1 DEF Unread
    <2>2. PlaceOf(u, r, i) = <<"event", i>>
      BY <1>6 DEF PlaceOf
    <2>3. QED BY <2>1, <2>2 DEF Places, Arrives
  <1>7. QED BY <1>2, <1>3, <1>4, <1>5, <1>6, Ranks

(* No message is in two places on its way to a plan, and while the service    *)
(* runs, none is lost that was observed since its last start.                 *)
THEOREM NothingLostOrTwice == Spec => []InOnePlace
  <1>1. ASSUME WayInv PROVE InOnePlace
    <2> SUFFICES ASSUME pc # "down", NEW m \in Observed
                 PROVE  /\ Cardinality(Places(m)) <= 1
                        /\ m > missed => Cardinality(Places(m)) = 1
      BY DEF InOnePlace
    <2>1. m \in Nat
      BY <1>1, Sizes DEF WayInv, Observed
    <2>2. ASSUME NEW p \in Places(m), NEW q \in Places(m) PROVE p = q
      <3>1. PICK u \in Users, r \in 0..4, i \in Nat, k \in Nat :
              <<u, r, i, k, m>> \in Line /\ p = PlaceOf(u, r, i)
        BY <1>1, <2>1, PlaceOnWay
      <3>2. PICK v \in Users, s \in 0..4, j \in Nat, l \in Nat :
              <<v, s, j, l, m>> \in Line /\ q = PlaceOf(v, s, j)
        BY <1>1, <2>1, PlaceOnWay
      <3>3. u = v /\ r = s /\ i = j
        BY <1>1, <2>1, <3>1, <3>2, OnePoint
      <3>4. QED BY <3>1, <3>2, <3>3
    <2>3. ASSUME m > missed PROVE Places(m) # {}
      <3>1. PICK p \in Line : p[5] = m
        BY <1>1, <2>3 DEF WayInv, Kept
      <3>2. PICK u \in Users, r \in 0..4, i \in Nat, k \in Nat, n \in Nat : p = <<u, r, i, k, n>>
        BY Tuples
      <3>3. <<u, r, i, k, m>> \in Line
        BY <3>1, <3>2
      <3>4. QED BY <2>1, <3>3, PointHasPlace
    <2>4. CASE Places(m) = {}
      <3>1. Cardinality(Places(m)) = 0
        BY <2>4, FS_EmptySet
      <3>2. QED BY <2>3, <2>4, <3>1
    <2>5. CASE Places(m) # {}
      <3>1. PICK p : Places(m) = {p}
        BY <2>2, <2>5
      <3>2. Cardinality(Places(m)) = 1
        BY <3>1, FS_Singleton
      <3>3. QED BY <3>2
    <2>6. QED BY <2>4, <2>5
  <1>2. QED BY <1>1, WayInit, WayStep, PTL DEF Spec

=============================================================================
