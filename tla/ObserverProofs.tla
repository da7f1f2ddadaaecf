--------------------------- MODULE ObserverProofs ---------------------------
(***************************************************************************)
(* Proofs about the observers, for any number of them on one state file,    *)
(* any users and texts, and any deaths and restarts.  Those that poll        *)
(* through wcferry publish what a user wrote, in the order it was written,   *)
(* and of what their polls receive lose one message at most with each death; *)
(* one with a state file of its own repeats a text once at most with each    *)
(* death, however it polls.                                                  *)
(***************************************************************************)
EXTENDS Observer, FiniteSetTheorems, WellFoundedInduction, TLAPS

Publication == [observer : Observers, user : Users, msg : Nat]

Types ==
  /\ setup \in Setups
  /\ chat \in Seq(Message)
  /\ pc \in [Observers -> {"poll", "emit", "save", "write", "down"}]
  /\ next \in [Observers -> Nat]
  /\ held \in [Observers -> [user : Users, msg : Nat]]
  /\ emitted \in Seq(Publication)

\* A message that observer o has received and wanted, taken for the user's.
Received(o, user, m) ==
  /\ m \in 1..Len(chat)
  /\ m < next[o]
  /\ Wanted(o, m)
  /\ user = UserOf(o, m)

\* What is published or about to be was received, in this order.
InTurn ==
  /\ \A o \in Observers : next[o] \in 1..(Len(chat) + 1)
  /\ \A i \in DOMAIN emitted :
       Received(emitted[i].observer, emitted[i].user, emitted[i].msg)
  /\ \A o \in Observers : pc[o] = "emit" =>
       /\ Received(o, held[o].user, held[o].msg)
       /\ \A i \in DOMAIN emitted :
            emitted[i].observer = o => emitted[i].msg < held[o].msg

Inv ==
  /\ setup \in Setups
  /\ setup.backend = "wcferry" => Types /\ InTurn /\ EmittedInOrder

LEMMA InvInit == Init => Inv
  <1> SUFFICES ASSUME Init PROVE Inv
    OBVIOUS
  <1>1. /\ chat = <<>> /\ emitted = <<>> /\ setup \in Setups
        /\ pc = [o \in Observers |-> "poll"]
        /\ next = [o \in Observers |-> 1]
        /\ held = [o \in Observers |-> [user |-> CustomerOf[o], msg |-> 1]]
    BY DEF Init
  <1>2. Types
    BY <1>1, ObserverAssumption DEF Types
  <1>3. InTurn /\ EmittedInOrder
    BY <1>1 DEF InTurn, EmittedInOrder
  <1>4. QED BY <1>1, <1>2, <1>3 DEF Inv

\* A step that publishes nothing and takes no new message in hand.
LEMMA Keeps ==
  ASSUME Types, InTurn, EmittedInOrder,
         setup' = setup, emitted' = emitted, held' = held,
         chat' = chat \/ \E message \in Message : chat' = Append(chat, message),
         pc' \in [Observers -> {"poll", "emit", "save", "write", "down"}],
         \A o \in Observers : pc'[o] = "emit" => pc[o] = "emit",
         next' \in [Observers -> Nat],
         \A o \in Observers : next[o] <= next'[o] /\ next'[o] <= Len(chat) + 1
  PROVE  (Types /\ InTurn /\ EmittedInOrder)'
  <1>1. /\ chat' \in Seq(Message)
        /\ Len(chat) <= Len(chat')
        /\ \A m \in 1..Len(chat) : chat'[m] = chat[m]
    <2>1. chat \in Seq(Message)
      BY DEF Types
    <2>2. CASE chat' = chat
      BY <2>1, <2>2
    <2>3. ASSUME NEW message \in Message, chat' = Append(chat, message)
          PROVE  /\ chat' \in Seq(Message)
                 /\ Len(chat) <= Len(chat')
                 /\ \A m \in 1..Len(chat) : chat'[m] = chat[m]
      BY <2>1, <2>3
    <2>4. QED BY <2>2, <2>3
  <1>2. Types'
    BY <1>1 DEF Types
  <1>3. ASSUME NEW o \in Observers, NEW user, NEW m, Received(o, user, m)
        PROVE  Received(o, user, m)'
    <2>1. next[o] \in Nat /\ next'[o] \in Nat /\ Len(chat) \in Nat /\ Len(chat') \in Nat
      BY <1>2 DEF Types
    <2>2. m \in 1..Len(chat) /\ m < next'[o] /\ m \in 1..Len(chat')
      BY <1>1, <1>3, <2>1 DEF Received
    <2>3. Wanted(o, m)' /\ user = UserOf(o, m)'
      BY <1>1, <1>3, <2>2 DEF Received, Wanted, UserOf
    <2>4. QED BY <2>2, <2>3 DEF Received
  <1>4. \A o \in Observers : next'[o] \in 1..(Len(chat') + 1)
    <2>1. Len(chat) \in Nat /\ Len(chat') \in Nat
      BY <1>1 DEF Types
    <2>2. QED BY <1>1, <2>1 DEF Types, InTurn
  <1>5. ASSUME NEW i \in DOMAIN emitted
        PROVE  Received(emitted[i].observer, emitted[i].user, emitted[i].msg)'
    <2>1. PICK o, user, m : /\ o = emitted[i].observer
                            /\ user = emitted[i].user
                            /\ m = emitted[i].msg
      OBVIOUS
    <2>2. o \in Observers
      <3>1. emitted[i] \in Publication
        BY DEF Types
      <3>2. QED BY <2>1, <3>1 DEF Publication
    <2>3. Received(o, user, m)'
      BY <1>3, <2>1, <2>2 DEF InTurn
    <2>4. QED BY <2>1, <2>3 DEF Received
  <1>6. ASSUME NEW o \in Observers, pc'[o] = "emit"
        PROVE  Received(o, held[o].user, held[o].msg)'
    <2>1. PICK user, m : user = held[o].user /\ m = held[o].msg
      OBVIOUS
    <2>2. Received(o, user, m)'
      BY <1>3, <1>6, <2>1 DEF InTurn
    <2>3. QED BY <2>1, <2>2 DEF Received
  <1>7. InTurn'
    BY <1>4, <1>5, <1>6 DEF InTurn
  <1>8. EmittedInOrder'
    BY DEF EmittedInOrder
  <1>9. QED BY <1>2, <1>7, <1>8

\* Whoever a wanted message is taken for is a user.
LEMMA UserOfTyped ==
  ASSUME NEW o \in Observers, NEW m, chat[m] \in Message, Wanted(o, m)
  PROVE  UserOf(o, m) \in Users
  BY ObserverAssumption DEF Message, Wanted, UserOf

\* A poll: a message is dropped, or taken in hand.
LEMMA ReceiveKeeps ==
  ASSUME Types, InTurn, EmittedInOrder, NEW o \in Observers, Receive(o)
  PROVE  (Types /\ InTurn /\ EmittedInOrder)'
  <1>0. PICK m \in next[o]..Len(chat) :
          /\ next' = [next EXCEPT ![o] = m + 1]
          /\ IF Wanted(o, m) THEN Compare(o, UserOf(o, m), m)
             ELSE LoadFails(o) \/ (file # Torn /\ Pass)
    BY DEF Receive
  <1>a. next[o] \in 1..(Len(chat) + 1) /\ Len(chat) \in Nat
    BY DEF Types, InTurn
  <1>b. pc[o] = "poll" /\ UNCHANGED <<setup, chat, emitted>>
    BY DEF Receive, desk
  <1>1. /\ m \in 1..Len(chat) /\ next[o] \in Nat /\ next[o] <= m /\ Len(chat) \in Nat
        /\ next' = [next EXCEPT ![o] = m + 1]
        /\ pc[o] = "poll"
        /\ UNCHANGED <<setup, chat, emitted>>
    BY <1>0, <1>a, <1>b
  <1>2. /\ next' \in [Observers -> Nat]
        /\ \A e \in Observers : next[e] <= next'[e] /\ next'[e] <= Len(chat) + 1
    BY <1>1 DEF Types, InTurn
  <1>3. CASE held' = held /\ (pc' = pc \/ pc' = [pc EXCEPT ![o] = "down"])
    <2>1. /\ pc' \in [Observers -> {"poll", "emit", "save", "write", "down"}]
          /\ \A e \in Observers : pc'[e] = "emit" => pc[e] = "emit"
      BY <1>3 DEF Types
    <2>2. QED BY <1>1, <1>2, <1>3, <2>1, Keeps
  <1>4. CASE /\ Wanted(o, m)
             /\ held' = [held EXCEPT ![o] = [user |-> UserOf(o, m), msg |-> m]]
             /\ pc' = [pc EXCEPT ![o] = "emit"]
    <2>1. UserOf(o, m) \in Users
      <3>1. chat[m] \in Message
        BY <1>1 DEF Types
      <3>2. QED BY <1>4, <3>1, UserOfTyped
    <2>2. /\ pc'[o] = "emit" /\ held'[o] = [user |-> UserOf(o, m), msg |-> m]
          /\ \A e \in Observers \ {o} : pc'[e] = pc[e] /\ held'[e] = held[e]
                                       /\ next'[e] = next[e]
          /\ next'[o] = m + 1
      BY <1>1, <1>4 DEF Types
    <2>3. Types'
      BY <1>1, <1>2, <1>4, <2>1 DEF Types
    <2>4. ASSUME NEW i \in DOMAIN emitted, emitted[i].observer = o
          PROVE  emitted[i].msg < m
      <3>1. emitted[i].msg < next[o] /\ emitted[i].msg \in Nat
        BY <1>1, <2>4 DEF InTurn, Received
      <3>2. QED BY <1>1, <3>1
    <2>5. Received(o, held[o].user, held[o].msg)'
      <3>1. m \in 1..Len(chat') /\ m < next'[o]
        BY <1>1, <2>2
      <3>2. Wanted(o, m)' /\ UserOf(o, m)' = UserOf(o, m)
        BY <1>1, <1>4 DEF Wanted, UserOf
      <3>3. QED BY <2>2, <3>1, <3>2 DEF Received, Wanted, UserOf
    <2>6. ASSUME NEW i \in DOMAIN emitted
          PROVE  emitted[i].observer \in Observers /\ emitted[i].msg \in Nat
      <3>1. emitted[i] \in Publication
        BY DEF Types
      <3>2. QED BY <3>1 DEF Publication
    <2>7. ASSUME NEW i \in DOMAIN emitted
          PROVE  Received(emitted[i].observer, emitted[i].user, emitted[i].msg)'
      BY <1>1, <1>2, <2>6 DEF InTurn, Received, Types, Wanted, UserOf
    <2>8. ASSUME NEW e \in Observers, e # o, pc'[e] = "emit"
          PROVE  /\ Received(e, held[e].user, held[e].msg)'
                 /\ \A i \in DOMAIN emitted :
                      emitted[i].observer = e => emitted[i].msg < held'[e].msg
      BY <1>1, <2>2, <2>8 DEF InTurn, Received, Wanted, UserOf
    <2>9. \A e \in Observers : next'[e] \in 1..(Len(chat') + 1)
      BY <1>1, <1>2 DEF Types, InTurn
    <2>10. InTurn'
      BY <1>1, <2>2, <2>4, <2>5, <2>7, <2>8, <2>9 DEF InTurn
    <2>11. EmittedInOrder'
      BY <1>1 DEF EmittedInOrder
    <2>12. QED BY <2>3, <2>10, <2>11
  <1>5. QED
    BY <1>0, <1>3, <1>4 DEF Compare, LoadFails, Die, Pass, Goto

\* A publication.
LEMMA EmitKeeps ==
  ASSUME Types, InTurn, EmittedInOrder, NEW o \in Observers, Emit(o)
  PROVE  (Types /\ InTurn /\ EmittedInOrder)'
  <1> DEFINE new == [observer |-> o, user |-> held[o].user, msg |-> held[o].msg]
             n == Len(emitted) + 1
  <1>1. /\ pc[o] = "emit" /\ pc' = [pc EXCEPT ![o] = "save"]
        /\ emitted' = Append(emitted, new)
        /\ UNCHANGED <<setup, chat, next, held>>
    BY DEF Emit, Goto, desk
  <1>2. new \in Publication
    BY DEF Types, Publication
  <1>3. /\ emitted' \in Seq(Publication) /\ DOMAIN emitted' = 1..n
        /\ DOMAIN emitted = 1..(n - 1) /\ n \in Nat
        /\ emitted'[n] = new
        /\ \A i \in 1..(n - 1) : emitted'[i] = emitted[i]
    BY <1>1, <1>2 DEF Types
  <1>4. Types'
    BY <1>1, <1>3 DEF Types
  <1>5. Received(o, new.user, new.msg)
    BY <1>1 DEF InTurn
  <1>6. \A i \in 1..(n - 1) : emitted[i].observer = o => emitted[i].msg < new.msg
    BY <1>1, <1>3 DEF InTurn
  <1> HIDE DEF n
  <1>7. ASSUME NEW i \in 1..n
        PROVE  Received(emitted[i].observer, emitted[i].user, emitted[i].msg)'
    <2>1. CASE i = n
      BY <1>1, <1>3, <1>5, <2>1 DEF Received, Wanted, UserOf
    <2>2. CASE i \in 1..(n - 1)
      <3>1. Received(emitted[i].observer, emitted[i].user, emitted[i].msg)
        BY <1>3, <2>2 DEF InTurn
      <3>2. emitted'[i] = emitted[i]
        BY <1>3, <2>2
      <3>3. QED BY <1>1, <3>1, <3>2 DEF Received, Wanted, UserOf
    <2>3. QED BY <1>3, <2>1, <2>2
  <1>8. ASSUME NEW e \in Observers, pc'[e] = "emit"
        PROVE  /\ Received(e, held[e].user, held[e].msg)'
               /\ \A i \in 1..n : emitted'[i].observer = e => emitted'[i].msg < held'[e].msg
    <2>1. e # o /\ pc[e] = "emit"
      BY <1>1, <1>8 DEF Types
    <2>2. Received(e, held[e].user, held[e].msg)'
      BY <1>1, <2>1 DEF Received, InTurn, Wanted, UserOf
    <2>3. ASSUME NEW i \in 1..n, emitted'[i].observer = e PROVE emitted'[i].msg < held'[e].msg
      <3>1. i \in 1..(n - 1)
        BY <1>3, <2>1, <2>3
      <3>2. QED BY <1>1, <1>3, <2>1, <2>3, <3>1 DEF InTurn
    <2>4. QED BY <2>2, <2>3
  <1>9. InTurn'
    BY <1>1, <1>3, <1>7, <1>8 DEF InTurn
  <1>10. EmittedInOrder'
    <2> SUFFICES ASSUME setup'.backend = "wcferry", NEW i \in 1..n, NEW j \in 1..n, i < j,
                        emitted'[i].observer = emitted'[j].observer
                 PROVE  emitted'[i].msg < emitted'[j].msg
      BY <1>3 DEF EmittedInOrder
    <2>1. i \in 1..(n - 1)
      BY <1>3
    <2>2. CASE j = n
      BY <1>3, <1>6, <2>1, <2>2
    <2>3. CASE j \in 1..(n - 1)
      BY <1>1, <1>3, <2>1, <2>3 DEF EmittedInOrder
    <2>4. QED BY <1>3, <2>2, <2>3
  <1>11. QED BY <1>4, <1>9, <1>10

LEMMA InvStep == Inv /\ [Next]_vars => Inv'
  <1> SUFFICES ASSUME Inv, [Next]_vars PROVE Inv'
    OBVIOUS
  <1>1. setup' = setup
    BY DEF Next, vars, Write, OpenChat, Step, Receive, Look, PollNothing, Emit, Truncate,
           Save, Crash, Start
  <1> SUFFICES ASSUME setup.backend = "wcferry"
               PROVE  (Types /\ InTurn /\ EmittedInOrder)'
    BY <1>1 DEF Inv
  <1>2. Types /\ InTurn /\ EmittedInOrder
    BY DEF Inv
  <1>3. /\ pc \in [Observers -> {"poll", "emit", "save", "write", "down"}]
        /\ next \in [Observers -> Nat] /\ Len(chat) \in Nat
        /\ \A o \in Observers : next[o] <= next[o] /\ next[o] <= Len(chat) + 1
    BY <1>2 DEF Types, InTurn
  <1>4. setup.observers \subseteq Observers
    BY ObserverAssumption DEF Inv, Setup
  <1>5. ASSUME NEW u \in Users, NEW t \in Texts, NEW signed \in BOOLEAN,
               NEW from \in {u, Self}, Write(u, from, signed, t)
        PROVE  (Types /\ InTurn /\ EmittedInOrder)'
    <2>1. [chat |-> u, from |-> from, signed |-> signed, text |-> t] \in Message
      BY DEF Message
    <2>2. QED BY <1>2, <1>3, <1>5, <2>1, Keeps DEF Write, observerVars
  <1>6. ASSUME NEW u \in Users, OpenChat(u) PROVE FALSE
    BY <1>6 DEF OpenChat
  <1>7. ASSUME NEW o \in Observers, Look(o) PROVE FALSE
    BY <1>7 DEF Look
  <1>8. ASSUME NEW o \in Observers, PollNothing(o) \/ Truncate(o) \/ Save(o) \/ Crash(o)
        PROVE  (Types /\ InTurn /\ EmittedInOrder)'
    <2>1. /\ UNCHANGED <<setup, chat, next, held, emitted>>
          /\ \E step \in {"poll", "write", "down"} : pc' = [pc EXCEPT ![o] = step]
      BY <1>8 DEF PollNothing, LoadFails, Truncate, Save, Crash, Die, Goto, desk
    <2>2. /\ pc' \in [Observers -> {"poll", "emit", "save", "write", "down"}]
          /\ \A e \in Observers : pc'[e] = "emit" => pc[e] = "emit"
      BY <1>3, <2>1
    <2>3. QED BY <1>2, <1>3, <2>1, <2>2, Keeps
  <1>9. ASSUME NEW o \in Observers, Start(o)
        PROVE  (Types /\ InTurn /\ EmittedInOrder)'
    <2>1. /\ UNCHANGED <<setup, chat, held, emitted>>
          /\ pc' = [pc EXCEPT ![o] = "poll"]
          /\ next' = [next EXCEPT ![o] = Len(chat) + 1]
      BY <1>9 DEF Start, Goto, desk
    <2>2. /\ pc' \in [Observers -> {"poll", "emit", "save", "write", "down"}]
          /\ \A e \in Observers : pc'[e] = "emit" => pc[e] = "emit"
          /\ next' \in [Observers -> Nat]
          /\ \A e \in Observers : next[e] <= next'[e] /\ next'[e] <= Len(chat) + 1
      BY <1>3, <2>1
    <2>3. QED BY <1>2, <2>1, <2>2, Keeps
  <1>10. CASE UNCHANGED vars
    BY <1>2, <1>3, <1>10, Keeps DEF vars, observerVars, desk
  <1>11. QED
    BY <1>2, <1>4, <1>5, <1>6, <1>7, <1>8, <1>9, <1>10, ReceiveKeeps, EmitKeeps
    DEF Next, Step

(* Through wcferry, what is published as a user's message was written by that *)
(* user, not by the account, and without --allow-any-sender by the customer;  *)
(* with it, a message without its sender is published as the customer's.      *)
THEOREM OnlyInbound == Spec => []InboundOnly
  <1>1. Inv => InboundOnly
    BY DEF Inv, InTurn, Received, Wanted, UserOf, InboundOnly
  <1>2. QED BY <1>1, InvInit, InvStep, PTL DEF Spec

(* Through wcferry, an observer publishes in the order of the chats and no    *)
(* message twice, whenever it dies and is started again.                      *)
THEOREM PublishedInOrder == Spec => []EmittedInOrder
  <1>1. Inv => EmittedInOrder
    BY DEF Inv, EmittedInOrder
  <1>2. QED BY <1>1, InvInit, InvStep, PTL DEF Spec

-----------------------------------------------------------------------------
\* However it polls.

\* A non-empty set of numbers of messages has a newest one.
NatLess == {p \in Nat \X Nat : p[1] < p[2]}

LEMMA NatLessWellFounded == IsWellFoundedOn(NatLess, Nat)
  BY NatLessThanWellFounded, Zenon DEF OpToRel, NatLess

LEMMA Newest ==
  ASSUME NEW n \in Nat, NEW S \in SUBSET (1..n), S # {}
  PROVE  Max(S) \in S
  <1> DEFINE Distances == {n - x : x \in S}
  <1>1. Distances \subseteq Nat /\ Distances # {}
    <2>1. PICK y \in S : TRUE
      OBVIOUS
    <2>2. n - y \in Distances
      BY <2>1
    <2>3. QED BY <2>2
  <1>2. \E d \in Distances : \A y \in Distances : ~ (<<y, d>> \in NatLess)
    BY <1>1, NatLessWellFounded, WFMin, Zenon
  <1>3. PICK x \in S : \A y \in Distances : ~ (<<y, n - x>> \in NatLess)
    BY <1>2
  <1>4. ASSUME NEW y \in S PROVE x >= y
    <2>1. x \in 1..n /\ y \in 1..n /\ n - x \in Nat /\ n - y \in Nat
      OBVIOUS
    <2>2. n - y \in Distances
      OBVIOUS
    <2>3. ~ (n - y < n - x)
      BY <1>3, <2>1, <2>2 DEF NatLess
    <2>4. QED BY <2>1, <2>3
  <1>5. QED BY <1>4 DEF Max

Active == {"emit", "save", "write"}

Wide ==
  /\ setup \in Setups
  /\ chat \in Seq(Message)
  /\ file \in Files \cup {Torn}
  /\ pc \in [Observers -> Active \cup {"poll", "down"}]
  /\ held \in [Observers -> [user : Users, msg : Nat]]
  /\ loaded \in [Observers -> Files]
  /\ heard \in [Observers -> SUBSET (1..Len(chat))]
  /\ setup.backend # "wcferry" => \A o \in Observers : heard[o] = {}
  /\ emitted \in Seq(Publication)
  /\ deaths \in Nat
  /\ \A i \in DOMAIN emitted : emitted[i].msg \in 1..Len(chat)
  /\ \A o \in Observers : pc[o] \in Active => held[o].msg \in 1..Len(chat)

\* What a step of an observer does, whichever way it polls.
Takes(o) ==
  /\ pc[o] = "poll" /\ pc' = [pc EXCEPT ![o] = "emit"]
  /\ file # Torn
  /\ \E u \in Users, m \in 1..Len(chat) :
       /\ file[u] # chat[m].text
       /\ held' = [held EXCEPT ![o] = [user |-> u, msg |-> m]]
  /\ loaded' = [loaded EXCEPT ![o] = file]
  /\ UNCHANGED <<setup, chat, file, emitted, deaths>>

Rests(o) ==
  /\ \/ pc' = pc /\ deaths' = deaths
     \/ pc' = [pc EXCEPT ![o] = "down"] /\ deaths' = deaths + 1
     \/ pc[o] = "down" /\ pc' = [pc EXCEPT ![o] = "poll"] /\ deaths' = deaths
  /\ UNCHANGED <<setup, chat, file, held, loaded, emitted>>

LEMMA Polls ==
  ASSUME Wide, NEW o \in Observers, pc[o] = "poll", NEW u \in Users, NEW m \in 1..Len(chat),
         Compare(o, u, m), UNCHANGED <<setup, desk, file, emitted>>
  PROVE  Takes(o) \/ Rests(o)
  BY DEF Compare, LoadFails, Die, Pass, Goto, Takes, Rests, desk

\* next is in range, as InTurn says when it matters.
LEMMA Turns ==
  ASSUME Wide, NEW o \in Observers, Step(o) \/ Crash(o) \/ Start(o),
         setup.backend = "wcferry" => next[o] \in 1..(Len(chat) + 1)
  PROVE  \/ Takes(o) \/ Rests(o) \/ Emit(o) \/ Truncate(o) \/ Save(o)
  <1>1. CASE Receive(o)
    <2>0. PICK m \in next[o]..Len(chat) :
            IF Wanted(o, m) THEN Compare(o, UserOf(o, m), m)
            ELSE LoadFails(o) \/ (file # Torn /\ Pass)
      BY <1>1 DEF Receive
    <2>1. Len(chat) \in Nat /\ m \in 1..Len(chat) /\ pc[o] = "poll"
      BY <1>1, <2>0 DEF Receive, Wide
    <2>2. UNCHANGED <<setup, desk, file, emitted>>
      BY <1>1 DEF Receive
    <2>3. CASE Wanted(o, m)
      <3>1. chat[m] \in Message
        BY <2>1 DEF Wide
      <3>2. UserOf(o, m) \in Users
        BY <2>3, <3>1, UserOfTyped
      <3>3. QED BY <2>0, <2>1, <2>2, <2>3, <3>2, Polls
    <2>4. CASE LoadFails(o) \/ Pass
      BY <2>2, <2>4 DEF LoadFails, Die, Pass, Goto, Rests, desk
    <2>5. QED BY <2>0, <2>3, <2>4
  <1>2. CASE Look(o)
    <2> DEFINE visible == {m \in 1..Len(chat) : chat[m].chat = open}
    <2>1. visible # {} /\ Compare(o, CustomerOf[o], Max(visible)) /\ pc[o] = "poll"
          /\ UNCHANGED <<setup, desk, file, emitted>>
      BY <1>2 DEF Look
    <2>2. Len(chat) \in Nat /\ visible \in SUBSET (1..Len(chat))
      BY DEF Wide
    <2>3. Max(visible) \in 1..Len(chat)
      BY <2>1, <2>2, Newest
    <2>4. CustomerOf[o] \in Users
      BY ObserverAssumption
    <2>5. QED BY <2>1, <2>3, <2>4, Polls
  <1>3. CASE PollNothing(o)
    BY <1>3 DEF PollNothing, LoadFails, Die, Goto, Rests, desk
  <1>4. CASE Crash(o) \/ Start(o)
    BY <1>4 DEF Crash, Start, Die, Goto, Rests, desk
  <1>5. QED BY <1>1, <1>2, <1>3, <1>4 DEF Step

\* The rest of what changes: messages are only added, and only wcferry is heard.
Grows ==
  /\ setup' = setup
  /\ chat' \in Seq(Message) /\ Len(chat) <= Len(chat') /\ Len(chat') \in Nat
  /\ \A m \in 1..Len(chat) : chat'[m] = chat[m]

Quiet == UNCHANGED <<setup, file, pc, held, loaded, heard, emitted, deaths>>

LEMMA Moves ==
  ASSUME Wide, [Next]_vars,
         setup.backend = "wcferry" => \A o \in Observers : next[o] \in 1..(Len(chat) + 1)
  PROVE  /\ Grows
         /\ \/ Quiet
            \/ \E o \in setup.observers :
                 /\ Takes(o) \/ Rests(o) \/ Emit(o) \/ Truncate(o) \/ Save(o)
                 /\ Receive(o) \/ heard' = heard
                 /\ chat' = chat
  <1>1. setup.observers \subseteq Observers /\ Len(chat) \in Nat /\ chat \in Seq(Message)
    BY ObserverAssumption DEF Wide, Setup
  <1>2. ASSUME chat' = chat, setup' = setup PROVE Grows
    BY <1>1, <1>2 DEF Grows
  <1>3. ASSUME NEW u \in Users, NEW t \in Texts, NEW signed \in BOOLEAN,
               NEW from \in {u, Self}, Write(u, from, signed, t)
        PROVE  Grows /\ Quiet
    <2>1. [chat |-> u, from |-> from, signed |-> signed, text |-> t] \in Message
      BY DEF Message
    <2>2. chat' = Append(chat, [chat |-> u, from |-> from, signed |-> signed, text |-> t])
          /\ UNCHANGED <<setup, file, pc, held, loaded, heard, emitted, deaths>>
      BY <1>3 DEF Write, observerVars
    <2>3. QED BY <1>1, <2>1, <2>2 DEF Grows, Quiet
  <1>4. CASE UNCHANGED vars \/ \E u \in Users : OpenChat(u)
    BY <1>2, <1>4 DEF vars, OpenChat, observerVars, desk, Quiet
  <1>5. ASSUME NEW o \in setup.observers, Step(o) \/ Crash(o) \/ Start(o)
        PROVE  /\ chat' = chat /\ setup' = setup
               /\ Takes(o) \/ Rests(o) \/ Emit(o) \/ Truncate(o) \/ Save(o)
               /\ Receive(o) \/ heard' = heard
    <2>1. chat' = chat /\ setup' = setup /\ (Receive(o) \/ heard' = heard)
      BY <1>5 DEF Step, Receive, Look, PollNothing, Emit, Truncate, Save, Crash, Start, desk
    <2>2. QED BY <1>1, <1>5, <2>1, Turns
  <1>6. QED BY <1>2, <1>3, <1>4, <1>5 DEF Next

LEMMA WideInit == Init => Wide
  <1> SUFFICES ASSUME Init PROVE Wide
    OBVIOUS
  <1>1. NoFile \in Files
    BY DEF NoFile, Files
  <1>2. QED BY <1>1, ObserverAssumption DEF Init, Wide, Active

New(o) == [observer |-> o, user |-> held[o].user, msg |-> held[o].msg]

LEMMA PublicationsTyped ==
  ASSUME Wide, NEW o \in Observers, pc[o] = "emit", Emit(o)
  PROVE  /\ Len(emitted) \in Nat /\ emitted' \in Seq(Publication)
         /\ DOMAIN emitted = 1..Len(emitted) /\ DOMAIN emitted' = 1..(Len(emitted) + 1)
         /\ \A i \in DOMAIN emitted : emitted'[i] = emitted[i] /\ emitted[i] \in Publication
         /\ emitted'[Len(emitted) + 1] = New(o)
         /\ New(o).observer = o /\ New(o).user = held[o].user /\ New(o).msg = held[o].msg
         /\ held[o].user \in Users /\ held[o].msg \in 1..Len(chat)
  <1>1. New(o) \in Publication /\ emitted' = Append(emitted, New(o))
        /\ emitted \in Seq(Publication)
        /\ held[o].user \in Users /\ held[o].msg \in 1..Len(chat)
    BY DEF Wide, Publication, Emit, Active, New
  <1>2. New(o).observer = o /\ New(o).user = held[o].user /\ New(o).msg = held[o].msg
    BY DEF New
  <1>3. QED BY <1>1, <1>2

LEMMA WideStep ==
  ASSUME Wide, [Next]_vars,
         setup.backend = "wcferry" => \A o \in Observers : next[o] \in 1..(Len(chat) + 1)
  PROVE  Wide'
  <1>1. Grows
    BY Moves
  <1>2. Len(chat) \in Nat
    BY DEF Wide
  <1>3. CASE Quiet
    BY <1>1, <1>2, <1>3 DEF Quiet, Grows, Wide
  <1>4. ASSUME NEW o \in Observers, chat' = chat, Receive(o) \/ heard' = heard,
               Takes(o) \/ Rests(o) \/ Emit(o) \/ Truncate(o) \/ Save(o)
        PROVE  Wide'
    <2>1. /\ heard' \in [Observers -> SUBSET (1..Len(chat))]
          /\ setup.backend # "wcferry" => \A e \in Observers : heard'[e] = {}
      <3>1. CASE heard' = heard
        BY <3>1 DEF Wide
      <3>2. CASE Receive(o)
        <4>1. PICK m \in next[o]..Len(chat) : heard' = [heard EXCEPT ![o] = @ \cup {m}]
          BY <3>2 DEF Receive
        <4>2. setup.backend = "wcferry" /\ m \in 1..Len(chat)
          BY <1>2, <3>2 DEF Receive
        <4>3. QED BY <4>1, <4>2 DEF Wide
      <3>3. QED BY <1>4, <3>1, <3>2
    <2>2. setup' = setup
      BY <1>1 DEF Grows
    <2>3. CASE Takes(o)
      <3>1. PICK u \in Users, m \in 1..Len(chat) :
              held' = [held EXCEPT ![o] = [user |-> u, msg |-> m]]
        BY <2>3 DEF Takes
      <3>2. /\ pc' = [pc EXCEPT ![o] = "emit"] /\ file # Torn
            /\ loaded' = [loaded EXCEPT ![o] = file]
            /\ UNCHANGED <<setup, chat, file, emitted, deaths>>
        BY <2>3 DEF Takes
      <3>3. /\ held' \in [Observers -> [user : Users, msg : Nat]]
            /\ loaded' \in [Observers -> Files]
            /\ pc' \in [Observers -> Active \cup {"poll", "down"}]
        BY <3>1, <3>2 DEF Wide, Active
      <3>4. \A e \in Observers : pc'[e] \in Active => held'[e].msg \in 1..Len(chat)
        BY <3>1, <3>2 DEF Wide
      <3>5. QED BY <2>1, <3>2, <3>3, <3>4 DEF Wide
    <2>4. CASE Rests(o)
      <3>1. /\ pc' \in [Observers -> Active \cup {"poll", "down"}] /\ deaths' \in Nat
            /\ \A e \in Observers : pc'[e] \in Active => pc[e] \in Active
        BY <2>4 DEF Rests, Wide, Active
      <3>2. UNCHANGED <<setup, chat, file, held, loaded, emitted>>
        BY <2>4 DEF Rests
      <3>3. QED BY <2>1, <3>1, <3>2 DEF Wide
    <2>5. CASE Emit(o)
      <3>1. /\ pc[o] = "emit" /\ pc' = [pc EXCEPT ![o] = "save"]
            /\ UNCHANGED <<file, held, loaded, deaths>>
        BY <2>5 DEF Emit, Goto
      <3>2. /\ emitted' \in Seq(Publication)
            /\ \A i \in DOMAIN emitted' : emitted'[i].msg \in 1..Len(chat)
        <4>1. \A i \in DOMAIN emitted : emitted[i].msg \in 1..Len(chat)
          BY DEF Wide
        <4>2. QED BY <2>5, <3>1, <4>1, PublicationsTyped
      <3>3. QED BY <1>4, <2>1, <2>2, <3>1, <3>2 DEF Wide, Active
    <2>6. CASE Truncate(o)
      BY <1>4, <2>1, <2>2, <2>6 DEF Truncate, Goto, Wide, Active
    <2>7. CASE Save(o)
      <3>1. /\ pc[o] = "write" /\ pc' = [pc EXCEPT ![o] = "poll"]
            /\ file' = [loaded[o] EXCEPT ![held[o].user] = chat[held[o].msg].text]
            /\ UNCHANGED <<held, loaded, emitted, deaths>>
        BY <2>7 DEF Save, Goto
      <3>2. loaded[o] \in Files /\ held[o].user \in Users /\ chat[held[o].msg] \in Message
        BY <3>1 DEF Wide, Active
      <3>3. file' \in Files
        BY <3>1, <3>2 DEF Files, Message
      <3>4. QED BY <1>4, <2>1, <2>2, <3>1, <3>3 DEF Wide, Active
    <2>8. QED BY <1>4, <2>3, <2>4, <2>5, <2>6, <2>7
  <1>5. setup.observers \subseteq Observers
    BY ObserverAssumption DEF Wide, Setup
  <1>6. QED BY <1>3, <1>4, <1>5, Moves

-----------------------------------------------------------------------------
\* Nothing is dropped but what was published: every entry of the state file, and
\* of every copy that may still be written over it, is a text that was published.

Published ==
  {<<emitted[i].user, chat[emitted[i].msg].text>> : i \in DOMAIN emitted}

Known ==
  /\ file # Torn => \A u \in Users : file[u] # NoText => <<u, file[u]>> \in Published
  /\ \A o \in Observers : pc[o] \in Active =>
       \A u \in Users : loaded[o][u] # NoText => <<u, loaded[o][u]>> \in Published
  /\ \A o \in Observers : pc[o] \in {"save", "write"} =>
       <<held[o].user, chat[held[o].msg].text>> \in Published

\* Publications are only added.
LEMMA PublicationsStay ==
  ASSUME Wide, emitted' = emitted \/ \E o \in Observers : pc[o] = "emit" /\ Emit(o)
  PROVE  /\ DOMAIN emitted \subseteq DOMAIN emitted'
         /\ \A i \in DOMAIN emitted : emitted'[i] = emitted[i]
  <1>1. CASE emitted' = emitted
    BY <1>1
  <1>2. ASSUME NEW o \in Observers, pc[o] = "emit", Emit(o)
        PROVE  /\ DOMAIN emitted \subseteq DOMAIN emitted'
               /\ \A i \in DOMAIN emitted : emitted'[i] = emitted[i]
    BY <1>2, PublicationsTyped
  <1>3. QED BY <1>1, <1>2

LEMMA KnownStep == ASSUME Wide, Known, [Next]_vars,
         setup.backend = "wcferry" => \A o \in Observers : next[o] \in 1..(Len(chat) + 1)
  PROVE  Known'
  <1>1. Grows /\ setup.observers \subseteq Observers
    BY Moves, ObserverAssumption DEF Wide, Setup
  <1>2. ASSUME emitted' = emitted \/ \E o \in Observers : pc[o] = "emit" /\ Emit(o)
        PROVE  Published \subseteq Published'
    BY <1>1, <1>2, PublicationsStay DEF Published, Grows, Wide
  <1>3. \A o \in Observers : pc[o] \in Active => chat'[held[o].msg] = chat[held[o].msg]
    BY <1>1 DEF Grows, Wide
  <1>4. CASE Quiet
    <2>1. UNCHANGED <<file, pc, held, loaded, emitted>>
      BY <1>4 DEF Quiet
    <2>2. Published \subseteq Published'
      BY <1>2, <2>1
    <2>3. \A o \in Observers : pc[o] \in {"save", "write"} =>
            <<held[o].user, chat'[held[o].msg].text>> \in Published'
      BY <1>3, <2>2 DEF Known, Active
    <2>4. QED BY <2>1, <2>2, <2>3 DEF Known
  <1>5. ASSUME NEW o \in setup.observers, chat' = chat,
               Takes(o) \/ Rests(o) \/ Emit(o) \/ Truncate(o) \/ Save(o)
        PROVE  Known'
    <2>1. o \in Observers /\ pc \in [Observers -> Active \cup {"poll", "down"}]
      BY <1>1 DEF Wide
    <2>2. emitted' = emitted \/ (pc[o] = "emit" /\ Emit(o))
      BY <1>5 DEF Takes, Rests, Emit, Truncate, Save
    <2>3. Published \subseteq Published'
      BY <1>2, <2>1, <2>2
    <2>4. CASE Takes(o)
      <3>1. /\ pc' = [pc EXCEPT ![o] = "emit"] /\ loaded' = [loaded EXCEPT ![o] = file]
            /\ file # Torn /\ file' = file
            /\ \A e \in Observers \ {o} : held'[e] = held[e]
        BY <2>4 DEF Takes, Wide
      <3>2. loaded'[o] = file /\ pc'[o] = "emit"
            /\ \A e \in Observers \ {o} : loaded'[e] = loaded[e] /\ pc'[e] = pc[e]
        BY <2>1, <3>1 DEF Wide
      <3>3. \A e \in Observers : pc'[e] \in Active =>
              \A u \in Users : loaded'[e][u] # NoText => <<u, loaded'[e][u]>> \in Published
        BY <3>1, <3>2 DEF Known
      <3>4. \A e \in Observers : pc'[e] \in {"save", "write"} =>
              held'[e] = held[e] /\ pc[e] \in {"save", "write"}
        BY <3>1, <3>2
      <3>5. QED BY <1>5, <2>3, <3>1, <3>3, <3>4 DEF Known
    <2>5. CASE Rests(o)
      <3>1. /\ UNCHANGED <<file, held, loaded, emitted>>
            /\ \A e \in Observers : pc'[e] \in Active => pc'[e] = pc[e]
        BY <2>1, <2>5 DEF Rests, Active
      <3>2. QED BY <1>5, <2>3, <3>1 DEF Known, Active
    <2>6. CASE Emit(o)
      <3>1. /\ pc[o] = "emit" /\ pc' = [pc EXCEPT ![o] = "save"]
            /\ UNCHANGED <<file, held, loaded>>
        BY <2>6 DEF Emit, Goto
      <3>2. <<held[o].user, chat[held[o].msg].text>> \in Published'
        <4>1. /\ Len(emitted) + 1 \in DOMAIN emitted'
              /\ emitted'[Len(emitted) + 1].user = held[o].user
              /\ emitted'[Len(emitted) + 1].msg = held[o].msg
          BY <2>1, <2>6, <3>1, PublicationsTyped
        <4>2. QED BY <1>5, <3>1, <4>1 DEF Published
      <3>3. \A e \in Observers : pc'[e] \in Active => pc[e] \in Active
        BY <2>1, <3>1 DEF Active
      <3>4. \A e \in Observers \ {o} : pc'[e] = pc[e]
        BY <3>1, <2>1
      <3>5. QED BY <1>5, <2>3, <3>1, <3>2, <3>3, <3>4 DEF Known
    <2>7. CASE Truncate(o)
      <3>1. /\ pc[o] = "save" /\ pc' = [pc EXCEPT ![o] = "write"] /\ file' = Torn
            /\ UNCHANGED <<held, loaded, emitted>>
        BY <2>7 DEF Truncate, Goto
      <3>2. \A e \in Observers : (pc'[e] \in Active => pc[e] \in Active) /\
              (pc'[e] \in {"save", "write"} => pc[e] \in {"save", "write"})
        BY <2>1, <3>1 DEF Active
      <3>3. QED BY <1>5, <2>3, <3>1, <3>2 DEF Known
    <2>8. CASE Save(o)
      <3>1. /\ pc[o] = "write" /\ pc' = [pc EXCEPT ![o] = "poll"]
            /\ file' = [loaded[o] EXCEPT ![held[o].user] = chat[held[o].msg].text]
            /\ UNCHANGED <<held, loaded, emitted>>
        BY <2>8 DEF Save, Goto
      <3>2. \A e \in Observers : pc'[e] \in Active => pc'[e] = pc[e]
        BY <2>1, <3>1 DEF Active
      <3>3. ASSUME NEW u \in Users, file'[u] # NoText PROVE <<u, file'[u]>> \in Published
        <4>1. loaded[o] \in Files
          BY <2>1 DEF Wide
        <4>2. CASE u = held[o].user
          <5>1. file'[u] = chat[held[o].msg].text
            BY <3>1, <4>1, <4>2 DEF Files
          <5>2. QED BY <2>1, <3>1, <4>2, <5>1 DEF Known
        <4>3. CASE u # held[o].user
          <5>1. file'[u] = loaded[o][u]
            BY <3>1, <4>1, <4>3 DEF Files
          <5>2. QED BY <2>1, <3>1, <3>3, <5>1 DEF Known, Active
        <4>4. QED BY <4>2, <4>3
      <3>4. QED BY <1>5, <2>3, <3>1, <3>2, <3>3 DEF Known, Active
    <2>9. QED BY <1>5, <2>4, <2>5, <2>6, <2>7, <2>8
  <1>6. QED BY <1>4, <1>5, Moves

-----------------------------------------------------------------------------
\* A message that is gone went with its observer.

LostBounded == IsFiniteSet(Lost) /\ Cardinality(Lost) <= deaths

LEMMA InLost ==
  ASSUME NEW o \in Observers, NEW m
  PROVE  <<o, m>> \in Lost <=>
           /\ m \in Numbers /\ m \in heard[o] /\ Wanted(o, m)
           /\ m \notin EmittedBy(o) \cup InHand(o) /\ ~IsRepeat(o, m)
  BY DEF Lost

\* What has been published, and what repeats it, stays so.
LEMMA SettledStay ==
  ASSUME Wide, Grows, NEW o \in Observers, NEW m \in 1..Len(chat),
         emitted' = emitted \/ \E e \in Observers : pc[e] = "emit" /\ Emit(e)
  PROVE  /\ m \in EmittedBy(o) => m \in EmittedBy(o)'
         /\ IsRepeat(o, m) => IsRepeat(o, m)'
         /\ Wanted(o, m)' <=> Wanted(o, m)
  <1>1. /\ DOMAIN emitted \subseteq DOMAIN emitted'
        /\ \A i \in DOMAIN emitted : emitted'[i] = emitted[i]
    BY PublicationsStay
  <1>2. m \in EmittedBy(o) => m \in EmittedBy(o)'
    BY <1>1 DEF EmittedBy
  <1>3. /\ chat \in Seq(Message) /\ chat' \in Seq(Message) /\ Len(chat) <= Len(chat')
        /\ \A k \in 1..Len(chat) : chat'[k] = chat[k]
    BY DEF Wide, Grows
  <1>4. \A i \in DOMAIN emitted : chat'[emitted[i].msg] = chat[emitted[i].msg]
    BY <1>3 DEF Wide
  <1>5. chat'[m] = chat[m] /\ UserOf(o, m)' = UserOf(o, m)
    BY <1>3 DEF UserOf
  <1>6. IsRepeat(o, m) => IsRepeat(o, m)'
    BY <1>1, <1>4, <1>5 DEF IsRepeat
  <1>7. Wanted(o, m)' <=> Wanted(o, m)
    BY <1>3 DEF Wanted, Grows
  <1>8. QED BY <1>2, <1>6, <1>7

\* A message that the state file makes the observer drop is a repeat.
LEMMA DroppedIsRepeat ==
  ASSUME Wide, Types, InTurn, Known, NEW o \in Observers, NEW u \in Users,
         NEW m \in 1..Len(chat), next[o] <= m, u = UserOf(o, m),
         file # Torn, file[u] = chat[m].text
  PROVE  IsRepeat(o, m)
  <1>1. chat[m] \in Message
    BY DEF Wide
  <1>2. file[u] # NoText
    BY <1>1, ObserverAssumption DEF Message
  <1>3. PICK i \in DOMAIN emitted : emitted[i].user = u /\ chat[emitted[i].msg].text = file[u]
    BY <1>2 DEF Known, Published
  <1>4. /\ emitted[i].msg \in 1..Len(chat) /\ emitted[i].msg < next[emitted[i].observer]
        /\ next[o] \in Nat /\ Len(chat) \in Nat
    BY DEF InTurn, Received, Types, Wide
  <1>5. emitted[i].observer = o => emitted[i].msg < m
    BY <1>4
  <1>6. QED BY <1>3, <1>5 DEF IsRepeat

LEMMA LossKept ==
  ASSUME LostBounded, Lost' \subseteq Lost, deaths \in Nat,
         deaths' = deaths \/ deaths' = deaths + 1
  PROVE  LostBounded'
  <1>1. /\ IsFiniteSet(Lost') /\ Cardinality(Lost') <= Cardinality(Lost)
        /\ Cardinality(Lost) \in Nat /\ Cardinality(Lost') \in Nat
    BY FS_Subset, FS_CardinalityType DEF LostBounded
  <1>2. QED BY <1>1 DEF LostBounded

LEMMA LossAdded ==
  ASSUME LostBounded, NEW p, Lost' \subseteq Lost \cup {p}, deaths \in Nat,
         deaths' = deaths + 1
  PROVE  LostBounded'
  <1>1. IsFiniteSet(Lost) /\ Cardinality(Lost) \in Nat /\ Cardinality(Lost) <= deaths
    BY FS_CardinalityType DEF LostBounded
  <1>2. /\ IsFiniteSet(Lost \cup {p})
        /\ Cardinality(Lost \cup {p}) =
             IF p \in Lost THEN Cardinality(Lost) ELSE Cardinality(Lost) + 1
    BY <1>1, FS_AddElement
  <1>3. /\ IsFiniteSet(Lost') /\ Cardinality(Lost') <= Cardinality(Lost \cup {p})
        /\ Cardinality(Lost') \in Nat /\ Cardinality(Lost \cup {p}) \in Nat
    BY <1>2, FS_Subset, FS_CardinalityType
  <1>4. QED BY <1>1, <1>2, <1>3 DEF LostBounded

LEMMA LossStep ==
  ASSUME Wide, Types, InTurn, Known, LostBounded, [Next]_vars, setup.backend = "wcferry"
  PROVE  LostBounded'
  <1>1. Grows /\ setup.observers \subseteq Observers /\ deaths \in Nat /\ Len(chat) \in Nat
    BY Moves, ObserverAssumption DEF Wide, Setup, InTurn
  <1>2. \A e \in Observers : heard[e] \subseteq 1..Len(chat)
    BY DEF Wide
  <1>3. ASSUME NEW e \in Observers, NEW m \in heard[e], m \notin InHand(e),
               emitted' = emitted \/ \E o \in Observers : pc[o] = "emit" /\ Emit(o),
               <<e, m>> \in Lost'
        PROVE  <<e, m>> \in Lost
    <2>1. m \in 1..Len(chat)
      BY <1>2
    <2>2. m \in Numbers /\ Wanted(e, m)' /\ m \notin EmittedBy(e)' /\ ~IsRepeat(e, m)'
      BY <1>3 DEF Lost, Numbers
    <2>3. QED BY <1>1, <1>3, <2>1, <2>2, SettledStay, InLost
  <1>4. CASE Quiet
    <2>1. UNCHANGED <<pc, held, heard, emitted, deaths>>
      BY <1>4 DEF Quiet
    <2>2. ASSUME NEW e \in Observers, NEW m, <<e, m>> \in Lost' PROVE <<e, m>> \in Lost
      <3>1. m \in heard[e] /\ m \notin InHand(e)
        BY <2>1, <2>2 DEF Lost, InHand
      <3>2. QED BY <1>3, <2>1, <2>2, <3>1
    <2>3. Lost' \subseteq Lost
      BY <2>2 DEF Lost, Numbers
    <2>4. QED BY <1>1, <2>1, <2>3, LossKept
  <1>5. ASSUME NEW o \in setup.observers, chat' = chat, Receive(o) \/ heard' = heard,
               Takes(o) \/ Rests(o) \/ Emit(o) \/ Truncate(o) \/ Save(o)
        PROVE  LostBounded'
    <2>1. o \in Observers /\ pc \in [Observers -> Active \cup {"poll", "down"}]
          /\ held \in [Observers -> [user : Users, msg : Nat]]
          /\ heard \in [Observers -> SUBSET (1..Len(chat))]
      BY <1>1 DEF Wide
    <2>2. emitted' = emitted \/ (pc[o] = "emit" /\ Emit(o))
      BY <1>5 DEF Takes, Rests, Emit, Truncate, Save
    <2>3. \A e \in Observers \ {o} : pc'[e] = pc[e] /\ held'[e] = held[e]
      BY <1>5, <2>1 DEF Takes, Rests, Emit, Truncate, Save, Goto
    <2>4. deaths' = deaths \/ deaths' = deaths + 1
      BY <1>5 DEF Takes, Rests, Emit, Truncate, Save
    <2>5. ASSUME NEW e \in Observers, e # o, NEW m, heard'[e] = heard[e], <<e, m>> \in Lost'
          PROVE  <<e, m>> \in Lost
      <3>1. m \in heard[e] /\ m \notin InHand(e)
        BY <2>3, <2>5 DEF Lost, InHand
      <3>2. QED BY <1>3, <2>1, <2>2, <2>5, <3>1
    <2>6. CASE Receive(o)
      <3>0. PICK k \in next[o]..Len(chat) :
              /\ heard' = [heard EXCEPT ![o] = @ \cup {k}]
              /\ IF Wanted(o, k) THEN Compare(o, UserOf(o, k), k)
                 ELSE LoadFails(o) \/ (file # Torn /\ Pass)
        BY <2>6 DEF Receive
      <3>1. /\ pc[o] = "poll" /\ emitted' = emitted
            /\ k \in 1..Len(chat) /\ next[o] <= k
            /\ heard' = [heard EXCEPT ![o] = @ \cup {k}]
            /\ IF Wanted(o, k) THEN Compare(o, UserOf(o, k), k)
               ELSE LoadFails(o) \/ (file # Torn /\ Pass)
        <4>1. next[o] \in 1..(Len(chat) + 1) /\ Len(chat) \in Nat
          BY <2>1 DEF Types, InTurn
        <4>2. pc[o] = "poll" /\ emitted' = emitted
          BY <2>6 DEF Receive
        <4>3. QED BY <3>0, <4>1, <4>2
      <3>2. ASSUME NEW e \in Observers, NEW m, <<e, m>> \in Lost'
            PROVE  <<e, m>> \in Lost \/ (e = o /\ m = k)
        <4>1. CASE e # o
          BY <2>1, <2>5, <3>1, <3>2, <4>1
        <4>2. CASE e = o /\ m # k
          <5>1. m \in heard[o]
            BY <2>1, <3>1, <3>2, <4>2 DEF Lost
          <5>2. m \notin InHand(o)
            BY <3>1 DEF InHand
          <5>3. QED BY <1>3, <2>1, <3>1, <3>2, <4>2, <5>1, <5>2
        <4>3. QED BY <4>1, <4>2
      <3>3. Lost' \subseteq Lost \cup {<<o, k>>}
        BY <3>2 DEF Lost, Numbers
      <3>4. CASE LoadFails(o)
        BY <1>1, <3>3, <3>4, LossAdded DEF LoadFails, Die
      <3>5. CASE ~LoadFails(o)
        <4>1. <<o, k>> \notin Lost'
          <5>1. CASE ~Wanted(o, k)
            <6>1. ~Wanted(o, k)'
              BY <1>1, <2>1, <3>1, <5>1, SettledStay
            <6>2. QED BY <6>1 DEF Lost
          <5>2. CASE Wanted(o, k) /\ file # Torn /\ file[UserOf(o, k)] = chat[k].text
            <6>1. chat[k] \in Message
              BY <3>1 DEF Wide
            <6>2. UserOf(o, k) \in Users
              BY <2>1, <5>2, <6>1, UserOfTyped
            <6>3. IsRepeat(o, k)
              BY <2>1, <3>1, <5>2, <6>2, DroppedIsRepeat
            <6>4. IsRepeat(o, k)'
              BY <1>1, <2>1, <3>1, <6>3, SettledStay
            <6>5. QED BY <6>4 DEF Lost
          <5>3. CASE /\ held' = [held EXCEPT ![o] = [user |-> UserOf(o, k), msg |-> k]]
                     /\ pc' = [pc EXCEPT ![o] = "emit"]
            <6>1. pc'[o] = "emit" /\ held'[o].msg = k
              BY <2>1, <5>3
            <6>2. QED BY <6>1 DEF Lost, InHand
          <5>4. QED BY <3>1, <3>5, <5>1, <5>2, <5>3 DEF Compare, Goto
        <4>2. Lost' \subseteq Lost
          BY <3>3, <4>1
        <4>3. QED BY <1>1, <2>4, <4>2, LossKept
      <3>6. QED BY <3>4, <3>5
    <2>7. CASE heard' = heard
      <3>1. ASSUME NEW m, <<o, m>> \in Lost', <<o, m>> \notin Lost
            PROVE  m = held[o].msg /\ deaths' = deaths + 1
        <4>1. m \in heard[o] /\ m \notin InHand(o)' /\ m \notin EmittedBy(o)'
          BY <2>7, <3>1 DEF Lost
        <4>2. m \in InHand(o)
          BY <1>3, <2>1, <2>2, <3>1, <4>1
        <4>3. pc[o] = "emit" /\ m = held[o].msg
          BY <4>2 DEF InHand
        <4>4. CASE Emit(o)
          <5>1. /\ Len(emitted) + 1 \in DOMAIN emitted'
                /\ emitted'[Len(emitted) + 1].observer = o
                /\ emitted'[Len(emitted) + 1].msg = m
            BY <2>1, <4>3, <4>4, PublicationsTyped
          <5>2. m \in EmittedBy(o)'
            BY <5>1 DEF EmittedBy
          <5>3. QED BY <4>1, <5>2
        <4>5. CASE Rests(o)
          <5>1. pc' # pc
            BY <4>1, <4>2, <4>5 DEF Rests, InHand
          <5>2. QED BY <4>3, <4>5, <5>1 DEF Rests
        <4>6. QED BY <1>5, <4>3, <4>4, <4>5 DEF Takes, Truncate, Save
      <3>2. Lost' \subseteq Lost \cup {<<o, held[o].msg>>}
        BY <2>5, <2>7, <3>1 DEF Lost, Numbers
      <3>3. CASE Lost' \subseteq Lost
        BY <1>1, <2>4, <3>3, LossKept
      <3>4. CASE ~(Lost' \subseteq Lost)
        <4>1. deaths' = deaths + 1
          BY <3>1, <3>2, <3>4
        <4>2. QED BY <1>1, <3>2, <4>1, LossAdded
      <3>5. QED BY <3>3, <3>4
    <2>8. QED BY <1>5, <2>6, <2>7
  <1>6. \A o \in Observers : next[o] \in 1..(Len(chat) + 1)
    BY DEF InTurn
  <1>7. QED BY <1>4, <1>5, <1>6, Moves

-----------------------------------------------------------------------------
\* One observer with a state file of its own.  A repeated text needs an entry of
\* the file that the user's last publication did not reach, and only a death
\* between the publication and the write leaves one.

\* The user's last publication.
IsLast(i, u) ==
  /\ i \in DOMAIN emitted /\ emitted[i].user = u
  /\ \A k \in DOMAIN emitted : i < k => emitted[k].user # u

\* What the file holds, or is about to hold but for the entry being written.
Content(o) == IF pc[o] = "write" THEN loaded[o] ELSE file

Stale(o) ==
  {u \in Users :
     /\ file = Torn => pc[o] = "write"
     /\ pc[o] \in {"save", "write"} => u # held[o].user
     /\ \E i \in DOMAIN emitted : IsLast(i, u) /\ Content(o)[u] # chat[emitted[i].msg].text}

OwnFile(o) ==
  /\ pc[o] \in {"emit", "save"} => file = loaded[o] /\ file # Torn
  /\ pc[o] = "write" => file = Torn
  /\ pc[o] = "emit" => file[held[o].user] # chat[held[o].msg].text
  /\ pc[o] \in {"save", "write"} =>
       /\ Len(emitted) > 0
       /\ emitted[Len(emitted)].user = held[o].user
       /\ emitted[Len(emitted)].msg = held[o].msg

EchoBounded(o) ==
  /\ IsFiniteSet(Echoes) /\ IsFiniteSet(Stale(o))
  /\ Cardinality(Echoes) + Cardinality(Stale(o)) <= deaths

Single(o) == setup.observers = {o} => OwnFile(o) /\ EchoBounded(o)

LEMMA EchoFewer ==
  ASSUME NEW o \in Observers, EchoBounded(o), deaths \in Nat, deaths' \in Nat,
         Echoes' = Echoes,
         \/ Stale(o)' \subseteq Stale(o) /\ deaths' >= deaths
         \/ /\ deaths' = deaths + 1
            /\ \E p : Stale(o)' \subseteq Stale(o) \cup {p}
  PROVE  EchoBounded(o)'
  <1>1. /\ IsFiniteSet(Echoes) /\ IsFiniteSet(Stale(o))
        /\ Cardinality(Echoes) \in Nat /\ Cardinality(Stale(o)) \in Nat
        /\ Cardinality(Echoes) + Cardinality(Stale(o)) <= deaths
    BY FS_CardinalityType DEF EchoBounded
  <1>2. CASE Stale(o)' \subseteq Stale(o) /\ deaths' >= deaths
    <2>1. /\ IsFiniteSet(Stale(o)') /\ Cardinality(Stale(o)') <= Cardinality(Stale(o))
          /\ Cardinality(Stale(o)') \in Nat
      BY <1>1, <1>2, FS_Subset, FS_CardinalityType
    <2>2. QED BY <1>1, <1>2, <2>1 DEF EchoBounded
  <1>3. ASSUME NEW p, Stale(o)' \subseteq Stale(o) \cup {p}, deaths' = deaths + 1
        PROVE  EchoBounded(o)'
    <2>1. /\ IsFiniteSet(Stale(o) \cup {p})
          /\ Cardinality(Stale(o) \cup {p}) =
               IF p \in Stale(o) THEN Cardinality(Stale(o)) ELSE Cardinality(Stale(o)) + 1
      BY <1>1, FS_AddElement
    <2>2. /\ IsFiniteSet(Stale(o)') /\ Cardinality(Stale(o)') <= Cardinality(Stale(o) \cup {p})
          /\ Cardinality(Stale(o)') \in Nat /\ Cardinality(Stale(o) \cup {p}) \in Nat
      BY <1>3, <2>1, FS_Subset, FS_CardinalityType
    <2>3. QED BY <1>1, <1>3, <2>1, <2>2 DEF EchoBounded
  <1>4. QED BY <1>2, <1>3

\* A publication echoes the last one of its user only if that was stale.
LEMMA EchoEmitted ==
  ASSUME Wide, Grows, NEW o \in Observers, OwnFile(o), EchoBounded(o), Emit(o)
  PROVE  EchoBounded(o)'
  <1> DEFINE n == Len(emitted)
             v == held[o].user
  <1>1. /\ pc[o] = "emit" /\ pc'[o] = "save"
        /\ UNCHANGED <<chat, file, held, loaded, deaths>>
    BY DEF Emit, Goto, Wide, desk
  <1>2. /\ n \in Nat /\ DOMAIN emitted = 1..n /\ DOMAIN emitted' = 1..(n + 1)
        /\ \A i \in 1..n : emitted'[i] = emitted[i]
        /\ emitted'[n + 1].user = v /\ emitted'[n + 1].msg = held[o].msg
        /\ v \in Users
    BY <1>1, PublicationsTyped
  <1>3. file # Torn /\ file[v] # chat[held[o].msg].text
    BY <1>1 DEF OwnFile
  <1> HIDE DEF n
  <1>4. v \notin Stale(o)'
    BY <1>1 DEF Stale
  <1>5. ASSUME NEW u \in Stale(o)' PROVE u \in Stale(o)
    <2>1. u # v /\ u \in Users
      BY <1>4, <1>5 DEF Stale
    <2>2. PICK i \in DOMAIN emitted' : IsLast(i, u)' /\ file[u] # chat[emitted'[i].msg].text
      BY <1>1, <1>5 DEF Stale, Content
    <2>3. i \in 1..n
      BY <1>2, <2>1, <2>2 DEF IsLast
    <2>4. IsLast(i, u) /\ file[u] # chat[emitted[i].msg].text
      BY <1>2, <2>2, <2>3 DEF IsLast
    <2>5. QED BY <1>1, <1>2, <1>3, <2>1, <2>3, <2>4 DEF Stale, Content
  <1>6. ASSUME NEW i \in Echoes', i \notin Echoes
        PROVE  IsLast(i, v) /\ v \in Stale(o)
    <2>1. PICK j \in DOMAIN emitted' :
            /\ i \in 1..(n + 1) /\ i < j /\ emitted'[i].user = emitted'[j].user
            /\ chat[emitted'[i].msg].text = chat[emitted'[j].msg].text
            /\ \A k \in (i + 1)..(j - 1) : emitted'[k].user # emitted'[i].user
      BY <1>1, <1>2, <1>6 DEF Echoes
    <2>2. i \in 1..n
      BY <1>2, <2>1
    <2>3. j = n + 1
      <3>1. SUFFICES ASSUME j # n + 1 PROVE FALSE
        OBVIOUS
      <3>2. j \in 1..n /\ \A k \in (i + 1)..(j - 1) : k \in 1..n
        BY <1>2, <2>1, <2>2, <3>1
      <3>3. i \in Echoes
        BY <1>2, <2>1, <2>2, <3>2 DEF Echoes
      <3>4. QED BY <1>6, <3>3
    <2>4. emitted[i].user = v /\ chat[emitted[i].msg].text = chat[held[o].msg].text
      BY <1>2, <2>1, <2>2, <2>3
    <2>5. IsLast(i, v)
      BY <1>2, <2>1, <2>2, <2>3, <2>4 DEF IsLast
    <2>6. v \in Stale(o)
      BY <1>1, <1>2, <1>3, <2>2, <2>4, <2>5 DEF Stale, Content
    <2>7. QED BY <2>5, <2>6
  <1>7. \A i, j : IsLast(i, v) /\ IsLast(j, v) => i = j
    BY <1>2 DEF IsLast
  <1>8. /\ IsFiniteSet(Echoes) /\ IsFiniteSet(Stale(o))
        /\ Cardinality(Echoes) \in Nat /\ Cardinality(Stale(o)) \in Nat
        /\ Cardinality(Echoes) + Cardinality(Stale(o)) <= deaths
        /\ deaths \in Nat /\ deaths' = deaths
    BY <1>1, FS_CardinalityType DEF EchoBounded, Wide
  <1>9. CASE Echoes' \subseteq Echoes
    <2>1. /\ IsFiniteSet(Stale(o)') /\ Cardinality(Stale(o)') <= Cardinality(Stale(o))
          /\ IsFiniteSet(Echoes') /\ Cardinality(Echoes') <= Cardinality(Echoes)
      BY <1>5, <1>8, <1>9, FS_Subset
    <2>2. Cardinality(Stale(o)') \in Nat /\ Cardinality(Echoes') \in Nat
      BY <2>1, FS_CardinalityType
    <2>3. QED BY <1>8, <2>1, <2>2 DEF EchoBounded
  <1>10. ASSUME NEW i \in Echoes', i \notin Echoes
         PROVE  EchoBounded(o)'
    <2>1. Echoes' \subseteq Echoes \cup {i} /\ v \in Stale(o)
      BY <1>6, <1>7, <1>10
    <2>2. Stale(o)' \subseteq Stale(o) \ {v}
      BY <1>4, <1>5
    <2>3. /\ IsFiniteSet(Echoes \cup {i}) /\ IsFiniteSet(Stale(o) \ {v})
          /\ Cardinality(Echoes \cup {i}) = Cardinality(Echoes) + 1
          /\ Cardinality(Stale(o) \ {v}) = Cardinality(Stale(o)) - 1
      BY <1>8, <1>10, <2>1, FS_AddElement, FS_RemoveElement
    <2>4. /\ IsFiniteSet(Echoes') /\ Cardinality(Echoes') <= Cardinality(Echoes \cup {i})
          /\ IsFiniteSet(Stale(o)') /\ Cardinality(Stale(o)') <= Cardinality(Stale(o) \ {v})
      BY <2>1, <2>2, <2>3, FS_Subset
    <2>5. Cardinality(Stale(o)') \in Nat /\ Cardinality(Echoes') \in Nat
      BY <2>4, FS_CardinalityType
    <2>6. QED BY <1>8, <2>3, <2>4, <2>5 DEF EchoBounded
  <1>11. QED BY <1>9, <1>10

\* Publications, and with them their texts, are as before.
LEMMA SamePublications ==
  ASSUME Wide, Grows, emitted' = emitted
  PROVE  /\ Echoes' = Echoes
         /\ \A i, u : IsLast(i, u)' <=> IsLast(i, u)
         /\ \A i \in DOMAIN emitted : chat'[emitted[i].msg] = chat[emitted[i].msg]
  <1>1. \A i \in DOMAIN emitted : chat'[emitted[i].msg] = chat[emitted[i].msg]
    BY DEF Wide, Grows
  <1>2. \A i, u : IsLast(i, u)' <=> IsLast(i, u)
    BY DEF IsLast
  <1>3. Echoes' = Echoes
    BY <1>1 DEF Echoes
  <1>4. QED BY <1>1, <1>2, <1>3

LEMMA SingleStep ==
  ASSUME Wide, [Next]_vars, NEW o \in Observers, setup.observers = {o},
         OwnFile(o), EchoBounded(o),
         setup.backend = "wcferry" => \A e \in Observers : next[e] \in 1..(Len(chat) + 1)
  PROVE  OwnFile(o)' /\ EchoBounded(o)'
  <1>1. Grows /\ deaths \in Nat /\ Len(emitted) \in Nat
        /\ pc \in [Observers -> Active \cup {"poll", "down"}]
    BY Moves DEF Wide
  <1>2. pc[o] \in Active => chat'[held[o].msg] = chat[held[o].msg]
    BY <1>1 DEF Grows, Wide
  <1>3. CASE Quiet
    <2>1. UNCHANGED <<file, pc, held, loaded, emitted, deaths>>
      BY <1>3 DEF Quiet
    <2>2. Echoes' = Echoes /\ Stale(o)' \subseteq Stale(o)
      BY <1>1, <2>1, SamePublications DEF Stale, Content, IsLast
    <2>3. OwnFile(o)'
      BY <1>2, <2>1 DEF OwnFile, Active
    <2>4. QED BY <1>1, <2>1, <2>2, <2>3, EchoFewer
  <1>4. ASSUME chat' = chat, Takes(o) \/ Rests(o) \/ Emit(o) \/ Truncate(o) \/ Save(o)
        PROVE  OwnFile(o)' /\ EchoBounded(o)'
    <2>1. CASE Takes(o)
      <3>1. /\ pc[o] = "poll" /\ pc'[o] = "emit" /\ file # Torn /\ loaded'[o] = file
            /\ UNCHANGED <<chat, file, emitted, deaths>>
        BY <1>1, <2>1 DEF Takes, Wide
      <3>2. file[held'[o].user] # chat[held'[o].msg].text
        <4>1. PICK u \in Users, m \in 1..Len(chat) :
                /\ file[u] # chat[m].text
                /\ held' = [held EXCEPT ![o] = [user |-> u, msg |-> m]]
          BY <2>1 DEF Takes
        <4>2. held'[o].user = u /\ held'[o].msg = m
          BY <4>1 DEF Wide
        <4>3. QED BY <4>1, <4>2
      <3>3. OwnFile(o)'
        BY <3>1, <3>2 DEF OwnFile
      <3>4. Stale(o)' \subseteq Stale(o)
        BY <3>1 DEF Stale, Content, IsLast
      <3>5. QED BY <1>1, <3>1, <3>3, <3>4, SamePublications, EchoFewer
    <2>2. CASE Rests(o)
      <3>1. UNCHANGED <<chat, file, held, loaded, emitted>>
        BY <2>2 DEF Rests
      <3>2. CASE pc' = pc /\ deaths' = deaths
        <4>1. OwnFile(o)' /\ Stale(o)' \subseteq Stale(o)
          BY <3>1, <3>2 DEF OwnFile, Stale, Content, IsLast
        <4>2. QED BY <1>1, <3>1, <3>2, <4>1, SamePublications, EchoFewer
      <3>3. CASE pc' = [pc EXCEPT ![o] = "down"] /\ deaths' = deaths + 1
        <4>1. pc'[o] = "down"
          BY <1>1, <3>3
        <4>2. OwnFile(o)'
          BY <4>1 DEF OwnFile
        <4>3. Stale(o)' \subseteq Stale(o) \cup {held[o].user}
          BY <3>1, <4>1 DEF Stale, Content, IsLast, OwnFile
        <4>4. QED BY <1>1, <3>1, <3>3, <4>2, <4>3, SamePublications, EchoFewer
      <3>4. CASE pc[o] = "down" /\ pc' = [pc EXCEPT ![o] = "poll"] /\ deaths' = deaths
        <4>1. pc'[o] = "poll"
          BY <1>1, <3>4
        <4>2. OwnFile(o)' /\ Stale(o)' \subseteq Stale(o)
          BY <3>1, <3>4, <4>1 DEF OwnFile, Stale, Content, IsLast
        <4>3. QED BY <1>1, <3>1, <3>4, <4>2, SamePublications, EchoFewer
      <3>5. QED BY <2>2, <3>2, <3>3, <3>4 DEF Rests
    <2>3. CASE Emit(o)
      <3>1. pc[o] = "emit" /\ pc'[o] = "save" /\ UNCHANGED <<file, held, loaded>>
        BY <1>1, <2>3 DEF Emit, Goto
      <3>2. /\ Len(emitted') = Len(emitted) + 1
            /\ emitted'[Len(emitted) + 1].user = held[o].user
            /\ emitted'[Len(emitted) + 1].msg = held[o].msg
        BY <1>1, <2>3, <3>1, PublicationsTyped
      <3>3. OwnFile(o)'
        BY <1>1, <3>1, <3>2 DEF OwnFile
      <3>4. QED BY <1>1, <2>3, <3>3, EchoEmitted
    <2>4. CASE Truncate(o)
      <3>1. /\ pc[o] = "save" /\ pc'[o] = "write" /\ file' = Torn
            /\ UNCHANGED <<chat, held, loaded, emitted, deaths>>
        BY <1>1, <1>4, <2>4 DEF Truncate, Goto
      <3>2. OwnFile(o)' /\ Stale(o)' \subseteq Stale(o)
        BY <3>1 DEF OwnFile, Stale, Content, IsLast
      <3>3. QED BY <1>1, <3>1, <3>2, SamePublications, EchoFewer
    <2>5. CASE Save(o)
      <3>1. /\ pc[o] = "write" /\ pc'[o] = "poll"
            /\ file' = [loaded[o] EXCEPT ![held[o].user] = chat[held[o].msg].text]
            /\ UNCHANGED <<chat, held, loaded, emitted, deaths>>
        BY <1>1, <1>4, <2>5 DEF Save, Goto
      <3>2. OwnFile(o)'
        BY <3>1 DEF OwnFile
      <3>3. loaded[o] \in Files /\ emitted \in Seq(Publication) /\ DOMAIN emitted = 1..Len(emitted)
        BY DEF Wide
      <3>4. ASSUME NEW u \in Stale(o)' PROVE u \in Stale(o)
        <4>1. PICK i \in DOMAIN emitted : IsLast(i, u) /\ file'[u] # chat[emitted[i].msg].text
          BY <3>1, <3>4 DEF Stale, Content, IsLast
        <4>2. u # held[o].user
          <5>1. SUFFICES ASSUME u = held[o].user PROVE FALSE
            OBVIOUS
          <5>2. u \in Users
            BY <3>4 DEF Stale
          <5>3. file'[u] = chat[held[o].msg].text
            BY <3>1, <3>3, <5>1, <5>2 DEF Files
          <5>4. i = Len(emitted)
            BY <1>1, <3>1, <3>3, <4>1, <5>1 DEF OwnFile, IsLast
          <5>5. QED BY <3>1, <4>1, <5>3, <5>4 DEF OwnFile
        <4>3. file'[u] = loaded[o][u] /\ u \in Users
          BY <3>1, <3>3, <3>4, <4>2 DEF Files, Stale
        <4>4. QED BY <3>1, <4>1, <4>2, <4>3 DEF Stale, Content
      <3>5. QED BY <1>1, <3>1, <3>2, <3>4, SamePublications, EchoFewer
    <2>6. QED BY <1>4, <2>1, <2>2, <2>3, <2>4, <2>5
  <1>5. QED BY <1>3, <1>4, Moves

-----------------------------------------------------------------------------

IInv ==
  /\ Inv /\ Wide /\ Known
  /\ setup.backend = "wcferry" => LostBounded
  /\ \A o \in Observers : Single(o)

LEMMA IInvInit == Init => IInv
  <1> SUFFICES ASSUME Init PROVE IInv
    OBVIOUS
  <1>1. /\ file = NoFile /\ pc = [o \in Observers |-> "poll"] /\ emitted = <<>>
        /\ heard = [o \in Observers |-> {}] /\ deaths = 0
    BY DEF Init
  <1>2. Inv /\ Wide
    BY InvInit, WideInit
  <1>3. Known
    BY <1>1 DEF Known, NoFile, Active
  <1>4. Lost = {} /\ Echoes = {} /\ \A o \in Observers : Stale(o) = {}
    BY <1>1 DEF Lost, Echoes, Stale
  <1>5. IsFiniteSet({}) /\ Cardinality({}) = 0
    BY FS_EmptySet
  <1>6. LostBounded
    BY <1>1, <1>4, <1>5 DEF LostBounded
  <1>7. ASSUME NEW o \in Observers PROVE OwnFile(o) /\ EchoBounded(o)
    <2>1. OwnFile(o)
      BY <1>1 DEF OwnFile
    <2>2. Cardinality(Echoes) = 0 /\ Cardinality(Stale(o)) = 0
          /\ IsFiniteSet(Echoes) /\ IsFiniteSet(Stale(o))
      BY <1>4, <1>5
    <2>3. QED BY <1>1, <2>1, <2>2 DEF EchoBounded
  <1>8. QED BY <1>2, <1>3, <1>6, <1>7 DEF IInv, Single

LEMMA IInvStep == IInv /\ [Next]_vars => IInv'
  <1> SUFFICES ASSUME IInv, [Next]_vars PROVE IInv'
    OBVIOUS
  <1>1. Inv /\ Wide /\ Known
    BY DEF IInv
  <1>2. setup.backend = "wcferry" =>
          Types /\ InTurn /\ \A o \in Observers : next[o] \in 1..(Len(chat) + 1)
    BY <1>1 DEF Inv, InTurn
  <1>3. Inv' /\ Wide' /\ Known'
    BY <1>1, <1>2, InvStep, WideStep, KnownStep
  <1>4. setup' = setup
    BY <1>1, <1>2, Moves DEF Grows
  <1>5. setup.backend = "wcferry" => LostBounded'
    BY <1>1, <1>2, LossStep DEF IInv
  <1>6. ASSUME NEW o \in Observers, setup.observers = {o}
        PROVE  OwnFile(o)' /\ EchoBounded(o)'
    BY <1>1, <1>2, <1>6, SingleStep DEF IInv, Single
  <1>7. QED BY <1>3, <1>4, <1>5, <1>6 DEF IInv, Single

(* Of the messages that its polls received through wcferry, and that it        *)
(* wanted, an observer loses one at most with each death: whatever it drops as  *)
(* a duplicate is a text that was published, also when observers overwrite      *)
(* each other's state file with older copies.                                   *)
THEOREM LossOnlyByDeath == Spec => []OneLostPerDeath
  <1>1. ASSUME IInv PROVE OneLostPerDeath
    <2>1. CASE setup.backend = "wcferry"
      BY <1>1, <2>1 DEF IInv, LostBounded, OneLostPerDeath
    <2>2. CASE setup.backend # "wcferry"
      <3>1. \A o \in Observers : heard[o] = {}
        BY <1>1, <2>2 DEF IInv, Wide
      <3>2. Lost = {}
        BY <3>1 DEF Lost
      <3>3. deaths \in Nat
        BY <1>1 DEF IInv, Wide
      <3>4. Cardinality(Lost) = 0
        BY <3>2, FS_EmptySet
      <3>5. QED BY <3>3, <3>4 DEF OneLostPerDeath
    <2>3. QED BY <2>1, <2>2
  <1>2. QED BY <1>1, IInvInit, IInvStep, PTL DEF Spec

(* However it polls, an observer with a state file of its own repeats a user's *)
(* text at most once with each death between publication and write.            *)
THEOREM EchoOnlyByDeath == Spec => []NoEcho
  <1>1. ASSUME IInv, NEW o \in Observers, setup.observers = {o}
        PROVE  Cardinality(Echoes) <= deaths
    <2>1. /\ IsFiniteSet(Echoes) /\ IsFiniteSet(Stale(o))
          /\ Cardinality(Echoes) + Cardinality(Stale(o)) <= deaths
      BY <1>1 DEF IInv, Single, EchoBounded
    <2>2. Cardinality(Echoes) \in Nat /\ Cardinality(Stale(o)) \in Nat /\ deaths \in Nat
      BY <1>1, <2>1, FS_CardinalityType DEF IInv, Wide
    <2>3. QED BY <2>1, <2>2
  <1>2. IInv => NoEcho
    BY <1>1 DEF NoEcho
  <1>3. QED BY <1>2, IInvInit, IInvStep, PTL DEF Spec

=============================================================================
