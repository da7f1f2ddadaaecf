------------------------------ MODULE Observer ------------------------------
(***************************************************************************)
(* The WeChat observers (tools/wechat_observer.py): processes that poll the  *)
(* desktop for a customer's latest message, compare it with the one in a      *)
(* state file, publish it and write the file.  Two ways to poll: wcferry       *)
(* delivers one message to the client that the poll makes, or its caller       *)
(* passed; pywinauto reads the newest text of whatever conversation is open.   *)
(* Observers started in one directory share the default state file.           *)
(***************************************************************************)
EXTENDS Integers, Sequences, FiniteSets, FiniteSetsExt

CONSTANTS
  Observers,   \* processes
  Setups,      \* ways to run them
  CustomerOf,  \* their --customer-user-id
  Users,       \* people writing to the account
  Self,        \* the account itself
  Texts,       \* texts that are not noise
  NoText,      \* no entry in the state file
  Torn,        \* a state file that was truncated and not written
  MaxMessages, \* bound: messages in the chats
  MaxEmitted   \* bound: publications until the desktop is left alone

\* Which processes are started, the way of polling that is installed,
\* --allow-any-sender, and a bound: how many times one dies.
Setup == [observers : SUBSET Observers, backend : {"wcferry", "pywinauto"},
          anySender : BOOLEAN, deaths : Nat]

ASSUME ObserverAssumption ==
  /\ CustomerOf \in [Observers -> Users]
  /\ Self \notin Users
  /\ NoText \notin Texts
  /\ Torn \notin [Users -> Texts \cup {NoText}]
  /\ Setups \subseteq Setup
  /\ {MaxMessages, MaxEmitted} \subseteq Nat

VARIABLES
  setup,   \* how the observers were started; never changes
  chat,    \* all messages: conversation, author, whether wcferry names it, text
  open,    \* the conversation open on the desktop
  file,    \* the state file: the last message of each user
  pc,      \* what each observer does
  next,    \* the first message wcferry may still deliver
  heard,   \* messages its polls received
  held,    \* the message in hand: its user and number
  loaded,  \* the state file as it was read
  emitted, \* messages published: observer, user, number
  deaths   \* deaths so far

desk == <<chat, open>>
observerVars == <<pc, next, heard, held, loaded>>
vars == <<setup, desk, file, observerVars, emitted, deaths>>

Numbers == 1..MaxMessages
Files == [Users -> Texts \cup {NoText}]
Message == [chat : Users, from : Users \cup {Self}, signed : BOOLEAN, text : Texts]
Held == [user : Users, msg : Numbers]
NoFile == [u \in Users |-> NoText]

TypeOK ==
  /\ setup \in Setups
  /\ chat \in Seq(Message) /\ Len(chat) <= MaxMessages
  /\ open \in Users
  /\ file \in Files \cup {Torn}
  /\ pc \in [Observers -> {"poll", "emit", "save", "write", "down"}]
  /\ next \in [Observers -> 1..(Len(chat) + 1)]
  /\ heard \in [Observers -> SUBSET (1..Len(chat))]
  /\ \A o \in Observers : pc[o] \in {"emit", "save", "write"} =>
       held[o] \in Held /\ loaded[o] \in Files
  /\ emitted \in Seq([observer : Observers, user : Users, msg : 1..Len(chat)])
  /\ deaths \in 0..setup.deaths

Init ==
  /\ setup \in Setups
  /\ chat = <<>>
  /\ open \in Users
  /\ file = NoFile
  /\ pc = [o \in Observers |-> "poll"]
  /\ next = [o \in Observers |-> 1]
  /\ heard = [o \in Observers |-> {}]
  /\ held = [o \in Observers |-> [user |-> CustomerOf[o], msg |-> 1]]
  /\ loaded = [o \in Observers |-> NoFile]
  /\ emitted = <<>>
  /\ deaths = 0

-----------------------------------------------------------------------------

\* A user writes to the account, or the account answers in a user's chat.  A
\* message may come through wcferry without its sender; of the account's own
\* only from_self() counts.
Write(u, from, signed, t) ==
  /\ Len(chat) < MaxMessages
  /\ from \in {u, Self}
  /\ signed \/ (from # Self /\ setup.backend = "wcferry")
  /\ chat' = Append(chat, [chat |-> u, from |-> from, signed |-> signed, text |-> t])
  /\ UNCHANGED <<setup, open, file, observerVars, emitted, deaths>>

\* An executor, or a person, opens another conversation; wcferry does not see
\* the desktop.
OpenChat(u) ==
  /\ setup.backend = "pywinauto"
  /\ u # open
  /\ Len(emitted) < MaxEmitted
  /\ open' = u
  /\ UNCHANGED <<setup, chat, file, observerVars, emitted, deaths>>

Goto(o, step) == pc' = [pc EXCEPT ![o] = step]

Die(o) ==
  /\ deaths < setup.deaths
  /\ deaths' = deaths + 1
  /\ Goto(o, "down")

\* The poll ends without a new message.
Pass == UNCHANGED <<pc, held, loaded, deaths>>

\* load_observer_state cannot parse a torn file and the loop ends.
LoadFails(o) ==
  /\ file = Torn
  /\ Die(o)
  /\ UNCHANGED <<held, loaded>>

\* Bug: the texts are not compared.
CompareNothing(o, u, m) ==
  \/ LoadFails(o)
  \/ /\ file # Torn
     /\ held' = [held EXCEPT ![o] = [user |-> u, msg |-> m]]
     /\ loaded' = [loaded EXCEPT ![o] = file]
     /\ Goto(o, "emit")
     /\ UNCHANGED deaths

\* Bug: the texts of all users are compared.
CompareAny(o, u, m) ==
  \/ LoadFails(o)
  \/ file # Torn /\ (\E v \in Users : file[v] = chat[m].text) /\ Pass
  \/ /\ file # Torn
     /\ \A v \in Users : file[v] # chat[m].text
     /\ held' = [held EXCEPT ![o] = [user |-> u, msg |-> m]]
     /\ loaded' = [loaded EXCEPT ![o] = file]
     /\ Goto(o, "emit")
     /\ UNCHANGED deaths

\* The message is compared with the user's last one and dropped as a duplicate,
\* or kept to be published.
Compare(o, u, m) ==
  \/ LoadFails(o)
  \/ file # Torn /\ file[u] = chat[m].text /\ Pass
  \/ /\ file # Torn
     /\ file[u] # chat[m].text
     /\ held' = [held EXCEPT ![o] = [user |-> u, msg |-> m]]
     /\ loaded' = [loaded EXCEPT ![o] = file]
     /\ Goto(o, "emit")
     /\ UNCHANGED deaths

\* What _build_wcferry_observation does not skip.
Wanted(o, m) ==
  /\ chat[m].from # Self
  /\ setup.anySender \/ (chat[m].signed /\ chat[m].from = CustomerOf[o])

\* `sender or customer_user_id`
UserOf(o, m) == IF chat[m].signed THEN chat[m].from ELSE CustomerOf[o]

\* Bug: every sender's message is taken for the customer's.
ReceiveForCustomer(o) ==
  /\ setup.backend = "wcferry" /\ pc[o] = "poll"
  /\ \E m \in next[o]..Len(chat) :
       /\ next' = [next EXCEPT ![o] = m + 1]
       /\ heard' = [heard EXCEPT ![o] = @ \cup {m}]
       /\ IF Wanted(o, m) THEN Compare(o, CustomerOf[o], m)
          ELSE LoadFails(o) \/ (file # Torn /\ Pass)
  /\ UNCHANGED <<setup, desk, file, emitted>>

\* A poll receives one message.  A client of the caller's delivers each in turn;
\* without one the poll makes a new client, and what came before it may be gone.
Receive(o) ==
  /\ setup.backend = "wcferry" /\ pc[o] = "poll"
  /\ \E m \in next[o]..Len(chat) :
       /\ next' = [next EXCEPT ![o] = m + 1]
       /\ heard' = [heard EXCEPT ![o] = @ \cup {m}]
       /\ IF Wanted(o, m) THEN Compare(o, UserOf(o, m), m)
          ELSE LoadFails(o) \/ (file # Torn /\ Pass)
  /\ UNCHANGED <<setup, desk, file, emitted>>

\* A poll through pywinauto reads the newest text in the open conversation,
\* whoever wrote it, and takes it for the customer's.
Look(o) ==
  /\ setup.backend = "pywinauto" /\ pc[o] = "poll"
  /\ LET visible == {m \in 1..Len(chat) : chat[m].chat = open} IN
       /\ visible # {}
       /\ Compare(o, CustomerOf[o], Max(visible))
  /\ UNCHANGED <<setup, desk, file, next, heard, emitted>>

\* A poll that finds no message reads the state file as well.  Of wcferry's
\* clients a new one may have nothing.
PollNothing(o) ==
  /\ pc[o] = "poll"
  /\ setup.backend = "pywinauto" => \A m \in 1..Len(chat) : chat[m].chat # open
  /\ LoadFails(o)
  /\ UNCHANGED <<setup, desk, file, next, heard, emitted>>

\* emit_messages publishes MESSAGE_BUFFERED.
Emit(o) ==
  /\ pc[o] = "emit"
  /\ emitted' = Append(emitted,
       [observer |-> o, user |-> held[o].user, msg |-> held[o].msg])
  /\ Goto(o, "save")
  /\ UNCHANGED <<setup, desk, file, next, heard, held, loaded, deaths>>

\* write_text opens the file, which empties it ...
Truncate(o) ==
  /\ pc[o] = "save"
  /\ file' = Torn
  /\ Goto(o, "write")
  /\ UNCHANGED <<setup, desk, next, heard, held, loaded, emitted, deaths>>

\* ... and writes what was loaded, with the new entry.
Save(o) ==
  /\ pc[o] = "write"
  /\ file' = [loaded[o] EXCEPT ![held[o].user] = chat[held[o].msg].text]
  /\ Goto(o, "poll")
  /\ UNCHANGED <<setup, desk, next, heard, held, loaded, emitted, deaths>>

Crash(o) ==
  /\ pc[o] # "down"
  /\ Die(o)
  /\ UNCHANGED <<setup, desk, file, next, heard, held, loaded, emitted>>

\* Bug: the messages written before the start are delivered again.
StartFromHistory(o) ==
  /\ pc[o] = "down"
  /\ Goto(o, "poll")
  /\ next' = [next EXCEPT ![o] = 1]
  /\ UNCHANGED <<setup, desk, file, heard, held, loaded, emitted, deaths>>

\* A new process; wcferry delivers what is written from now on.
Start(o) ==
  /\ pc[o] = "down"
  /\ Goto(o, "poll")
  /\ next' = [next EXCEPT ![o] = Len(chat) + 1]
  /\ UNCHANGED <<setup, desk, file, heard, held, loaded, emitted, deaths>>

Step(o) ==
  \/ Receive(o) \/ Look(o) \/ PollNothing(o)
  \/ Emit(o) \/ Truncate(o) \/ Save(o)

Next ==
  \/ \E u \in Users, t \in Texts, signed \in BOOLEAN : \E from \in {u, Self} :
       Write(u, from, signed, t)
  \/ \E u \in Users : OpenChat(u)
  \/ \E o \in setup.observers : Step(o) \/ Crash(o) \/ Start(o)

Spec == Init /\ [][Next]_vars

-----------------------------------------------------------------------------

EmittedBy(o) == {emitted[i].msg : i \in {i \in DOMAIN emitted : emitted[i].observer = o}}
InHand(o) == IF pc[o] = "emit" THEN {held[o].msg} ELSE {}

\* Its text was published as its user's before, or by an observer that shares
\* the state file.
IsRepeat(o, m) ==
  \E i \in DOMAIN emitted :
    /\ emitted[i].user = UserOf(o, m)
    /\ chat[emitted[i].msg].text = chat[m].text
    /\ emitted[i].observer = o => emitted[i].msg < m

\* Messages that a poll of an observer that wanted them received, and are gone.
Lost ==
  {p \in Observers \X Numbers :
     LET o == p[1]
         m == p[2]
     IN /\ m \in heard[o]
        /\ Wanted(o, m)
        /\ m \notin EmittedBy(o) \cup InHand(o)
        /\ ~IsRepeat(o, m)}

\* Publications that the next one of the same user repeats.
Echoes ==
  {i \in DOMAIN emitted : \E j \in DOMAIN emitted :
     /\ i < j
     /\ emitted[i].user = emitted[j].user
     /\ chat[emitted[i].msg].text = chat[emitted[j].msg].text
     /\ \A k \in (i + 1)..(j - 1) : emitted[k].user # emitted[i].user}

(* What wcferry's observer publishes is never the account's own, and is         *)
(* published as the message of the user who wrote it, without                  *)
(* --allow-any-sender always the customer.  Only with that flag, and when       *)
(* wcferry does not name the sender, may it be somebody else's: it is published *)
(* as the customer's, whoever wrote it.                                        *)
InboundOnly ==
  setup.backend = "wcferry" =>
    \A i \in DOMAIN emitted :
      LET e == emitted[i]
          m == chat[e.msg]
      IN /\ m.from # Self
         /\ m.signed => e.user = m.from
         /\ ~setup.anySender => m.from = CustomerOf[e.observer] /\ e.user = m.from

(* Through wcferry an observer publishes its messages in the order they were  *)
(* written and none twice, whenever it dies and is started again.             *)
EmittedInOrder ==
  setup.backend = "wcferry" =>
    \A i, j \in DOMAIN emitted :
      i < j /\ emitted[i].observer = emitted[j].observer => emitted[i].msg < emitted[j].msg

(* A message that a poll received, and its observer wanted, is published by it,  *)
(* or repeats a text that was published as its user's, except for one message   *)
(* at most with each death: also with observers that overwrite each other's     *)
(* state file.  (What no poll receives, because it came between two of them,    *)
(* each with a client of its own, is not counted.)                              *)
OneLostPerDeath == Cardinality(Lost) <= deaths

(* An observer with a state file of its own publishes the same text of a user *)
(* twice in a row only when it died in between.                               *)
NoEcho ==
  (\E o \in Observers : setup.observers = {o}) => Cardinality(Echoes) <= deaths

=============================================================================
