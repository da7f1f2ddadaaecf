---------------------------- MODULE DesktopProofs ----------------------------
(***************************************************************************)
(* Proofs, for any number of executors, tasks, conversations, calls and    *)
(* faults: as long as no executor gives input in the middle of another     *)
(* one's send, texts reach only their recipient, once per call, alone but  *)
(* for one message after each fault, and before they are reported.         *)
(***************************************************************************)
EXTENDS Desktop, FiniteSetTheorems, TLAPS

DeskTypes ==
  /\ clipboard \in Contents \cup {Nothing}
  /\ focus \in {"none", "search", "editor"}
  /\ open \in Chats \cup {NoChat}
  /\ draft \in [Chats -> Seq(Contents)]
  /\ sent \in Seq([to : Chats, texts : Seq(Contents)])
  /\ focus = "editor" => open # NoChat

CallTypes ==
  /\ pc \in [Executors -> Steps]
  /\ task \in [Executors -> Tasks \cup {Nothing}]
  /\ attempt \in [Executors -> Nat]

\* The steps in which an executor has a task.
HasTask == \A e \in Executors : pc[e] # "idle" => task[e] \in Tasks

\* A task's text may stand in a conversation's editor, or have been sent to it.
Belongs(t, chat) == Recipient(t) \in Chats => chat = Recipient(t)

\* What the send of e relies on, and the driver never reads back.
Prepared(e) ==
  LET name == Recipient(task[e]) IN
    /\ pc[e] \in {"search", "copyName", "pasteName", "select"} => name # Nothing
    /\ pc[e] \in {"copyName", "pasteName"} => focus = "search" /\ search = <<>>
    /\ pc[e] = "pasteName" => clipboard = name
    /\ pc[e] = "select" => focus = "search" /\ search = <<name>>
    /\ pc[e] \in {"click", "copyText", "pasteText", "send"} => Belongs(task[e], open)
    /\ pc[e] \in {"copyText", "pasteText", "send"} => focus # "search"
    /\ pc[e] = "pasteText" => clipboard = task[e]

DraftsBelong ==
  \A c \in Chats : \A i \in DOMAIN draft[c] :
    draft[c][i] \in Tasks => Belongs(draft[c][i], c)

SentBelong ==
  \A i \in DOMAIN sent : \A j \in DOMAIN sent[i].texts :
    sent[i].texts[j] \in Tasks => Belongs(sent[i].texts[j], sent[i].to)

\* An executor between the keys of its send finds the desktop as it left it.
Delivered ==
  overlapped \/ ((\A e \in Executors : Prepared(e)) /\ DraftsBelong /\ SentBelong)

Inv == DeskTypes /\ CallTypes /\ HasTask /\ Delivered

LEMMA InvInit == Init => Inv
  <1> SUFFICES ASSUME Init PROVE Inv
    OBVIOUS
  <1>1. /\ pc = [e \in Executors |-> "idle"] /\ task = [e \in Executors |-> Nothing]
        /\ attempt = [e \in Executors |-> 1] /\ clipboard = Nothing
        /\ focus = "none" /\ draft = [c \in Chats |-> <<>>] /\ sent = <<>>
        /\ open \in Chats \cup {NoChat}
    BY DEF Init
  <1>2. DeskTypes /\ CallTypes
    BY <1>1 DEF DeskTypes, CallTypes, Steps
  <1>3. HasTask /\ (\A e \in Executors : Prepared(e)) /\ DraftsBelong /\ SentBelong
    BY <1>1 DEF HasTask, Prepared, DraftsBelong, SentBelong
  <1>4. QED BY <1>2, <1>3 DEF Inv, Delivered

-----------------------------------------------------------------------------
\* The keys keep the desktop's types.

LEMMA RecipientIsName ==
  ASSUME NEW t \in Tasks
  PROVE  t \in Contents /\ Recipient(t) \in Contents \cup {Nothing}
  BY DEF Recipient, Contents, Names

LEMMA KeysKeepTypes ==
  ASSUME DeskTypes,
         KeyFind \/ KeyPaste \/ KeyEnter \/ KeyEsc \/ ClickEditor
           \/ \E content \in Contents \cup {Nothing} : SetClipboard(content)
  PROVE  DeskTypes'
  <1>1. CASE KeyFind
    BY <1>1 DEF KeyFind, DeskTypes
  <1>2. CASE KeyPaste
    <2>1. CASE clipboard = Nothing \/ focus \in {"none", "search"}
      BY <1>2, <2>1 DEF KeyPaste, DeskTypes
    <2>2. CASE clipboard # Nothing /\ focus = "editor"
      <3>1. /\ draft' = [draft EXCEPT ![open] = Append(@, clipboard)]
            /\ UNCHANGED <<clipboard, focus, open, sent>>
        BY <1>2, <2>2 DEF KeyPaste
      <3>2. open \in Chats /\ clipboard \in Contents
        BY <2>2 DEF DeskTypes
      <3>3. Append(draft[open], clipboard) \in Seq(Contents)
        BY <3>2 DEF DeskTypes
      <3>4. QED BY <3>1, <3>2, <3>3 DEF DeskTypes
    <2>3. QED BY <2>1, <2>2 DEF DeskTypes
  <1>3. CASE Choose
    BY <1>3, DesktopAssumption DEF Choose, DeskTypes, DesktopAssumption
  <1>4. CASE Post
    <2>1. open \in Chats
      BY <1>4 DEF Post, DeskTypes
    <2>2. draft[open] \in Seq(Contents)
      BY <2>1 DEF DeskTypes
    <2>3. [to |-> open, texts |-> draft[open]] \in [to : Chats, texts : Seq(Contents)]
      BY <2>1, <2>2
    <2>4. Append(sent, [to |-> open, texts |-> draft[open]])
            \in Seq([to : Chats, texts : Seq(Contents)])
      <3> DEFINE Sent == [to : Chats, texts : Seq(Contents)]
      <3>1. sent \in Seq(Sent) /\ [to |-> open, texts |-> draft[open]] \in Sent
        BY <2>3 DEF DeskTypes
      <3> HIDE DEF Sent
      <3>2. Append(sent, [to |-> open, texts |-> draft[open]]) \in Seq(Sent)
        BY <3>1
      <3>3. QED BY <3>2 DEF Sent
    <2>5. [draft EXCEPT ![open] = <<>>] \in [Chats -> Seq(Contents)]
      <3>1. draft \in [Chats -> Seq(Contents)] /\ <<>> \in Seq(Contents)
        BY DEF DeskTypes
      <3>2. QED BY <3>1
    <2>6. sent' \in Seq([to : Chats, texts : Seq(Contents)])
      BY <1>4, <2>4 DEF Post, DeskTypes
    <2>7. draft' \in [Chats -> Seq(Contents)]
      BY <1>4, <2>5 DEF Post, DeskTypes
    <2>8. QED BY <1>4, <2>6, <2>7 DEF Post, DeskTypes
  <1>5. CASE UNCHANGED deskVars
    BY <1>5 DEF deskVars, DeskTypes
  <1>6. CASE KeyEsc
    BY <1>6 DEF KeyEsc, DeskTypes
  <1>7. CASE ClickEditor
    BY <1>7 DEF ClickEditor, DeskTypes
  <1>8. ASSUME NEW content \in Contents \cup {Nothing}, SetClipboard(content)
        PROVE  DeskTypes'
    BY <1>8 DEF SetClipboard, DeskTypes
  <1>9. QED BY <1>1, <1>2, <1>3, <1>4, <1>5, <1>6, <1>7, <1>8 DEF KeyEnter

-----------------------------------------------------------------------------
\* One executor moves; the others stay where they are.

Relaxed == Steps \ (Driving \cup {"search"})

\* How a step changes the executor that takes it.
Moves(e, step) ==
  /\ Goto(e, step)
  /\ step # "idle" => task'[e] \in Tasks
  /\ attempt' \in [Executors -> Nat]
  /\ task' \in [Executors -> Tasks \cup {Nothing}]
  /\ \A f \in Executors \ {e} : task'[f] = task[f]

LEMMA CallKeeps ==
  ASSUME Inv, NEW e \in Executors, NEW step \in Steps, Moves(e, step)
  PROVE  /\ pc'[e] = step /\ \A f \in Executors \ {e} : pc'[f] = pc[f]
         /\ CallTypes' /\ HasTask'
         /\ step \in Relaxed => Prepared(e)'
  <1>1. pc'[e] = step /\ \A f \in Executors \ {e} : pc'[f] = pc[f]
    BY DEF Inv, CallTypes, Moves, Goto
  <1>2. CallTypes'
    BY DEF Inv, CallTypes, Moves, Goto
  <1>3. HasTask'
    BY <1>1 DEF Inv, HasTask, Moves
  <1>4. step \in Relaxed => Prepared(e)'
    BY <1>1 DEF Prepared, Relaxed, Driving
  <1>5. QED BY <1>1, <1>2, <1>3, <1>4

\* Without input the desktop stays prepared for whoever is between keys.
LEMMA QuietKeeps ==
  ASSUME Inv, UNCHANGED <<deskVars, overlapped>>,
         NEW e \in Executors, NEW step \in Steps, Moves(e, step),
         step \in Relaxed \/ Prepared(e)'
  PROVE  Inv'
  <1>1. /\ pc'[e] = step /\ \A f \in Executors \ {e} : pc'[f] = pc[f]
        /\ CallTypes' /\ HasTask' /\ Prepared(e)'
    BY CallKeeps
  <1>2. DeskTypes'
    BY DEF Inv, DeskTypes, deskVars
  <1>3. ASSUME NEW f \in Executors, Prepared(f) PROVE Prepared(f)'
    <2>1. CASE f = e
      BY <1>1, <2>1
    <2>2. CASE f # e
      BY <1>1, <1>3, <2>2 DEF Prepared, Belongs, Recipient, deskVars, Moves
    <2>3. QED BY <2>1, <2>2
  <1>4. DraftsBelong /\ SentBelong => (DraftsBelong /\ SentBelong)'
    BY DEF DraftsBelong, SentBelong, Belongs, Recipient, deskVars
  <1>5. QED BY <1>1, <1>2, <1>3, <1>4 DEF Inv, Delivered

\* Input while nobody else is between keys: all that counts is what it leaves
\* for its own executor, and in the conversations.
LEMMA InputKeeps ==
  ASSUME Inv, NEW e \in Executors, Input(e), NEW step \in Steps, Moves(e, step),
         DeskTypes',
         Prepared(e) /\ DraftsBelong /\ SentBelong =>
           /\ step \in Relaxed \/ Prepared(e)'
           /\ (DraftsBelong /\ SentBelong)'
  PROVE  Inv'
  <1>1. /\ pc'[e] = step /\ \A f \in Executors \ {e} : pc'[f] = pc[f]
        /\ CallTypes' /\ HasTask'
        /\ step \in Relaxed => Prepared(e)'
    BY CallKeeps
  <1>2. ASSUME ~overlapped', NEW f \in Executors, f # e, Prepared(f) PROVE Prepared(f)'
    <2>1. pc[f] \notin Driving
      BY <1>2 DEF Input
    <2>2. pc'[f] = pc[f] /\ task'[f] = task[f]
      BY <1>1, <1>2 DEF Moves
    <2>3. QED BY <1>2, <2>1, <2>2 DEF Prepared, Driving, Recipient
  <1>3. ~overlapped' => ~overlapped
    BY DEF Input
  <1>4. QED BY <1>1, <1>2, <1>3 DEF Inv, Delivered

LEMMA Staying ==
  ASSUME Inv, NEW e \in Executors, pc[e] # "idle", UNCHANGED <<task, attempt>>,
         NEW step, Goto(e, step)
  PROVE  Moves(e, step)
  BY DEF Inv, HasTask, CallTypes, Moves

LEMMA Leaving ==
  ASSUME Inv, NEW e \in Executors, Leave(e)
  PROVE  Moves(e, "idle")
  BY DEF Inv, CallTypes, Leave, Moves

LEMMA StartingOver ==
  ASSUME Inv, NEW e \in Executors, pc[e] # "idle", DesktopError(e)
  PROVE  \E step \in {"find", "rollback"} : Moves(e, step)
  <1>1. \E step \in {"find", "rollback"} : Goto(e, step)
    BY DEF DesktopError
  <1>2. task' = task /\ attempt' \in [Executors -> Nat]
    BY DEF Inv, CallTypes, DesktopError
  <1>3. QED BY <1>1, <1>2 DEF Inv, HasTask, CallTypes, Moves

LEMMA WhereRelaxed ==
  /\ {"idle", "acquire", "find", "report", "rollback", "release", "retreat"} \subseteq Relaxed
  /\ Relaxed \subseteq Steps
  BY DEF Relaxed, Steps, Driving

-----------------------------------------------------------------------------
\* The send, key by key.

\* Keys that leave conversations and messages alone.
LEMMA ConversationsStay ==
  ASSUME UNCHANGED <<draft, sent>>, DraftsBelong, SentBelong
  PROVE  (DraftsBelong /\ SentBelong)'
  BY DEF DraftsBelong, SentBelong, Belongs, Recipient

LEMMA CopyKeeps ==
  ASSUME Inv, NEW e \in Executors, NEW step \in {"copyName", "copyText"},
         NEW content \in Contents \cup {Nothing}, NEW next \in Steps,
         Copy(e, step, content, next),
         Prepared(e) /\ SetClipboard(content) /\ pc[e] = step /\ pc'[e] = next
           /\ task' = task => Prepared(e)'
  PROVE  Inv'
  <1>1. /\ pc[e] = step /\ step # "idle" /\ Input(e)
        /\ UNCHANGED <<draft, sent>>
        /\ \E left \in Contents \cup {Nothing} : SetClipboard(left)
    BY DEF Copy, SetClipboard, Inv, DeskTypes
  <1>2. DeskTypes'
    BY <1>1, KeysKeepTypes DEF Inv
  <1>3. CASE SetClipboard(content) /\ Goto(e, next) /\ UNCHANGED <<holder, task, attempt>>
    <2>1. Moves(e, next)
      BY <1>1, <1>3, Staying
    <2>2. pc'[e] = next
      BY <2>1, CallKeeps
    <2>3. QED BY <1>1, <1>2, <1>3, <2>1, <2>2, InputKeeps, ConversationsStay
  <1>4. CASE DesktopError(e)
    <2>1. PICK to \in {"find", "rollback"} : Moves(e, to)
      BY <1>1, <1>4, StartingOver
    <2>2. to \in Relaxed /\ to \in Steps
      BY <2>1, WhereRelaxed
    <2>3. QED BY <1>1, <1>2, <2>1, <2>2, InputKeeps, ConversationsStay
  <1>5. QED BY <1>3, <1>4 DEF Copy

\* A key, with what has to be shown of it.
LEMMA PressKeeps ==
  ASSUME Inv, NEW e \in Executors, NEW step, step # "idle", NEW next \in Steps,
         pc[e] = step, Input(e), Goto(e, next), UNCHANGED <<task, attempt>>,
         DeskTypes',
         task[e] \in Tasks /\ pc'[e] = next /\ task'[e] = task[e]
           /\ Prepared(e) /\ DraftsBelong /\ SentBelong =>
             (next \in Relaxed \/ Prepared(e)') /\ (DraftsBelong /\ SentBelong)'
  PROVE  Inv'
  <1>1. Moves(e, next)
    BY Staying
  <1>2. pc'[e] = next /\ task[e] \in Tasks
    BY <1>1, CallKeeps DEF Inv, HasTask
  <1>3. QED BY <1>1, <1>2, InputKeeps

LEMMA SelectKeeps == ASSUME Inv, NEW e \in Executors, SelectTarget(e) PROVE Inv'
  <1> DEFINE name == Recipient(task[e])
  <1>1. CASE Press(e, "search", KeyFind, "copyName")
    <2>1. /\ pc[e] = "search" /\ KeyFind /\ Input(e) /\ Goto(e, "copyName")
          /\ UNCHANGED <<task, attempt>>
      BY <1>1 DEF Press
    <2>2. DeskTypes' /\ UNCHANGED <<draft, sent>>
      BY <2>1, KeysKeepTypes DEF Inv, KeyFind
    <2>3. pc'[e] = "copyName" /\ Prepared(e) => Prepared(e)'
      BY <2>1 DEF Prepared, KeyFind, Recipient
    <2>4. "copyName" \in Steps
      BY DEF Steps, Driving
    <2>5. QED BY <2>1, <2>2, <2>3, <2>4, PressKeeps, ConversationsStay
  <1>2. CASE Copy(e, "copyName", name, "pasteName")
    <2>1. task[e] \in Tasks
      BY <1>2 DEF Copy, Inv, HasTask
    <2>2. name \in Contents \cup {Nothing}
      BY <2>1, RecipientIsName
    <2>3. Prepared(e) /\ SetClipboard(name) /\ pc[e] = "copyName" /\ pc'[e] = "pasteName"
            /\ task' = task => Prepared(e)'
      BY DEF Prepared, SetClipboard, Recipient
    <2>4. "pasteName" \in Steps
      BY DEF Steps, Driving
    <2>5. QED BY <1>2, <2>2, <2>3, <2>4, CopyKeeps
  <1>3. CASE Press(e, "pasteName", KeyPaste, "select")
    <2>1. /\ pc[e] = "pasteName" /\ KeyPaste /\ Input(e) /\ Goto(e, "select")
          /\ UNCHANGED <<task, attempt>>
      BY <1>3 DEF Press
    <2>2. DeskTypes'
      BY <2>1, KeysKeepTypes DEF Inv
    <2>3. ASSUME Prepared(e), pc'[e] = "select"
          PROVE  Prepared(e)' /\ UNCHANGED <<draft, sent>>
      <3>1. name # Nothing /\ focus = "search" /\ search = <<>> /\ clipboard = name
        BY <2>1, <2>3 DEF Prepared
      <3>2. /\ search' = Append(search, clipboard)
            /\ UNCHANGED <<focus, draft, sent>>
        BY <2>1, <3>1 DEF KeyPaste
      <3>3. search' = <<name>>
        BY <3>1, <3>2
      <3>4. QED BY <2>1, <2>3, <3>1, <3>2, <3>3 DEF Prepared, Recipient
    <2>4. "select" \in Steps
      BY DEF Steps, Driving
    <2>5. QED BY <2>1, <2>2, <2>3, <2>4, PressKeeps, ConversationsStay
  <1>4. CASE Press(e, "select", KeyEnter, "click")
    <2>1. /\ pc[e] = "select" /\ KeyEnter /\ Input(e) /\ Goto(e, "click")
          /\ UNCHANGED <<task, attempt>>
      BY <1>4 DEF Press
    <2>2. DeskTypes'
      BY <2>1, KeysKeepTypes DEF Inv
    <2>3. ASSUME Prepared(e), pc'[e] = "click"
          PROVE  Prepared(e)' /\ UNCHANGED <<draft, sent>>
      <3>1. focus = "search" /\ search = <<name>>
        BY <2>1, <2>3 DEF Prepared
      <3>2. Choose
        BY <2>1, <3>1 DEF KeyEnter, Post
      <3>3. name \in Chats => open' = name
        BY <3>1, <3>2 DEF Choose
      <3>4. QED BY <2>1, <2>3, <3>2, <3>3 DEF Prepared, Belongs, Recipient, Choose
    <2>4. "click" \in Steps
      BY DEF Steps, Driving
    <2>5. QED BY <2>1, <2>2, <2>3, <2>4, PressKeeps, ConversationsStay
  <1>5. QED BY <1>1, <1>2, <1>3, <1>4 DEF SelectTarget

LEMMA TypeKeeps == ASSUME Inv, NEW e \in Executors, TypeMessage(e) PROVE Inv'
  <1>1. CASE Press(e, "click", ClickEditor, "copyText")
    <2>1. /\ pc[e] = "click" /\ ClickEditor /\ Input(e) /\ Goto(e, "copyText")
          /\ UNCHANGED <<task, attempt>>
      BY <1>1 DEF Press
    <2>2. DeskTypes' /\ UNCHANGED <<draft, sent>>
      BY <2>1, KeysKeepTypes DEF Inv, ClickEditor
    <2>3. pc'[e] = "copyText" /\ Prepared(e) => Prepared(e)'
      BY <2>1 DEF Prepared, ClickEditor, Belongs, Recipient
    <2>4. "copyText" \in Steps
      BY DEF Steps, Driving
    <2>5. QED BY <2>1, <2>2, <2>3, <2>4, PressKeeps, ConversationsStay
  <1>2. CASE Copy(e, "copyText", task[e], "pasteText")
    <2>1. task[e] \in Tasks
      BY <1>2 DEF Copy, Inv, HasTask
    <2>2. task[e] \in Contents \cup {Nothing}
      BY <2>1, RecipientIsName
    <2>3. Prepared(e) /\ SetClipboard(task[e]) /\ pc[e] = "copyText" /\ pc'[e] = "pasteText"
            /\ task' = task => Prepared(e)'
      BY DEF Prepared, SetClipboard, Belongs, Recipient
    <2>4. "pasteText" \in Steps
      BY DEF Steps, Driving
    <2>5. QED BY <1>2, <2>2, <2>3, <2>4, CopyKeeps
  <1>3. CASE Press(e, "pasteText", KeyPaste, "send")
    <2>1. /\ pc[e] = "pasteText" /\ KeyPaste /\ Input(e) /\ Goto(e, "send")
          /\ UNCHANGED <<task, attempt>>
      BY <1>3 DEF Press
    <2>2. DeskTypes'
      BY <2>1, KeysKeepTypes DEF Inv
    <2>3. ASSUME Prepared(e), DraftsBelong, SentBelong, pc'[e] = "send"
          PROVE  Prepared(e)' /\ (DraftsBelong /\ SentBelong)'
      <3>1. Belongs(task[e], open) /\ focus # "search" /\ clipboard = task[e]
        BY <2>1, <2>3 DEF Prepared
      <3>2. UNCHANGED <<focus, open, sent>>
        BY <2>1 DEF KeyPaste
      <3>3. Prepared(e)'
        BY <2>1, <2>3, <3>1, <3>2 DEF Prepared, Belongs, Recipient
      <3>4. CASE draft' = draft
        BY <2>3, <3>2, <3>3, <3>4, ConversationsStay
      <3>5. CASE focus = "editor" /\ draft' = [draft EXCEPT ![open] = Append(@, clipboard)]
        <4>1. open \in Chats /\ draft \in [Chats -> Seq(Contents)]
          BY <3>5 DEF Inv, DeskTypes
        <4>2. ASSUME NEW c \in Chats, NEW i \in DOMAIN draft'[c], draft'[c][i] \in Tasks
              PROVE  Belongs(draft'[c][i], c)
          <5>1. CASE c = open
            <6>1. draft[c] \in Seq(Contents) /\ draft'[c] = Append(draft[c], task[e])
              BY <3>1, <3>5, <4>1, <5>1
            <6>2. CASE i = Len(draft[c]) + 1
              BY <3>1, <5>1, <6>1, <6>2
            <6>3. CASE i # Len(draft[c]) + 1
              <7>1. i \in DOMAIN draft[c] /\ draft'[c][i] = draft[c][i]
                BY <4>2, <6>1, <6>3
              <7>2. QED BY <2>3, <4>2, <7>1 DEF DraftsBelong
            <6>4. QED BY <6>2, <6>3
          <5>2. CASE c # open
            BY <2>3, <3>5, <4>1, <4>2, <5>2 DEF DraftsBelong
          <5>3. QED BY <5>1, <5>2
        <4>3. DraftsBelong'
          BY <4>2 DEF DraftsBelong, Belongs, Recipient
        <4>4. QED BY <2>3, <3>2, <3>3, <4>3 DEF SentBelong, Belongs, Recipient
      <3>6. QED BY <2>1, <3>1, <3>4, <3>5 DEF KeyPaste, Inv, DeskTypes
    <2>4. "send" \in Steps
      BY DEF Steps, Driving
    <2>5. QED BY <2>1, <2>2, <2>3, <2>4, PressKeeps
  <1>4. CASE Press(e, "send", KeyEnter, "report")
    <2>1. /\ pc[e] = "send" /\ KeyEnter /\ Input(e) /\ Goto(e, "report")
          /\ UNCHANGED <<task, attempt>>
      BY <1>4 DEF Press
    <2>2. DeskTypes'
      BY <2>1, KeysKeepTypes DEF Inv
    <2>3. ASSUME Prepared(e), DraftsBelong, SentBelong
          PROVE  (DraftsBelong /\ SentBelong)'
      <3>1. focus # "search"
        BY <2>1, <2>3 DEF Prepared
      <3>2. CASE UNCHANGED <<draft, sent>>
        BY <2>3, <3>2, ConversationsStay
      <3>3. CASE /\ focus = "editor"
                 /\ sent' = Append(sent, [to |-> open, texts |-> draft[open]])
                 /\ draft' = [draft EXCEPT ![open] = <<>>]
        <4>1. open \in Chats /\ draft \in [Chats -> Seq(Contents)]
          BY <3>3 DEF Inv, DeskTypes
        <4>2. DraftsBelong'
          BY <2>3, <3>3, <4>1 DEF DraftsBelong, Belongs, Recipient
        <4>3. ASSUME NEW i \in DOMAIN sent', NEW j \in DOMAIN sent'[i].texts,
                     sent'[i].texts[j] \in Tasks
              PROVE  Belongs(sent'[i].texts[j], sent'[i].to)
          <5> DEFINE new == [to |-> open, texts |-> draft[open]]
                     Sent == [to : Chats, texts : Seq(Contents)]
          <5>1. sent \in Seq(Sent) /\ sent' = Append(sent, new)
            BY <3>3 DEF Inv, DeskTypes
          <5>2. new.to = open /\ new.texts = draft[open]
            OBVIOUS
          <5> HIDE DEF new, Sent
          <5>3. CASE i = Len(sent) + 1
            <6>1. sent'[i] = new
              BY <5>1, <5>3
            <6>2. QED BY <2>3, <4>1, <4>3, <5>2, <6>1 DEF DraftsBelong
          <5>4. CASE i # Len(sent) + 1
            <6>1. i \in DOMAIN sent /\ sent'[i] = sent[i]
              BY <4>3, <5>1, <5>4
            <6>2. QED BY <2>3, <4>3, <6>1 DEF SentBelong
          <5>5. QED BY <5>3, <5>4
        <4>4. SentBelong'
          BY <4>3 DEF SentBelong, Belongs, Recipient
        <4>5. QED BY <4>2, <4>4
      <3>4. QED BY <2>1, <3>1, <3>2, <3>3 DEF KeyEnter, Choose, Post, deskVars
    <2>4. "report" \in Steps /\ "report" \in Relaxed
      BY WhereRelaxed
    <2>5. QED BY <2>1, <2>2, <2>3, <2>4, PressKeeps
  <1>5. QED BY <1>1, <1>2, <1>3, <1>4 DEF TypeMessage

-----------------------------------------------------------------------------

LEMMA FindKeeps == ASSUME Inv, NEW e \in Executors, Find(e) PROVE Inv'
  <1>1. pc[e] = "find" /\ UNCHANGED <<deskVars, overlapped>> /\ task[e] \in Tasks
    BY DEF Find, history, Inv, HasTask
  <1>2. CASE Goto(e, IF Recipient(task[e]) = Nothing THEN "click" ELSE "search")
             /\ UNCHANGED <<holder, task, attempt>>
    <2> DEFINE step == IF Recipient(task[e]) = Nothing THEN "click" ELSE "search"
    <2>1. step \in Steps /\ Moves(e, step)
      BY <1>1, <1>2, Staying DEF Steps, Driving
    <2>2. pc'[e] = step
      BY <2>1, CallKeeps
    <2>3. Prepared(e)'
      BY <1>2, <2>2, DesktopAssumption DEF Prepared, Belongs, Recipient, DesktopAssumption
    <2> HIDE DEF step
    <2>4. QED BY <1>1, <2>1, <2>3, QuietKeeps
  <1>3. CASE DesktopError(e)
    <2>1. PICK step \in {"find", "rollback"} : Moves(e, step)
      BY <1>1, <1>3, StartingOver
    <2>2. QED BY <1>1, <2>1, WhereRelaxed, QuietKeeps
  <1>4. QED BY <1>2, <1>3 DEF Find

LEMMA RollbackKeeps == ASSUME Inv, NEW e \in Executors, Rollback(e) PROVE Inv'
  <1>1. PICK step \in {"release", "idle"} : Moves(e, step)
    BY Staying, Leaving DEF Rollback
  <1>2. step \in Relaxed /\ step \in Steps
    BY <1>1, WhereRelaxed
  <1>3. CASE KeyEsc /\ Input(e)
    <2>1. DeskTypes' /\ UNCHANGED <<draft, sent>>
      BY <1>3, KeysKeepTypes DEF Inv, KeyEsc
    <2>2. QED BY <1>1, <1>2, <1>3, <2>1, InputKeeps, ConversationsStay
  <1>4. CASE UNCHANGED <<deskVars, overlapped>>
    BY <1>1, <1>2, <1>4, QuietKeeps
  <1>5. QED BY <1>3, <1>4 DEF Rollback, Escape

\* The steps around the send, which leave the desktop alone.
LEMMA CallStepKeeps ==
  ASSUME Inv, NEW e \in Executors,
         \/ \E t \in Tasks : Start(e, t)
         \/ Acquire(e) \/ Refuse(e) \/ Report(e) \/ Fail(e) \/ Release(e) \/ Crash(e)
  PROVE  Inv'
  <1>1. UNCHANGED <<deskVars, overlapped>>
    BY DEF Start, Acquire, Refuse, Report, Fail, Release, Crash, history
  <1>2. ASSUME NEW t \in Tasks, Start(e, t)
        PROVE  Moves(e, "acquire")
    BY <1>2 DEF Start, Moves, Inv, CallTypes
  <1>3. ASSUME Acquire(e)
        PROVE  \E step \in {"find", "rollback"} : Moves(e, step)
    <2>1. pc[e] # "idle" /\ UNCHANGED <<task, attempt>>
          /\ \E step \in {"find", "rollback"} : Goto(e, step)
      BY <1>3 DEF Acquire
    <2>2. QED BY <2>1, Staying
  <1>4. ASSUME Refuse(e) PROVE Moves(e, "retreat")
    BY <1>4, Staying DEF Refuse
  <1>5. ASSUME Report(e) PROVE Moves(e, "release")
    BY <1>5, Staying DEF Report
  <1>6. ASSUME Fail(e) PROVE Moves(e, "rollback")
    BY <1>6, Staying DEF Fail, Driving
  <1>7. ASSUME Release(e) \/ Crash(e) PROVE Moves(e, "idle")
    BY <1>7, Leaving DEF Release, Crash
  <1>8. \E step \in Relaxed : Moves(e, step)
    BY <1>2, <1>3, <1>4, <1>5, <1>6, <1>7, WhereRelaxed
  <1>9. QED BY <1>1, <1>8, WhereRelaxed, QuietKeeps

LEMMA InvStep == Inv /\ [Next]_vars => Inv'
  <1> SUFFICES ASSUME Inv, [Next]_vars PROVE Inv'
    OBVIOUS
  <1>1. CASE Expire \/ UNCHANGED vars
    <2>1. UNCHANGED <<pc, task, attempt, clipboard, focus, search, open, draft, sent, overlapped>>
      BY <1>1 DEF Expire, vars, callVars, deskVars, history
    <2>2. QED
      BY <2>1 DEF Inv, DeskTypes, CallTypes, HasTask, Delivered, Prepared, DraftsBelong,
                  SentBelong, Belongs, Recipient
  <1>2. ASSUME NEW e \in Executors, Step(e) \/ \E t \in Tasks : Start(e, t)
        PROVE  Inv'
    BY <1>2, SelectKeeps, TypeKeeps, FindKeeps, RollbackKeeps, CallStepKeeps DEF Step
  <1>3. QED BY <1>1, <1>2 DEF Next

(* A text reaches only the conversation it is meant for, whatever dead and    *)
(* failed sends leave in the clipboard, the search box and the editors, as     *)
(* long as no executor gives input in the middle of another one's send.        *)
THEOREM ToRecipientOnly == Spec => []OnlyToRecipient
  <1>1. Inv => OnlyToRecipient
    BY DEF Inv, Delivered, SentBelong, Belongs, OnlyToRecipient, TextsOf
  <1>2. QED BY <1>1, InvInit, InvStep, PTL DEF Spec

-----------------------------------------------------------------------------
\* Counting texts.  What has been sent, what stands in an editor and who may
\* still type it never add up to more than the calls.

\* Where a task's text stands in the editors.
Drafted(t) ==
  UNION {{<<c, j>> : j \in {j \in DOMAIN draft[c] : draft[c][j] = t}} : c \in Chats}

\* The steps before the text is typed into the editor.
Before == {"acquire", "find", "search", "copyName", "pasteName", "select", "click",
           "copyText", "pasteText"}
Trying(t) == {e \in Executors : pc[e] \in Before /\ task[e] = t}

Reporting(t) == {e \in Executors : pc[e] = "report" /\ task[e] = t}

\* An editor with something in it that does not wait for its executor's ENTER.
Fresh(c) ==
  \E e \in Executors : /\ pc[e] = "send" /\ focus = "editor" /\ open = c
                       /\ draft[c] = <<task[e]>>
Spoiled == {c \in Chats : draft[c] # <<>> /\ ~Fresh(c)}

\* A send whose recipient was found has its editor in front, and its text there.
Aimed(e) ==
  pc[e] \in {"copyText", "pasteText", "send"} /\ Recipient(task[e]) \in Chats =>
    /\ focus = "editor"
    /\ pc[e] = "send" => \E j \in DOMAIN draft[open] : draft[open][j] = task[e]

SentWithinCalls ==
  \A t \in Tasks :
    /\ IsFiniteSet(Sendings(t)) /\ IsFiniteSet(Drafted(t)) /\ IsFiniteSet(Trying(t))
    /\ Cardinality(Sendings(t)) + Cardinality(Drafted(t)) + Cardinality(Trying(t)) <= calls[t]

ReportedIsSent ==
  /\ \A e \in Executors : Aimed(e)
  /\ \A t \in Tasks : Recipient(t) \in Chats =>
       /\ IsFiniteSet(Sendings(t)) /\ IsFiniteSet(Reporting(t))
       /\ completed[t] + Cardinality(Reporting(t)) <= Cardinality(Sendings(t))

SpoiledByFaults ==
  /\ IsFiniteSet(Mixed) /\ IsFiniteSet(Spoiled)
  /\ Cardinality(Mixed) + Cardinality(Spoiled) <= faults

-----------------------------------------------------------------------------
\* What a step does to the editors and the messages.

Quiet == UNCHANGED <<draft, sent>>

Pastes(e) ==
  /\ pc[e] = "pasteText" /\ pc'[e] = "send" /\ task'[e] = task[e]
  /\ focus = "editor" /\ open \in Chats /\ UNCHANGED <<focus, open, sent>>
  /\ draft' = [draft EXCEPT ![open] = Append(@, task[e])]

Posts(e) ==
  /\ pc[e] = "send" /\ pc'[e] = "report" /\ task'[e] = task[e]
  /\ focus = "editor" /\ open \in Chats /\ UNCHANGED <<focus, open>>
  /\ draft[open] # <<>>
  /\ sent' = Append(sent, [to |-> open, texts |-> draft[open]])
  /\ draft' = [draft EXCEPT ![open] = <<>>]

Alone(e) == \A f \in Executors \ {e} : pc[f] \notin Driving

\* Where an executor can have come from, and what its step counts.
LEMMA Progress ==
  ASSUME Inv, NEW e \in Executors, Step(e)
  PROVE  /\ \A f \in Executors \ {e} : pc'[f] = pc[f] /\ task'[f] = task[f]
         /\ pc[e] # "idle" /\ pc'[e] # "acquire"
         /\ pc'[e] \in Before => pc[e] \in Before /\ task'[e] = task[e]
         /\ pc'[e] = "copyText" => pc[e] = "click" /\ ClickEditor /\ task'[e] = task[e]
         /\ pc'[e] = "pasteText" =>
              /\ pc[e] = "copyText" /\ task'[e] = task[e]
              /\ UNCHANGED <<focus, open, draft>>
         /\ pc'[e] = "send" => pc[e] = "pasteText" /\ KeyPaste /\ task'[e] = task[e]
         /\ pc'[e] = "report" => pc[e] = "send" /\ KeyEnter /\ task'[e] = task[e]
         /\ pc[e] = "send" => pc'[e] = "report" \/ faults' = faults + 1
         /\ \/ completed' = completed
            \/ /\ pc[e] = "report" /\ pc'[e] = "release"
               /\ completed' = [completed EXCEPT ![task[e]] = @ + 1]
         /\ calls' = calls
         /\ faults' = faults \/ (faults' = faults + 1 /\ UNCHANGED deskVars)
         /\ faults < MaxFaults \/ faults' = faults
         /\ Input(e) \/ UNCHANGED <<deskVars, overlapped>>
  <1>1. pc \in [Executors -> Steps] /\ task \in [Executors -> Tasks \cup {Nothing}]
    BY DEF Inv, CallTypes
  <1>2. CASE Acquire(e) \/ Refuse(e) \/ Release(e)
    BY <1>1, <1>2 DEF Acquire, Refuse, Release, Leave, Goto, Before, history
  <1>3. CASE Crash(e) \/ Fail(e)
    BY <1>1, <1>3 DEF Crash, Fail, Fault, Leave, Goto, Before, Driving
  <1>4. CASE Find(e)
    BY <1>1, <1>4 DEF Find, DesktopError, Goto, Before, history
  <1>5. CASE Report(e)
    BY <1>1, <1>5 DEF Report, Goto, Before
  <1>6. CASE Rollback(e)
    BY <1>1, <1>6 DEF Rollback, Escape, Leave, Goto, Before
  <1>7. CASE SelectTarget(e)
    BY <1>1, <1>7 DEF SelectTarget, Press, Copy, DesktopError, Goto, Before
  <1>8. CASE TypeMessage(e)
    BY <1>1, <1>8 DEF TypeMessage, Press, Copy, SetClipboard, DesktopError, Goto, Before
  <1>9. QED BY <1>2, <1>3, <1>4, <1>5, <1>6, <1>7, <1>8 DEF Step

LEMMA Effects ==
  ASSUME Inv, NEW e \in Executors, Step(e), ~overlapped'
  PROVE  /\ ~overlapped
         /\ UNCHANGED <<deskVars, overlapped>> \/ Alone(e)
         /\ Quiet \/ (Alone(e) /\ (Pastes(e) \/ Posts(e)))
         /\ pc[e] = "send" /\ focus = "editor" /\ draft[open] # <<>> /\ Quiet =>
              faults' = faults + 1
  <1>1. ~overlapped /\ (UNCHANGED <<deskVars, overlapped>> \/ Alone(e))
    BY Progress DEF Input, Alone
  <1>2. Prepared(e) /\ DeskTypes
    BY <1>1 DEF Inv, Delivered
  <1>3. Quiet \/ (pc[e] = "pasteText" /\ pc'[e] = "send" /\ KeyPaste)
              \/ (pc[e] = "send" /\ pc'[e] = "report" /\ KeyEnter)
    <2>1. CASE SelectTarget(e)
      <3>1. CASE Press(e, "pasteName", KeyPaste, "select")
        <4>1. focus = "search" /\ KeyPaste
          BY <1>2, <3>1 DEF Prepared, Press
        <4>2. QED BY <4>1 DEF KeyPaste, Quiet
      <3>2. CASE Press(e, "select", KeyEnter, "click")
        <4>1. focus = "search" /\ KeyEnter
          BY <1>2, <3>2 DEF Prepared, Press
        <4>2. QED BY <4>1 DEF KeyEnter, Choose, Post, Quiet
      <3>3. QED
        BY <2>1, <3>1, <3>2 DEF SelectTarget, Press, Copy, KeyFind, SetClipboard, Quiet
    <2>2. CASE TypeMessage(e)
      BY <2>2 DEF TypeMessage, Press, Copy, ClickEditor, SetClipboard, Quiet, Goto,
                  Inv, CallTypes
    <2>3. CASE Acquire(e) \/ Refuse(e) \/ Find(e) \/ Report(e) \/ Fail(e) \/ Rollback(e)
               \/ Release(e) \/ Crash(e)
      BY <2>3 DEF Acquire, Refuse, Find, Report, Fail, Rollback, Release, Crash, Escape,
                  KeyEsc, deskVars, Quiet
    <2>4. QED BY <2>1, <2>2, <2>3 DEF Step
  <1>4. CASE pc[e] = "pasteText" /\ pc'[e] = "send" /\ KeyPaste /\ ~Quiet
    <2>1. clipboard = task[e] /\ focus # "search"
      BY <1>2, <1>4 DEF Prepared
    <2>2. focus = "editor" /\ open \in Chats
      BY <1>2, <1>4, <2>1 DEF KeyPaste, Quiet, DeskTypes
    <2>3. Pastes(e)
      BY <1>4, <2>1, <2>2, Progress DEF KeyPaste, Pastes, Quiet
    <2>4. Alone(e)
      BY <1>1, <1>4 DEF Quiet, deskVars
    <2>5. QED BY <1>1, <1>4, <2>3, <2>4
  <1>5. CASE pc[e] = "send" /\ pc'[e] = "report" /\ KeyEnter /\ ~Quiet
    <2>1. focus # "search"
      BY <1>2, <1>5 DEF Prepared
    <2>2. Post /\ open \in Chats
      BY <1>2, <1>5, <2>1 DEF KeyEnter, Choose, Post, Quiet, DeskTypes, deskVars
    <2>3. Posts(e)
      BY <1>5, <2>2, Progress DEF Post, Posts, Quiet
    <2>4. Alone(e)
      BY <1>1, <1>5 DEF Quiet, deskVars
    <2>5. QED BY <1>1, <1>5, <2>3, <2>4
  <1>6. ASSUME pc[e] = "send", focus = "editor", draft[open] # <<>>, Quiet
        PROVE  faults' = faults + 1
    <2>1. SUFFICES ASSUME pc'[e] = "report", KeyEnter PROVE FALSE
      BY <1>6, Progress
    <2>2. open \in Chats /\ draft \in [Chats -> Seq(Contents)]
      BY <1>2, <1>6 DEF DeskTypes
    <2>3. draft' = [draft EXCEPT ![open] = <<>>]
      BY <1>6, <2>1 DEF KeyEnter, Choose, Post
    <2>4. QED BY <1>6, <2>2, <2>3 DEF Quiet
  <1>7. QED BY <1>1, <1>3, <1>4, <1>5, <1>6

\* Steps that count no text: the others change draft and sent as in Effects.
LEMMA Shape ==
  ASSUME Inv
  PROVE  /\ draft \in [Chats -> Seq(Contents)]
         /\ sent \in Seq([to : Chats, texts : Seq(Contents)])
         /\ \A c \in Chats : draft[c] \in Seq(Contents)
         /\ \A i \in DOMAIN sent : sent[i].texts \in Seq(Contents)
         /\ Len(sent) \in Nat /\ DOMAIN sent = 1..Len(sent)
  <1> DEFINE Sent == [to : Chats, texts : Seq(Contents)]
  <1>1. draft \in [Chats -> Seq(Contents)] /\ sent \in Seq(Sent)
    BY DEF Inv, DeskTypes
  <1>2. \A m \in Sent : m.texts \in Seq(Contents)
    OBVIOUS
  <1> HIDE DEF Sent
  <1>3. \A i \in DOMAIN sent : sent[i] \in Sent
    BY <1>1
  <1>4. Len(sent) \in Nat /\ DOMAIN sent = 1..Len(sent)
    BY <1>1
  <1>5. QED BY <1>1, <1>2, <1>3, <1>4 DEF Sent

\* ENTER in the editor: the old messages stay, the new one is what stood there.
LEMMA PostShape ==
  ASSUME Inv, NEW e \in Executors, Posts(e)
  PROVE  /\ DOMAIN sent' = DOMAIN sent \cup {Len(sent) + 1}
         /\ Len(sent) + 1 \notin DOMAIN sent
         /\ \A i \in DOMAIN sent : sent'[i] = sent[i]
         /\ sent'[Len(sent) + 1].texts = draft[open]
         /\ draft'[open] = <<>>
         /\ \A c \in Chats \ {open} : draft'[c] = draft[c]
  <1> DEFINE new == [to |-> open, texts |-> draft[open]]
             Sent == [to : Chats, texts : Seq(Contents)]
  <1>1. draft \in [Chats -> Seq(Contents)] /\ sent \in Seq(Sent) /\ open \in Chats
    BY Shape DEF Posts
  <1>2. new.texts = draft[open]
    OBVIOUS
  <1>3. sent' = Append(sent, new) /\ draft' = [draft EXCEPT ![open] = <<>>]
    BY DEF Posts
  <1>4. draft'[open] = <<>> /\ \A c \in Chats \ {open} : draft'[c] = draft[c]
    BY <1>1, <1>3
  <1> HIDE DEF new, Sent
  <1>5. /\ DOMAIN sent' = DOMAIN sent \cup {Len(sent) + 1}
        /\ Len(sent) + 1 \notin DOMAIN sent
        /\ \A i \in DOMAIN sent : sent'[i] = sent[i]
        /\ sent'[Len(sent) + 1] = new
    BY <1>1, <1>3
  <1>6. QED BY <1>2, <1>4, <1>5

-----------------------------------------------------------------------------
\* Mixed messages: each one needs an editor that a fault spoiled.

LEMMA SpoiledInit == Init => SpoiledByFaults
  <1> SUFFICES ASSUME Init PROVE SpoiledByFaults
    OBVIOUS
  <1>1. sent = <<>> /\ draft = [c \in Chats |-> <<>>] /\ faults = 0
    BY DEF Init
  <1>2. Mixed = {} /\ Spoiled = {}
    BY <1>1 DEF Mixed, Spoiled
  <1>3. QED BY <1>1, <1>2, FS_EmptySet DEF SpoiledByFaults

\* Without a message in between, only a fault spoils an editor, and only one.
LEMMA QuietSpoils ==
  ASSUME Inv, NEW e \in Executors, Step(e), ~overlapped', Quiet, faults \in Nat,
         SpoiledByFaults
  PROVE  SpoiledByFaults'
  <1>1. Mixed' = Mixed
    BY DEF Mixed, Quiet
  <1>2. ASSUME NEW c \in Spoiled', c \notin Spoiled
        PROVE  c = open /\ faults' = faults + 1
    <2>1. c \in Chats /\ draft[c] # <<>> /\ ~Fresh(c)' /\ Fresh(c)
      BY <1>2 DEF Spoiled, Quiet
    <2>2. PICK f \in Executors : pc[f] = "send" /\ focus = "editor" /\ open = c
                                 /\ draft[c] = <<task[f]>>
      BY <2>1 DEF Fresh
    <2>3. CASE f # e
      <3>1. pc'[f] = pc[f] /\ task'[f] = task[f]
        BY <2>3, Progress
      <3>2. UNCHANGED deskVars
        BY <2>2, <2>3, Effects DEF Alone, Driving
      <3>3. Fresh(c)'
        BY <2>2, <3>1, <3>2 DEF Fresh, deskVars
      <3>4. QED BY <2>1, <3>3
    <2>4. CASE f = e
      BY <2>1, <2>2, <2>4, Effects
    <2>5. QED BY <2>3, <2>4
  <1>3. CASE Spoiled' \subseteq Spoiled
    <2>1. IsFiniteSet(Spoiled') /\ Cardinality(Spoiled') <= Cardinality(Spoiled)
      BY <1>3, FS_Subset DEF SpoiledByFaults
    <2>2. Cardinality(Spoiled') \in Nat /\ Cardinality(Spoiled) \in Nat
          /\ Cardinality(Mixed) \in Nat
      BY <2>1, FS_CardinalityType DEF SpoiledByFaults
    <2>3. faults' >= faults
      BY Progress
    <2>4. faults' \in Nat
      BY Progress
    <2>5. QED BY <1>1, <2>1, <2>2, <2>3, <2>4 DEF SpoiledByFaults
  <1>4. CASE ~(Spoiled' \subseteq Spoiled)
    <2>1. Spoiled' \subseteq Spoiled \cup {open} /\ faults' = faults + 1
      BY <1>2, <1>4
    <2>2. /\ IsFiniteSet(Spoiled \cup {open})
          /\ Cardinality(Spoiled \cup {open}) <= Cardinality(Spoiled) + 1
          /\ Cardinality(Mixed) \in Nat /\ Cardinality(Spoiled) \in Nat
      <3>1. IsFiniteSet(Spoiled) /\ IsFiniteSet(Mixed)
        BY DEF SpoiledByFaults
      <3>2. Cardinality(Mixed) \in Nat /\ Cardinality(Spoiled) \in Nat
        BY <3>1, FS_CardinalityType
      <3>3. /\ IsFiniteSet(Spoiled \cup {open})
            /\ Cardinality(Spoiled \cup {open}) =
                 IF open \in Spoiled THEN Cardinality(Spoiled) ELSE Cardinality(Spoiled) + 1
        BY <3>1, FS_AddElement
      <3>4. QED BY <3>2, <3>3
    <2>3. IsFiniteSet(Spoiled') /\ Cardinality(Spoiled') <= Cardinality(Spoiled \cup {open})
      BY <2>1, <2>2, FS_Subset
    <2>4. Cardinality(Spoiled') \in Nat /\ Cardinality(Spoiled \cup {open}) \in Nat
      BY <2>2, <2>3, FS_CardinalityType
    <2>5. QED BY <1>1, <2>1, <2>2, <2>3, <2>4 DEF SpoiledByFaults
  <1>5. QED BY <1>3, <1>4

\* A text typed into an empty editor is fresh, and a spoiled editor stays one.
LEMMA PasteSpoils ==
  ASSUME Inv, NEW e \in Executors, Step(e), Alone(e), Pastes(e), faults \in Nat,
         SpoiledByFaults
  PROVE  SpoiledByFaults'
  <1>1. Mixed' = Mixed
    BY DEF Mixed, Pastes
  <1>2. draft \in [Chats -> Seq(Contents)] /\ open \in Chats
        /\ draft' = [draft EXCEPT ![open] = Append(draft[open], task[e])]
    BY Shape DEF Pastes
  <1>3. \A c \in Chats : ~Fresh(c)
    BY DEF Fresh, Alone, Pastes, Driving
  <1>4. ASSUME NEW c \in Spoiled' PROVE c \in Spoiled
    <2>1. c \in Chats /\ draft'[c] # <<>> /\ ~Fresh(c)'
      BY <1>4 DEF Spoiled
    <2>2. CASE c = open /\ draft[c] = <<>>
      <3>1. draft'[c] = <<task[e]>>
        BY <1>2, <2>2
      <3>2. Fresh(c)'
        BY <2>2, <3>1 DEF Fresh, Pastes
      <3>3. QED BY <2>1, <3>2
    <2>3. CASE c = open /\ draft[c] # <<>>
      BY <1>3, <2>1, <2>3 DEF Spoiled
    <2>4. CASE c # open
      <3>1. draft'[c] = draft[c]
        BY <1>2, <2>1, <2>4
      <3>2. QED BY <1>3, <2>1, <3>1 DEF Spoiled
    <2>5. QED BY <2>2, <2>3, <2>4
  <1>5. IsFiniteSet(Spoiled') /\ Cardinality(Spoiled') <= Cardinality(Spoiled)
    BY <1>4, FS_Subset DEF SpoiledByFaults
  <1>6. Cardinality(Spoiled') \in Nat /\ Cardinality(Spoiled) \in Nat
        /\ Cardinality(Mixed) \in Nat
    BY <1>5, FS_CardinalityType DEF SpoiledByFaults
  <1>7. faults' \in Nat /\ faults' >= faults
    BY Progress
  <1>8. QED BY <1>1, <1>5, <1>6, <1>7 DEF SpoiledByFaults

\* A message that is not one text comes out of a spoiled editor, and empties it.
LEMMA PostSpoils ==
  ASSUME Inv, NEW e \in Executors, Step(e), Alone(e), Posts(e), faults \in Nat,
         SpoiledByFaults
  PROVE  SpoiledByFaults'
  <1> DEFINE new == Len(sent) + 1
  <1>1. /\ DOMAIN sent' = DOMAIN sent \cup {new}
        /\ \A i \in DOMAIN sent : sent'[i] = sent[i]
        /\ sent'[new].texts = draft[open]
        /\ draft'[open] = <<>> /\ \A c \in Chats \ {open} : draft'[c] = draft[c]
    BY PostShape
  <1> HIDE DEF new
  <1>2. \A c \in Chats \ {open} : ~Fresh(c)
    BY DEF Fresh, Posts
  <1>3. Spoiled' \subseteq Spoiled \ {open}
    BY <1>1, <1>2 DEF Spoiled
  <1>4. Mixed' \subseteq Mixed \cup {new}
    BY <1>1 DEF Mixed
  <1>5. ASSUME ~(Mixed' \subseteq Mixed) PROVE open \in Spoiled
    <2>1. \A t \in Tasks : draft[open] # <<t>>
      BY <1>1, <1>4, <1>5 DEF Mixed
    <2>2. ~Fresh(open)
      BY <2>1 DEF Fresh, Inv, HasTask
    <2>3. QED BY <2>2 DEF Posts, Spoiled
  <1>6. /\ IsFiniteSet(Spoiled \ {open})
        /\ Cardinality(Spoiled \ {open}) =
             IF open \in Spoiled THEN Cardinality(Spoiled) - 1 ELSE Cardinality(Spoiled)
        /\ IsFiniteSet(Mixed \cup {new})
        /\ Cardinality(Mixed \cup {new}) <= Cardinality(Mixed) + 1
        /\ Cardinality(Mixed) \in Nat /\ Cardinality(Spoiled) \in Nat
    BY FS_RemoveElement, FS_AddElement, FS_CardinalityType DEF SpoiledByFaults
  <1>7. IsFiniteSet(Spoiled') /\ Cardinality(Spoiled') <= Cardinality(Spoiled \ {open})
    BY <1>3, <1>6, FS_Subset
  <1>8. /\ IsFiniteSet(Mixed') /\ Cardinality(Mixed') <= Cardinality(Mixed \cup {new})
        /\ Mixed' \subseteq Mixed => Cardinality(Mixed') <= Cardinality(Mixed)
    BY <1>4, <1>6, FS_Subset DEF SpoiledByFaults
  <1>9. /\ Cardinality(Spoiled') \in Nat /\ Cardinality(Mixed') \in Nat
        /\ Cardinality(Spoiled \ {open}) \in Nat /\ Cardinality(Mixed \cup {new}) \in Nat
    BY <1>6, <1>7, <1>8, FS_CardinalityType
  <1>10. faults' \in Nat /\ faults' >= faults
    BY Progress
  <1>11. QED BY <1>5, <1>6, <1>7, <1>8, <1>9, <1>10 DEF SpoiledByFaults

-----------------------------------------------------------------------------
\* Texts in the editors and in the messages.

LEMMA InSendings ==
  ASSUME NEW t, NEW p
  PROVE  p \in Sendings(t) <=>
           \E i \in DOMAIN sent : \E j \in DOMAIN sent[i].texts :
             sent[i].texts[j] = t /\ p = <<i, j>>
  BY DEF Sendings

LEMMA InDrafted ==
  ASSUME NEW t, NEW p
  PROVE  p \in Drafted(t) <=>
           \E c \in Chats : \E j \in DOMAIN draft[c] : draft[c][j] = t /\ p = <<c, j>>
  BY DEF Drafted

\* Where a text stands in the open editor.
Lines(t) == {j \in DOMAIN draft[open] : draft[open][j] = t}

Column(a, J) == {<<a, j>> : j \in J}

\* A column that moves from one set of pairs to another keeps its length.
LEMMA Moved ==
  ASSUME NEW A, IsFiniteSet(A), NEW B, IsFiniteSet(B), NEW J, NEW a, NEW b,
         Column(b, J) \subseteq B, A \cap Column(a, J) = {}
  PROVE  /\ IsFiniteSet(A \cup Column(a, J)) /\ IsFiniteSet(B \ Column(b, J))
         /\ Cardinality(A \cup Column(a, J)) + Cardinality(B \ Column(b, J))
              = Cardinality(A) + Cardinality(B)
         /\ J # {} => Cardinality(A \cup Column(a, J)) >= Cardinality(A) + 1
         /\ Cardinality(A \cup Column(a, J)) >= Cardinality(A)
  <1> DEFINE From == Column(b, J)
             Onto == Column(a, J)
             move == [p \in From |-> <<a, p[2]>>]
  <1> USE DEF Column
  <1>1. IsFiniteSet(From)
    <2>1. From \in SUBSET B
      OBVIOUS
    <2>2. QED BY <2>1, FS_Subset
  <1>2. move \in Bijection(From, Onto)
    <2>1. move \in [From -> Onto]
      OBVIOUS
    <2>2. \A p, q \in From : move[p] = move[q] => p = q
      <3>1. SUFFICES ASSUME NEW i \in J, NEW j \in J, move[<<b, i>>] = move[<<b, j>>]
                     PROVE  i = j
        OBVIOUS
      <3>2. move[<<b, i>>] = <<a, i>> /\ move[<<b, j>>] = <<a, j>>
        OBVIOUS
      <3>3. QED BY <3>1, <3>2
    <2>3. \A q \in Onto : \E p \in From : move[p] = q
      <3> TAKE q \in Onto
      <3>1. PICK j \in J : q = <<a, j>>
        OBVIOUS
      <3>2. <<b, j>> \in From /\ move[<<b, j>>] = <<a, j>>
        OBVIOUS
      <3>3. QED BY <3>1, <3>2
    <2>4. QED BY <2>1, <2>2, <2>3 DEF Bijection, Injection, Surjection, IsInjective
  <1>3. IsFiniteSet(Onto) /\ Cardinality(Onto) = Cardinality(From)
    BY <1>1, <1>2, FS_Bijection DEF ExistsBijection
  <1>4. J # {} => Onto # {}
    OBVIOUS
  <1>5. A \cap Onto = {} /\ B \cap From = From
    OBVIOUS
  <1> HIDE DEF move, From, Onto, Column
  <1>6. /\ IsFiniteSet(A \cup Onto)
        /\ Cardinality(A \cup Onto) = Cardinality(A) + Cardinality(Onto) - Cardinality(A \cap Onto)
    BY <1>3, FS_Union
  <1>7. /\ IsFiniteSet(B \ From)
        /\ Cardinality(B \ From) = Cardinality(B) - Cardinality(B \cap From)
    BY FS_Difference
  <1>8. /\ Cardinality(A \cap Onto) = 0 /\ Cardinality(B \cap From) = Cardinality(Onto)
        /\ J # {} => Cardinality(Onto) # 0
    BY <1>3, <1>4, <1>5, FS_EmptySet
  <1>9. Cardinality(A) \in Nat /\ Cardinality(B) \in Nat /\ Cardinality(Onto) \in Nat
    BY <1>3, FS_CardinalityType
  <1>10. QED BY <1>6, <1>7, <1>8, <1>9 DEF From, Onto

\* ENTER moves the lines of the open editor into a message.
LEMMA PostMoves ==
  ASSUME Inv, NEW e \in Executors, Posts(e), NEW t
  PROVE  /\ Sendings(t)' = Sendings(t) \cup Column(Len(sent) + 1, Lines(t))
         /\ Drafted(t)' = Drafted(t) \ Column(open, Lines(t))
         /\ Column(open, Lines(t)) \subseteq Drafted(t)
         /\ Sendings(t) \cap Column(Len(sent) + 1, Lines(t)) = {}
  <1> DEFINE new == Len(sent) + 1
  <1>1. /\ DOMAIN sent' = DOMAIN sent \cup {new} /\ new \notin DOMAIN sent
        /\ \A i \in DOMAIN sent : sent'[i] = sent[i]
        /\ sent'[new].texts = draft[open]
        /\ draft'[open] = <<>> /\ \A c \in Chats \ {open} : draft'[c] = draft[c]
        /\ open \in Chats
    BY PostShape DEF Posts
  <1> HIDE DEF new
  <1>2. ASSUME NEW p
        PROVE  p \in Sendings(t)' <=> p \in Sendings(t) \cup Column(new, Lines(t))
    <2>1. p \in Sendings(t)' <=>
            \E i \in DOMAIN sent' : \E j \in DOMAIN sent'[i].texts :
              sent'[i].texts[j] = t /\ p = <<i, j>>
      BY DEF Sendings
    <2>2. p \in Sendings(t) <=>
            \E i \in DOMAIN sent : \E j \in DOMAIN sent[i].texts :
              sent[i].texts[j] = t /\ p = <<i, j>>
      BY InSendings
    <2>3. p \in Column(new, Lines(t)) <=>
            \E j \in DOMAIN draft[open] : draft[open][j] = t /\ p = <<new, j>>
      BY DEF Lines, Column
    <2>4. QED BY <1>1, <2>1, <2>2, <2>3
  <1>3. ASSUME NEW p
        PROVE  p \in Drafted(t)' <=> p \in Drafted(t) \ Column(open, Lines(t))
    <2>1. p \in Drafted(t)' <=>
            \E c \in Chats : \E j \in DOMAIN draft'[c] : draft'[c][j] = t /\ p = <<c, j>>
      BY DEF Drafted
    <2>2. p \in Drafted(t) <=>
            \E c \in Chats : \E j \in DOMAIN draft[c] : draft[c][j] = t /\ p = <<c, j>>
      BY InDrafted
    <2>3. p \in Column(open, Lines(t)) <=>
            \E j \in DOMAIN draft[open] : draft[open][j] = t /\ p = <<open, j>>
      BY DEF Lines, Column
    <2>4. DOMAIN <<>> = {}
      OBVIOUS
    <2>5. QED BY <1>1, <2>1, <2>2, <2>3, <2>4
  <1>4. ASSUME NEW j \in Lines(t)
        PROVE  <<open, j>> \in Drafted(t) /\ <<new, j>> \notin Sendings(t)
    BY <1>1, InDrafted, InSendings DEF Lines
  <1>5. QED BY <1>2, <1>3, <1>4 DEF new, Column

\* CTRL-V adds one line to the open editor.
LEMMA PasteAdds ==
  ASSUME Inv, NEW e \in Executors, Pastes(e), NEW t
  PROVE  Drafted(t)' \subseteq
           IF t = task[e] THEN Drafted(t) \cup {<<open, Len(draft[open]) + 1>>} ELSE Drafted(t)
  <1>1. draft \in [Chats -> Seq(Contents)] /\ open \in Chats /\ draft[open] \in Seq(Contents)
        /\ draft' = [draft EXCEPT ![open] = Append(draft[open], task[e])]
    BY Shape DEF Pastes
  <1>2. draft'[open] = Append(draft[open], task[e])
        /\ \A c \in Chats \ {open} : draft'[c] = draft[c]
    BY <1>1
  <1>3. ASSUME NEW p \in Drafted(t)'
        PROVE  p \in IF t = task[e] THEN Drafted(t) \cup {<<open, Len(draft[open]) + 1>>}
                                    ELSE Drafted(t)
    <2>1. PICK c \in Chats : \E j \in DOMAIN draft'[c] : draft'[c][j] = t /\ p = <<c, j>>
      BY <1>3 DEF Drafted
    <2>2. PICK j \in DOMAIN draft'[c] : draft'[c][j] = t /\ p = <<c, j>>
      BY <2>1
    <2>3. CASE c # open
      <3>1. draft'[c] = draft[c]
        BY <1>2, <2>3
      <3>2. p \in Drafted(t)
        BY <2>2, <3>1, InDrafted
      <3>3. QED BY <3>2
    <2>4. CASE c = open /\ j \in DOMAIN draft[open]
      <3>1. draft'[c][j] = draft[c][j]
        BY <1>1, <1>2, <2>4
      <3>2. p \in Drafted(t)
        BY <2>2, <2>4, <3>1, InDrafted
      <3>3. QED BY <3>2
    <2>5. CASE c = open /\ j \notin DOMAIN draft[open]
      <3>1. j = Len(draft[open]) + 1 /\ draft'[open][j] = task[e]
        BY <1>1, <1>2, <2>2, <2>5
      <3>2. QED BY <2>2, <2>5, <3>1
    <2>6. QED BY <2>3, <2>4, <2>5
  <1>4. QED BY <1>3

-----------------------------------------------------------------------------
\* Texts and calls: what is sent, what stands in an editor and who may still
\* type it.

CountTypes ==
  calls \in [Tasks -> Nat] /\ completed \in [Tasks -> Nat] /\ faults \in 0..MaxFaults

LEMMA SentInit == Init => SentWithinCalls /\ ReportedIsSent
  <1> SUFFICES ASSUME Init PROVE SentWithinCalls /\ ReportedIsSent
    OBVIOUS
  <1>1. /\ sent = <<>> /\ draft = [c \in Chats |-> <<>>] /\ pc = [e \in Executors |-> "idle"]
        /\ calls = [t \in Tasks |-> 0] /\ completed = [t \in Tasks |-> 0]
    BY DEF Init
  <1>2. ASSUME NEW t \in Tasks
        PROVE  Sendings(t) = {} /\ Drafted(t) = {} /\ Trying(t) = {} /\ Reporting(t) = {}
    <2>1. DOMAIN sent = {} /\ \A c \in Chats : DOMAIN draft[c] = {}
      BY <1>1
    <2>2. QED BY <1>1, <2>1, InSendings, InDrafted DEF Trying, Reporting, Before
  <1>3. \A e \in Executors : Aimed(e)
    BY <1>1 DEF Aimed
  <1>4. IsFiniteSet({}) /\ Cardinality({}) = 0
    BY FS_EmptySet
  <1>5. ASSUME NEW t \in Tasks
        PROVE  /\ IsFiniteSet(Sendings(t)) /\ IsFiniteSet(Drafted(t)) /\ IsFiniteSet(Trying(t))
               /\ IsFiniteSet(Reporting(t))
               /\ Cardinality(Sendings(t)) = 0 /\ Cardinality(Drafted(t)) = 0
               /\ Cardinality(Trying(t)) = 0 /\ Cardinality(Reporting(t)) = 0
               /\ calls[t] = 0 /\ completed[t] = 0
    BY <1>1, <1>2, <1>4
  <1>6. SentWithinCalls
    BY <1>5 DEF SentWithinCalls
  <1>7. ReportedIsSent
    BY <1>3, <1>5 DEF ReportedIsSent
  <1>8. QED BY <1>6, <1>7

\* A call of execute_action adds one executor that may type the text.
LEMMA StartCounts ==
  ASSUME Inv, NEW e \in Executors, NEW t \in Tasks, Start(e, t), CountTypes
  PROVE  /\ SentWithinCalls => SentWithinCalls'
         /\ ReportedIsSent => ReportedIsSent'
         /\ SpoiledByFaults => SpoiledByFaults'
  <1>1. /\ pc[e] = "idle" /\ pc' = [pc EXCEPT ![e] = "acquire"] /\ task' = [task EXCEPT ![e] = t]
        /\ calls' = [calls EXCEPT ![t] = @ + 1]
        /\ UNCHANGED <<deskVars, completed, overlapped, faults>>
    BY DEF Start, Goto
  <1>2. pc \in [Executors -> Steps] /\ task \in [Executors -> Tasks \cup {Nothing}]
    BY DEF Inv, CallTypes
  <1>3. \A u : Sendings(u)' = Sendings(u) /\ Drafted(u)' = Drafted(u)
    BY <1>1 DEF Sendings, Drafted, deskVars
  <1>4. ASSUME SentWithinCalls, NEW u \in Tasks
        PROVE  /\ IsFiniteSet(Trying(u)')
               /\ Cardinality(Sendings(u)) + Cardinality(Drafted(u)) + Cardinality(Trying(u)')
                    <= calls'[u]
    <2>1. /\ IsFiniteSet(Sendings(u)) /\ IsFiniteSet(Drafted(u)) /\ IsFiniteSet(Trying(u))
          /\ Cardinality(Sendings(u)) + Cardinality(Drafted(u)) + Cardinality(Trying(u))
               <= calls[u]
      BY <1>4 DEF SentWithinCalls
    <2>2. /\ Cardinality(Sendings(u)) \in Nat /\ Cardinality(Drafted(u)) \in Nat
          /\ Cardinality(Trying(u)) \in Nat /\ calls[u] \in Nat
      BY <2>1, FS_CardinalityType DEF CountTypes
    <2>3. CASE u = t
      <3>1. Trying(u)' = Trying(u) \cup {e} /\ e \notin Trying(u)
        BY <1>1, <1>2, <2>3 DEF Trying, Before
      <3>2. /\ IsFiniteSet(Trying(u) \cup {e})
            /\ Cardinality(Trying(u) \cup {e}) = Cardinality(Trying(u)) + 1
        BY <2>1, <3>1, FS_AddElement
      <3>3. calls'[u] = calls[u] + 1
        BY <1>1, <2>3 DEF CountTypes
      <3>4. QED BY <2>1, <2>2, <3>1, <3>2, <3>3
    <2>4. CASE u # t
      <3>1. Trying(u)' = Trying(u)
        BY <1>1, <1>2, <2>4 DEF Trying, Before
      <3>2. calls'[u] = calls[u]
        BY <1>1, <2>4 DEF CountTypes
      <3>3. QED BY <2>1, <3>1, <3>2
    <2>5. QED BY <2>3, <2>4
  <1>5. SentWithinCalls => SentWithinCalls'
    BY <1>3, <1>4 DEF SentWithinCalls
  <1>6. \A u : Reporting(u)' = Reporting(u)
    BY <1>1, <1>2 DEF Reporting
  <1>7. (\A f \in Executors : Aimed(f)) => \A f \in Executors : Aimed(f)'
    BY <1>1, <1>2 DEF Aimed, Recipient, deskVars
  <1>8. ReportedIsSent => ReportedIsSent'
    BY <1>1, <1>3, <1>6, <1>7 DEF ReportedIsSent, Recipient
  <1>9. SpoiledByFaults => SpoiledByFaults'
    <2>1. Mixed' = Mixed
      BY <1>1 DEF Mixed, deskVars
    <2>2. \A c \in Chats : Fresh(c)' <=> Fresh(c)
      BY <1>1, <1>2 DEF Fresh, deskVars
    <2>3. Spoiled' = Spoiled
      BY <1>1, <2>2 DEF Spoiled, deskVars
    <2>4. QED BY <1>1, <2>1, <2>3 DEF SpoiledByFaults
  <1>10. QED BY <1>5, <1>8, <1>9

LEMMA StepSends ==
  ASSUME Inv, NEW e \in Executors, Step(e), ~overlapped', CountTypes, SentWithinCalls
  PROVE  SentWithinCalls'
  <1> SUFFICES ASSUME NEW t \in Tasks
               PROVE  /\ IsFiniteSet(Sendings(t)') /\ IsFiniteSet(Drafted(t)')
                      /\ IsFiniteSet(Trying(t)')
                      /\ Cardinality(Sendings(t)') + Cardinality(Drafted(t)')
                           + Cardinality(Trying(t)') <= calls'[t]
    BY DEF SentWithinCalls
  <1>1. /\ IsFiniteSet(Sendings(t)) /\ IsFiniteSet(Drafted(t)) /\ IsFiniteSet(Trying(t))
        /\ Cardinality(Sendings(t)) + Cardinality(Drafted(t)) + Cardinality(Trying(t))
             <= calls[t]
    BY DEF SentWithinCalls
  <1>2. /\ Cardinality(Sendings(t)) \in Nat /\ Cardinality(Drafted(t)) \in Nat
        /\ Cardinality(Trying(t)) \in Nat /\ calls[t] \in Nat /\ calls' = calls
    BY <1>1, FS_CardinalityType, Progress DEF CountTypes
  <1>3. Trying(t)' \subseteq Trying(t)
    BY Progress DEF Trying
  <1>4. IsFiniteSet(Trying(t)') /\ Cardinality(Trying(t)') <= Cardinality(Trying(t))
        /\ Cardinality(Trying(t)') \in Nat
    BY <1>1, <1>3, FS_Subset, FS_CardinalityType
  <1>5. CASE Quiet
    <2>1. Sendings(t)' = Sendings(t) /\ Drafted(t)' = Drafted(t)
      BY <1>5 DEF Sendings, Drafted, Quiet
    <2>2. QED BY <1>1, <1>2, <1>4, <2>1
  <1>6. CASE Pastes(e)
    <2>1. Sendings(t)' = Sendings(t)
      BY <1>6 DEF Sendings, Pastes
    <2>2. CASE t = task[e]
      <3> DEFINE line == <<open, Len(draft[open]) + 1>>
      <3>1. Drafted(t)' \subseteq Drafted(t) \cup {line}
        BY <1>6, <2>2, PasteAdds
      <3> HIDE DEF line
      <3>2. Trying(t)' \subseteq Trying(t) \ {e} /\ e \in Trying(t)
        BY <1>3, <1>6, <2>2 DEF Pastes, Trying, Before
      <3>3. /\ IsFiniteSet(Drafted(t) \cup {line})
            /\ Cardinality(Drafted(t) \cup {line}) =
                 IF line \in Drafted(t) THEN Cardinality(Drafted(t)) ELSE Cardinality(Drafted(t)) + 1
        BY <1>1, FS_AddElement
      <3>4. /\ IsFiniteSet(Drafted(t)') /\ Cardinality(Drafted(t)') \in Nat
            /\ Cardinality(Drafted(t)') <= Cardinality(Drafted(t) \cup {line})
        BY <3>1, <3>3, FS_Subset, FS_CardinalityType
      <3>5. /\ IsFiniteSet(Trying(t) \ {e})
            /\ Cardinality(Trying(t) \ {e}) = Cardinality(Trying(t)) - 1
        BY <1>1, <3>2, FS_RemoveElement
      <3>6. Cardinality(Trying(t)') <= Cardinality(Trying(t) \ {e})
        BY <3>2, <3>5, FS_Subset
      <3>7. QED BY <1>1, <1>2, <1>4, <2>1, <3>3, <3>4, <3>5, <3>6
    <2>3. CASE t # task[e]
      <3>1. Drafted(t)' \subseteq Drafted(t)
        BY <1>6, <2>3, PasteAdds
      <3>2. /\ IsFiniteSet(Drafted(t)') /\ Cardinality(Drafted(t)') \in Nat
            /\ Cardinality(Drafted(t)') <= Cardinality(Drafted(t))
        BY <1>1, <3>1, FS_Subset, FS_CardinalityType
      <3>3. QED BY <1>1, <1>2, <1>4, <2>1, <3>2
    <2>4. QED BY <2>2, <2>3
  <1>7. CASE Posts(e)
    <2>1. /\ IsFiniteSet(Sendings(t)') /\ IsFiniteSet(Drafted(t)')
          /\ Cardinality(Sendings(t)') + Cardinality(Drafted(t)')
               = Cardinality(Sendings(t)) + Cardinality(Drafted(t))
      <3> DEFINE Onto == Column(Len(sent) + 1, Lines(t))
                 From == Column(open, Lines(t))
      <3>1. /\ Sendings(t)' = Sendings(t) \cup Onto /\ Drafted(t)' = Drafted(t) \ From
            /\ From \subseteq Drafted(t) /\ Sendings(t) \cap Onto = {}
        BY <1>7, PostMoves
      <3>2. IsFiniteSet(Sendings(t)) /\ IsFiniteSet(Drafted(t))
        BY <1>1
      <3>3. /\ IsFiniteSet(Sendings(t) \cup Onto) /\ IsFiniteSet(Drafted(t) \ From)
            /\ Cardinality(Sendings(t) \cup Onto) + Cardinality(Drafted(t) \ From)
                 = Cardinality(Sendings(t)) + Cardinality(Drafted(t))
        BY <3>1, <3>2, Moved
      <3>4. QED BY <3>1, <3>3
    <2>2. Cardinality(Sendings(t)') \in Nat /\ Cardinality(Drafted(t)') \in Nat
      BY <2>1, FS_CardinalityType
    <2>3. QED BY <1>1, <1>2, <1>4, <2>1, <2>2
  <1>8. QED BY <1>5, <1>6, <1>7, Effects

\* ENTER adds the lines of the open editor to what has been sent.
LEMMA PostAdds ==
  ASSUME Inv, NEW e \in Executors, Posts(e), NEW t, IsFiniteSet(Sendings(t))
  PROVE  /\ IsFiniteSet(Sendings(t)') /\ Cardinality(Sendings(t)') \in Nat
         /\ Cardinality(Sendings(t)') >= Cardinality(Sendings(t))
         /\ Lines(t) # {} => Cardinality(Sendings(t)') >= Cardinality(Sendings(t)) + 1
  <1> DEFINE J == Lines(t)
             Onto == Column(Len(sent) + 1, J)
             From == Column(open, J)
  <1>1. J \subseteq DOMAIN draft[open] /\ IsFiniteSet(DOMAIN draft[open])
    <2>1. draft[open] \in Seq(Contents)
      BY Shape DEF Posts
    <2>2. Len(draft[open]) \in Nat /\ DOMAIN draft[open] = 1..Len(draft[open])
      BY <2>1
    <2>3. QED BY <2>2, FS_Interval DEF Lines
  <1>2. Sendings(t)' = Sendings(t) \cup Onto /\ Sendings(t) \cap Onto = {}
    BY PostMoves
  <1>3. IsFiniteSet(J)
    BY <1>1, FS_Subset
  <1>4. IsFiniteSet(From)
    <2> DEFINE f == [j \in J |-> <<open, j>>]
    <2>1. f \in Surjection(J, From)
      BY DEF Surjection, Column
    <2>2. QED BY <1>3, <2>1, FS_Surjection
  <1> HIDE DEF J
  <1>5. /\ IsFiniteSet(Sendings(t) \cup Onto)
        /\ J # {} => Cardinality(Sendings(t) \cup Onto) >= Cardinality(Sendings(t)) + 1
        /\ Cardinality(Sendings(t) \cup Onto) >= Cardinality(Sendings(t))
    BY <1>2, <1>4, Moved
  <1>6. QED BY <1>2, <1>5, FS_CardinalityType DEF J

\* A send that found its recipient stays aimed at it.
LEMMA StepAims ==
  ASSUME Inv, NEW e \in Executors, Step(e), ~overlapped',
         \A f \in Executors : Aimed(f), NEW f \in Executors
  PROVE  Aimed(f)'
  <1>1. CASE f # e
    <2>1. pc'[f] = pc[f] /\ task'[f] = task[f]
      BY <1>1, Progress
    <2>2. CASE Alone(e)
      BY <1>1, <2>1, <2>2 DEF Aimed, Alone, Driving
    <2>3. CASE UNCHANGED deskVars
      BY <2>1, <2>3 DEF Aimed, deskVars, Recipient
    <2>4. QED BY <2>2, <2>3, Effects
  <1>2. CASE f = e
    <2>1. CASE pc'[e] = "copyText"
      <3>1. pc[e] = "click" /\ ClickEditor /\ task'[e] = task[e]
        BY <2>1, Progress
      <3>2. Prepared(e)
        BY Effects DEF Inv, Delivered
      <3>3. Recipient(task[e]) \in Chats => open # NoChat
        BY <3>1, <3>2, DesktopAssumption DEF Prepared, Belongs, DesktopAssumption
      <3>4. QED BY <1>2, <2>1, <3>1, <3>3 DEF Aimed, ClickEditor, Recipient
    <2>2. CASE pc'[e] = "pasteText"
      <3>1. pc[e] = "copyText" /\ task'[e] = task[e] /\ UNCHANGED <<focus, open, draft>>
        BY <2>2, Progress
      <3>2. QED BY <1>2, <2>2, <3>1 DEF Aimed, Recipient
    <2>3. CASE pc'[e] = "send"
      <3>1. pc[e] = "pasteText" /\ KeyPaste /\ task'[e] = task[e]
        BY <2>3, Progress
      <3>2. SUFFICES ASSUME Recipient(task[e]) \in Chats
                     PROVE  /\ focus' = "editor"
                            /\ \E j \in DOMAIN draft'[open'] : draft'[open'][j] = task[e]
        BY <1>2, <2>3, <3>1 DEF Aimed, Recipient
      <3>3. /\ focus = "editor" /\ open \in Chats /\ draft \in [Chats -> Seq(Contents)]
            /\ draft[open] \in Seq(Contents)
        BY <3>1, <3>2, Shape DEF Aimed, Inv, DeskTypes
      <3>4. Prepared(e) /\ task[e] \in Tasks
        BY <3>1, Effects DEF Inv, Delivered, HasTask
      <3>5. clipboard = task[e] /\ task[e] \in Contents /\ task[e] # Nothing
        BY <3>1, <3>4, DesktopAssumption DEF Prepared, Contents, DesktopAssumption
      <3>6. /\ draft' = [draft EXCEPT ![open] = Append(draft[open], task[e])]
            /\ focus' = "editor" /\ open' = open
        BY <3>1, <3>3, <3>5 DEF KeyPaste
      <3>7. draft'[open] = Append(draft[open], task[e])
        BY <3>3, <3>6
      <3>8. Len(draft[open]) + 1 \in DOMAIN draft'[open]
            /\ draft'[open][Len(draft[open]) + 1] = task[e]
        BY <3>3, <3>5, <3>7
      <3>9. QED BY <3>6, <3>8
    <2>4. CASE pc'[e] \notin {"copyText", "pasteText", "send"}
      BY <1>2, <2>4 DEF Aimed
    <2>5. QED BY <2>1, <2>2, <2>3, <2>4
  <1>3. QED BY <1>1, <1>2

LEMMA StepReports ==
  ASSUME Inv, NEW e \in Executors, Step(e), ~overlapped', CountTypes, ReportedIsSent
  PROVE  ReportedIsSent'
  <1>1. \A f \in Executors : Aimed(f)'
    BY StepAims DEF ReportedIsSent
  <1>2. ASSUME NEW t \in Tasks, Recipient(t) \in Chats
        PROVE  /\ IsFiniteSet(Sendings(t)') /\ IsFiniteSet(Reporting(t)')
               /\ completed'[t] + Cardinality(Reporting(t)') <= Cardinality(Sendings(t)')
    <2>1. /\ IsFiniteSet(Sendings(t)) /\ IsFiniteSet(Reporting(t))
          /\ completed[t] + Cardinality(Reporting(t)) <= Cardinality(Sendings(t))
      BY <1>2 DEF ReportedIsSent
    <2>2. /\ Cardinality(Sendings(t)) \in Nat /\ Cardinality(Reporting(t)) \in Nat
          /\ completed[t] \in Nat /\ completed \in [Tasks -> Nat]
      BY <2>1, FS_CardinalityType DEF CountTypes
    <2>3. /\ IsFiniteSet(Reporting(t) \cup {e}) /\ IsFiniteSet(Reporting(t) \ {e})
          /\ Cardinality(Reporting(t) \cup {e}) <= Cardinality(Reporting(t)) + 1
          /\ e \in Reporting(t) => Cardinality(Reporting(t) \ {e}) = Cardinality(Reporting(t)) - 1
          /\ Cardinality(Reporting(t) \cup {e}) \in Nat /\ Cardinality(Reporting(t) \ {e}) \in Nat
      <3>1. /\ IsFiniteSet(Reporting(t) \cup {e})
            /\ Cardinality(Reporting(t) \cup {e}) =
                 IF e \in Reporting(t) THEN Cardinality(Reporting(t))
                                       ELSE Cardinality(Reporting(t)) + 1
        BY <2>1, FS_AddElement
      <3>2. /\ IsFiniteSet(Reporting(t) \ {e})
            /\ Cardinality(Reporting(t) \ {e}) =
                 IF e \in Reporting(t) THEN Cardinality(Reporting(t)) - 1
                                       ELSE Cardinality(Reporting(t))
        BY <2>1, FS_RemoveElement
      <3>3. QED BY <2>2, <3>1, <3>2, FS_CardinalityType
    <2>4. Posts(e) \/ UNCHANGED sent
      BY Effects DEF Pastes, Quiet
    <2>5. ASSUME UNCHANGED sent
          PROVE  Sendings(t)' = Sendings(t)
      BY <2>5 DEF Sendings
    <2>6. CASE pc'[e] = "report" /\ task[e] = t
      <3>1. pc[e] = "send" /\ KeyEnter /\ completed' = completed
        BY <2>6, Progress
      <3>2. focus = "editor" /\ open \in Chats
            /\ \E j \in DOMAIN draft[open] : draft[open][j] = t
        BY <1>2, <2>6, <3>1 DEF ReportedIsSent, Aimed, Inv, DeskTypes
      <3>3. Lines(t) # {} /\ draft[open] # <<>>
        BY <3>2 DEF Lines
      <3>4. sent' # sent
        <4>1. sent' = Append(sent, [to |-> open, texts |-> draft[open]])
          BY <3>1, <3>2, <3>3 DEF KeyEnter, Choose, Post
        <4>2. SUFFICES ASSUME sent' = sent PROVE FALSE
          OBVIOUS
        <4>3. CASE Quiet
          <5>1. faults' = faults + 1 /\ faults \in Nat
            BY <3>1, <3>2, <3>3, <4>3, Effects DEF CountTypes
          <5>2. UNCHANGED deskVars
            BY <5>1, Progress
          <5>3. draft' = [draft EXCEPT ![open] = <<>>] /\ draft \in [Chats -> Seq(Contents)]
            BY <3>1, <3>2, <3>3, Shape DEF KeyEnter, Choose, Post
          <5>4. QED BY <3>2, <3>3, <5>2, <5>3 DEF deskVars
        <4>4. CASE Posts(e)
          <5>1. DOMAIN sent' = DOMAIN sent \cup {Len(sent) + 1} /\ Len(sent) + 1 \notin DOMAIN sent
            BY <4>4, PostShape
          <5>2. QED BY <4>2, <5>1
        <4>5. QED BY <3>1, <4>3, <4>4, Effects DEF Pastes
      <3>5. Posts(e)
        BY <2>4, <3>4
      <3>6. /\ IsFiniteSet(Sendings(t)')
            /\ Cardinality(Sendings(t)') >= Cardinality(Sendings(t)) + 1
            /\ Cardinality(Sendings(t)') \in Nat
        BY <2>1, <3>3, <3>5, PostAdds
      <3>7. Reporting(t)' \subseteq Reporting(t) \cup {e}
        BY Progress DEF Reporting
      <3>8. /\ IsFiniteSet(Reporting(t)') /\ Cardinality(Reporting(t)') \in Nat
            /\ Cardinality(Reporting(t)') <= Cardinality(Reporting(t) \cup {e})
        BY <2>3, <3>7, FS_Subset, FS_CardinalityType
      <3>9. QED BY <2>1, <2>2, <2>3, <3>1, <3>6, <3>8
    <2>7. CASE ~(pc'[e] = "report" /\ task[e] = t)
      <3>1. /\ IsFiniteSet(Sendings(t)') /\ Cardinality(Sendings(t)') \in Nat
            /\ Cardinality(Sendings(t)') >= Cardinality(Sendings(t))
        BY <2>1, <2>2, <2>4, <2>5, PostAdds
      <3>2. Reporting(t)' \subseteq Reporting(t)
        BY <2>7, Progress DEF Reporting
      <3>3. CASE completed'[t] = completed[t]
        <4>1. /\ IsFiniteSet(Reporting(t)') /\ Cardinality(Reporting(t)') \in Nat
              /\ Cardinality(Reporting(t)') <= Cardinality(Reporting(t))
          BY <2>1, <3>2, FS_Subset, FS_CardinalityType
        <4>2. QED BY <2>1, <2>2, <3>1, <3>3, <4>1
      <3>4. CASE completed'[t] # completed[t]
        <4>1. pc[e] = "report" /\ pc'[e] = "release"
              /\ completed' = [completed EXCEPT ![task[e]] = @ + 1]
          BY <3>4, Progress
        <4>2. task[e] = t /\ completed'[t] = completed[t] + 1
          BY <2>2, <3>4, <4>1
        <4>3. e \in Reporting(t) /\ Reporting(t)' \subseteq Reporting(t) \ {e}
          BY <3>2, <4>1, <4>2 DEF Reporting
        <4>4. /\ IsFiniteSet(Reporting(t)') /\ Cardinality(Reporting(t)') \in Nat
              /\ Cardinality(Reporting(t)') <= Cardinality(Reporting(t) \ {e})
          BY <2>3, <4>3, FS_Subset, FS_CardinalityType
        <4>5. QED BY <2>1, <2>2, <2>3, <3>1, <4>2, <4>3, <4>4
      <3>5. QED BY <3>3, <3>4
    <2>8. QED BY <2>6, <2>7
  <1>3. QED BY <1>1, <1>2 DEF ReportedIsSent, Recipient

-----------------------------------------------------------------------------
\* The types of the other variables.

MoreTypes ==
  /\ holder \in Executors \cup {Nobody}
  /\ attempt \in [Executors -> 1..2]
  /\ search \in Seq(Contents)
  /\ overlapped \in BOOLEAN
  /\ CountTypes

LEMMA AttemptTypes ==
  ASSUME NEW e \in Executors, attempt \in [Executors -> 1..2],
         DesktopError(e) \/ Leave(e) \/ attempt' = attempt
  PROVE  attempt' \in [Executors -> 1..2]
  BY DEF DesktopError, Leave

LEMMA SearchTypes ==
  ASSUME DeskTypes, search \in Seq(Contents),
         KeyFind \/ KeyPaste \/ KeyEnter \/ KeyEsc \/ ClickEditor \/ UNCHANGED deskVars
           \/ \E content : SetClipboard(content)
  PROVE  search' \in Seq(Contents)
  <1>1. <<>> \in Seq(Contents)
    OBVIOUS
  <1>2. clipboard # Nothing => Append(search, clipboard) \in Seq(Contents)
    BY DEF DeskTypes
  <1>3. QED
    BY <1>1, <1>2 DEF KeyFind, KeyPaste, KeyEnter, Choose, Post, KeyEsc, ClickEditor,
                      SetClipboard, deskVars

LEMMA MoreInit == Init => MoreTypes
  <1> SUFFICES ASSUME Init PROVE MoreTypes
    OBVIOUS
  <1>1. MaxFaults \in Nat
    BY DesktopAssumption DEF DesktopAssumption
  <1>2. 0 \in 0..MaxFaults /\ <<>> \in Seq(Contents) /\ 1 \in 1..2
    BY <1>1
  <1>3. [e \in Executors |-> 1] \in [Executors -> 1..2] /\ [t \in Tasks |-> 0] \in [Tasks -> Nat]
    BY <1>2
  <1>4. QED BY <1>2, <1>3 DEF Init, MoreTypes, CountTypes

LEMMA MoreStep == ASSUME Inv, MoreTypes, [Next]_vars PROVE MoreTypes'
  <1>1. CASE UNCHANGED vars
    BY <1>1 DEF vars, callVars, deskVars, history, MoreTypes, CountTypes
  <1>2. CASE Expire
    BY <1>2 DEF Expire, callVars, deskVars, history, MoreTypes, CountTypes
  <1>3. ASSUME NEW e \in Executors, NEW t \in Tasks, Start(e, t) PROVE MoreTypes'
    BY <1>3 DEF Start, deskVars, MoreTypes, CountTypes
  <1>4. ASSUME NEW e \in Executors, Step(e) PROVE MoreTypes'
    <2>1. holder' \in Executors \cup {Nobody}
      BY <1>4 DEF MoreTypes, Step, Acquire, Refuse, Find, SelectTarget, TypeMessage, Press,
                  Copy, DesktopError, Report, Fail, Rollback, Release, Crash
    <2>2. DesktopError(e) \/ Leave(e) \/ attempt' = attempt
      BY <1>4 DEF Step, Acquire, Refuse, Find, SelectTarget, TypeMessage, Press, Copy,
                  Report, Fail, Rollback, Release, Crash
    <2>3. KeyFind \/ KeyPaste \/ KeyEnter \/ KeyEsc \/ ClickEditor \/ UNCHANGED deskVars
            \/ \E content : SetClipboard(content)
      BY <1>4 DEF Step, Acquire, Refuse, Find, SelectTarget, TypeMessage, Press, Copy,
                  Report, Fail, Rollback, Escape, Release, Crash, deskVars
    <2>4. overlapped' \in BOOLEAN
      <3>1. overlapped' = (overlapped \/ \E f \in Executors \ {e} : pc[f] \in Driving)
            \/ overlapped' = overlapped
        BY <1>4, Progress DEF Input
      <3>2. QED BY <3>1 DEF MoreTypes
    <2>5. CountTypes'
      <3>1. calls' = calls /\ faults' \in 0..MaxFaults
        BY <1>4, Progress, DesktopAssumption DEF MoreTypes, CountTypes, DesktopAssumption
      <3>2. completed' = completed
            \/ (pc[e] = "report" /\ completed' = [completed EXCEPT ![task[e]] = @ + 1])
        BY <1>4, Progress
      <3>3. completed' \in [Tasks -> Nat]
        BY <3>2 DEF MoreTypes, CountTypes
      <3>4. QED BY <3>1, <3>3 DEF MoreTypes, CountTypes
    <2>6. attempt' \in [Executors -> 1..2] /\ search' \in Seq(Contents)
      BY <2>2, <2>3, AttemptTypes, SearchTypes DEF MoreTypes, Inv
    <2>7. QED BY <2>1, <2>4, <2>5, <2>6 DEF MoreTypes
  <1>5. QED BY <1>1, <1>2, <1>3, <1>4 DEF Next

-----------------------------------------------------------------------------

\* What has been counted, as long as nobody interfered.
Counted == overlapped \/ (SentWithinCalls /\ ReportedIsSent /\ SpoiledByFaults)

IInv == Inv /\ MoreTypes /\ Counted

LEMMA IInvInit == Init => IInv
  BY InvInit, MoreInit, SentInit, SpoiledInit DEF IInv, Counted

LEMMA CountedStep == ASSUME IInv, [Next]_vars PROVE Counted'
  <1>1. Inv /\ CountTypes /\ faults \in Nat
    BY DEF IInv, MoreTypes, CountTypes
  <1>2. CASE UNCHANGED vars \/ Expire
    <2>1. UNCHANGED <<pc, task, focus, open, draft, sent, calls, completed, overlapped, faults>>
      BY <1>2 DEF Expire, vars, callVars, deskVars, history
    <2>2. \A t : Sendings(t)' = Sendings(t) /\ Drafted(t)' = Drafted(t)
      BY <2>1 DEF Sendings, Drafted
    <2>3. \A t : Trying(t)' = Trying(t) /\ Reporting(t)' = Reporting(t)
      BY <2>1 DEF Trying, Reporting
    <2>4. Mixed' = Mixed /\ Spoiled' = Spoiled
      BY <2>1 DEF Mixed, Spoiled, Fresh
    <2>5. \A e \in Executors : Aimed(e) => Aimed(e)'
      BY <2>1 DEF Aimed, Recipient
    <2>6. SentWithinCalls => SentWithinCalls'
      BY <2>1, <2>2, <2>3 DEF SentWithinCalls
    <2>7. ReportedIsSent => ReportedIsSent'
      BY <2>1, <2>2, <2>3, <2>5 DEF ReportedIsSent, Recipient
    <2>8. SpoiledByFaults => SpoiledByFaults'
      BY <2>1, <2>4 DEF SpoiledByFaults
    <2>9. QED BY <2>1, <2>6, <2>7, <2>8 DEF IInv, Counted
  <1>3. ASSUME NEW e \in Executors, NEW t \in Tasks, Start(e, t) PROVE Counted'
    <2>1. overlapped' = overlapped
      BY <1>3 DEF Start
    <2>2. QED BY <1>1, <1>3, <2>1, StartCounts DEF IInv, Counted
  <1>4. ASSUME NEW e \in Executors, Step(e), ~overlapped'
        PROVE  SentWithinCalls' /\ ReportedIsSent' /\ SpoiledByFaults'
    <2>1. SentWithinCalls /\ ReportedIsSent /\ SpoiledByFaults
      BY <1>1, <1>4, Effects DEF IInv, Counted
    <2>2. SentWithinCalls' /\ ReportedIsSent'
      BY <1>1, <1>4, <2>1, StepSends, StepReports
    <2>3. SpoiledByFaults'
      BY <1>1, <1>4, <2>1, Effects, QuietSpoils, PasteSpoils, PostSpoils
    <2>4. QED BY <2>2, <2>3
  <1>5. QED BY <1>2, <1>3, <1>4 DEF Next, Counted

LEMMA IInvStep == IInv /\ [Next]_vars => IInv'
  BY InvStep, MoreStep, CountedStep DEF IInv

LEMMA IInvAlways == Spec => []IInv
  BY IInvInit, IInvStep, PTL DEF Spec

(* Every reachable state is well typed: no editor or message holds anything    *)
(* but texts and names, an editor has the focus only in an open conversation,  *)
(* and no call gets a third attempt.                                          *)
THEOREM TypesKept == Spec => []TypeOK
  <1>1. IInv => TypeOK
    BY DEF IInv, Inv, DeskTypes, CallTypes, MoreTypes, CountTypes, TypeOK
  <1>2. QED BY <1>1, IInvAlways, PTL

(* However many executors are called, die, fail and retry, a call of           *)
(* execute_action puts its text into the messages that go out at most once.    *)
THEOREM SentOncePerCall == Spec => []OncePerCall
  <1>1. ASSUME IInv, ~overlapped, NEW t \in Tasks PROVE TimesSent(t) <= calls[t]
    <2>1. /\ IsFiniteSet(Sendings(t)) /\ IsFiniteSet(Drafted(t)) /\ IsFiniteSet(Trying(t))
          /\ Cardinality(Sendings(t)) + Cardinality(Drafted(t)) + Cardinality(Trying(t))
               <= calls[t]
      BY <1>1 DEF IInv, Counted, SentWithinCalls
    <2>2. /\ Cardinality(Sendings(t)) \in Nat /\ Cardinality(Drafted(t)) \in Nat
          /\ Cardinality(Trying(t)) \in Nat /\ calls[t] \in Nat
      BY <1>1, <2>1, FS_CardinalityType DEF IInv, MoreTypes, CountTypes
    <2>3. QED BY <2>1, <2>2 DEF TimesSent
  <1>2. IInv => OncePerCall
    BY <1>1 DEF OncePerCall
  <1>3. QED BY <1>2, IInvAlways, PTL

(* There are no more messages made of leftovers than there were deaths and     *)
(* errors: each of them spoils one editor at most, and the next message from   *)
(* it cleans it.                                                              *)
THEOREM MixedFromFaults == Spec => []MixedOnlyByFaults
  <1>1. ASSUME IInv, ~overlapped PROVE Cardinality(Mixed) <= faults
    <2>1. /\ IsFiniteSet(Mixed) /\ IsFiniteSet(Spoiled)
          /\ Cardinality(Mixed) + Cardinality(Spoiled) <= faults
      BY <1>1 DEF IInv, Counted, SpoiledByFaults
    <2>2. Cardinality(Mixed) \in Nat /\ Cardinality(Spoiled) \in Nat /\ faults \in Nat
      BY <1>1, <2>1, FS_CardinalityType DEF IInv, MoreTypes, CountTypes
    <2>3. QED BY <2>1, <2>2
  <1>2. IInv => MixedOnlyByFaults
    BY <1>1 DEF MixedOnlyByFaults
  <1>3. QED BY <1>2, IInvAlways, PTL

(* For each ACTION_COMPLETED of a task whose recipient the search finds, its   *)
(* text has been sent once: no failed attempt is reported as completed.        *)
THEOREM CompletedWasSent == Spec => []CompletedIsSent
  <1>1. ASSUME IInv, ~overlapped, NEW t \in Tasks, Recipient(t) \in Chats
        PROVE  completed[t] <= TimesSent(t)
    <2>1. /\ IsFiniteSet(Sendings(t)) /\ IsFiniteSet(Reporting(t))
          /\ completed[t] + Cardinality(Reporting(t)) <= Cardinality(Sendings(t))
      BY <1>1 DEF IInv, Counted, ReportedIsSent
    <2>2. /\ Cardinality(Sendings(t)) \in Nat /\ Cardinality(Reporting(t)) \in Nat
          /\ completed[t] \in Nat
      BY <1>1, <2>1, FS_CardinalityType DEF IInv, MoreTypes, CountTypes
    <2>3. QED BY <2>1, <2>2 DEF TimesSent
  <1>2. IInv => CompletedIsSent
    BY <1>1 DEF CompletedIsSent
  <1>3. QED BY <1>2, IInvAlways, PTL

=============================================================================
