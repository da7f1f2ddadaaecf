------------------------------- MODULE Desktop -------------------------------
(***************************************************************************)
(* What the executors do to the one WeChat desktop they share: the         *)
(* handlers of adapters/platforms/wechat.py, the sends of                  *)
(* drivers/pywinauto_driver.py key by key, and the rollback of             *)
(* ExecutorAdapter, which presses ESC.                                     *)
(*                                                                         *)
(* The keyboard focus, the clipboard, the open conversation and the        *)
(* half-written messages belong to the desktop, not to the call that left  *)
(* them so; the driver reads none of them back.  The lock is what          *)
(* LeaseLock promises, without its clock: one lease at a time, which ends  *)
(* by release, by the death of its holder, or under a holder that is slow. *)
(***************************************************************************)
EXTENDS Integers, Sequences, FiniteSets, FiniteSetsExt

CONSTANTS
  Executors,    \* ExecutorAdapters with the live WeChat driver
  Nobody,       \* no lease is held
  Tasks,        \* the tasks they are given
  Action,       \* TaskPayload.action
  Override,     \* arguments["dispatch_target_uid"]
  Uid,          \* TaskPayload.target.uid
  Nothing,      \* None; an empty clipboard
  Registry,     \* the actions build_wechat_action_registry registers
  Chats,        \* the conversations the search finds by their name
  NoChat,       \* no conversation is open
  SlowHandlers, \* whether a handler may outlive its lease
  MaxCalls,     \* bound: calls of execute_action, of all tasks together
  MaxFaults     \* bound: deaths of executors and errors the driver does not retry

Names == ({Override[t] : t \in Tasks} \cup {Uid[t] : t \in Tasks}) \ {Nothing}
Contents == Tasks \cup Names   \* what a clipboard may hold

ASSUME DesktopAssumption ==
  /\ Nobody \notin Executors
  /\ NoChat \notin Chats
  /\ Nothing \notin Contents \cup Chats
  /\ Tasks \cap Names = {}
  /\ SlowHandlers \in BOOLEAN
  /\ {MaxCalls, MaxFaults} \subseteq Nat

VARIABLES
  holder,     \* whose lease runs
  pc,         \* where each executor stands in execute_action
  task,       \* the task it was given
  attempt,    \* which attempt of _send_wechat_message it is in
  clipboard,  \* of the desktop
  focus,      \* what the keyboard types into
  search,     \* what stands in the search box
  open,       \* the conversation on the screen
  draft,      \* what stands in the editor of each conversation
  sent,       \* the messages WeChat sent
  calls,      \* calls of execute_action for each task
  completed,  \* ACTION_COMPLETED events of each task
  overlapped, \* an executor gave input in the middle of another one's send
  faults      \* deaths and errors so far

callVars == <<pc, task, attempt>>
deskVars == <<clipboard, focus, search, open, draft, sent>>
history == <<calls, completed, overlapped, faults>>
vars == <<holder, callVars, deskVars, history>>

\* The steps of _send_wechat_message_once between its first and its last key.
Driving == {"copyName", "pasteName", "select", "click", "copyText", "pasteText", "send"}
Steps == Driving \cup {"idle", "acquire", "find", "search", "report",
                       "rollback", "release", "retreat"}

TypeOK ==
  /\ holder \in Executors \cup {Nobody}
  /\ pc \in [Executors -> Steps]
  /\ task \in [Executors -> Tasks \cup {Nothing}]
  /\ attempt \in [Executors -> 1..2]
  /\ clipboard \in Contents \cup {Nothing}
  /\ focus \in {"none", "search", "editor"}
  /\ search \in Seq(Contents)
  /\ open \in Chats \cup {NoChat}
  /\ draft \in [Chats -> Seq(Contents)]
  /\ sent \in Seq([to : Chats, texts : Seq(Contents)])
  /\ calls \in [Tasks -> Nat]
  /\ completed \in [Tasks -> Nat]
  /\ overlapped \in BOOLEAN
  /\ faults \in 0..MaxFaults
  /\ focus = "editor" => open # NoChat

Init ==
  /\ holder = Nobody
  /\ pc = [e \in Executors |-> "idle"]
  /\ task = [e \in Executors |-> Nothing]
  /\ attempt = [e \in Executors |-> 1]
  /\ clipboard = Nothing
  /\ focus = "none"
  /\ search = <<>>
  /\ open \in Chats \cup {NoChat}
  /\ draft = [c \in Chats |-> <<>>]
  /\ sent = <<>>
  /\ calls = [t \in Tasks |-> 0]
  /\ completed = [t \in Tasks |-> 0]
  /\ overlapped = FALSE
  /\ faults = 0

-----------------------------------------------------------------------------
\* The desktop, as the driver relies on it.

\* CTRL-F puts an empty search box in front.
KeyFind ==
  /\ focus' = "search"
  /\ search' = <<>>
  /\ UNCHANGED <<clipboard, open, draft, sent>>

\* CTRL-V: the clipboard is typed wherever the focus is.
KeyPaste ==
  /\ IF clipboard = Nothing \/ focus = "none"
     THEN UNCHANGED <<search, draft>>
     ELSE IF focus = "search"
          THEN search' = Append(search, clipboard) /\ UNCHANGED draft
          ELSE draft' = [draft EXCEPT ![open] = Append(@, clipboard)] /\ UNCHANGED search
  /\ UNCHANGED <<clipboard, focus, open, sent>>

\* ENTER in the search box opens the conversation of that name, if there is one.
Choose ==
  /\ focus = "search"
  /\ \/ \E c \in Chats :
          /\ search = <<c>>
          /\ open' = c
          /\ focus' = "editor"
          /\ search' = <<>>
     \/ (\A c \in Chats : search # <<c>>) /\ UNCHANGED <<open, focus, search>>
  /\ UNCHANGED <<clipboard, draft, sent>>

\* ENTER in the editor sends what stands there.
Post ==
  /\ focus = "editor"
  /\ \/ /\ draft[open] # <<>>
        /\ sent' = Append(sent, [to |-> open, texts |-> draft[open]])
        /\ draft' = [draft EXCEPT ![open] = <<>>]
     \/ draft[open] = <<>> /\ UNCHANGED <<sent, draft>>
  /\ UNCHANGED <<clipboard, focus, search, open>>

KeyEnter == Choose \/ Post \/ (focus = "none" /\ UNCHANGED deskVars)

\* ESC leaves the search box or the editor.
KeyEsc ==
  /\ focus' = "none"
  /\ search' = <<>>
  /\ UNCHANGED <<clipboard, open, draft, sent>>

\* A click where the editor of an open conversation is.
ClickEditor ==
  /\ focus' = IF open = NoChat THEN "none" ELSE "editor"
  /\ search' = <<>>
  /\ UNCHANGED <<clipboard, open, draft, sent>>

SetClipboard(content) ==
  /\ clipboard' = content
  /\ UNCHANGED <<focus, search, open, draft, sent>>

-----------------------------------------------------------------------------

Goto(e, step) == pc' = [pc EXCEPT ![e] = step]

\* The call is over, and the executor forgets its task.
Leave(e) ==
  /\ Goto(e, "idle")
  /\ task' = [task EXCEPT ![e] = Nothing]
  /\ attempt' = [attempt EXCEPT ![e] = 1]

\* resolve_dispatch_target_uid, and what SendAutoReplyHandler takes instead.
Recipient(t) ==
  IF Action[t] = "send_dispatch_message" /\ Override[t] # Nothing
  THEN Override[t]
  ELSE Uid[t]

\* Input to the desktop; it is noted when another executor is between keys.
Input(e) ==
  overlapped' = (overlapped \/ \E f \in Executors \ {e} : pc[f] \in Driving)

\* A crash, or an exception the driver does not retry.
Fault ==
  /\ faults < MaxFaults
  /\ faults' = faults + 1

\* execute_action is called with a task.
Start(e, t) ==
  /\ pc[e] = "idle"
  /\ MapThenSumSet(LAMBDA u : calls[u], Tasks) < MaxCalls
  /\ calls' = [calls EXCEPT ![t] = @ + 1]
  /\ task' = [task EXCEPT ![e] = t]
  /\ Goto(e, "acquire")
  /\ UNCHANGED <<holder, attempt, deskVars, completed, overlapped, faults>>

\* The lease is granted, and the registry knows the action or raises.
Acquire(e) ==
  /\ pc[e] = "acquire"
  /\ holder = Nobody
  /\ holder' = e
  /\ Goto(e, IF Action[task[e]] \in Registry THEN "find" ELSE "rollback")
  /\ UNCHANGED <<task, attempt, deskVars, history>>

\* LockAcquisitionError, after the last attempt.
Refuse(e) ==
  /\ pc[e] = "acquire"
  /\ holder # Nobody
  /\ Goto(e, "retreat")
  /\ UNCHANGED <<holder, task, attempt, deskVars, history>>

\* Bug: after the second attempt the error is recorded but not raised.
DesktopErrorSwallowed(e) ==
  /\ IF attempt[e] = 1
     THEN attempt' = [attempt EXCEPT ![e] = 2] /\ Goto(e, "find")
     ELSE Goto(e, "report") /\ UNCHANGED attempt
  /\ UNCHANGED <<holder, task>>

\* DesktopAutomationError: the send starts over once, then the error is raised.
DesktopError(e) ==
  /\ IF attempt[e] = 1
     THEN attempt' = [attempt EXCEPT ![e] = 2] /\ Goto(e, "find")
     ELSE Goto(e, "rollback") /\ UNCHANGED attempt
  /\ UNCHANGED <<holder, task>>

\* _find_live_window and _focus_window; a task without a recipient is typed
\* into whatever conversation is open.
Find(e) ==
  /\ pc[e] = "find"
  /\ \/ /\ Goto(e, IF Recipient(task[e]) = Nothing THEN "click" ELSE "search")
        /\ UNCHANGED <<holder, task, attempt>>
     \/ DesktopError(e)
  /\ UNCHANGED <<deskVars, history>>

\* One input of the send: the step it belongs to, the key, the step after it.
Press(e, step, Key, next) ==
  /\ pc[e] = step
  /\ Key
  /\ Input(e)
  /\ Goto(e, next)
  /\ UNCHANGED <<holder, task, attempt, calls, completed, faults>>

\* Bug: a clipboard that cannot be set is left as it is.
CopyAnyway(e, step, content, next) ==
  /\ pc[e] = step
  /\ Input(e)
  /\ \E held \in {content, clipboard} : SetClipboard(held)
  /\ Goto(e, next)
  /\ UNCHANGED <<holder, task, attempt, calls, completed, faults>>

\* _set_windows_clipboard_text: it may fail before or after emptying it.
Copy(e, step, content, next) ==
  /\ pc[e] = step
  /\ Input(e)
  /\ \/ /\ SetClipboard(content)
        /\ Goto(e, next)
        /\ UNCHANGED <<holder, task, attempt>>
     \/ /\ \E left \in {clipboard, Nothing} : SetClipboard(left)
        /\ DesktopError(e)
  /\ UNCHANGED <<calls, completed, faults>>

\* _open_wechat_search_and_select_target
SelectTarget(e) ==
  \/ Press(e, "search", KeyFind, "copyName")
  \/ Copy(e, "copyName", Recipient(task[e]), "pasteName")
  \/ Press(e, "pasteName", KeyPaste, "select")
  \/ Press(e, "select", KeyEnter, "click")

\* The rest of _send_wechat_message_once.
TypeMessage(e) ==
  \/ Press(e, "click", ClickEditor, "copyText")
  \/ Copy(e, "copyText", task[e], "pasteText")
  \/ Press(e, "pasteText", KeyPaste, "send")
  \/ Press(e, "send", KeyEnter, "report")

\* The result is built and ACTION_COMPLETED published.
Report(e) ==
  /\ pc[e] = "report"
  /\ completed' = [completed EXCEPT ![task[e]] = @ + 1]
  /\ Goto(e, "release")
  /\ UNCHANGED <<holder, task, attempt, deskVars, calls, overlapped, faults>>

\* Bug: the driver retries whatever is raised, after the last key too.
FailAndRetry(e) ==
  /\ pc[e] \in Driving \cup {"find", "search", "report"}
  /\ Fault
  /\ DesktopError(e)
  /\ UNCHANGED <<deskVars, calls, completed, overlapped>>

\* Any other exception: set_focus, click_input, send_keys or window_text of
\* pywinauto, or the publication.
Fail(e) ==
  /\ pc[e] \in Driving \cup {"find", "search", "report"}
  /\ Fault
  /\ Goto(e, "rollback")
  /\ UNCHANGED <<holder, task, attempt, deskVars, calls, completed, overlapped>>

\* rollback_ui: ESC, unless the window is not found.
Escape(e) ==
  \/ KeyEsc /\ Input(e)
  \/ UNCHANGED <<deskVars, overlapped>>

\* The rollback of a failed action, and the one of an executor that did not get
\* the lock.
Rollback(e) ==
  /\ \/ pc[e] = "rollback" /\ Goto(e, "release") /\ UNCHANGED <<task, attempt>>
     \/ pc[e] = "retreat" /\ Leave(e)
  /\ Escape(e)
  /\ UNCHANGED <<holder, calls, completed, faults>>

Release(e) ==
  /\ pc[e] = "release"
  /\ holder' = IF holder = e THEN Nobody ELSE holder
  /\ Leave(e)
  /\ UNCHANGED <<deskVars, history>>

\* The executor's process dies; its key and the desktop stay as they are.
Crash(e) ==
  /\ pc[e] # "idle"
  /\ Fault
  /\ Leave(e)
  /\ UNCHANGED <<holder, deskVars, calls, completed, overlapped>>

Leased(e) == pc[e] \notin {"idle", "acquire", "retreat"}

\* The key expires: its owner has died, or is slow.
Expire ==
  /\ holder # Nobody
  /\ SlowHandlers \/ ~Leased(holder)
  /\ holder' = Nobody
  /\ UNCHANGED <<callVars, deskVars, history>>

Step(e) ==
  \/ Acquire(e) \/ Refuse(e) \/ Find(e) \/ SelectTarget(e) \/ TypeMessage(e)
  \/ Report(e) \/ Fail(e) \/ Rollback(e) \/ Release(e) \/ Crash(e)

Next ==
  \/ Expire
  \/ \E e \in Executors : Step(e) \/ \E t \in Tasks : Start(e, t)

Spec == Init /\ [][Next]_vars

-----------------------------------------------------------------------------

TextsOf(message) == {message.texts[i] : i \in DOMAIN message.texts}

\* Where a task's text stands in the messages that went out, and how often.
Sendings(t) ==
  UNION {{<<i, j>> : j \in {j \in DOMAIN sent[i].texts : sent[i].texts[j] = t}} :
           i \in DOMAIN sent}

TimesSent(t) == Cardinality(Sendings(t))

\* Messages that are not one task's text.
Mixed == {i \in DOMAIN sent : \A t \in Tasks : sent[i].texts # <<t>>}

(* A text reaches only the conversation it is meant for: leftovers of dead or *)
(* failed sends in the clipboard, the search box or an editor never divert it, *)
(* as long as nobody gives input in the middle of a send and the search finds  *)
(* the recipient.                                                             *)
OnlyToRecipient ==
  overlapped \/ \A i \in DOMAIN sent : \A t \in TextsOf(sent[i]) \cap Tasks :
    Recipient(t) \in Chats => sent[i].to = Recipient(t)

(* A call of execute_action sends its text at most once: the second attempt of *)
(* the driver starts only while nothing has been typed into the editor.        *)
OncePerCall == overlapped \/ \A t \in Tasks : TimesSent(t) <= calls[t]

(* A message is one task's text and nothing else, but for one exception after  *)
(* each death or error: what was left in the editor goes out with the next.    *)
MixedOnlyByFaults == overlapped \/ Cardinality(Mixed) <= faults

(* What is reported as completed was sent, if the search finds the recipient:  *)
(* no failed attempt ends in ACTION_COMPLETED.                                 *)
CompletedIsSent ==
  overlapped \/ \A t \in Tasks :
    Recipient(t) \in Chats => completed[t] <= TimesSent(t)

(* windows.py:49: "Send a message to a target conversation."  (Not kept: an    *)
(* executor that is refused the lock presses ESC, also in the middle of the    *)
(* holder's send, and nothing checks which conversation is then open.)         *)
SentToTarget ==
  \A i \in DOMAIN sent : \A t \in TextsOf(sent[i]) \cap Tasks :
    sent[i].to = Recipient(t)

=============================================================================
