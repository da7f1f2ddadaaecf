------------------------------- MODULE UiLock -------------------------------
(***************************************************************************)
(* The global UI lock (infrastructure/lock_manager.py) as the executors    *)
(* use it (ExecutorAdapter.execute_action, adapters/runtime.py).           *)
(*                                                                         *)
(* The lock is one Redis key holding the token of its owner, with a time   *)
(* to live.  An executor takes it with SET NX PX, runs the task's handler  *)
(* and deletes the key in a `finally`, by a script that compares tokens.   *)
(* Redis calls of different executors, and the passing of time, interleave *)
(* freely; an executor may be slow at any point, because nothing in        *)
(* execute_action bounds the handler's duration.                           *)
(***************************************************************************)
EXTENDS Integers, FiniteSets

CONSTANTS
  Executors,   \* the ExecutorAdapter instances sharing one desktop
  Tokens,      \* the values uuid4() may return
  NoToken,     \* the key is absent / no lease is held
  Ttl,         \* ui_lock_ttl_ms, in ticks
  RetryLimit,  \* ui_lock_retry_limit
  RetryDelay,  \* ui_lock_retry_delay_ms, in ticks
  LockModes,   \* the values of requires_ui_lock among the tasks
  MaxFaults,   \* bound: crashes of executors and failures of Redis calls
  MaxRenewals  \* bound: calls of refresh (no caller in the code does)

ASSUME LockAssumption ==
  /\ NoToken \notin Tokens
  /\ Ttl \in Nat \ {0}
  /\ RetryLimit \in Nat \ {0}
  /\ RetryDelay \in Nat
  /\ LockModes \subseteq BOOLEAN
  /\ {MaxFaults, MaxRenewals} \subseteq Nat

VARIABLES
  key,       \* the value of the Redis key ui_lock_key
  keyTtl,    \* the ticks Redis still keeps it
  pc,        \* where each executor stands in execute_action
  token,     \* the token of acquire(), then of the LockLease it returned
  attempts,  \* SETs of this acquire() that failed
  wait,      \* ticks left of time.sleep(delay)
  lease,     \* ticks left of the lease Redis granted (observes; guards nothing)
  faults,    \* crashes and failed Redis calls so far
  renewals   \* calls of refresh so far

counters == <<faults, renewals>>
vars == <<key, keyTtl, pc, token, attempts, wait, lease, counters>>

Steps == {"idle", "acquire", "announce", "act", "report", "rollback", "finally"}

TypeOK ==
  /\ key \in Tokens \cup {NoToken}
  /\ keyTtl \in 0..Ttl
  /\ pc \in [Executors -> Steps]
  /\ token \in [Executors -> Tokens \cup {NoToken}]
  /\ attempts \in [Executors -> 0..RetryLimit]
  /\ wait \in [Executors -> 0..RetryDelay]
  /\ lease \in [Executors -> 0..Ttl]
  /\ faults \in 0..MaxFaults
  /\ renewals \in 0..MaxRenewals

Init ==
  /\ key = NoToken
  /\ keyTtl = 0
  /\ pc = [e \in Executors |-> "idle"]
  /\ token = [e \in Executors |-> NoToken]
  /\ attempts = [e \in Executors |-> 0]
  /\ wait = [e \in Executors |-> 0]
  /\ lease = [e \in Executors |-> 0]
  /\ faults = 0
  /\ renewals = 0

-----------------------------------------------------------------------------

Goto(e, step) == pc' = [pc EXCEPT ![e] = step]

\* A crash, or a Redis call that raises.
Fault ==
  /\ faults < MaxFaults
  /\ faults' = faults + 1

\* uuid4: a token nobody holds and the key does not carry.
Fresh(t) == t # key /\ \A e \in Executors : token[e] # t

\* The part of execute_action that is common to its ends: the lease goes out
\* of scope and the executor is free for another task.
Leave(e) ==
  /\ Goto(e, "idle")
  /\ token' = [token EXCEPT ![e] = NoToken]
  /\ lease' = [lease EXCEPT ![e] = 0]
  /\ attempts' = [attempts EXCEPT ![e] = 0]
  /\ wait' = [wait EXCEPT ![e] = 0]

\* RUNNING has been published.  A task that needs the lock enters acquire()
\* with a new token, another one goes straight to its handler.
Start(e) ==
  /\ pc[e] = "idle"
  /\ \/ /\ TRUE \in LockModes
        /\ Goto(e, "acquire")
        /\ \E t \in Tokens : Fresh(t) /\ token' = [token EXCEPT ![e] = t]
     \/ /\ FALSE \in LockModes
        /\ Goto(e, "act")
        /\ UNCHANGED token
  /\ UNCHANGED <<key, keyTtl, attempts, wait, lease, counters>>

\* Bug: SET without NX overwrites the key of a running lease.
GrantWithoutNX(e) ==
  /\ pc[e] = "acquire"
  /\ wait[e] = 0
  /\ attempts[e] < RetryLimit
  /\ key' = token[e]
  /\ keyTtl' = Ttl
  /\ lease' = [lease EXCEPT ![e] = Ttl]
  /\ Goto(e, "announce")
  /\ UNCHANGED <<token, attempts, wait, counters>>

\* SET key token NX PX ttl, when it is answered with the lock ...
Grant(e) ==
  /\ pc[e] = "acquire"
  /\ wait[e] = 0
  /\ attempts[e] < RetryLimit
  /\ key = NoToken
  /\ key' = token[e]
  /\ keyTtl' = Ttl
  /\ lease' = [lease EXCEPT ![e] = Ttl]
  /\ Goto(e, "announce")
  /\ UNCHANGED <<token, attempts, wait, counters>>

\* ... when the client raises an error instead: no lease was assigned, and if
\* Redis executed the SET the key carries a token nobody holds.
Unheard(e) ==
  /\ Fault
  /\ pc[e] = "acquire"
  /\ wait[e] = 0
  /\ attempts[e] < RetryLimit
  /\ \/ key = NoToken /\ key' = token[e] /\ keyTtl' = Ttl
     \/ UNCHANGED <<key, keyTtl>>
  /\ token' = [token EXCEPT ![e] = NoToken]
  /\ Goto(e, "rollback")
  /\ UNCHANGED <<attempts, wait, lease, renewals>>

\* Bug: the loop never counts its attempts.
RefuseForever(e) ==
  /\ pc[e] = "acquire"
  /\ wait[e] = 0
  /\ key # NoToken
  /\ wait' = [wait EXCEPT ![e] = RetryDelay]
  /\ UNCHANGED <<key, keyTtl, pc, token, attempts, lease, counters>>

\* Bug: one attempt more than ui_lock_retry_limit.
RefuseOnceMore(e) ==
  /\ pc[e] = "acquire"
  /\ wait[e] = 0
  /\ attempts[e] <= RetryLimit
  /\ key # NoToken
  /\ attempts' = [attempts EXCEPT ![e] = @ + 1]
  /\ wait' = [wait EXCEPT ![e] = RetryDelay]
  /\ UNCHANGED <<key, keyTtl, pc, token, lease, counters>>

\* ... and when it is refused: the loop sleeps, after the last attempt too.
Refuse(e) ==
  /\ pc[e] = "acquire"
  /\ wait[e] = 0
  /\ attempts[e] < RetryLimit
  /\ key # NoToken
  /\ attempts' = [attempts EXCEPT ![e] = @ + 1]
  /\ wait' = [wait EXCEPT ![e] = RetryDelay]
  /\ UNCHANGED <<key, keyTtl, pc, token, lease, counters>>

\* LockAcquisitionError: `lease` is still None and the handler of that error
\* calls rollback_last_action.
GiveUp(e) ==
  /\ pc[e] = "acquire"
  /\ wait[e] = 0
  /\ attempts[e] = RetryLimit
  /\ token' = [token EXCEPT ![e] = NoToken]
  /\ Goto(e, "rollback")
  /\ UNCHANGED <<key, keyTtl, attempts, wait, lease, counters>>

\* LOCK_ACQUIRED is published inside the try: a failure is an action failure.
Announce(e) ==
  /\ pc[e] = "announce"
  /\ \/ Goto(e, "act") /\ UNCHANGED faults
     \/ Goto(e, "rollback") /\ Fault
  /\ UNCHANGED <<key, keyTtl, token, attempts, wait, lease, renewals>>

\* _run_action returns or raises.
Act(e) ==
  /\ pc[e] = "act"
  /\ \E step \in {"report", "rollback"} : Goto(e, step)
  /\ UNCHANGED <<key, keyTtl, token, attempts, wait, lease, counters>>

\* ACTION_COMPLETED is published inside the try as well, after the effect.
Report(e) ==
  /\ pc[e] = "report"
  /\ \/ Goto(e, "finally") /\ UNCHANGED faults
     \/ Goto(e, "rollback") /\ Fault
  /\ UNCHANGED <<key, keyTtl, token, attempts, wait, lease, renewals>>

\* Bug: a rollback or a failure event that raises skips the release.
RollbackLeaves(e) ==
  /\ pc[e] = "rollback"
  /\ \/ Goto(e, "finally") /\ UNCHANGED <<token, lease, attempts, wait>>
     \/ Leave(e)
  /\ UNCHANGED <<key, keyTtl, counters>>

\* rollback_last_action and the failure events; either may raise, and the
\* finally clause follows in any case.
Rollback(e) ==
  /\ pc[e] = "rollback"
  /\ Goto(e, "finally")
  /\ UNCHANGED <<key, keyTtl, token, attempts, wait, lease, counters>>

\* Bug: an unconditional DEL.
DeleteKey(e) == key' = NoToken /\ keyTtl' = 0

\* The release script: delete the key only if it carries the lease's token.
ReleaseKey(e) ==
  IF key = token[e]
  THEN key' = NoToken /\ keyTtl' = 0
  ELSE UNCHANGED <<key, keyTtl>>

\* The finally clause, with a lease and without one.
Release(e) ==
  /\ pc[e] = "finally"
  /\ token[e] # NoToken
  /\ \/ ReleaseKey(e) /\ UNCHANGED faults
     \/ Fault /\ UNCHANGED <<key, keyTtl>>
  /\ Leave(e)
  /\ UNCHANGED renewals

Finish(e) ==
  /\ pc[e] = "finally"
  /\ token[e] = NoToken
  /\ Leave(e)
  /\ UNCHANGED <<key, keyTtl, counters>>

\* The refresh script: a new TTL if the key still carries the token.
Refresh(e) ==
  /\ renewals < MaxRenewals
  /\ renewals' = renewals + 1
  /\ pc[e] = "act"
  /\ token[e] # NoToken
  /\ key = token[e]
  /\ keyTtl' = Ttl
  /\ lease' = [lease EXCEPT ![e] = Ttl]
  /\ UNCHANGED <<key, pc, token, attempts, wait, faults>>

\* The executor's process dies and is started again; the key stays.
Crash(e) ==
  /\ Fault
  /\ pc[e] # "idle"
  /\ Leave(e)
  /\ UNCHANGED <<key, keyTtl, renewals>>

Less(n) == IF n = 0 THEN 0 ELSE n - 1

\* Bug: SET without PX, the key never expires.
TickWithoutExpiry ==
  /\ \E e \in Executors : wait[e] > 0 \/ lease[e] > 0
  /\ wait' = [e \in Executors |-> Less(wait[e])]
  /\ lease' = [e \in Executors |-> Less(lease[e])]
  /\ UNCHANGED <<key, keyTtl, pc, token, attempts, counters>>

\* One tick of every clock.  Redis deletes a key whose TTL has run out.
Tick ==
  /\ keyTtl > 0 \/ \E e \in Executors : wait[e] > 0
  /\ keyTtl' = Less(keyTtl)
  /\ key' = IF keyTtl' = 0 THEN NoToken ELSE key
  /\ wait' = [e \in Executors |-> Less(wait[e])]
  /\ lease' = [e \in Executors |-> Less(lease[e])]
  /\ UNCHANGED <<pc, token, attempts, counters>>

Acquire(e) == Grant(e) \/ Unheard(e) \/ Refuse(e) \/ GiveUp(e)

Step(e) ==
  \/ Start(e) \/ Acquire(e) \/ Announce(e) \/ Act(e) \/ Report(e)
  \/ Rollback(e) \/ Release(e) \/ Finish(e) \/ Refresh(e) \/ Crash(e)

Next == Tick \/ \E e \in Executors : Step(e)

Spec == Init /\ [][Next]_vars

\* Time passes and the retry loop of acquire() keeps running; nothing is
\* assumed of the handlers, which may hang while their executor holds the key.
FairSpec ==
  Spec /\ WF_vars(Tick) /\ \A e \in Executors : WF_vars(Acquire(e))

-----------------------------------------------------------------------------

Holds(e) == token[e] # NoToken /\ pc[e] # "acquire"

(* Two leases never run at the same time: whatever the executors crash out   *)
(* of, retry or release late, Redis's NX, its expiry and the token comparison *)
(* of the release script together keep the granted leases disjoint in time.   *)
OneLiveLease ==
  \A e, f \in Executors : lease[e] > 0 /\ lease[f] > 0 => e = f

(* Why: a running lease is exactly what the Redis key says, so that nobody   *)
(* but its holder can remove the key, and tokens tell the executors apart.   *)
LeaseIsTheKey ==
  /\ key = NoToken <=> keyTtl = 0
  /\ \A e \in Executors :
       /\ lease[e] > 0 => Holds(e) /\ key = token[e]
       /\ Holds(e) /\ key = token[e] => keyTtl = lease[e]
       /\ pc[e] = "acquire" => token[e] # NoToken /\ key # token[e]
       /\ pc[e] = "idle" => token[e] = NoToken
  /\ \A e, f \in Executors : token[e] = token[f] /\ e # f => token[e] = NoToken

(* Every path through execute_action ends in its `finally`: before the first  *)
(* crash or Redis fault the key never outlives the execution that took it,    *)
(* however the handler and the rollback end.                                  *)
NoOrphanKey ==
  faults > 0 \/ key = NoToken \/ \E e \in Executors : Holds(e) /\ key = token[e]

(* The lock implements LeaseLock: leases are granted one at a time, run for   *)
(* Ttl, and end by expiry or by their own holder.                             *)
Leases == INSTANCE LeaseLock WITH Clients <- Executors
LeaseSpec == Leases!Spec

(* Anti-deadlock: the key of a holder that hangs or has died is gone after    *)
(* its TTL, for no other reason than the passing of time, unless the holder   *)
(* refreshes it for ever.                                                     *)
KeyIsFreedAgain == \A t \in Tokens : key = t ~> key # t

(* acquire() ends, with the lock or with LockAcquisitionError, even if every  *)
(* other executor hangs while holding the lock.                               *)
AcquireEnds == \A e \in Executors : pc[e] = "acquire" ~> pc[e] # "acquire"

(* task.md:10 and the docstring "Global UI mutex": only one adapter automates *)
(* the desktop at a time.  (Not kept: a handler may outlive its lease, which  *)
(* nothing renews.)                                                           *)
ActionsExclusive ==
  \A e, f \in Executors : pc[e] = "act" /\ pc[f] = "act" => e = f

=============================================================================
