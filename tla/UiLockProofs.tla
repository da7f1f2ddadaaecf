---------------------------- MODULE UiLockProofs ----------------------------
(***************************************************************************)
(* Proofs about UiLock, for any number of executors, any set of tokens and *)
(* any TTL, retry limit and delay; crashes and Redis faults included.      *)
(***************************************************************************)
EXTENDS UiLock, TLAPS

Inv == TypeOK /\ LeaseIsTheKey

LEMMA TypeInit == Init => TypeOK
  BY LockAssumption DEF Init, TypeOK, Steps

\* Every action of every executor, and the clock, keep the variables' types.
LEMMA TypeStep == TypeOK /\ [Next]_vars => TypeOK'
  <1> SUFFICES ASSUME TypeOK, [Next]_vars PROVE TypeOK'
    OBVIOUS
  <1> USE LockAssumption DEF TypeOK, Steps, Goto, Leave, Fault, counters
  <1>1. ASSUME NEW e \in Executors, Start(e) PROVE TypeOK'
    BY <1>1 DEF Start
  <1>2. ASSUME NEW e \in Executors, Grant(e) PROVE TypeOK'
    BY <1>2 DEF Grant
  <1>3. ASSUME NEW e \in Executors, Unheard(e) PROVE TypeOK'
    BY <1>3 DEF Unheard
  <1>4. ASSUME NEW e \in Executors, Refuse(e) PROVE TypeOK'
    BY <1>4 DEF Refuse
  <1>5. ASSUME NEW e \in Executors, GiveUp(e) PROVE TypeOK'
    BY <1>5 DEF GiveUp
  <1>6. ASSUME NEW e \in Executors, Announce(e) \/ Act(e) \/ Report(e) \/ Rollback(e)
        PROVE TypeOK'
    BY <1>6 DEF Announce, Act, Report, Rollback
  <1>7. ASSUME NEW e \in Executors, Release(e) \/ Finish(e) \/ Crash(e) PROVE TypeOK'
    BY <1>7 DEF Release, Finish, Crash, ReleaseKey
  <1>8. ASSUME NEW e \in Executors, Refresh(e) PROVE TypeOK'
    BY <1>8 DEF Refresh
  <1>9. CASE Tick
    BY <1>9 DEF Tick, Less
  <1>10. CASE UNCHANGED vars
    BY <1>10 DEF vars
  <1>11. QED
    BY <1>1, <1>2, <1>3, <1>4, <1>5, <1>6, <1>7, <1>8, <1>9, <1>10
    DEF Next, Step, Acquire

(* TypeOK is an invariant: in particular acquire() never makes more than      *)
(* RetryLimit attempts and no clock runs below zero.                          *)
THEOREM TypeInvariant == Spec => []TypeOK
  <1>1. QED BY TypeInit, TypeStep, PTL DEF Spec

LEMMA InvInit == Init => Inv
  BY TypeInit DEF Inv, Init, LeaseIsTheKey, Holds

LEMMA InvStep == Inv /\ [Next]_vars => Inv'
  <1> SUFFICES ASSUME Inv, [Next]_vars PROVE LeaseIsTheKey'
    BY TypeStep DEF Inv
  <1> USE LockAssumption DEF Inv, TypeOK, LeaseIsTheKey, Holds, Goto, Leave
  <1>1. ASSUME NEW e \in Executors, Start(e) PROVE LeaseIsTheKey'
    <2>1. CASE Goto(e, "act") /\ UNCHANGED token
      BY <1>1, <2>1 DEF Start
    <2>2. CASE /\ Goto(e, "acquire")
               /\ \E t \in Tokens : Fresh(t) /\ token' = [token EXCEPT ![e] = t]
      <3>1. PICK t \in Tokens : Fresh(t) /\ token' = [token EXCEPT ![e] = t]
        BY <2>2
      <3>2. UNCHANGED <<key, keyTtl, lease>> /\ lease[e] = 0
        BY <1>1 DEF Start
      <3>3. pc' = [pc EXCEPT ![e] = "acquire"]
        BY <2>2
      <3>4. QED
        BY <3>1, <3>2, <3>3 DEF Fresh
    <2>3. QED
      BY <1>1, <2>1, <2>2 DEF Start
  <1>2. ASSUME NEW e \in Executors, Grant(e) PROVE LeaseIsTheKey'
    BY <1>2 DEF Grant
  <1>3. ASSUME NEW e \in Executors, Unheard(e) PROVE LeaseIsTheKey'
    BY <1>3 DEF Unheard
  <1>4. ASSUME NEW e \in Executors, Refuse(e) PROVE LeaseIsTheKey'
    BY <1>4 DEF Refuse
  <1>5. ASSUME NEW e \in Executors, GiveUp(e) PROVE LeaseIsTheKey'
    BY <1>5 DEF GiveUp
  <1>6. ASSUME NEW e \in Executors, Announce(e) \/ Act(e) \/ Report(e) \/ Rollback(e)
        PROVE LeaseIsTheKey'
    BY <1>6 DEF Announce, Act, Report, Rollback
  <1>7. ASSUME NEW e \in Executors, Release(e) PROVE LeaseIsTheKey'
    BY <1>7 DEF Release, ReleaseKey
  <1>8. ASSUME NEW e \in Executors, Finish(e) \/ Crash(e) PROVE LeaseIsTheKey'
    BY <1>8 DEF Finish, Crash
  <1>9. ASSUME NEW e \in Executors, Refresh(e) PROVE LeaseIsTheKey'
    BY <1>9 DEF Refresh
  <1>10. CASE Tick
    BY <1>10 DEF Tick, Less
  <1>11. CASE UNCHANGED vars
    BY <1>11 DEF vars
  <1>12. QED
    BY <1>1, <1>2, <1>3, <1>4, <1>5, <1>6, <1>7, <1>8, <1>9, <1>10, <1>11
    DEF Next, Step, Acquire

(* The inductive invariant: a running lease is exactly what the key says.     *)
THEOREM LeaseIsAlwaysTheKey == Spec => []LeaseIsTheKey
  <1>1. Inv => LeaseIsTheKey BY DEF Inv
  <1>2. QED BY <1>1, InvInit, InvStep, PTL DEF Spec

\* Two running leases would both own the key, with different tokens.
LEMMA OneLease == Inv => OneLiveLease
  BY LockAssumption DEF Inv, LeaseIsTheKey, Holds, OneLiveLease

(* Mutual exclusion of leases, for every number of executors, crashes and     *)
(* late releases included.                                                    *)
THEOREM MutualExclusion == Spec => []OneLiveLease
  <1>1. QED BY OneLease, InvInit, InvStep, PTL DEF Spec

\* Faults are counted and never taken back.
LEMMA FaultsStay == TypeOK /\ [Next]_vars => faults <= faults' /\ ~(Fault /\ faults' = 0)
  <1> SUFFICES ASSUME TypeOK, [Next]_vars PROVE faults <= faults' /\ ~(Fault /\ faults' = 0)
    OBVIOUS
  <1>1. faults \in Nat
    BY LockAssumption DEF TypeOK
  <1>2. Fault \/ UNCHANGED faults
    BY DEF Next, Step, Acquire, Tick, Start, Grant, Unheard, Refuse, GiveUp, Announce, Act,
           Report, Rollback, Release, Finish, Refresh, Crash, vars, counters
  <1>3. QED BY <1>1, <1>2 DEF Fault

\* Before a fault only the finally clause drops a lease, and it deletes the key.
LEMMA OrphanStep == Inv /\ NoOrphanKey /\ [Next]_vars => NoOrphanKey'
  <1> SUFFICES ASSUME Inv, NoOrphanKey, [Next]_vars, ~(faults' > 0), key' # NoToken
               PROVE \E f \in Executors : Holds(f)' /\ key' = token'[f]
    BY DEF NoOrphanKey, Holds
  <1>0. faults = 0 /\ ~Fault
    <2>1. faults \in Nat /\ faults' \in Nat
      BY LockAssumption, TypeStep DEF Inv, TypeOK
    <2>2. QED BY <2>1, FaultsStay DEF Inv
  <1> USE LockAssumption DEF Inv, TypeOK, LeaseIsTheKey, Holds, Goto, Leave
  <1>1. ASSUME NEW e \in Executors, Grant(e)
        PROVE Holds(e)' /\ key' = token'[e]
    BY <1>1 DEF Grant
  <1>2. ASSUME ~ \E e \in Executors : Grant(e)
        PROVE \E f \in Executors : Holds(f)' /\ key' = token'[f]
    <2>1. key' = key
      BY <1>0, <1>2 DEF Next, vars, Tick, Step, Acquire, Start, Unheard, Refuse, GiveUp,
                  Announce, Act, Report, Rollback, Release, ReleaseKey, Finish,
                  Refresh, Crash
    <2>2. PICK f \in Executors : Holds(f) /\ key = token[f]
      BY <1>0, <2>1 DEF NoOrphanKey
    <2>3. ASSUME NEW e \in Executors, Step(e)
          PROVE token'[f] = token[f] /\ pc'[f] # "acquire"
      <3>1. CASE Start(e)
        BY <2>2, <3>1 DEF Start
      <3>2. CASE Release(e)
        <4>1. e # f
          BY <1>0, <2>1, <2>2, <3>2 DEF Release, ReleaseKey
        <4>2. QED BY <2>2, <3>2, <4>1 DEF Release
      <3>3. CASE Finish(e)
        BY <2>2, <3>3 DEF Finish
      <3>4. CASE \/ Refuse(e) \/ GiveUp(e) \/ Announce(e) \/ Act(e) \/ Report(e)
                 \/ Rollback(e) \/ Refresh(e)
        BY <2>2, <3>4 DEF Refuse, GiveUp, Announce, Act, Report, Rollback, Refresh
      <3>5. QED
        BY <1>0, <1>2, <2>3, <3>1, <3>2, <3>3, <3>4 DEF Step, Acquire, Unheard, Crash
    <2>4. token'[f] = token[f] /\ pc'[f] # "acquire"
      BY <2>2, <2>3 DEF Next, Tick, vars
    <2>5. QED
      BY <2>1, <2>2, <2>4
  <1>3. QED
    BY <1>1, <1>2

(* The finally clause covers every path: before the first crash or Redis      *)
(* fault the key always belongs to an execution that is still running.        *)
THEOREM NoOrphan == Spec => []NoOrphanKey
  <1>1. Init => NoOrphanKey
    BY DEF Init, NoOrphanKey
  <1>2. QED
    BY <1>1, OrphanStep, InvInit, InvStep, PTL DEF Spec

-----------------------------------------------------------------------------

LEMMA LeaseInit == Init => Leases!Init
  BY DEF Init, Leases!Init

\* Every step of the lock is a step of LeaseLock or leaves every lease alone.
LEMMA LeaseStep == Inv /\ [Next]_vars => [Leases!Next]_lease
  <1> SUFFICES ASSUME Inv, [Next]_vars PROVE Leases!Next \/ lease' = lease
    OBVIOUS
  <1> USE LockAssumption DEF Inv, TypeOK, LeaseIsTheKey, Holds
  <1>1. ASSUME NEW e \in Executors, Grant(e) PROVE Leases!Grant(e)
    BY <1>1 DEF Grant, Leases!Grant
  <1>2. ASSUME NEW e \in Executors, Refresh(e) PROVE Leases!Renew(e)
    BY <1>2 DEF Refresh, Leases!Renew
  <1>3. ASSUME NEW e \in Executors, Release(e) \/ Finish(e) \/ Crash(e)
        PROVE Leases!GiveBack(e)
    BY <1>3 DEF Release, Finish, Crash, Leave, Leases!GiveBack
  <1>4. ASSUME Tick PROVE Leases!Pass
    BY <1>4 DEF Tick, Less, Leases!Pass
  <1>5. ASSUME NEW e \in Executors,
               \/ Start(e) \/ Unheard(e) \/ Refuse(e) \/ GiveUp(e)
               \/ Announce(e) \/ Act(e) \/ Report(e) \/ Rollback(e)
        PROVE lease' = lease
    BY <1>5 DEF Start, Unheard, Refuse, GiveUp, Announce, Act, Report, Rollback
  <1>6. CASE UNCHANGED vars
    BY <1>6 DEF vars
  <1>7. QED
    BY <1>1, <1>2, <1>3, <1>4, <1>5, <1>6 DEF Next, Step, Acquire, Leases!Next

(* The Redis lock with its tokens, retries, crashes and late releases         *)
(* implements the abstract lease lock.                                        *)
THEOREM Implements == Spec => LeaseSpec
  <1>1. QED
    BY LeaseInit, LeaseStep, InvInit, InvStep, PTL DEF Spec, LeaseSpec, Leases!Spec

=============================================================================
