------------------------------ MODULE LeaseLock ------------------------------
(***************************************************************************)
(* What the UI lock promises, without keys, tokens or retries: a lease is  *)
(* granted only while no other lease is running, it runs for at most Ttl   *)
(* ticks, and a client may give its own lease back but not another's.      *)
(***************************************************************************)
EXTENDS Integers

CONSTANTS Clients, Ttl

VARIABLE lease   \* the ticks each client's lease still runs; 0 when it has none

TypeOK == lease \in [Clients -> 0..Ttl]

Init == lease = [c \in Clients |-> 0]

Grant(c) ==
  /\ \A d \in Clients : lease[d] = 0
  /\ lease' = [lease EXCEPT ![c] = Ttl]

Renew(c) ==
  /\ lease[c] > 0
  /\ lease' = [lease EXCEPT ![c] = Ttl]

GiveBack(c) == lease' = [lease EXCEPT ![c] = 0]

Pass == lease' = [c \in Clients |-> IF lease[c] = 0 THEN 0 ELSE lease[c] - 1]

Next == Pass \/ \E c \in Clients : Grant(c) \/ Renew(c) \/ GiveBack(c)

Spec == Init /\ [][Next]_lease

AtMostOne == \A c, d \in Clients : lease[c] > 0 /\ lease[d] > 0 => c = d

=============================================================================
