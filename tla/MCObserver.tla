---------------------------- MODULE MCObserver -----------------------------
(* Instances of Observer for TLC: one observer of any sender with a state file *)
(* of its own, or two that share theirs.                                       *)
EXTENDS Observer, TLC

CONSTANTS o1, o2, u1, u2, t1, t2

CustomerEach == [o \in {o1, o2} |-> IF o = o1 THEN u1 ELSE u2]

AloneAndShared ==
  {[observers |-> {o1}, backend |-> b, anySender |-> TRUE, deaths |-> 2] :
     b \in {"wcferry", "pywinauto"}}
  \cup
  {[observers |-> {o1, o2}, backend |-> "wcferry", anySender |-> a,
     deaths |-> 1] : a \in BOOLEAN}

\* The texts are interchangeable, and so are the observers with their customers.
Swap == (o1 :> o2) @@ (o2 :> o1) @@ (u1 :> u2) @@ (u2 :> u1)
Symmetry == Permutations({t1, t2}) \cup {Swap}

\* A poll's own values mean nothing after it, nor does the open conversation to
\* wcferry.
Polling(o) == IF pc[o] \in {"emit", "save", "write"} THEN <<held[o], loaded[o]>> ELSE <<>>
View ==
  <<setup, chat, IF setup.backend = "wcferry" THEN u1 ELSE open, file, pc, next, heard,
    [o \in Observers |-> Polling(o)], emitted, deaths>>

\* Bound: beside another observer, one message of the account or without its
\* sender.
FewOdd ==
  setup.observers = {o1, o2} =>
    Cardinality({m \in DOMAIN chat : chat[m].from = Self \/ ~chat[m].signed}) <= 1

=============================================================================
