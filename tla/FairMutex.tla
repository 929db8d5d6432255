------------------------------ MODULE FairMutex ------------------------------
(***************************************************************************)
(* What a fair task-reentrant lock promises its users: one task at a time   *)
(* is inside, a task that is inside may enter again, and the tasks that had *)
(* to wait are let in in the order in which they began to wait, except for  *)
(* those that gave up.  FairAsyncRLock is shown to implement it.            *)
(***************************************************************************)
EXTENDS Naturals, Sequences, SequencesExt

CONSTANTS Tasks,    \* who may enter
          MaxDepth  \* bound: how deeply a task nests its entries

VARIABLES held,  \* held[t]: how many times t is inside
          line   \* the waiting tasks, in order of arrival

vars == <<held, line>>

Inside == {t \in Tasks : held[t] > 0}

Init == held = [t \in Tasks |-> 0] /\ line = <<>>

\* Nobody is inside and nobody waits: enter without waiting.
Enter(t) == /\ Inside = {} /\ line = <<>>
            /\ held' = [held EXCEPT ![t] = 1]
            /\ UNCHANGED line

Reenter(t) == /\ held[t] \in 1 .. MaxDepth - 1
              /\ held' = [held EXCEPT ![t] = @ + 1]
              /\ UNCHANGED line

Join(t) == /\ held[t] = 0 /\ ~Contains(line, t)
           /\ Inside # {} \/ line # <<>>
           /\ line' = Append(line, t)
           /\ UNCHANGED held

\* Only the task that has waited longest is let in.
Grant(t) == /\ Inside = {} /\ line # <<>> /\ t = Head(line)
            /\ held' = [held EXCEPT ![t] = 1]
            /\ line' = Tail(line)

GiveUp(t) == /\ \E k \in DOMAIN line : line[k] = t /\ line' = RemoveAt(line, k)
             /\ UNCHANGED held

Leave(t) == /\ held[t] > 0
            /\ held' = [held EXCEPT ![t] = @ - 1]
            /\ UNCHANGED line

Next == \E t \in Tasks : \/ Enter(t) \/ Reenter(t) \/ Join(t)
                         \/ Grant(t) \/ GiveUp(t) \/ Leave(t)

Spec == Init /\ [][Next]_vars
=============================================================================
