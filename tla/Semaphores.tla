----------------------------- MODULE Semaphores -----------------------------
(* What threads/synch.h promises of semaphores, without queues, ready list   *)
(* or interrupts: P waits until the value is positive and then takes one     *)
(* unit, in one indivisible step; V adds one unit and never waits.           *)
EXTENDS Naturals

CONSTANTS Thread, Sem, NULL, InitialValue, MaxValue

VARIABLES value, waiting

semaphoreVars == <<value, waiting>>

SemaphoresInit ==
    /\ value = InitialValue
    /\ waiting = [t \in Thread |-> NULL]

(* P finds no unit: from now on the thread may do nothing but take one. *)
Wait(t, s) ==
    /\ waiting[t] = NULL
    /\ value[s] = 0
    /\ waiting' = [waiting EXCEPT ![t] = s]
    /\ UNCHANGED value

(* P returns, after a wait or at once. *)
Take(t, s) ==
    /\ waiting[t] \in {NULL, s}
    /\ value[s] > 0
    /\ value' = [value EXCEPT ![s] = @ - 1]
    /\ waiting' = [waiting EXCEPT ![t] = NULL]

Give(s) ==
    /\ value[s] < MaxValue
    /\ value' = [value EXCEPT ![s] = @ + 1]
    /\ UNCHANGED waiting

SemaphoresNext ==
    \/ \E t \in Thread, s \in Sem : Wait(t, s)
    \/ \E t \in Thread, s \in Sem : Take(t, s)
    \/ \E s \in Sem : Give(s)

SemaphoresSpec == SemaphoresInit /\ [][SemaphoresNext]_semaphoreVars
=============================================================================
