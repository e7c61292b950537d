------------------------------- MODULE Mutex -------------------------------
(* What threads/synch.h promises of a Lock: "Acquire -- wait until the lock  *)
(* is FREE, then set it to BUSY.  Release -- set lock to be FREE", each in   *)
(* one indivisible step, and only by the thread that acquired it.            *)
CONSTANTS Thread, FREE

VARIABLE holder

MutexInit == holder = FREE

MutexAcquire(t) == holder = FREE /\ holder' = t

MutexRelease(t) == holder = t /\ holder' = FREE

MutexNext == \E t \in Thread : MutexAcquire(t) \/ MutexRelease(t)

MutexSpec == MutexInit /\ [][MutexNext]_holder
=============================================================================
