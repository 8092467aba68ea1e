------------------------------- MODULE PluginGate -------------------------------
(***************************************************************************)
(* The limit on plugin instances: InstanceGate of                          *)
(* rust/ocomment/src/plugin.rs, a counting semaphore made of a mutex and a *)
(* condition variable.  Every thread that scans a file routed to a plugin  *)
(* takes a permit for the duration of the scan.                            *)
(*                                                                         *)
(* A step is what a thread does while it holds the mutex: nothing else     *)
(* reads or writes `active`, and nothing in there can panic, so the mutex  *)
(* is never poisoned.  A thread in Condvar::wait can wake up without       *)
(* having been notified.                                                   *)
(***************************************************************************)
EXTENDS Integers, FiniteSets

CONSTANTS
  Thread,      \* the threads that scan
  Limit,       \* plugins.instances, at least 1 (plugin.rs:149)
  MaxScans     \* bound: the scans of one thread

ASSUME GateAssumption ==
  /\ IsFiniteSet(Thread)
  /\ Limit \in Nat \ {0}
  /\ MaxScans \in Nat

VARIABLES
  active,      \* the permits that are out, as the gate counts them
  pc,          \* "idle", "waiting" (blocked in wait), "woken" or "running"
  left         \* the scans each thread has still to do

vars == <<active, pc, left>>

In(label) == {t \in Thread : pc[t] = label}
Running == In("running")
Waiting == In("waiting")
Woken   == In("woken")

Move(t, label) == pc' = [pc EXCEPT ![t] = label]

\* Types of the gate and the threads; the counter never wraps below zero.
TypeOK ==
  /\ active \in Nat
  /\ pc \in [Thread -> {"idle", "waiting", "woken", "running"}]
  /\ left \in [Thread -> 0..MaxScans]

Init ==
  /\ active = 0
  /\ pc = [t \in Thread |-> "idle"]
  /\ left = [t \in Thread |-> MaxScans]

\* while *active >= limit { wait }; *active += 1
TakeOrWait(t) ==
  \/ active < Limit  /\ active' = active + 1 /\ Move(t, "running")
  \/ active >= Limit /\ UNCHANGED active     /\ Move(t, "waiting")

Enter(t) ==
  /\ pc[t] = "idle" /\ left[t] > 0
  /\ TakeOrWait(t)
  /\ UNCHANGED left

\* Mutant of Again: `if` for `while`.
AgainUnchecked(t) ==
  /\ pc[t] = "woken"
  /\ active' = active + 1 /\ Move(t, "running")
  /\ UNCHANGED left

\* Back from wait with the mutex, the thread looks at the counter again.
Again(t) ==
  /\ pc[t] = "woken"
  /\ TakeOrWait(t)
  /\ UNCHANGED left

Spurious(t) ==
  /\ pc[t] = "waiting"
  /\ Move(t, "woken")
  /\ UNCHANGED <<active, left>>

\* Mutant of Leave: the permit is given back and nobody is told.
LeaveSilent(t) ==
  /\ pc[t] = "running"
  /\ active' = IF active > 0 THEN active - 1 ELSE 0
  /\ left' = [left EXCEPT ![t] = @ - 1]
  /\ Move(t, "idle")

\* The scan returned or failed, and dropping the permit gives it back
\* (saturating_sub) and wakes one of the threads blocked in wait, if there is one.
Leave(t) ==
  /\ pc[t] = "running"
  /\ active' = IF active > 0 THEN active - 1 ELSE 0
  /\ left' = [left EXCEPT ![t] = @ - 1]
  /\ \/ Waiting = {} /\ Move(t, "idle")
     \/ \E w \in Waiting : pc' = [pc EXCEPT ![t] = "idle", ![w] = "woken"]

\* Every file is scanned: the threads have nothing left to do.
Done == (\A t \in Thread : left[t] = 0) /\ UNCHANGED vars

Next == (\E t \in Thread : Enter(t) \/ Again(t) \/ Spurious(t) \/ Leave(t)) \/ Done

\* A runnable thread runs, gets the mutex after finitely many others, and a plugin
\* call ends: its fuel is finite (plugin.rs:265).
Fairness == \A t \in Thread : WF_vars(Enter(t) \/ Again(t) \/ Leave(t))

Spec == Init /\ [][Next]_vars /\ Fairness

-----------------------------------------------------------------------------
(* Properties. *)

\* The counter is the number of scans in progress, which is within the limit.
Bounded == active = Cardinality(Running) /\ active <= Limit

\* No wake-up is lost: while a thread is blocked, every free permit has a thread
\* that was woken and has not looked yet.
NoIdlePermit == Waiting # {} => active + Cardinality(Woken) >= Limit

\* Every scan is done in the end: no thread stays blocked.
AllScanned == <>(\A t \in Thread : left[t] = 0)
=============================================================================
