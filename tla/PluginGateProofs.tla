--------------------------- MODULE PluginGateProofs ---------------------------
(***************************************************************************)
(* Proofs about PluginGate, for every finite set of threads, every limit   *)
(* and every number of scans: at most Limit plugin instances run, and no   *)
(* wake-up is lost.                                                        *)
(*                                                                         *)
(* The inductive invariant adds to the three properties that a thread      *)
(* inside the gate has a scan to do, which keeps `left` from going below   *)
(* zero.  Its steps count: each action moves one or two threads between    *)
(* the sets Running, Waiting and Woken, so the proofs first say what a     *)
(* move does to a set, then what that does to its size.                    *)
(***************************************************************************)
EXTENDS PluginGate, FiniteSetTheorems, TLAPS

\* A thread that is not idle has at least the scan it came for.
HasWork == \A t \in Thread : pc[t] # "idle" => left[t] > 0

Inductive == TypeOK /\ HasWork /\ Bounded /\ NoIdlePermit

-----------------------------------------------------------------------------
(* Counting threads *)

\* The threads under one label are finitely many.
LEMMA Counted ==
  ASSUME NEW label
  PROVE  IsFiniteSet(In(label)) /\ Cardinality(In(label)) \in Nat
<1>1. In(label) \in SUBSET Thread
  BY DEF In
<1>2. IsFiniteSet(In(label))
  BY <1>1, FS_Subset, GateAssumption
<1>3. QED
  BY <1>2, FS_CardinalityType

\* So they are after a step.
LEMMA CountedNext ==
  ASSUME NEW label
  PROVE  Cardinality(In(label)') \in Nat
<1>1. In(label)' \in SUBSET Thread
  BY DEF In
<1>2. IsFiniteSet(In(label)')
  BY <1>1, FS_Subset, GateAssumption
<1>3. QED
  BY <1>2, FS_CardinalityType

\* A thread that was not under the label and now is adds one.
LEMMA CountedIn ==
  ASSUME NEW label, NEW t, t \notin In(label), In(label)' = In(label) \cup {t}
  PROVE  Cardinality(In(label)') = Cardinality(In(label)) + 1
<1>1. IsFiniteSet(In(label))
  BY Counted
<1>2. Cardinality(In(label) \cup {t}) = Cardinality(In(label)) + 1
  BY <1>1, FS_AddElement
<1>3. QED
  BY <1>2

\* A thread that was under the label and no longer is takes one away.
LEMMA CountedOut ==
  ASSUME NEW label, NEW t, t \in In(label), In(label)' = In(label) \ {t}
  PROVE  Cardinality(In(label)') = Cardinality(In(label)) - 1
<1>1. IsFiniteSet(In(label))
  BY Counted
<1>2. Cardinality(In(label) \ {t}) = Cardinality(In(label)) - 1
  BY <1>1, FS_RemoveElement
<1>3. QED
  BY <1>2

\* What a move of one thread does to the threads under a label.
LEMMA Moved ==
  ASSUME TypeOK, NEW t \in Thread, NEW to, Move(t, to), NEW label
  PROVE  In(label)' = IF label = to THEN In(label) \cup {t} ELSE In(label) \ {t}
BY DEF TypeOK, Move, In

\* What Leave does when it wakes a thread.
LEMMA HandedOver ==
  ASSUME TypeOK, NEW t \in Running, NEW w \in Waiting,
         pc' = [pc EXCEPT ![t] = "idle", ![w] = "woken"]
  PROVE  /\ Running' = Running \ {t}
         /\ Woken' = Woken \cup {w}
         /\ Waiting' = Waiting \ {w}
BY DEF TypeOK, In, Running, Woken, Waiting

-----------------------------------------------------------------------------
(* Steps *)

LEMMA Typed ==
  ASSUME TypeOK, HasWork, [Next]_vars
  PROVE  TypeOK' /\ HasWork'
<1> USE GateAssumption DEF TypeOK, HasWork
<1>1. ASSUME NEW t \in Thread, Enter(t) PROVE TypeOK' /\ HasWork'
  BY <1>1 DEF Enter, TakeOrWait, Move
<1>2. ASSUME NEW t \in Thread, Again(t) PROVE TypeOK' /\ HasWork'
  BY <1>2 DEF Again, TakeOrWait, Move
<1>3. ASSUME NEW t \in Thread, Spurious(t) PROVE TypeOK' /\ HasWork'
  BY <1>3 DEF Spurious, Move
<1>4. ASSUME NEW t \in Thread, Leave(t) PROVE TypeOK' /\ HasWork'
  <2>1. CASE Move(t, "idle")
    BY <1>4, <2>1 DEF Leave, Move
  <2>2. ASSUME NEW w \in Waiting, pc' = [pc EXCEPT ![t] = "idle", ![w] = "woken"]
        PROVE  TypeOK' /\ HasWork'
    BY <1>4, <2>2 DEF Leave, Waiting, In
  <2>3. QED
    BY <1>4, <2>1, <2>2 DEF Leave
<1>5. CASE UNCHANGED vars
  BY <1>5 DEF vars
<1>6. QED
  BY <1>1, <1>2, <1>3, <1>4, <1>5 DEF Next, Done

\* Taking a permit or blocking, from outside the gate or after a wake-up.
LEMMA TakeOrWaitCounts ==
  ASSUME TypeOK, Bounded, NEW t \in Thread, t \notin Running, t \notin Waiting,
         TakeOrWait(t)
  PROVE  /\ Bounded'
         /\ \/ active' >= Limit
            \/ /\ active' = active + 1
               /\ Waiting' = Waiting
               /\ Woken' = Woken \ {t}
<1> USE GateAssumption DEF TypeOK, Bounded, TakeOrWait
<1>1. CASE active < Limit /\ active' = active + 1 /\ Move(t, "running")
  <2>1. /\ Running' = Running \cup {t}
        /\ Waiting' = Waiting \ {t}
        /\ Woken' = Woken \ {t}
    BY <1>1, Moved DEF Running, Waiting, Woken
  <2>2. Cardinality(Running') = Cardinality(Running) + 1
    BY <2>1, CountedIn DEF Running
  <2>3. QED
    BY <1>1, <2>1, <2>2
<1>2. CASE active >= Limit /\ UNCHANGED active /\ Move(t, "waiting")
  <2>1. Running' = Running \ {t}
    BY <1>2, Moved DEF Running
  <2>2. QED
    BY <1>2, <2>1
<1>3. QED
  BY <1>1, <1>2

\* Giving a permit back: one scan fewer, and the permit is handed to a blocked
\* thread when there is one.
LEMMA LeaveCounts ==
  ASSUME TypeOK, Bounded, NEW t \in Thread, Leave(t)
  PROVE  /\ Bounded'
         /\ active' = active - 1
         /\ \/ Waiting' = {}
            \/ Cardinality(Woken') = Cardinality(Woken) + 1
<1> USE GateAssumption DEF TypeOK, Bounded
<1>1. t \in Running
  BY DEF Leave, Running, In
<1>2. active > 0
  <2>1. IsFiniteSet(Running)
    BY Counted DEF Running
  <2>2. Cardinality(Running) # 0
    BY <1>1, <2>1, FS_EmptySet
  <2>3. QED
    BY <2>2
<1>3. active' = active - 1
  BY <1>2 DEF Leave
<1>4. CASE Waiting = {} /\ Move(t, "idle")
  <2>1. Running' = Running \ {t} /\ Waiting' = Waiting \ {t}
    BY <1>4, Moved DEF Running, Waiting
  <2>2. Cardinality(Running') = Cardinality(Running) - 1
    BY <1>1, <2>1, CountedOut DEF Running
  <2>3. QED
    BY <1>3, <1>4, <2>1, <2>2
<1>5. ASSUME NEW w \in Waiting, pc' = [pc EXCEPT ![t] = "idle", ![w] = "woken"]
      PROVE  Bounded' /\ Cardinality(Woken') = Cardinality(Woken) + 1
  <2>1. Running' = Running \ {t} /\ Woken' = Woken \cup {w}
    BY <1>1, <1>5, HandedOver
  <2>2. Cardinality(Running') = Cardinality(Running) - 1
    BY <1>1, <2>1, CountedOut DEF Running
  <2>3. w \notin Woken
    BY <1>5 DEF Waiting, Woken, In
  <2>4. Cardinality(Woken') = Cardinality(Woken) + 1
    BY <2>1, <2>3, CountedIn DEF Woken
  <2>5. QED
    BY <1>3, <2>2, <2>4
<1>6. QED
  BY <1>3, <1>4, <1>5 DEF Leave

LEMMA Kept ==
  ASSUME Inductive, [Next]_vars
  PROVE  Inductive'
<1> USE DEF Inductive
<1> USE GateAssumption
<1>1. TypeOK' /\ HasWork'
  BY Typed
<1>2. Cardinality(Woken) \in Nat /\ IsFiniteSet(Woken)
  BY Counted DEF Woken
<1>3. Limit \in Nat /\ active \in Nat /\ active' \in Nat
  BY <1>1 DEF TypeOK
<1>4. ASSUME NEW t \in Thread, Enter(t) PROVE Bounded' /\ NoIdlePermit'
  <2>1. t \notin Running /\ t \notin Waiting /\ t \notin Woken /\ TakeOrWait(t)
    BY <1>4 DEF Enter, Running, Waiting, Woken, In
  <2>2. Woken \ {t} = Woken
    BY <2>1
  <2>3. Cardinality(Woken') \in Nat
    BY CountedNext DEF Woken
  <2>4. QED
    BY <1>2, <1>3, <2>1, <2>2, <2>3, TakeOrWaitCounts DEF NoIdlePermit
<1>5. ASSUME NEW t \in Thread, Again(t) PROVE Bounded' /\ NoIdlePermit'
  <2>1. t \notin Running /\ t \notin Waiting /\ t \in Woken /\ TakeOrWait(t)
    BY <1>5 DEF Again, Running, Waiting, Woken, In
  <2>2. Cardinality(Woken \ {t}) = Cardinality(Woken) - 1
    BY <1>2, <2>1, FS_RemoveElement
  <2>3. Cardinality(Woken') \in Nat
    BY CountedNext DEF Woken
  <2>4. /\ Bounded'
        /\ \/ active' >= Limit
           \/ active' = active + 1 /\ Waiting' = Waiting /\ Woken' = Woken \ {t}
    BY <2>1, TakeOrWaitCounts
  <2>5. CASE active' >= Limit
    BY <1>3, <2>3, <2>4, <2>5 DEF NoIdlePermit
  <2>6. CASE active' = active + 1 /\ Waiting' = Waiting /\ Woken' = Woken \ {t}
    BY <1>2, <1>3, <2>2, <2>4, <2>6 DEF NoIdlePermit
  <2>7. QED
    BY <2>4, <2>5, <2>6
<1>6. ASSUME NEW t \in Thread, Spurious(t) PROVE Bounded' /\ NoIdlePermit'
  <2>1. t \in Waiting /\ t \notin Running /\ t \notin Woken
    BY <1>6 DEF Spurious, Running, Waiting, Woken, In
  <2>2. Running' = Running \ {t} /\ Woken' = Woken \cup {t} /\ active' = active
    BY <1>6, Moved DEF Spurious, Running, Waiting, Woken
  <2>3. Cardinality(Woken') = Cardinality(Woken) + 1
    BY <2>1, <2>2, CountedIn DEF Woken
  <2>4. Running' = Running
    BY <2>1, <2>2
  <2>5. Bounded'
    BY <2>2, <2>4 DEF Bounded
  <2>6. active + Cardinality(Woken) >= Limit
    BY <2>1 DEF NoIdlePermit
  <2>7. active' + Cardinality(Woken') >= Limit
    BY <1>2, <1>3, <2>2, <2>3, <2>6
  <2>8. QED
    BY <2>5, <2>7 DEF NoIdlePermit
<1>7. ASSUME NEW t \in Thread, Leave(t) PROVE Bounded' /\ NoIdlePermit'
  <2>1. CASE Waiting' = {}
    BY <1>7, <2>1, LeaveCounts DEF NoIdlePermit
  <2>2. CASE Waiting' # {}
    <3>1. Waiting # {}
      BY <1>7, <2>2, Moved DEF Leave, Waiting
    <3>2. QED
      BY <1>2, <1>3, <1>7, <2>2, <3>1, LeaveCounts DEF NoIdlePermit
  <2>3. QED
    BY <2>1, <2>2
<1>8. ASSUME UNCHANGED vars PROVE Bounded' /\ NoIdlePermit'
  <2>1. Running' = Running /\ Waiting' = Waiting /\ Woken' = Woken /\ active' = active
    BY <1>8 DEF vars, Running, Waiting, Woken, In
  <2>2. QED
    BY <2>1 DEF Bounded, NoIdlePermit
<1>9. QED
  BY <1>1, <1>4, <1>5, <1>6, <1>7, <1>8 DEF Next, Done

LEMMA Started == Init => Inductive
<1> SUFFICES ASSUME Init PROVE Inductive
  OBVIOUS
<1>1. TypeOK /\ HasWork
  BY GateAssumption DEF Init, TypeOK, HasWork
<1>2. Running = {} /\ Waiting = {}
  BY DEF Init, Running, Waiting, In
<1>3. Cardinality(Running) = 0
  BY <1>2, FS_EmptySet
<1>4. QED
  BY <1>1, <1>2, <1>3, GateAssumption DEF Init, Inductive, Bounded, NoIdlePermit

-----------------------------------------------------------------------------
(* Theorems *)

\* Everything the three theorems below take from a reachable state.
THEOREM InductiveCorrect == Spec => []Inductive
<1>1. Inductive /\ [Next]_vars => Inductive'
  BY Kept
<1>2. QED
  BY Started, <1>1, PTL DEF Spec

\* The types of the gate; the counter of InstanceGate never wraps.
THEOREM TypeCorrect == Spec => []TypeOK
<1>1. Inductive => TypeOK
  BY DEF Inductive
<1>2. QED
  BY InductiveCorrect, <1>1, PTL

\* At most plugins.instances plugin instances run, and the counter says how many.
THEOREM BoundedCorrect == Spec => []Bounded
<1>1. Inductive => Bounded
  BY DEF Inductive
<1>2. QED
  BY InductiveCorrect, <1>1, PTL

\* No wake-up is lost: a thread is blocked only while every free permit is on its
\* way to a thread that was woken.
THEOREM NoIdlePermitCorrect == Spec => []NoIdlePermit
<1>1. Inductive => NoIdlePermit
  BY DEF Inductive
<1>2. QED
  BY InductiveCorrect, <1>1, PTL
=============================================================================
