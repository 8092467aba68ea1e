-------------------------- MODULE AtomicTransactionProofs --------------------------
(***************************************************************************)
(* Proofs about AtomicTransaction, for every number of plans and files,    *)
(* every plan list (two plans may name one file) and every bound on the    *)
(* failing calls and on the changes other programs make.                   *)
(*                                                                         *)
(* First the typing, one group of variables at a time; then each conjunct  *)
(* of Inductive, one lemma per conjunct with one step per system call;     *)
(* then the theorems.                                                      *)
(***************************************************************************)
EXTENDS AtomicTransaction, TLAPS

-----------------------------------------------------------------------------
(* Typing *)

LEMMA ControlTyped ==
  ASSUME TypeOK, Transaction
  PROVE  /\ pc' \in Label
         /\ at' \in Item
         /\ outcome' \in Outcome
<1> USE PlanAssumption DEF TypeOK, Return, Goto, Item, Outcome, Committing,
        RollingBack, Label
<1>1. CASE Prepare \/ Recheck \/ Park
  BY <1>1 DEF Prepare, Recheck, Park, StartRollback
<1>2. CASE Install \/ Withdraw \/ Unpark
  BY <1>2 DEF Install, Withdraw, Unpark, CommitNext, PutBack
<1>3. CASE Probe \/ Clear \/ Restore
  BY <1>3 DEF Probe, Clear, Restore, RollbackNext, Present, Missing, PutBack
<1>4. CASE Discard
  BY <1>4 DEF Discard
<1>5. QED
  BY <1>1, <1>2, <1>3, <1>4 DEF Transaction

LEMMA DiskTyped ==
  ASSUME TypeOK, Transaction
  PROVE  /\ file' \in [Path -> Content]
         /\ journal' \in [Item -> Content]
         /\ temp' \in SUBSET Item
<1> USE PlanAssumption DEF TypeOK, Return, Goto, Content, Here
<1>1. CASE Prepare \/ Recheck \/ Park
  BY <1>1 DEF Prepare, Recheck, Park, StartRollback
<1>2. CASE Install \/ Withdraw \/ Unpark
  BY <1>2 DEF Install, Withdraw, Unpark, CommitNext, PutBack
<1>3. CASE Probe \/ Clear \/ Restore
  BY <1>3 DEF Probe, Clear, Restore, RollbackNext, Present, Missing, PutBack
<1>4. CASE Discard
  BY <1>4 DEF Discard
<1>5. QED
  BY <1>1, <1>2, <1>3, <1>4 DEF Transaction

LEMMA BudgetTyped ==
  ASSUME TypeOK, Transaction
  PROVE  /\ faults' \in 0..MaxFaults
         /\ meddles' = meddles
         /\ edit' = edit
<1> USE BoundAssumption DEF TypeOK, Fault, NoFault, Present, Missing, env
<1>1. CASE Prepare \/ Recheck \/ Park
  BY <1>1 DEF Prepare, Recheck, Park, StartRollback
<1>2. CASE Install \/ Withdraw \/ Unpark
  BY <1>2 DEF Install, Withdraw, Unpark, CommitNext, PutBack
<1>3. CASE Probe \/ Clear \/ Restore
  BY <1>3 DEF Probe, Clear, Restore, RollbackNext, Present, Missing, PutBack
<1>4. CASE Discard
  BY <1>4 DEF Discard
<1>5. QED
  BY <1>1, <1>2, <1>3, <1>4 DEF Transaction

\* Every step of the transaction and of its environment keeps the types.
LEMMA NextTyped ==
  ASSUME TypeOK, [Next]_vars
  PROVE  TypeOK'
<1>1. CASE Transaction
  BY <1>1, ControlTyped, DiskTyped, BudgetTyped DEF TypeOK
<1>2. ASSUME NEW p \in Path, Meddle(p)
      PROVE  TypeOK'
  BY <1>2, BoundAssumption DEF TypeOK, Meddle, Content
<1>3. CASE Crash
  BY <1>3 DEF TypeOK, Crash, env, Outcome
<1>4. CASE UNCHANGED vars
  BY <1>4 DEF TypeOK, vars
<1>5. QED
  BY <1>1, <1>2, <1>3, <1>4 DEF Next, Returned

\* The variables of the transaction keep their types: every path holds one of
\* the contents the code distinguishes, and the program counter is one of the
\* system calls of apply_transaction.
THEOREM TypeCorrect == Spec => []TypeOK
<1>1. Init => TypeOK
  BY PlanAssumption, BoundAssumption
  DEF Init, TypeOK, Content, Label, Outcome, Item
<1>2. TypeOK /\ [Next]_vars => TypeOK'
  BY NextTyped
<1>3. QED
  BY <1>1, <1>2, PTL DEF Spec

-----------------------------------------------------------------------------
(* The conjuncts of Inductive, under the steps of the transaction *)

\* A rollback file appears only when its plan is parked and goes when the plan
\* is unparked, restored or discarded.
LEMMA JournalUseStep ==
  ASSUME TypeOK, JournalUse, TypeOK', ~ProbeFaults, Transaction
  PROVE  JournalUse'
<1> USE PlanAssumption DEF Running, Goto, Return, env, Here, Missing, Item,
        TypeOK, JournalUse, Committing, RollingBack, Label
<1>1. CASE Prepare
  BY <1>1 DEF Prepare
<1>2. CASE Recheck
  BY <1>2 DEF Recheck, StartRollback
<1>3. CASE Park
  BY <1>3 DEF Park, StartRollback
<1>4. CASE Install
  BY <1>4 DEF Install, CommitNext
<1>5. CASE Withdraw
  BY <1>5 DEF Withdraw
<1>6. CASE Unpark
  BY <1>6 DEF Unpark, PutBack
<1>7. CASE Probe
  BY <1>7 DEF Probe, RollbackNext, Present
<1>8. CASE Clear
  BY <1>8 DEF Clear, Present
<1>9. CASE Restore
  BY <1>9 DEF Restore, PutBack, RollbackNext
<1>10. CASE Discard
  BY <1>10 DEF Discard
<1>11. QED
  BY <1>1, <1>2, <1>3, <1>4, <1>5, <1>6, <1>7, <1>8, <1>9, <1>10 DEF Transaction

\* What is parked is what the recheck has just read.
LEMMA JournalHoldsStep ==
  ASSUME TypeOK, JournalUse, JournalHolds, FileHolds, TypeOK', ~ProbeFaults,
         Transaction
  PROVE  JournalHolds'
<1> USE PlanAssumption DEF Running, Goto, Return, env, Here, Missing, Item,
        TypeOK, JournalUse, JournalHolds, FileHolds, Committing, RollingBack,
        Label, Untouched
<1>1. CASE Prepare
  BY <1>1 DEF Prepare
<1>2. CASE Recheck
  BY <1>2 DEF Recheck, StartRollback
<1>3. CASE Park
  BY <1>3 DEF Park, StartRollback
<1>4. CASE Install
  BY <1>4 DEF Install, CommitNext
<1>5. CASE Withdraw
  BY <1>5 DEF Withdraw
<1>6. CASE Unpark
  BY <1>6 DEF Unpark, PutBack
<1>7. CASE Probe
  BY <1>7 DEF Probe, RollbackNext, Present
<1>8. CASE Clear
  BY <1>8 DEF Clear, Present
<1>9. CASE Restore
  BY <1>9 DEF Restore, PutBack, RollbackNext
<1>10. CASE Discard
  BY <1>10 DEF Discard
<1>11. QED
  BY <1>1, <1>2, <1>3, <1>4, <1>5, <1>6, <1>7, <1>8, <1>9, <1>10 DEF Transaction

\* The transaction writes a path only with its original or its replacement.
LEMMA FileHoldsStep ==
  ASSUME TypeOK, JournalUse, JournalHolds, FileHolds, Installed, TypeOK',
         ~ProbeFaults, Transaction
  PROVE  FileHolds'
<1> USE PlanAssumption DEF Running, Goto, Return, env, Here, Missing, Item,
        TypeOK, JournalUse, JournalHolds, FileHolds, Committing, RollingBack,
        Label, Untouched, PastCommit
<1>1. CASE Prepare
  BY <1>1 DEF Prepare
<1>2. CASE Recheck
  BY <1>2 DEF Recheck, StartRollback
<1>3. CASE Park
  BY <1>3 DEF Park, StartRollback
<1>4. CASE Install
  BY <1>4 DEF Install, CommitNext, Installed
<1>5. CASE Withdraw
  BY <1>5 DEF Withdraw
<1>6. CASE Unpark
  BY <1>6 DEF Unpark, PutBack
<1>7. CASE Probe
  <2>1. file' = file /\ edit' = edit
    BY <1>7 DEF Probe
  <2>2. pc' \in RollingBack
    BY <1>7 DEF Probe, RollbackNext
  <2>3. QED
    BY <2>1, <2>2
<1>8. CASE Clear
  BY <1>8 DEF Clear, Present
<1>9. CASE Restore
  BY <1>9 DEF Restore, PutBack, RollbackNext
<1>10. CASE Discard
  BY <1>10 DEF Discard
<1>11. QED
  BY <1>1, <1>2, <1>3, <1>4, <1>5, <1>6, <1>7, <1>8, <1>9, <1>10 DEF Transaction

\* The recheck refuses a file with a clear edit, so it is never held.
LEMMA ClearHoldsStep ==
  ASSUME TypeOK, JournalUse, ClearHolds, TypeOK', ~ProbeFaults, Transaction
  PROVE  ClearHolds'
<1> USE PlanAssumption DEF Running, Goto, Return, env, Here, Missing, Item,
        TypeOK, JournalUse, ClearHolds, Committing, RollingBack, Label, Held
<1>1. CASE Prepare
  BY <1>1 DEF Prepare
<1>2. CASE Recheck
  BY <1>2 DEF Recheck, StartRollback
<1>3. CASE Park
  BY <1>3 DEF Park, StartRollback
<1>4. CASE Install
  BY <1>4 DEF Install, CommitNext
<1>5. CASE Withdraw
  BY <1>5 DEF Withdraw
<1>6. CASE Unpark
  BY <1>6 DEF Unpark, PutBack
<1>7. CASE Probe
  BY <1>7 DEF Probe, RollbackNext, Present
<1>8. CASE Clear
  BY <1>8 DEF Clear, Present
<1>9. CASE Restore
  BY <1>9 DEF Restore, PutBack, RollbackNext
<1>10. CASE Discard
  BY <1>10 DEF Discard
<1>11. QED
  BY <1>1, <1>2, <1>3, <1>4, <1>5, <1>6, <1>7, <1>8, <1>9, <1>10 DEF Transaction

\* A plan for a file that is installed already does not pass its recheck.
LEMMA InstalledStep ==
  ASSUME TypeOK, JournalUse, JournalHolds, FileHolds, Installed, TypeOK',
         ~ProbeFaults, Transaction
  PROVE  Installed'
<1> USE PlanAssumption DEF Running, Goto, Return, env, Here, Missing, Item,
        TypeOK, JournalUse, JournalHolds, FileHolds, Installed, Committing,
        RollingBack, Label, Untouched
<1>1. CASE Prepare
  BY <1>1 DEF Prepare
<1>2. CASE Recheck
  BY <1>2 DEF Recheck, StartRollback
<1>3. CASE Park
  BY <1>3 DEF Park, StartRollback
<1>4. CASE Install
  BY <1>4 DEF Install, CommitNext
<1>5. CASE Withdraw
  BY <1>5 DEF Withdraw
<1>6. CASE Unpark
  BY <1>6 DEF Unpark, PutBack
<1>7. CASE Probe
  BY <1>7 DEF Probe, RollbackNext, Present
<1>8. CASE Clear
  BY <1>8 DEF Clear, Present
<1>9. CASE Restore
  BY <1>9 DEF Restore, PutBack, RollbackNext
<1>10. CASE Discard
  BY <1>10 DEF Discard
<1>11. QED
  BY <1>1, <1>2, <1>3, <1>4, <1>5, <1>6, <1>7, <1>8, <1>9, <1>10 DEF Transaction

\* Each error is returned from one phase.
LEMMA OutcomeAtStep ==
  ASSUME TypeOK, JournalUse, OutcomeAt, TypeOK', ~ProbeFaults, Transaction
  PROVE  OutcomeAt'
<1> USE PlanAssumption DEF Running, Goto, Return, env, Here, Missing, Item,
        TypeOK, JournalUse, OutcomeAt, Committing, RollingBack, Label, PastCommit
<1>1. CASE Prepare
  BY <1>1 DEF Prepare
<1>2. CASE Recheck
  BY <1>2 DEF Recheck, StartRollback
<1>3. CASE Park
  BY <1>3 DEF Park, StartRollback
<1>4. CASE Install
  BY <1>4 DEF Install, CommitNext
<1>5. CASE Withdraw
  BY <1>5 DEF Withdraw
<1>6. CASE Unpark
  BY <1>6 DEF Unpark, PutBack
<1>7. CASE Probe
  BY <1>7 DEF Probe, RollbackNext, Present
<1>8. CASE Clear
  BY <1>8 DEF Clear, Present
<1>9. CASE Restore
  BY <1>9 DEF Restore, PutBack, RollbackNext
<1>10. CASE Discard
  BY <1>10 DEF Discard
<1>11. QED
  BY <1>1, <1>2, <1>3, <1>4, <1>5, <1>6, <1>7, <1>8, <1>9, <1>10 DEF Transaction

\* No step destroys the last copy of the original bytes of a file.
LEMMA RecoverableStep ==
  ASSUME TypeOK, JournalUse, JournalHolds, FileHolds, Recoverable, TypeOK',
         ~ProbeFaults, Transaction
  PROVE  Recoverable'
<1> USE PlanAssumption DEF Running, Goto, Return, env, Here, Missing, Item,
        TypeOK, JournalUse, JournalHolds, FileHolds, Recoverable, Committing,
        RollingBack, Label, Untouched, PastCommit
<1>1. CASE Prepare
  BY <1>1 DEF Prepare
<1>2. CASE Recheck
  BY <1>2 DEF Recheck, StartRollback
<1>3. CASE Park
  BY <1>3 DEF Park, StartRollback
<1>4. CASE Install
  BY <1>4 DEF Install, CommitNext
<1>5. CASE Withdraw
  BY <1>5 DEF Withdraw
<1>6. CASE Unpark
  BY <1>6 DEF Unpark, PutBack
<1>7. CASE Probe
  BY <1>7 DEF Probe, RollbackNext, Present
<1>8. CASE Clear
  BY <1>8 DEF Clear, Present
<1>9. CASE Restore
  BY <1>9 DEF Restore, PutBack, RollbackNext
<1>10. CASE Discard
  BY <1>10 DEF Discard
<1>11. QED
  BY <1>1, <1>2, <1>3, <1>4, <1>5, <1>6, <1>7, <1>8, <1>9, <1>10 DEF Transaction

-----------------------------------------------------------------------------
(* The theorems *)

\* Another program's change of a file disturbs no conjunct: the file is no
\* longer Untouched, and its edit is clear only when the file is not held.
LEMMA MeddleStep ==
  ASSUME Inductive, TypeOK', NEW q \in Path, Meddle(q)
  PROVE  Inductive'
<1> USE DEF Inductive, Meddle
<1>1. JournalUse' /\ OutcomeAt'
  BY DEF JournalUse, OutcomeAt, PastCommit
<1>2. JournalHolds'
  BY PlanAssumption DEF JournalHolds, Untouched, TypeOK, Item
<1>3. FileHolds'
  BY DEF FileHolds, Untouched, TypeOK, PastCommit
<1>4. ClearHolds'
  BY DEF ClearHolds, Held, TypeOK
<1>5. Installed'
  BY PlanAssumption DEF Installed, Untouched, TypeOK, Item
<1>6. Recoverable'
  BY DEF Recoverable, Untouched, TypeOK, PastCommit
<1>7. QED
  BY <1>1, <1>2, <1>3, <1>4, <1>5, <1>6

LEMMA InductiveStep ==
  ASSUME Inductive, ~ProbeFaults, [Next]_vars
  PROVE  Inductive'
<1>1. TypeOK'
  BY NextTyped DEF Inductive
<1>2. CASE Transaction
  BY <1>1, <1>2, JournalUseStep, JournalHoldsStep, FileHoldsStep, ClearHoldsStep,
     InstalledStep, OutcomeAtStep, RecoverableStep DEF Inductive
<1>3. ASSUME NEW p \in Path, Meddle(p)
      PROVE  Inductive'
  BY <1>1, <1>3, MeddleStep
<1>4. CASE Crash
  BY <1>1, <1>4 DEF Inductive, Crash, env, JournalUse, JournalHolds,
     FileHolds, ClearHolds, Held, Installed, OutcomeAt, Recoverable, Untouched,
     PastCommit
<1>5. CASE UNCHANGED vars
  BY <1>1, <1>5 DEF Inductive, vars, JournalUse, JournalHolds, FileHolds,
     ClearHolds, Held, Installed, OutcomeAt, Recoverable, Untouched, PastCommit
<1>6. QED
  BY <1>2, <1>3, <1>4, <1>5 DEF Next, Returned

LEMMA InductiveInit == Init => Inductive
<1> SUFFICES ASSUME Init PROVE Inductive
  OBVIOUS
<1>1. TypeOK
  BY PlanAssumption, BoundAssumption
  DEF Init, TypeOK, Content, Label, Outcome, Item
<1>2. JournalUse /\ JournalHolds /\ FileHolds /\ ClearHolds
  BY PlanAssumption DEF Init, JournalUse, JournalHolds, FileHolds, ClearHolds,
     Untouched, PastCommit, Item, Held, Committing, RollingBack
<1>3. Installed /\ OutcomeAt /\ Recoverable
  BY DEF Init, Installed, OutcomeAt, Recoverable, Untouched
<1>4. QED
  BY <1>1, <1>2, <1>3 DEF Inductive

\* The inductive invariant of the transaction: which rollback files are in use
\* and what they and the files hold at each system call of apply_transaction,
\* for a file system whose lstat finds every file that is there.
THEOREM InductiveCorrect ==
  ASSUME ~ProbeFaults
  PROVE  Spec => []Inductive
<1>1. Inductive /\ [Next]_vars => Inductive'
  BY InductiveStep
<1>2. QED
  BY <1>1, InductiveInit, PTL DEF Spec

\* The original bytes of every file survive every failure and every kill until
\* the replacements of all plans are installed (atomic.rs:62).
THEOREM RecoverableCorrect ==
  ASSUME ~ProbeFaults
  PROVE  Spec => []Recoverable
<1>1. Inductive => Recoverable
  BY DEF Inductive
<1>2. QED
  BY <1>1, InductiveCorrect, PTL

LEMMA InductiveHonest == Inductive => OutcomeHonest
<1> SUFFICES ASSUME Inductive PROVE OutcomeHonest
  OBVIOUS
<1> USE DEF Inductive, OutcomeAt, FileHolds, Recoverable, PastCommit, RollingBack
<1>1. outcome = "rolled_back" =>
        \A p \in Path : Untouched(p) => file[p] = "original"
  OBVIOUS
<1>2. outcome = "refused" =>
        \A p \in Path : Untouched(p) => file[p] = "original"
  OBVIOUS
<1>3. outcome \in {"ok", "cleanup_failed"} =>
        \A p \in Path : Untouched(p) => file[p] = "replacement"
  OBVIOUS
<1>4. QED
  BY <1>1, <1>2, <1>3 DEF OutcomeHonest

\* What apply_transaction returns is what it did to the files nobody else
\* changed (atomic.rs:27-98).
THEOREM OutcomeHonestCorrect ==
  ASSUME ~ProbeFaults
  PROVE  Spec => []OutcomeHonest
<1>1. QED
  BY InductiveHonest, InductiveCorrect, PTL

LEMMA LeftoverKeptStep ==
  ASSUME Inductive, [Next]_vars, NEW i \in Item, journal[i] = "leftover"
  PROVE  journal'[i] = "leftover"
<1>1. pc = "prepare"
  BY DEF Inductive, JournalHolds
<1>2. Transaction => journal' = journal
  BY <1>1 DEF Transaction, Prepare, Recheck, Park, Install, Withdraw, Unpark,
     Probe, Clear, Restore, Discard, Running
<1>3. QED
  BY <1>2 DEF Next, Meddle, Crash, Returned, vars

\* The rollback file of an interrupted run is never replaced or deleted: Claim
\* refuses it before anything is modified (atomic.rs:61-68).
THEOREM LeftoverKeptCorrect ==
  ASSUME ~ProbeFaults
  PROVE  Spec => LeftoverKept
<1>1. Inductive /\ [Next]_vars =>
        [\A i \in Item : journal[i] = "leftover" => journal'[i] = "leftover"]_vars
  BY LeftoverKeptStep
<1>2. QED
  BY <1>1, InductiveCorrect, PTL DEF Spec, LeftoverKept

\* A path the transaction changes is one it is holding.
LEMMA HeldWhenChanged ==
  ASSUME Inductive, Transaction, NEW p \in Path, file'[p] # file[p]
  PROVE  Held(p)
<1> USE PlanAssumption DEF Inductive, TypeOK, JournalUse, Held, Running,
        Committing, RollingBack, Item
<1>1. CASE Prepare \/ Recheck \/ Park
  BY <1>1 DEF Prepare, Recheck, Park, StartRollback
<1>2. CASE Install \/ Withdraw \/ Unpark
  BY <1>2 DEF Install, Withdraw, Unpark, PutBack
<1>3. CASE Probe \/ Clear \/ Restore \/ Discard
  BY <1>3 DEF Probe, Clear, Restore, PutBack, Discard
<1>4. QED
  BY <1>1, <1>2, <1>3 DEF Transaction

LEMMA ClearEditKeptStep ==
  ASSUME Inductive, [Next]_vars, NEW p \in Path, edit[p] = "clear",
         meddles' = meddles
  PROVE  file'[p] = file[p]
<1>1. ~Held(p)
  BY DEF Inductive, ClearHolds
<1>2. CASE Transaction
  BY <1>1, <1>2, HeldWhenChanged
<1>3. ~ \E q \in Path : Meddle(q)
  BY DEF Meddle, Inductive, TypeOK
<1>4. QED
  BY <1>2, <1>3 DEF Next, Crash, Returned, vars

\* What another program wrote or deleted before the recheck of the file is
\* still there when the transaction returns (atomic.rs:103-110).
THEOREM ClearEditKeptCorrect ==
  ASSUME ~ProbeFaults
  PROVE  Spec => ClearEditKept
<1>1. Inductive /\ [Next]_vars =>
        [\A p \in Path :
           edit[p] = "clear" /\ meddles' = meddles => file'[p] = file[p]]_vars
  BY ClearEditKeptStep
<1>2. QED
  BY <1>1, InductiveCorrect, PTL DEF Spec, ClearEditKept

-----------------------------------------------------------------------------
(* Refinement: on the files nobody else changes, the transaction is one     *)
(* step.                                                                   *)

Alone == \A p \in Path : Untouched(p)

\* What a caller can get back of a file nobody else changed is what it held before
\* the run, until the last plan is committed, and its replacement afterwards.
LEMMA RecoveredFile ==
  ASSUME Inductive, NEW p \in Path, Untouched(p)
  PROVE  Recovered(p) = IF PastCommit THEN "replacement" ELSE "original"
<1> DEFINE parked == {i \in Item : Plan[i] = p /\ journal[i] # "absent"}
<1>2. CASE PastCommit
  BY <1>2 DEF Inductive, FileHolds, Recovered, PastCommit,
     Committing, RollingBack
<1>3. CASE pc = "prepare"
  BY <1>3 DEF Inductive, FileHolds, Recovered, PastCommit,
     Committing, RollingBack
<1>4. CASE pc \in Committing \cup RollingBack
  <2>1. ~PastCommit /\ pc # "prepare"
    BY <1>4 DEF PastCommit, Committing, RollingBack
  <2>2. CASE parked = {}
    <3>1. Recovered(p) = file[p]
      BY <2>2 DEF Recovered
    <3>2. QED
      BY <2>1, <2>2, <3>1 DEF Inductive, Recoverable
  <2>3. CASE parked # {}
    <3>1. (CHOOSE i \in parked : TRUE) \in parked
      BY <2>3
    <3>2. \A i \in parked : journal[i] = "original"
      BY <2>1 DEF Inductive, JournalHolds
    <3>3. Recovered(p) = journal[CHOOSE i \in parked : TRUE]
      BY <1>4, <2>3 DEF Recovered
    <3>4. QED
      BY <2>1, <3>1, <3>2, <3>3
  <2>4. QED
    BY <2>2, <2>3
<1>5. QED
  BY <1>2, <1>3, <1>4 DEF Inductive, TypeOK, PastCommit, Label

\* The tree AllOrNothing is given, and what it comes to: only who else changed a file
\* and whether the last plan is committed decide it.
MappedTree == [p \in Path |-> IF Untouched(p) THEN Recovered(p) ELSE "foreign"]
PlainTree == [p \in Path |-> IF ~Untouched(p) THEN "foreign"
                             ELSE IF PastCommit THEN "replacement" ELSE "original"]

LEMMA RecoveredTree == ASSUME Inductive PROVE MappedTree = PlainTree
BY RecoveredFile DEF MappedTree, PlainTree

\* Other programs change files only while the transaction takes no step.
LEMMA WhoMeddles ==
  ASSUME TypeOK, [Next]_vars
  PROVE  \/ edit' = edit
         \/ /\ UNCHANGED <<pc, outcome>>
            /\ \E p \in Path : edit' = [edit EXCEPT ![p] = edit'[p]] /\ edit'[p] # "none"
<1>1. CASE Transaction
  BY <1>1, BudgetTyped
<1>2. ASSUME NEW p \in Path, Meddle(p)
      PROVE  /\ UNCHANGED <<pc, outcome>>
             /\ edit' = [edit EXCEPT ![p] = edit'[p]] /\ edit'[p] # "none"
  BY <1>2 DEF Meddle, TypeOK
<1>3. QED
  BY <1>1, <1>2 DEF Next, Crash, Returned, vars, env

\* Steps of the transaction on the abstract state: only the last Sync of the
\* commit changes the tree, and only a return changes the verdict.
LEMMA ControlMaps ==
  ASSUME Inductive, [Next]_vars
  PROVE  /\ \/ PastCommit' <=> PastCommit
            \/ PastCommit' /\ ~PastCommit /\ outcome' = outcome /\ outcome = "running"
         /\ outcome' # outcome => outcome = "running"
         /\ outcome' # outcome => (PastCommit' <=> PastCommit)
<1> USE DEF Running, Goto, Return, PastCommit
<1>1. CASE Prepare \/ Recheck \/ Park
  BY <1>1 DEF Prepare, Recheck, Park, StartRollback
<1>2. CASE Install \/ Withdraw \/ Unpark
  BY <1>2 DEF Install, CommitNext, Withdraw, Unpark
<1>3. CASE Probe \/ Clear \/ Restore \/ Discard
  BY <1>3 DEF Probe, Clear, Restore, Discard, RollbackNext
<1>4. QED
  BY <1>1, <1>2, <1>3 DEF Next, Transaction, Meddle, Crash, Returned, vars

\* apply_transaction implements the all-or-nothing step its callers rely on (cli.rs:960,
\* git.rs:393), whatever calls fail, wherever it is killed and whatever other programs do
\* to the files meanwhile.
THEOREM TransactionIsAllOrNothing ==
  ASSUME ~ProbeFaults
  PROVE  Spec => ImplementsAllOrNothing
<1>1. Init => Inductive
  BY InductiveInit
<1>2. Inductive /\ [Next]_vars => Inductive'
  BY InductiveStep DEF Inductive
<1>3. Inductive => MappedTree = PlainTree
  BY RecoveredTree
<1>4. (Inductive => MappedTree = PlainTree)'
  BY <1>3, PTL
<1>5. Init => Abstract!Init
  <2> SUFFICES ASSUME Init PROVE Abstract!Init
    OBVIOUS
  <2>1. ~PastCommit /\ Verdict = "pending" /\ \A p \in Path : Untouched(p)
    BY DEF Init, PastCommit, Verdict, Untouched
  <2>2. MappedTree = [p \in Path |-> "original"]
    BY <1>1, <1>3, <2>1 DEF PlainTree
  <2>3. QED
    BY <2>1, <2>2 DEF Abstract!Init, MappedTree
<1>6. Inductive /\ Inductive' /\ [Next]_vars => [Abstract!Next]_(Abstract!vars)
  <2> SUFFICES ASSUME Inductive, Inductive', [Next]_vars
               PROVE  [Abstract!Next]_(Abstract!vars)
    OBVIOUS
  <2>1. MappedTree = PlainTree
    BY <1>3
  <2>2. MappedTree' = PlainTree'
    BY <1>4
  <2>3. CASE edit' # edit
    <3>1. UNCHANGED <<pc, outcome>>
      BY <2>3, WhoMeddles DEF Inductive
    <3>2. PICK p \in Path : edit' = [edit EXCEPT ![p] = edit'[p]] /\ edit'[p] # "none"
      BY <2>3, WhoMeddles DEF Inductive
    <3>3. \A q \in Path : Untouched(q)' <=> (q # p /\ Untouched(q))
      BY <3>2 DEF Untouched, Inductive, TypeOK
    <3>4. PastCommit' <=> PastCommit
      BY <3>1 DEF PastCommit
    <3>5. PlainTree' = [PlainTree EXCEPT ![p] = "foreign"]
      BY <3>3, <3>4 DEF PlainTree
    <3>6. Verdict' = Verdict
      BY <3>1 DEF Verdict
    <3>7. Abstract!Disturb(p)
      BY <2>1, <2>2, <3>5, <3>6 DEF Abstract!Disturb, MappedTree
    <3>8. QED
      BY <3>7 DEF Abstract!Next
  <2>4. CASE edit' = edit /\ outcome' = outcome
    <3>1. Verdict' = Verdict
      BY <2>4 DEF Verdict
    <3>2. \A q \in Path : Untouched(q)' <=> Untouched(q)
      BY <2>4 DEF Untouched
    <3>3. CASE PastCommit' <=> PastCommit
      <4>1. PlainTree' = PlainTree
        BY <3>2, <3>3 DEF PlainTree
      <4>2. QED
        BY <2>1, <2>2, <3>1, <4>1 DEF Abstract!vars, MappedTree
    <3>4. CASE PastCommit' /\ ~PastCommit /\ outcome = "running"
      <4>1. Verdict = "pending"
        BY <3>4 DEF Verdict
      <4>2. \A p \in Path : PlainTree[p] \in {"original", "foreign"}
        BY <3>4 DEF PlainTree
      <4>3. PlainTree' = [p \in Path |-> IF PlainTree[p] = "original" THEN "replacement"
                                         ELSE PlainTree[p]]
        BY <3>2, <3>4 DEF PlainTree
      <4>4. Abstract!Commit
        BY <2>1, <2>2, <3>1, <4>1, <4>2, <4>3 DEF Abstract!Commit, Abstract!Holds, MappedTree
      <4>5. QED
        BY <4>4 DEF Abstract!Next
    <3>5. QED
      BY <3>3, <3>4, ControlMaps
  <2>5. CASE edit' = edit /\ outcome' # outcome
    <3>1. outcome = "running" /\ (PastCommit' <=> PastCommit)
      BY <2>5, ControlMaps
    <3>2. PlainTree' = PlainTree
      BY <2>5, <3>1 DEF PlainTree, Untouched
    <3>3. outcome' \in {"ok", "cleanup_failed"} =>
            \A p \in Path : PlainTree[p] \in {"replacement", "foreign"}
      BY <3>1 DEF Inductive, OutcomeAt, PastCommit, PlainTree
    <3>4. outcome' \in {"refused", "rolled_back", "rollback_failed"} =>
            \A p \in Path : PlainTree[p] \in {"original", "foreign"}
      BY <3>1 DEF Inductive, OutcomeAt, PastCommit, RollingBack, PlainTree
    <3>5. outcome' \in Outcome \ {"running"}
      BY <2>5, <3>1 DEF Inductive, TypeOK
    <3>6. /\ Verdict = "pending"
          /\ \/ Verdict' = "applied" /\ outcome' \in {"ok", "cleanup_failed"}
             \/ Verdict' = "rejected" /\ outcome' \in {"refused", "rolled_back", "rollback_failed"}
             \/ Verdict' = "interrupted"
      BY <3>1, <3>5 DEF Verdict, Outcome
    <3>7. Abstract!Conclude
      BY <2>1, <2>2, <3>2, <3>3, <3>4, <3>6 DEF Abstract!Conclude, Abstract!Holds, MappedTree
    <3>8. QED
      BY <3>7 DEF Abstract!Next
  <2>6. QED
    BY <2>3, <2>4, <2>5
<1>7. QED
  BY <1>1, <1>2, <1>5, <1>6, PTL
  DEF Spec, ImplementsAllOrNothing, Abstract!Spec

-----------------------------------------------------------------------------
(* One failing call: where the calls that failed went.                      *)

\* With the files to itself and one plan for each, the transaction leaves the commit only
\* when a call failed, and its rollback only when another one did.
FaultsSpent ==
  DistinctFiles /\ Alone =>
    /\ pc \in {"recheck", "park", "install"} =>
         \A k \in Item : k > at \/ (k = at /\ pc # "install") => file[Plan[k]] = "original"
    /\ Running("clear") => Here # "absent"
    /\ pc \in {"withdraw", "unpark"} \cup RollingBack => faults < MaxFaults
    /\ outcome = "rollback_failed" => faults < MaxFaults - 1

\* A commit goes on to the next plan, or a call failed.
LEMMA CommitSpends ==
  ASSUME Inductive, FaultsSpent, ~ProbeFaults, Prepare \/ Recheck \/ Park \/ Install
  PROVE  FaultsSpent'
<1> USE PlanAssumption, BoundAssumption DEF Running, NoFault, Fault
<1>1. SUFFICES ASSUME DistinctFiles, Alone
               PROVE  /\ pc' \in {"recheck", "park", "install"} =>
                           \A k \in Item : k > at' \/ (k = at' /\ pc' # "install") =>
                             file'[Plan[k]] = "original"
                      /\ pc' \notin {"clear"}
                      /\ pc' \in {"withdraw", "unpark"} \cup RollingBack => faults' < MaxFaults
                      /\ outcome' # "rollback_failed"
  BY DEF FaultsSpent, Alone, Untouched, env, Prepare, Recheck, Park, Install
<1>2. TypeOK /\ outcome = "running" BY DEF Inductive, Prepare, Recheck, Park, Install
<1>3. \A p \in Path : Untouched(p) BY <1>1 DEF Alone
<1>4. CASE Prepare
  <2>1. \A k \in Item : file[Plan[k]] = "original"
    BY <1>3, <1>4 DEF Inductive, FileHolds, Prepare, Item
  <2>2. UNCHANGED file /\ pc' \in {"prepare", "recheck"} /\ outcome' \in {"running", "refused"}
    BY <1>2, <1>4 DEF Prepare, Return
  <2> QED BY <2>1, <2>2 DEF RollingBack
<1>5. CASE Recheck
  <2>1. Here = "original" BY <1>1, <1>2, <1>5 DEF FaultsSpent, Recheck, Here, TypeOK
  <2>2. /\ UNCHANGED <<file, at>> /\ outcome' = outcome
        /\ pc' = "park" \/ (pc' = "probe" /\ faults' < MaxFaults)
    BY <1>2, <1>5, <2>1 DEF Recheck, StartRollback, Goto, TypeOK
  <2> QED BY <1>1, <1>2, <1>5, <2>2 DEF FaultsSpent, RollingBack, Recheck
<1>6. CASE Park
  <2>1. Here = "original" BY <1>1, <1>2, <1>6 DEF FaultsSpent, Park, Here, TypeOK
  <2>2. /\ UNCHANGED at /\ outcome' = outcome
        /\ \/ pc' = "probe" /\ faults' < MaxFaults
           \/ pc' = "install" /\ file' = [file EXCEPT ![Plan[at]] = "absent"]
    BY <1>2, <1>6, <2>1 DEF Park, StartRollback, Goto, TypeOK
  <2>3. \A k \in Item : k > at => file[Plan[k]] = "original" /\ Plan[k] # Plan[at]
    BY <1>1, <1>2, <1>6 DEF FaultsSpent, Park, DistinctFiles, TypeOK, Item
  <2> QED BY <1>2, <2>2, <2>3 DEF RollingBack, TypeOK, Item
<1>7. CASE Install
  <2>1. \A k \in Item : k > at => file[Plan[k]] = "original" /\ Plan[k] # Plan[at]
    BY <1>1, <1>2, <1>7 DEF FaultsSpent, Install, DistinctFiles, TypeOK, Item
  <2>2. /\ outcome' = outcome
        /\ \/ pc' \in {"withdraw", "unpark"} /\ faults' < MaxFaults
           \/ pc' = "recheck" /\ at' = at + 1 /\ file' = [file EXCEPT ![Plan[at]] = "replacement"]
           \/ pc' = "discard"
    BY <1>2, <1>7 DEF Install, CommitNext, TypeOK
  <2> QED BY <1>2, <2>1, <2>2 DEF RollingBack, TypeOK, Item
<1> QED BY <1>4, <1>5, <1>6, <1>7

\* A rollback begins with one call failed, and fails with another.
LEMMA RollbackSpends ==
  ASSUME Inductive, FaultsSpent, ~ProbeFaults,
         Withdraw \/ Unpark \/ Probe \/ Clear \/ Restore \/ Discard
  PROVE  FaultsSpent'
<1> USE PlanAssumption, BoundAssumption DEF Running, NoFault, Fault
<1>1. SUFFICES ASSUME DistinctFiles, Alone
               PROVE  /\ pc' \notin {"recheck", "park", "install"}
                      /\ pc' = "clear" => Here' # "absent" \/ outcome' # "running"
                      /\ pc' \in {"withdraw", "unpark"} \cup RollingBack => faults' < MaxFaults
                      /\ outcome' = "rollback_failed" => faults' < MaxFaults - 1
  BY DEF FaultsSpent, Alone, Untouched, env, Withdraw, Unpark, Probe, Clear, Restore, Discard
<1>2. TypeOK /\ outcome = "running"
  BY DEF Inductive, Withdraw, Unpark, Probe, Clear, Restore, Discard
<1>3. pc # "discard" => faults < MaxFaults
  BY <1>1 DEF FaultsSpent, RollingBack, Withdraw, Unpark, Probe, Clear, Restore, Discard
<1>4. CASE Withdraw \/ Unpark
  <2>1. pc' \in {"unpark", "probe"} /\ outcome' = outcome /\ faults' <= faults
    BY <1>2, <1>4 DEF Withdraw, Unpark, Goto, TypeOK
  <2> QED BY <1>2, <1>3, <1>4, <2>1 DEF Withdraw, Unpark, TypeOK
<1>5. CASE Probe
  <2>1. /\ pc' \in {"probe", "clear", "restore"} /\ outcome' \in {"running", "rolled_back"}
        /\ faults' = faults /\ (pc' = "clear" => Here' # "absent")
    BY <1>2, <1>5 DEF Probe, Missing, Present, RollbackNext, Goto, Return, Here
  <2> QED BY <1>2, <1>3, <1>5, <2>1 DEF Probe
<1>6. CASE Clear
  <2>1. Here # "absent" BY <1>1, <1>6 DEF FaultsSpent, Clear
  <2>2. \/ pc' = "restore" /\ outcome' = "running" /\ faults' = faults
        \/ pc' = "clear" /\ outcome' = "rollback_failed" /\ faults' = faults - 1
    BY <1>2, <1>6, <2>1 DEF Clear, Present, Goto, Return
  <2> QED BY <1>2, <1>3, <1>6, <2>2 DEF Clear, TypeOK
<1>7. CASE Restore
  <2>1. \/ pc' \in {"probe", "restore"} /\ outcome' \in {"running", "rolled_back"} /\ faults' = faults
        \/ pc' = "restore" /\ outcome' = "rollback_failed" /\ faults' = faults - 1
    BY <1>2, <1>7 DEF Restore, RollbackNext, Return
  <2> QED BY <1>2, <1>3, <1>7, <2>1 DEF Restore, TypeOK
<1>8. CASE Discard
  <2>1. pc' = "discard" /\ outcome' # "rollback_failed"
    BY <1>2, <1>8 DEF Discard, Return
  <2> QED BY <2>1 DEF RollingBack
<1> QED BY <1>4, <1>5, <1>6, <1>7, <1>8

\* Every other step leaves the count alone.
LEMMA FaultsSpentStep ==
  ASSUME Inductive, FaultsSpent, ~ProbeFaults, [Next]_vars
  PROVE  FaultsSpent'
<1>1. CASE Transaction
  BY <1>1, CommitSpends, RollbackSpends DEF Transaction
<1>2. ASSUME NEW p \in Path, Meddle(p) PROVE FaultsSpent'
  <2>1. edit'[p] # "none" BY <1>2 DEF Meddle, Inductive, TypeOK
  <2> QED BY <2>1 DEF FaultsSpent, Alone, Untouched
<1>3. CASE Crash
  BY <1>3 DEF Crash, FaultsSpent, Alone, Untouched, env, Running, Here
<1>4. CASE UNCHANGED vars
  BY <1>4 DEF vars, FaultsSpent, Alone, Untouched, Running, Here
<1> QED BY <1>1, <1>2, <1>3, <1>4 DEF Next, Returned

\* One failing call, whichever it is, never leaves files half rewritten: it is the one
\* that starts the rollback, and then no call of the rollback fails.
THEOREM OneFaultAtomicCorrect ==
  ASSUME ~ProbeFaults
  PROVE  Spec => []OneFaultAtomic
<1>1. Init => FaultsSpent
  BY DEF Init, FaultsSpent, RollingBack, Running
<1>2. Inductive /\ FaultsSpent /\ [Next]_vars => FaultsSpent'
  BY FaultsSpentStep
<1>3. ASSUME Inductive, FaultsSpent PROVE OneFaultAtomic
  <2>1. SUFFICES ASSUME DistinctFiles, MaxFaults - faults <= 1, \A p \in Path : Untouched(p),
                        outcome \notin {"running", "crashed"}
                 PROVE  \/ \A p \in Path : file[p] = "original"
                        \/ \A p \in Path : file[p] = "replacement"
    BY DEF OneFaultAtomic
  <2>2. outcome # "rollback_failed"
    BY <1>3, <2>1, BoundAssumption DEF FaultsSpent, Alone, Inductive, TypeOK
  <2>3. outcome \in {"ok", "refused", "rolled_back", "cleanup_failed"}
    BY <1>3, <2>1, <2>2 DEF Inductive, TypeOK, Outcome
  <2> QED BY <1>3, <2>1, <2>3, InductiveHonest DEF OutcomeHonest
<1> QED BY <1>1, <1>2, <1>3, InductiveCorrect, PTL DEF Spec
=============================================================================
