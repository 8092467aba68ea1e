---------------------------- MODULE AtomicTransaction ----------------------------
(***************************************************************************)
(* The rewrite transaction of rust/ocomment/src/atomic.rs.                 *)
(*                                                                         *)
(* apply_transaction prepares every write plan it is given (re-read the    *)
(* file, stage the replacement in a temporary file beside it, claim a      *)
(* rollback path), commits them one after the other (park the file at its  *)
(* rollback path, install the replacement), and rolls every committed plan *)
(* back when one fails.  When all are committed it removes the rollback    *)
(* files.                                                                  *)
(*                                                                         *)
(* One step is one system call that changes a file other programs see.     *)
(* A call that only reads is a step of its own when the code acts on what  *)
(* it read; the preparation of one plan changes nothing but the temporary  *)
(* file and is one step; an fsync is part of the step before it.  In       *)
(* between, other programs change the same files, every call can fail, and *)
(* the process can be killed.                                              *)
(***************************************************************************)
EXTENDS Integers

CONSTANTS
  Path,         \* the files the plans name
  N,            \* the number of plans
  Plan,         \* Plan[i] is the path of plan i; two plans may name one file
                \* by two spellings, since files.rs:383 compares spellings
  MaxFaults,    \* bound: the system calls that may fail in a run
  MaxMeddles,   \* bound: the changes other programs may make
  ProbeFaults   \* whether symlink_metadata(..).is_ok() may report a file
                \* that is there as missing (the call failed)

Item == 1..N

ASSUME PlanAssumption ==
  /\ N \in Nat \ {0}
  /\ Plan \in [Item -> Path]
  /\ \A p \in Path : \E i \in Item : Plan[i] = p

ASSUME BoundAssumption ==
  /\ MaxFaults \in Nat
  /\ MaxMeddles \in Nat
  /\ ProbeFaults \in BOOLEAN

\* What a directory entry can hold, as far as the code tells it apart.  A plan
\* exists only for a file whose replacement differs from it (cli.rs:953).
Content == {"absent", "original", "replacement", "foreign", "link", "leftover"}

Committing  == {"recheck", "park", "install", "withdraw", "unpark"}
RollingBack == {"probe", "clear", "restore"}
Label       == {"prepare", "discard"} \cup Committing \cup RollingBack

Outcome == {"running", "ok", "refused", "rolled_back", "rollback_failed",
            "cleanup_failed", "crashed"}

VARIABLES
  file,      \* what each path holds
  journal,   \* what the rollback path of each plan holds
  temp,      \* the plans whose temporary file is on disk
  pc,        \* what the transaction does next
  at,        \* the plan it does it for
  outcome,   \* "running", then what apply_transaction returned
  faults,    \* system calls that may still fail
  meddles,   \* changes other programs may still make
  edit       \* history: when another program last changed each path

vars == <<file, journal, temp, pc, at, outcome, faults, meddles, edit>>
env  == <<meddles, edit>>

TypeOK ==
  /\ file \in [Path -> Content]
  /\ journal \in [Item -> Content]
  /\ temp \in SUBSET Item
  /\ pc \in Label
  /\ at \in Item
  /\ outcome \in Outcome
  /\ faults \in 0..MaxFaults
  /\ meddles \in 0..MaxMeddles
  /\ edit \in [Path -> {"none", "clear", "racing"}]

\* The rollback path carries the process id, so a file an interrupted run left
\* behind is in the way only when the id is used again: "leftover".
Init ==
  /\ file = [p \in Path |-> "original"]
  /\ journal \in [Item -> {"absent", "leftover"}]
  /\ temp = {}
  /\ pc = "prepare" /\ at = 1
  /\ outcome = "running"
  /\ faults = MaxFaults
  /\ meddles = MaxMeddles
  /\ edit = [p \in Path |-> "none"]

-----------------------------------------------------------------------------
Here == file[Plan[at]]

Running(label) == outcome = "running" /\ pc = label

NoFault == UNCHANGED faults
Fault   == faults > 0 /\ faults' = faults - 1

\* A call that is asked whether a file is there: a failure reads as "no".
Present(c) == c # "absent" /\ NoFault
Missing(c) == (c = "absent" /\ NoFault) \/ (ProbeFaults /\ Fault)

Goto(label) == pc' = label /\ UNCHANGED <<at, outcome, temp>>

\* Returning drops `prepared`, and each TempPath deletes its file when dropped.
Return(verdict) == outcome' = verdict /\ temp' = {} /\ UNCHANGED <<pc, at>>

-----------------------------------------------------------------------------
(* Preparation of one plan: lines 29 to 73. *)

\* Mutant of Prepare: the rollback path is taken without looking.
PrepareUnseen ==
  /\ Running("prepare")
  /\ \/ /\ Here = "original" /\ NoFault
        /\ temp' = temp \cup {at}
        /\ IF at < N THEN at' = at + 1 /\ UNCHANGED pc ELSE at' = 1 /\ pc' = "recheck"
        /\ UNCHANGED outcome
     \/ ((Here # "original" /\ NoFault) \/ Fault) /\ Return("refused")
  /\ UNCHANGED <<file, journal, env>>

\* The path must be an ordinary file with the bytes the plan was made from, and
\* the rollback path must be free.
Prepare ==
  /\ Running("prepare")
  /\ \/ /\ Here = "original"
        /\ Missing(journal[at])
        /\ temp' = temp \cup {at}
        /\ IF at < N THEN at' = at + 1 /\ UNCHANGED pc ELSE at' = 1 /\ pc' = "recheck"
        /\ UNCHANGED outcome
     \/ (Here # "original" \/ journal[at] # "absent") /\ NoFault /\ Return("refused")
     \/ Fault /\ Return("refused")
  /\ UNCHANGED <<file, journal, env>>

-----------------------------------------------------------------------------
(* Commit of one plan: commit_one, lines 101 to 128.  Its error reaches     *)
(* line 80: roll back plans at, at - 1, ..., 1.                             *)

StartRollback == Goto("probe") /\ UNCHANGED <<file, journal>>

\* Mutant of Recheck: the file is read but not compared.
RecheckUncompared ==
  /\ Running("recheck")
  /\ NoFault
  /\ Goto(IF Here # "absent" THEN "park" ELSE "probe")
  /\ UNCHANGED <<file, journal, env>>

\* Mutant of Recheck: compared with the replacement instead of the original.
RecheckSwapped ==
  /\ Running("recheck")
  /\ NoFault
  /\ Goto(IF Here = "replacement" THEN "park" ELSE "probe")
  /\ UNCHANGED <<file, journal, env>>

\* reject_symlink and the comparison with the plan, once more.
Recheck ==
  /\ Running("recheck")
  /\ \/ Here = "original" /\ NoFault /\ Goto("park") /\ UNCHANGED <<file, journal>>
     \/ Here # "original" /\ NoFault /\ StartRollback
     \/ Fault /\ StartRollback
  /\ UNCHANGED env

\* fs::rename(path, backup) moves whatever is at the path by now.
Park ==
  /\ Running("park")
  /\ \/ /\ Here # "absent" /\ NoFault
        /\ journal' = [journal EXCEPT ![at] = Here]
        /\ file' = [file EXCEPT ![Plan[at]] = "absent"]
        /\ Goto("install")
     \/ Here = "absent" /\ NoFault /\ StartRollback
     \/ Fault /\ StartRollback
  /\ UNCHANGED env

\* After a plan comes the next one, after the last one the clean-up.
CommitNext ==
  /\ IF at < N THEN at' = at + 1 /\ pc' = "recheck" ELSE at' = 1 /\ pc' = "discard"
  /\ UNCHANGED outcome

\* Mutant of Install: each rollback file is removed as soon as its plan is
\* committed, instead of after all of them.
InstallDiscards ==
  /\ Running("install")
  /\ temp' = temp \ {at}
  /\ \/ /\ file' = [file EXCEPT ![Plan[at]] = "replacement"]
        /\ journal' = [journal EXCEPT ![at] = "absent"]
        /\ NoFault /\ CommitNext
     \/ Fault /\ pc' = "unpark" /\ UNCHANGED <<file, journal, at, outcome>>
  /\ UNCHANGED env

\* temporary.persist(path) replaces whatever is at the path by now, and the
\* directory is synced; when either fails the plan is undone.
Install ==
  /\ Running("install")
  /\ temp' = temp \ {at}
  /\ \/ /\ file' = [file EXCEPT ![Plan[at]] = "replacement"]
        /\ \/ NoFault /\ CommitNext
           \/ Fault /\ pc' = "withdraw" /\ UNCHANGED <<at, outcome>>
     \/ Fault /\ pc' = "unpark" /\ UNCHANGED <<file, at, outcome>>
  /\ UNCHANGED <<journal, env>>

\* let _ = fs::remove_file(path): a failure is ignored.
Withdraw ==
  /\ Running("withdraw")
  /\ \/ NoFault /\ file' = [file EXCEPT ![Plan[at]] = "absent"]
     \/ Fault /\ UNCHANGED file
  /\ Goto("unpark")
  /\ UNCHANGED <<journal, env>>

\* fs::rename(backup, path) replaces whatever is at the path by now.
PutBack ==
  /\ file' = [file EXCEPT ![Plan[at]] = journal[at]]
  /\ journal' = [journal EXCEPT ![at] = "absent"]

\* Mutant of Unpark: the rollback leaves the failing plan out, as it would with
\* prepared[..index] at line 80.
UnparkLeftOut ==
  /\ Running("unpark")
  /\ \/ NoFault /\ PutBack
     \/ Fault /\ UNCHANGED <<file, journal>>
  /\ IF at > 1 THEN pc' = "probe" /\ at' = at - 1 /\ UNCHANGED <<outcome, temp>>
               ELSE Return("rolled_back")
  /\ UNCHANGED env

\* let _ = fs::rename(backup, path): a failure is ignored, and the rollback
\* that follows tries again.
Unpark ==
  /\ Running("unpark")
  /\ \/ NoFault /\ PutBack
     \/ Fault /\ UNCHANGED <<file, journal>>
  /\ Goto("probe")
  /\ UNCHANGED env

-----------------------------------------------------------------------------
(* Rollback, lines 130 to 141: in reverse, from the failing plan. *)

\* Mutant of RollbackNext: only the failing plan is rolled back.
RollbackStops == Return("rolled_back")

RollbackNext ==
  IF at > 1
  THEN pc' = "probe" /\ at' = at - 1 /\ UNCHANGED <<outcome, temp>>
  ELSE Return("rolled_back")

\* Is there a rollback file, and if so, is there a file to remove first?
Probe ==
  /\ Running("probe")
  /\ \/ Missing(journal[at]) /\ RollbackNext
     \/ journal[at] # "absent" /\ Present(Here) /\ Goto("clear")
     \/ journal[at] # "absent" /\ Missing(Here) /\ Goto("restore")
  /\ UNCHANGED <<file, journal, env>>

Clear ==
  /\ Running("clear")
  /\ \/ /\ Present(Here)
        /\ file' = [file EXCEPT ![Plan[at]] = "absent"]
        /\ Goto("restore")
     \/ /\ (Here = "absent" /\ NoFault) \/ Fault
        /\ Return("rollback_failed")
        /\ UNCHANGED file
  /\ UNCHANGED <<journal, env>>

\* The rename, then the sync of the directory.
Restore ==
  /\ Running("restore")
  /\ \/ PutBack /\ NoFault /\ RollbackNext
     \/ PutBack /\ Fault /\ Return("rollback_failed")
     \/ Fault /\ Return("rollback_failed") /\ UNCHANGED <<file, journal>>
  /\ UNCHANGED env

-----------------------------------------------------------------------------
(* Clean-up, lines 93 to 98: every plan is committed. *)

\* Remove one rollback file, then sync the directory.
Discard ==
  /\ Running("discard")
  /\ \/ /\ journal' = [journal EXCEPT ![at] = "absent"]
        /\ \/ /\ NoFault
              /\ IF at < N THEN at' = at + 1 /\ UNCHANGED <<pc, outcome, temp>>
                           ELSE Return("ok")
           \/ Fault /\ Return("cleanup_failed")
     \/ Fault /\ Return("cleanup_failed") /\ UNCHANGED journal
  /\ UNCHANGED <<file, env>>

-----------------------------------------------------------------------------
(* The environment *)

\* The transaction holds a file from its recheck on, for as long as there is a
\* rollback file for it that a rollback would put back.
Held(p) ==
  \/ pc = "park" /\ Plan[at] = p
  \/ /\ pc \in Committing \cup RollingBack
     /\ \E i \in Item : Plan[i] = p /\ journal[i] # "absent"

\* Another program writes, deletes, restores or links a planned file.  The edit
\* is "clear" when it is one the next recheck must notice.
Meddle(p) ==
  /\ outcome = "running"
  /\ meddles > 0
  /\ \E c \in {"absent", "original", "foreign", "link"} :
       /\ file' = [file EXCEPT ![p] = c]
       /\ edit' = [edit EXCEPT ![p] =
                     IF ~Held(p) /\ c # "original" THEN "clear" ELSE "racing"]
  /\ meddles' = meddles - 1
  /\ UNCHANGED <<journal, temp, pc, at, outcome, faults>>

\* The process is killed: no destructor runs, so temporary files stay.
Crash ==
  /\ outcome = "running"
  /\ outcome' = "crashed"
  /\ UNCHANGED <<file, journal, temp, pc, at, faults, env>>

Returned == outcome # "running" /\ UNCHANGED vars

Transaction ==
  \/ Prepare
  \/ Recheck \/ Park \/ Install \/ Withdraw \/ Unpark
  \/ Probe \/ Clear \/ Restore
  \/ Discard

Next ==
  \/ Transaction
  \/ \E p \in Path : Meddle(p)
  \/ Crash
  \/ Returned

Spec == Init /\ [][Next]_vars

\* The transaction is a straight-line program: it keeps making its next call.
FairSpec == Spec /\ WF_vars(Transaction)

-----------------------------------------------------------------------------
(* Properties *)

Untouched(p) == edit[p] = "none"

\* Every plan is committed: the point of no return of the transaction.
PastCommit == pc = "discard"

\* Wherever the process is killed and whatever fails, the bytes a file had when
\* the run started are at its path or in a rollback file beside it, until the
\* replacements of all plans are installed (atomic.rs:62, the INVARIANT note).
Recoverable ==
  \A p \in Path : Untouched(p) =>
    \/ file[p] = "original"
    \/ \E i \in Item : Plan[i] = p /\ journal[i] = "original"
    \/ PastCommit /\ file[p] = "replacement"

\* What apply_transaction reports is what it did: success means every file is
\* replaced and nothing is left behind, a refusal or "was rolled back" means
\* that no file differs and nothing is left behind, a failing clean-up means
\* that every file is replaced (atomic.rs:27-98).
OutcomeHonest ==
  LET files(c) == \A p \in Path : Untouched(p) => file[p] = c
      noJournal == \A i \in Item : journal[i] = "absent"
  IN  /\ outcome = "ok" => files("replacement") /\ noJournal /\ temp = {}
      /\ outcome = "refused" => files("original") /\ temp = {}
      /\ outcome = "rolled_back" => files("original") /\ noJournal /\ temp = {}
      /\ outcome = "cleanup_failed" => files("replacement")

-----------------------------------------------------------------------------
(* The inductive invariant behind Recoverable and OutcomeHonest.           *)

\* Which rollback files are in use at each point of the program.
JournalUse ==
  outcome = "running" =>
    \A k \in Item :
      /\ pc \in {"prepare", "discard"} /\ k < at => journal[k] = "absent"
      /\ pc \in {"recheck", "park"} /\ k >= at => journal[k] = "absent"
      /\ pc \in Committing \cup RollingBack /\ k > at => journal[k] = "absent"
      /\ pc \in {"install", "withdraw", "unpark", "clear", "restore"} =>
           journal[at] # "absent"

\* Past the preparation no rollback file is an earlier run's, and a file only
\* the transaction has changed is parked unchanged.
JournalHolds ==
  pc # "prepare" =>
    \A k \in Item :
      /\ journal[k] # "leftover"
      /\ Untouched(Plan[k]) => journal[k] \in {"absent", "original"}

\* What a file only the transaction has changed can be at each point.
FileHolds ==
  \A p \in Path :
    /\ file[p] # "leftover"
    /\ Untouched(p) =>
         /\ file[p] \in {"original", "absent", "replacement"}
         /\ pc = "prepare" => file[p] = "original"
         /\ pc = "park" /\ p = Plan[at] => file[p] = "original"
         /\ PastCommit => file[p] = "replacement"

\* A clear edit is still at its path, and the transaction is not holding it.
ClearHolds ==
  \A p \in Path :
    edit[p] = "clear" => file[p] \in {"absent", "foreign", "link"} /\ ~Held(p)

\* The plans before the one being committed are installed.
Installed ==
  pc \in {"recheck", "park", "install"} =>
    \A k \in Item :
      k < at /\ Untouched(Plan[k]) => file[Plan[k]] = "replacement"

\* Where each outcome is reached.
OutcomeAt ==
  /\ outcome = "refused" => pc = "prepare"
  /\ outcome \in {"rolled_back", "rollback_failed"} => pc \in RollingBack
  /\ outcome \in {"ok", "cleanup_failed"} => PastCommit
  /\ outcome \in {"ok", "rolled_back"} => \A k \in Item : journal[k] = "absent"
  /\ outcome \notin {"running", "crashed"} => temp = {}

\* The strengthening: it holds when no lstat reports a present file as missing.
Inductive ==
  /\ TypeOK
  /\ JournalUse
  /\ JournalHolds
  /\ FileHolds
  /\ ClearHolds
  /\ Installed
  /\ OutcomeAt
  /\ Recoverable

-----------------------------------------------------------------------------
DistinctFiles == \A i, j \in Item : Plan[i] = Plan[j] => i = j

\* One failing system call never leaves a tree half rewritten: "a run either
\* applies every edit or none of them" (docs/introduction.md:4).
OneFaultAtomic ==
  (/\ DistinctFiles
   /\ MaxFaults - faults <= 1
   /\ \A p \in Path : Untouched(p)
   /\ outcome \notin {"running", "crashed"})
  => \/ \A p \in Path : file[p] = "original"
     \/ \A p \in Path : file[p] = "replacement"

\* A rollback file an earlier run left behind is never replaced, moved or
\* deleted: it may hold the only copy of a file (atomic.rs:61-68).
LeftoverKept ==
  [][\A i \in Item : journal[i] = "leftover" => journal'[i] = "leftover"]_vars

\* What another program wrote or deleted while the transaction was not holding
\* the file survives every later step of the transaction, the rollback
\* included (the re-reads of atomic.rs:30-37 and atomic.rs:103-110).
ClearEditKept ==
  [][\A p \in Path :
       edit[p] = "clear" /\ meddles' = meddles => file'[p] = file[p]]_vars

\* The bytes of a path a caller can get back: the parked ones while the
\* transaction can still be rolled back, the installed ones afterwards.
Recovered(p) ==
  LET parked == {i \in Item : Plan[i] = p /\ journal[i] # "absent"}
  IN  IF pc \in Committing \cup RollingBack /\ parked # {}
      THEN journal[CHOOSE i \in parked : TRUE]
      ELSE file[p]

Verdict ==
  CASE outcome = "running" -> "pending"
    [] outcome \in {"ok", "cleanup_failed"} -> "applied"
    [] outcome \in {"refused", "rolled_back", "rollback_failed"} -> "rejected"
    [] outcome = "crashed" -> "interrupted"

Abstract == INSTANCE AllOrNothing
              WITH tree <- [p \in Path |-> IF Untouched(p) THEN Recovered(p) ELSE "foreign"],
                   verdict <- Verdict

\* The transaction implements AllOrNothing under any failures, a kill at any point and
\* any changes other programs make: the files they leave alone are rewritten together
\* or not at all, and what the run reports is true of them.
ImplementsAllOrNothing == Abstract!Spec

\* A run no call of which fails, whose files nobody changes and whose rollback
\* paths are free replaces its files, unless it is killed.
CalmRunApplies ==
  (/\ DistinctFiles
   /\ \A i \in Item : journal[i] = "absent"
   /\ [](faults = MaxFaults /\ meddles = MaxMeddles))
  => <>(outcome \in {"ok", "crashed"})
=============================================================================
