------------------------------ MODULE AllOrNothing ------------------------------
(***************************************************************************)
(* What apply_transaction promises its callers (cli.rs:960, cli.rs:1118,   *)
(* git.rs:393): the edits of a run are one step.  The tree a caller can    *)
(* get back is the one the run started from or the one with every edit,    *)
(* never a mixture, and the run never reports the one when it is the other.*)
(* Of a file another program changes meanwhile nothing is promised, and    *)
(* that takes nothing from the promise about the others.                   *)
(***************************************************************************)
CONSTANT Path

VARIABLES
  tree,     \* the bytes of each path the caller can get back, "foreign" once
            \* another program changed the file
  verdict   \* "pending", then what the run came to

vars == <<tree, verdict>>

Verdict == {"pending", "applied", "rejected", "interrupted"}

TypeOK ==
  /\ tree \in [Path -> {"original", "replacement", "foreign"}]
  /\ verdict \in Verdict

Holds(content) == \A p \in Path : tree[p] \in {content, "foreign"}

Init ==
  /\ tree = [p \in Path |-> "original"]
  /\ verdict = "pending"

\* Every edit at once.
Commit ==
  /\ verdict = "pending"
  /\ Holds("original")
  /\ tree' = [p \in Path |-> IF tree[p] = "original" THEN "replacement" ELSE tree[p]]
  /\ UNCHANGED verdict

\* The run says that it applied its edits only when it did, and that it did
\* not only when it did not; a killed run says nothing.
Conclude ==
  /\ verdict = "pending"
  /\ \/ verdict' = "applied"  /\ Holds("replacement")
     \/ verdict' = "rejected" /\ Holds("original")
     \/ verdict' = "interrupted"
  /\ UNCHANGED tree

\* Another program writes, replaces or removes a file.
Disturb(p) ==
  /\ tree' = [tree EXCEPT ![p] = "foreign"]
  /\ UNCHANGED verdict

Next == Commit \/ Conclude \/ \E p \in Path : Disturb(p)

Spec == Init /\ [][Next]_vars
=============================================================================
