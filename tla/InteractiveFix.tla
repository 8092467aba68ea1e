----------------------------- MODULE InteractiveFix -----------------------------
(***************************************************************************)
(* ocomment fix --interactive: select of rust/ocomment/src/interactive.rs. *)
(* The reader is asked about every comment the run would remove, file      *)
(* after file, and the accepted edits are written as one transaction       *)
(* (cli.rs:1092, module AtomicTransaction).                                *)
(***************************************************************************)
EXTENDS EditPlan

CONSTANTS
  Files,       \* how many files a run has
  MaxLines,    \* bound: the lines of a file
  Trees        \* what the files may hold, file by file

File == 1..Files

ASSUME FilesAssumption == Files \in Nat /\ MaxLines \in Nat
ASSUME TreesAssumption ==
  \A tree \in Trees : /\ tree \in [File -> Seq(LineKind)]
                      /\ \A f \in File : Len(tree[f]) <= MaxLines

VARIABLES
  layout,      \* the layout of the run
  doc,         \* the files
  at,          \* the file being asked about, Files + 1 after the last
  index,       \* the offer being asked about
  accepted,    \* the offers accepted, for each file
  verdict,     \* "asking", "write" or "aborted"
  said         \* history: the lines whose comment the reader said to remove

vars == <<layout, doc, at, index, accepted, verdict, said>>

\* The removable comments zipped with the edits of the plan.
Offers(d) ==
  LET comments == Lines(d, Changing)
      edits    == PlanEdits(layout, d)
  IN  [k \in 1..Min({Len(comments), Len(edits)}) |-> [line |-> comments[k], edit |-> edits[k]]]

\* A file without offers is passed over; after the last file the plans are written.
Ask(f) ==
  LET more == {g \in f..Files : Offers(doc[g]) # <<>>} IN
  /\ index' = 1
  /\ IF more # {} THEN at' = Min(more) /\ verdict' = "asking"
                  ELSE at' = Files + 1 /\ verdict' = "write"

Init ==
  /\ layout \in LayoutKind /\ doc \in Trees
  /\ accepted = [f \in File |-> {}] /\ said = [f \in File |-> {}]
  /\ index = 1
  /\ LET more == {g \in File : Offers(doc[g]) # <<>>} IN
       IF more # {} THEN at = Min(more) /\ verdict = "asking"
                    ELSE at = Files + 1 /\ verdict = "write"

Here   == Offers(doc[at])
Accept(offers) == accepted' = [accepted EXCEPT ![at] = @ \cup offers]

\* What the reader meant: the comments named by the questions from `first` to `last`.
Means(first, last) ==
  said' = [said EXCEPT ![at] = @ \cup {Here[k].line : k \in first..last}]

\* The next comment of the file, or the next file.
NextOffer == IF index < Len(Here) THEN index' = index + 1 /\ UNCHANGED <<at, verdict>>
                                  ELSE Ask(at + 1)

Yes ==
  /\ verdict = "asking"
  /\ Accept({index}) /\ Means(index, index)
  /\ NextOffer
  /\ UNCHANGED <<layout, doc>>

No == verdict = "asking" /\ NextOffer /\ UNCHANGED <<layout, doc, accepted, said>>

\* Mutant of AllInFile: the answer stands for the file from its first comment.
AllFromFirst ==
  /\ verdict = "asking"
  /\ Accept(1..Len(Here)) /\ Means(index, Len(Here))
  /\ Ask(at + 1)
  /\ UNCHANGED <<layout, doc>>

\* "remove it and every remaining comment in this file"
AllInFile ==
  /\ verdict = "asking"
  /\ Accept(index..Len(Here)) /\ Means(index, Len(Here))
  /\ Ask(at + 1)
  /\ UNCHANGED <<layout, doc>>

\* "keep it and every remaining comment in this file"
NoneInFile == verdict = "asking" /\ Ask(at + 1) /\ UNCHANGED <<layout, doc, accepted, said>>

\* Stop asking and write what was accepted.
Stop ==
  /\ verdict = "asking" /\ verdict' = "write"
  /\ UNCHANGED <<layout, doc, at, index, accepted, said>>

\* `x`, or the end of the input: nothing is written.
Abort ==
  /\ verdict = "asking" /\ verdict' = "aborted"
  /\ accepted' = [f \in File |-> {}]
  /\ UNCHANGED <<layout, doc, at, index, said>>

\* The run ends with its verdict.
Ended == verdict # "asking" /\ UNCHANGED vars

Next == Yes \/ No \/ AllInFile \/ NoneInFile \/ Stop \/ Abort \/ Ended

Spec == Init /\ [][Next]_vars

-----------------------------------------------------------------------------
(* Properties. *)

Chosen(f)  == {Offers(doc[f])[k].edit : k \in accepted[f]}
Written(f) == Applied(doc[f], Chosen(f))

\* Every comment that would be removed is asked about under its own edit
\* (interactive.rs:144).
AskedUnderItsEdit ==
  \A f \in File : Considered(doc[f]) = [k \in DOMAIN Offers(doc[f]) |-> Offers(doc[f])[k].line]

\* What is written is what was answered: a line changes if the reader was asked about its
\* comment and said to remove it, itself or with the rest of the file, and otherwise it
\* does not; of lines without a comment only blank ones may go (interactive.rs:95, 144).
WrittenAsAnswered ==
  verdict = "write" =>
    \A f \in File : \A i \in DOMAIN doc[f] :
      doc[f][i] # "blank" => (i \in said[f] <=> Written(f)[i] # "same")

\* Both, for files without a paragraph to reflow and without damage: there the comments
\* and the edits that interactive.rs zips do not line up.
AnswersAreHonoured == AskedUnderItsEdit /\ WrittenAsAnswered

\* The rule of transform.rs:560 for compact, of one removal: the blank lines on its two
\* sides that end up together are no more than the longer side had.  A removal is the
\* comments on consecutive lines that go; i and j are blank lines that stay, and all that
\* stays between them is blank.  It is not said of files with a style rewrite, which
\* takes the flag of a removal, nor of the removals YAML needs, which are never widened.
NoNewBlankRun ==
  verdict = "write" /\ layout = "compact" => \A f \in File :
    LET d == doc[f]
        Stays(i) == Written(f)[i] # "gone"
        RunAt(i) == BlanksAbove(d, i) + BlanksFrom(d, i)
        OneRemoval(i, j) == \A g, h \in i..j : d[g] # "blank" /\ d[h] # "blank" =>
                              \A m \in g..h : d[m] # "blank"
    IN  ToSet(d) \cap {"rewrite", "swallow"} = {} =>
          \A i, j \in {h \in DOMAIN d : d[h] = "blank" /\ Stays(h)} :
            i < j /\ OneRemoval(i, j) /\ (\A h \in i..j : Stays(h) => d[h] = "blank") =>
              Cardinality({h \in i..j : Stays(h)}) <= Max({RunAt(h) : h \in i..j})
=============================================================================
