-------------------------------- MODULE EditPlan --------------------------------
(***************************************************************************)
(* From verdicts to edits: plan_edits and the layouts of                   *)
(* rust/ocomment-core/src/transform.rs, at the grain of lines.             *)
(*                                                                         *)
(* A source is a sequence of lines, one comment to a line at most:         *)
(*   "blank", "code"                                                       *)
(*   "keep"     a comment that stays as it is                              *)
(*   "prose"    a kept comment in a paragraph the wrap rule reflows        *)
(*   "remove"   a comment alone on its line, removed                       *)
(*   "swallow"  the same where the hole would mean something (YAML)        *)
(*   "tail"     code with a removed comment behind it                      *)
(*   "rewrite"  a comment a style rule spells differently                  *)
(*   "doubtful" a removable comment inside what a forced scan could not    *)
(*              establish                                                  *)
(***************************************************************************)
EXTENDS SequencesExt, Integers

LineKind == {"blank", "code", "keep", "prose", "remove", "swallow", "tail",
             "rewrite", "doubtful"}

LayoutKind == {"lines", "compact"}

\* An edit drops the lines at..to-1, or changes something on line `at` (to = at).
Edit(at, to, does) == [at |-> at, to |-> to, does |-> does]

\* The lines of a set, from the first to the last.
InOrder(doc, S) ==
  LET upto[i \in 0..Len(doc)] == IF i = 0 THEN <<>>
                                 ELSE IF i \in S THEN Append(upto[i - 1], i) ELSE upto[i - 1]
  IN  upto[Len(doc)]

Lines(doc, kinds) == InOrder(doc, {i \in DOMAIN doc : doc[i] \in kinds})

\* action().changes_bytes(): what is removed or rewritten.
Changing == {"remove", "swallow", "tail", "rewrite", "doubtful"}

\* A forced run over a broken file only acts on what the scan established.
Considered(doc) == Lines(doc, Changing \ {"doubtful"})

\* One edit per considered comment, in source order.
CommentEdit(layout, kind, i) ==
  CASE kind = "rewrite" -> Edit(i, i, "rewrite")
    [] kind = "tail"    -> Edit(i, i, "trim")
    [] kind = "swallow" -> Edit(i, i + 1, "drop")
    [] kind = "remove"  -> IF layout = "compact" THEN Edit(i, i + 1, "drop")
                                                 ELSE Edit(i, i, "hollow")

CommentEdits(layout, doc) ==
  LET lines == Considered(doc)
  IN  [k \in DOMAIN lines |-> CommentEdit(layout, doc[lines[k]], lines[k])]

-----------------------------------------------------------------------------
(* collapse_created_blank_runs, lines 564 to 621: compact takes back the    *)
(* blank lines a removal would create.                                      *)

\* compact_edits pushes a flag for each removal and none for a rewrite.
Collapsible(doc) ==
  LET removals == Lines(doc, Changing \ {"doubtful", "rewrite"})
  IN  [k \in DOMAIN removals |-> doc[removals[k]] # "swallow"]

BlanksAbove(doc, i) ==
  Max({n \in 0..(i - 1) : \A j \in (i - n)..(i - 1) : doc[j] = "blank"})
BlanksFrom(doc, i) ==
  Max({n \in 0..(Len(doc) + 1 - i) : \A j \in i..(i + n - 1) : doc[j] = "blank"})

\* Mutant of Collapsed: no blanks are taken at all.
CollapsedNever(doc) == CommentEdits("compact", doc)

\* The k-th flag is read for the k-th edit.  Touching removals are one; the last of
\* them takes as many blanks below as there are on the shorter side.
Collapsed(doc) ==
  LET edits == CommentEdits("compact", doc)
      flags == Collapsible(doc)
      MayWiden(k) == k \in DOMAIN edits /\ k \in DOMAIN flags
                       /\ flags[k] /\ edits[k].does = "drop"
      Touches(k)  == MayWiden(k) /\ MayWiden(k + 1) /\ edits[k].to = edits[k + 1].at
      First(k)    == Min({j \in 1..k : \A h \in j..(k - 1) : Touches(h)})
      Taken(k)    == Min({BlanksAbove(doc, edits[First(k)].at), BlanksFrom(doc, edits[k].to)})
      Ceiling(k)  == IF k < Len(edits) THEN edits[k + 1].at ELSE Len(doc) + 1
      Widened(k)  == [edits[k] EXCEPT !.to = Min({@ + Taken(k), Ceiling(k)})]
  IN  [k \in DOMAIN edits |->
         IF MayWiden(k) /\ ~Touches(k) THEN Widened(k) ELSE edits[k]]

-----------------------------------------------------------------------------
\* A paragraph of kept comments is reflowed by one edit.
RunEdits(doc) ==
  LET Begins(i) == i = 1 \/ doc[i - 1] # "prose"
      heads == InOrder(doc, {i \in DOMAIN doc : doc[i] = "prose" /\ Begins(i)})
  IN  [k \in DOMAIN heads |-> Edit(heads[k], heads[k], "reflow")]

\* sort_by_key: edits that start on different lines, by where they start.
ByStart(doc, edits) ==
  LET starts == InOrder(doc, {e.at : e \in edits})
  IN  [k \in DOMAIN starts |-> CHOOSE e \in edits : e.at = starts[k]]

\* plan_edits: the comments' edits and the paragraphs', in source order.
PlanEdits(layout, doc) ==
  ByStart(doc, ToSet(IF layout = "compact" THEN Collapsed(doc) ELSE CommentEdits(layout, doc))
                 \cup ToSet(RunEdits(doc)))

\* apply_edits: what becomes of each line under a set of the edits.
Applied(doc, edits) ==
  [i \in DOMAIN doc |->
     IF \E e \in edits : e.at <= i /\ i < e.to THEN "gone"
     ELSE IF \E e \in edits : e.at = i THEN (CHOOSE e \in edits : e.at = i).does
     ELSE "same"]
=============================================================================
