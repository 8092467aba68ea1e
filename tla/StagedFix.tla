------------------------------- MODULE StagedFix -------------------------------
(***************************************************************************)
(* ocomment fix --staged: run_staged and fix_index of                      *)
(* rust/ocomment/src/git.rs.  The run judges the index, removes the        *)
(* comments the staging adds, and takes the same edits to the working tree *)
(* where their place is unique.  It asks git and the file system one thing *)
(* after another, while an editor may save and another git may stage.      *)
(*                                                                         *)
(* A text is a sequence of pieces [id, is]: code "a" and "b", a removable  *)
(* comment "#" up to the end of its line, "/*" and "*/" the first and last *)
(* line of a block comment, each alone on its line, and "nl", which ends   *)
(* every line.  Bound: every piece but "nl", one byte, has 24 bytes or     *)
(* more and differs from the others in its first and in its last 23.       *)
(* No two pieces of a text have one id, which no part of the program sees. *)
(***************************************************************************)
EXTENDS EditPlan, Integers

CONSTANTS
  File,      \* the files git calls staged
  Starts,    \* records [head, index, routes]: what HEAD and the index hold, what
             \* [files] says of each file, and whether a pathspec picked it out
  SaveKinds, \* bound: the lines an editor types, as the pieces on them
  Saves,     \* bound: how often an editor saves
  Meddles    \* bound: how often an editor or another git acts

gitIndex == 0  \* the index, as a file of the transaction
ASSUME BoundsAssumption == Saves \in Nat /\ Meddles \in Nat
ASSUME StartsAssumption ==
  \A s \in Starts : DOMAIN s.head = File /\ DOMAIN s.index = File /\ gitIndex \notin File

VARIABLES
  head,      \* what HEAD holds
  index,     \* the index, file by file
  working,   \* the working tree
  locked,    \* another git holds index.lock
  options,   \* the run's [layout, index_only, force_invalid, routes]
  at,        \* the run's next step
  todo,      \* the files this step has yet to take, in path order
  blob,      \* the staged text of each file, as read
  ranges,    \* the added lines of each file, as git diff gave them
  original_index, \* the index as fix_index read it
  temporary_index, \* its copy, which update-index rewrites
  plans,     \* [original, replacement] for each working file
  journal,   \* what stood where the transaction has put a file
  outcome,   \* "running", then "applied", "unchanged", "invalid", "refused", or
             \* "broken": undoing, or removing the journal, failed half-way
  meddled,   \* how often anyone else acted
  saved,     \* how often an editor saved
  restaged,  \* history: files staged again before the run copied the index, or
             \* after it put it back
  overtaken  \* history: files somebody wrote between their recheck and their rename

vars == <<head, index, working, locked, options, at, todo, blob, ranges, original_index,
          temporary_index, plans, journal, outcome, meddled, saved, restaged, overtaken>>
asked == <<head, options>>
installed == <<journal, overtaken>>
others == <<index, working, locked, meddled, saved, restaged>>

Kinds(text) == [i \in DOMAIN text |-> text[i].is]

\* The lines of a text: where each begins and where its "nl" is, and what is on it.
Rows(text) ==
  LET ends == SelectSeq([i \in DOMAIN text |-> i], LAMBDA i : text[i].is = "nl")
  IN  [k \in DOMAIN ends |-> [from |-> IF k = 1 THEN 1 ELSE ends[k - 1] + 1, to |-> ends[k]]]
LinesOf(text) ==
  LET rows == Rows(text)
  IN  [k \in DOMAIN rows |-> Kinds(SubSeq(text, rows[k].from, rows[k].to - 1))]

----------------------------------------------------------------------------
\* What [files] lets through: a glob binds every path; a hidden or an oversized
\* one is passed over unless the caller named it; a link is no source text.
Configured(f) ==
  LET route == options.routes[f] IN
  /\ route.bounds \notin {"excluded", "link", "binary", "no language"}
  /\ route.bounds \in {"hidden", "large"} => route.named

\* The comments of a text, in order: a block comment spans lines, one that never
\* closes runs to the end.
InBlock(lines, i) ==
  LET open[j \in 0..Len(lines)] ==
        IF j = 0 THEN FALSE
        ELSE IF open[j - 1] THEN lines[j] # <<"*/">> ELSE lines[j] = <<"/*">>
  IN  open[i - 1]
BlockEnd(lines, i) ==
  LET ends == {j \in i..Len(lines) : lines[j] = <<"*/">>}
  IN  IF ends = {} THEN Len(lines) + 1 ELSE Min(ends)
Heads(lines) == SelectSeq([i \in DOMAIN lines |-> i], LAMBDA i : ~InBlock(lines, i))
Reaches(lines, i) ==
  IF lines[i] = <<"/*">> THEN Min({BlockEnd(lines, i), Len(lines)}) ELSE i
CommentsOf(lines) ==
  LET starts == SelectSeq(Heads(lines), LAMBDA i : ToSet(lines[i]) \cap {"#", "/*"} # {})
  IN  [k \in DOMAIN starts |-> [from |-> starts[k], to |-> Reaches(lines, starts[k])]]
Lexes(lines) ==
  \A i \in ToSet(Heads(lines)) : lines[i] = <<"/*">> => BlockEnd(lines, i) <= Len(lines)

\* plan_report: the edits of the text, over its pieces.  A comment of several lines
\* is one line to the plan.
KindOf(lines, i) ==
  CASE lines[i] = <<"/*">> -> IF BlockEnd(lines, i) <= Len(lines) THEN "remove" ELSE "doubtful"
    [] lines[i] = <<"#">>  -> "remove"
    [] lines[i] = <<>>     -> "blank"
    [] OTHER -> IF Last(lines[i]) = "#" THEN "tail" ELSE "code"
Placed(edits, rows, lines, heads) ==
  LET start(k) == IF k <= Len(heads) THEN heads[k] ELSE Len(lines) + 1
  IN  [k \in DOMAIN edits |->
         LET line == start(edits[k].at) IN
         [line |-> line, does |-> edits[k].does,
          from |-> IF edits[k].does = "trim" THEN rows[line].to - 1 ELSE rows[line].from,
          to   |-> IF edits[k].does = "drop" THEN rows[start(edits[k].to) - 1].to
                   ELSE rows[Reaches(lines, line)].to - 1]]
PlannedOver(rows, lines, heads) ==
  Placed(PlanEdits(options.layout, [k \in DOMAIN heads |-> KindOf(lines, heads[k])]), rows, lines, heads)
FullEdits(text) == PlannedOver(Rows(text), LinesOf(text), Heads(LinesOf(text)))

\* apply_edits: where the lines do not go, their ends stay.
Rewritten(text, edits) ==
  LET taken == UNION {{text[i] : i \in {j \in e.from..e.to : e.does = "drop" \/ text[j].is # "nl"}}
                      : e \in ToSet(edits)}
  IN  SelectSeq(text, LAMBDA piece : piece \notin taken)

----------------------------------------------------------------------------
\* git diff --cached --unified=0: the lines of the index outside one of the
\* longest texts it has in common with HEAD.
Pick(lines, S) == LET kept == SelectSeq([i \in DOMAIN lines |-> i], LAMBDA i : i \in S)
                  IN  [k \in DOMAIN kept |-> lines[kept[k]]]
Common(old, new) ==
  LET picks == {Pick(old, T) : T \in SUBSET DOMAIN old}
  IN  {S \in SUBSET DOMAIN new : Pick(new, S) \in picks}
Longest(old, new) ==
  LET common == Common(old, new)
  IN  {S \in common : \A T \in common : Cardinality(T) <= Cardinality(S)}
AddedLines(old, new) == {DOMAIN new \ S : S \in Longest(old, new)}

\* What the commit is asked about: the edits and comments that begin on a line it
\* adds.
SelectedAll(f) == FullEdits(blob[f])
Selected(f) == SelectSeq(FullEdits(blob[f]), LAMBDA e : e.line \in ranges[f])
\* Added lines inside a block comment that begins above them.
Conflict(f) ==
  LET lines == LinesOf(blob[f]) IN
  \E c \in ToSet(CommentsOf(lines)) :
    /\ c.from \notin ranges[f] /\ lines[c.from] = <<"/*">>
    /\ \E i \in ranges[f] : c.from <= i /\ i <= c.to
Output(f) == Rewritten(blob[f], Selected(f))
Changed == {f \in DOMAIN blob : Selected(f) # <<>>}

\* map_edits_uniquely: an edit is found again by its own bytes and 24 on each side,
\* fewer at the ends of the text: line ends, and a part of one piece behind them.
Around(text, e) ==
  LET before == {i \in 1..(e.from - 1) : text[i].is # "nl"}
      behind == {i \in (e.to + 1)..Len(text) : text[i].is # "nl"}
  IN  [from |-> IF before = {} THEN 1 ELSE Max(before),
       to   |-> IF behind = {} THEN Len(text) ELSE Min(behind)]
Places(text, e, into) ==
  LET c == Around(text, e)
      n == c.to - c.from
  IN  {p \in 1..(Len(into) - n) :
         SubSeq(Kinds(into), p, p + n) = SubSeq(Kinds(text), c.from, c.to)}
Shifted(text, e, p) ==
  LET delta == p - Around(text, e).from IN [e EXCEPT !.from = @ + delta, !.to = @ + delta]
\* The working text with the edits in it; none when an edit has no place or several,
\* or two of them meet.
FirstPlace(text, into, edits) ==
  IF \E e \in ToSet(edits) : Places(text, e, into) = {} THEN {}
  ELSE {Rewritten(into, [k \in DOMAIN edits |->
                           Shifted(text, edits[k], Min(Places(text, edits[k], into)))])}
MapEditsUniquely(text, into, edits) ==
  LET found == [k \in DOMAIN edits |-> Places(text, edits[k], into)]
  IN  IF \E k \in DOMAIN edits : Cardinality(found[k]) # 1 THEN {}
      ELSE LET mapped == [k \in DOMAIN edits |-> Shifted(text, edits[k], Min(found[k]))]
           IN  IF \E j, k \in DOMAIN mapped :
                    /\ j # k
                    /\ mapped[j].from <= mapped[k].from /\ mapped[k].from <= mapped[j].to
               THEN {} ELSE {Rewritten(into, mapped)}

----------------------------------------------------------------------------
PathOrder(S) == SetToSortSeq(S, LAMBDA f, g : f < g)
Ended(verdict) == /\ outcome' = verdict /\ at' = "end" /\ todo' = <<>>
Refuse == /\ Ended("refused")
          /\ UNCHANGED <<asked, others, installed, blob, ranges, original_index,
                         temporary_index, plans>>
Goto(step, files) == at' = step /\ todo' = files /\ UNCHANGED outcome

Init ==
  /\ \E s \in Starts, layout \in LayoutKind, only, force \in BOOLEAN :
       /\ head = s.head /\ index = s.index /\ working = s.index
       /\ options = [layout |-> layout, index_only |-> only, force_invalid |-> force,
                     routes |-> s.routes]
       /\ force => \E f \in File : "/*" \in ToSet(Kinds(index[f]))  \* bound
  /\ locked = FALSE /\ meddled = 0 /\ saved = 0 /\ restaged = {}
  /\ at = "list" /\ todo = <<>> /\ outcome = "running"
  /\ blob = <<>> /\ ranges = <<>> /\ original_index = <<>> /\ temporary_index = <<>>
  /\ plans = <<>> /\ journal = <<>> /\ overtaken = {}

\* staged_paths, configured_paths: the index entries that differ from HEAD.
ListStaged ==
  /\ at = "list"
  /\ Goto("blob", PathOrder({f \in File : Configured(f) /\ Kinds(index[f]) # Kinds(head[f])}))
  /\ UNCHANGED <<asked, others, installed, blob, ranges, original_index, temporary_index, plans>>

\* index_blob, and then added_line_ranges: two questions to git.
ReadBlob ==
  /\ at = "blob" /\ todo # <<>>
  /\ blob' = (Head(todo) :> index[Head(todo)]) @@ blob
  /\ Goto("ranges", todo)
  /\ UNCHANGED <<asked, others, installed, ranges, original_index, temporary_index, plans>>
ReadRanges ==
  /\ at = "ranges"
  /\ \E added \in AddedLines(LinesOf(head[Head(todo)]), LinesOf(index[Head(todo)])) :
       ranges' = (Head(todo) :> added) @@ ranges
  /\ Goto("blob", Tail(todo))
  /\ UNCHANGED <<asked, others, installed, blob, original_index, temporary_index, plans>>

\* One file that may not be rewritten stops the run, and --force-invalid does not
\* reach a conflict; nothing to do ends it.
Decide ==
  /\ at = "blob" /\ todo = <<>>
  /\ IF \E f \in DOMAIN blob : Conflict(f) \/ (~Lexes(LinesOf(blob[f])) /\ ~options.force_invalid)
     THEN Ended("invalid")
     ELSE IF Changed = {} THEN Ended("unchanged")
     ELSE Goto("copy", <<>>)
  /\ UNCHANGED <<asked, others, installed, blob, ranges, original_index, temporary_index, plans>>

\* The index is read, and then its lock is looked for.
ReadIndex ==
  /\ at = "copy"
  /\ original_index' = index /\ temporary_index' = index
  /\ Goto("lock", <<>>)
  /\ UNCHANGED <<asked, others, installed, blob, ranges, plans>>
LookForLock ==
  /\ at = "lock"
  /\ IF locked THEN Refuse
     ELSE /\ Goto("update", PathOrder(Changed))
          /\ UNCHANGED <<asked, others, installed, blob, ranges, original_index, temporary_index, plans>>

\* hash_object and update-index for one file, either of which may fail.
UpdateIndex ==
  /\ at = "update" /\ todo # <<>>
  /\ \/ Refuse
     \/ /\ temporary_index' = [temporary_index EXCEPT ![Head(todo)] = Output(Head(todo))]
        /\ Goto("update", Tail(todo))
        /\ UNCHANGED <<asked, others, installed, blob, ranges, original_index, plans>>
ReadReplacement ==
  /\ at = "update" /\ todo = <<>>
  /\ Goto("map", IF options.index_only THEN <<>> ELSE PathOrder(Changed))
  /\ UNCHANGED <<asked, others, installed, blob, ranges, original_index, temporary_index, plans>>

\* The working file, as it is when it is read.
MapToWorking ==
  /\ at = "map" /\ todo # <<>>
  /\ LET f == Head(todo)
         texts == IF Kinds(working[f]) = Kinds(blob[f])
                  THEN {Rewritten(working[f], Selected(f))}
                  ELSE MapEditsUniquely(blob[f], working[f], Selected(f))
     IN  IF texts = {} THEN Refuse
         ELSE /\ \E text \in texts :
                   plans' = (f :> [original |-> working[f], replacement |-> text]) @@ plans
              /\ Goto("map", Tail(todo))
              /\ UNCHANGED <<asked, others, installed, blob, ranges, original_index, temporary_index>>

\* apply_transaction over the working files, and the index as its last: all are read
\* again and written beside themselves, then each is read once more, renamed aside and
\* replaced.  Any call may fail.  The two renames of a file, and the calls that undo
\* half of one, are a step: AllOrNothing has them one by one.
Holds(x) ==
  IF x = gitIndex THEN \A f \in File : Kinds(index[f]) = Kinds(original_index[f])
  ELSE Kinds(working[x]) = Kinds(plans[x].original)
unwritten == <<asked, others, blob, ranges, original_index, temporary_index, plans>>
Prepare ==
  /\ at = "map" /\ todo = <<>>
  /\ \/ Refuse
     \/ /\ \A x \in DOMAIN plans \cup {gitIndex} : Holds(x)
        /\ Goto("recheck", Append(PathOrder(DOMAIN plans), gitIndex))
        /\ UNCHANGED <<unwritten, installed>>
GoBack == Goto("undo", Reverse(PathOrder(DOMAIN journal))) /\ UNCHANGED <<unwritten, installed>>
Recheck ==
  /\ at = "recheck"
  /\ \/ GoBack
     \/ Holds(Head(todo)) /\ Goto("install", todo) /\ UNCHANGED <<unwritten, installed>>
Install ==
  LET x == Head(todo) IN
  /\ at = "install"
  /\ IF x = gitIndex
     THEN /\ journal' = (x :> index) @@ journal
          /\ index' = temporary_index /\ UNCHANGED working
     ELSE /\ journal' = (x :> working[x]) @@ journal
          /\ working' = [working EXCEPT ![x] = plans[x].replacement] /\ UNCHANGED index
  /\ overtaken' = IF Holds(x) THEN overtaken ELSE overtaken \cup {x}
  /\ Goto(IF Tail(todo) = <<>> THEN "clean" ELSE "recheck", Tail(todo))
  /\ UNCHANGED <<asked, locked, meddled, saved, restaged, blob, ranges, original_index,
                 temporary_index, plans>>
InstallFails == at = "install" /\ GoBack
\* rollback: from the last file back; a call that fails leaves the rest as it is.
UndoOne ==
  /\ at = "undo" /\ todo # <<>>
  /\ \/ /\ working' = [working EXCEPT ![Head(todo)] = journal[Head(todo)]]
        /\ Goto("undo", Tail(todo))
     \/ Ended("broken") /\ UNCHANGED working
  /\ UNCHANGED <<asked, index, locked, meddled, saved, restaged, installed, blob, ranges,
                 original_index, temporary_index, plans>>
Undone == at = "undo" /\ todo = <<>> /\ Refuse
CleanUp ==
  /\ at = "clean"
  /\ \E verdict \in {"applied", "broken"} : Ended(verdict)
  /\ UNCHANGED <<unwritten, installed>>

----------------------------------------------------------------------------
\* An editor saves a file with a line more, a line less, or code put in front of what
\* a line holds; another git stages it, or holds the index lock for a while.
running == <<at, todo, blob, ranges, original_index, temporary_index, plans, journal, outcome,
             overtaken>>
Meddle == outcome = "running" /\ meddled < Meddles /\ meddled' = meddled + 1
Typed(kinds) == [k \in DOMAIN kinds |-> [id |-> 100 + 10 * meddled + k, is |-> kinds[k]]]
Put(text, i, kinds) == SubSeq(text, 1, i - 1) \o Typed(kinds) \o SubSeq(text, i, Len(text))
Save(f) ==
  /\ Meddle /\ saved < Saves /\ saved' = saved + 1
  /\ LET rows == Rows(working[f]) IN
     \/ \E line \in SaveKinds, i \in {r.from : r \in ToSet(rows)} \cup {Len(working[f]) + 1} :
          working' = [working EXCEPT ![f] = Put(@, i, Append(line, "nl"))]
     \/ \E r \in ToSet(rows) :
          working' = [working EXCEPT ![f] = SubSeq(@, 1, r.from - 1) \o SubSeq(@, r.to + 1, Len(@))]
     \/ \E piece \in {"a", "b"}, r \in ToSet(rows) :
          /\ <<piece>> \in SaveKinds /\ working[f][r.from].is \notin {"/*", "*/", "nl"}
          /\ working' = [working EXCEPT ![f] = Put(@, r.from, <<piece>>)]
  /\ UNCHANGED <<asked, running, index, locked, restaged>>
Stage(f) ==
  /\ Meddle /\ ~locked /\ index[f] # working[f]
  /\ index' = [index EXCEPT ![f] = working[f]]
  /\ restaged' = IF f \in DOMAIN blob /\ (original_index = <<>> \/ gitIndex \in DOMAIN journal)
                 THEN restaged \cup {f} ELSE restaged
  /\ UNCHANGED <<asked, running, working, locked, saved>>
Lock == /\ Meddle /\ ~locked /\ locked' = TRUE
        /\ UNCHANGED <<asked, running, index, working, saved, restaged>>
Unlock == /\ locked /\ outcome = "running" /\ locked' = FALSE
          /\ UNCHANGED <<asked, running, index, working, meddled, saved, restaged>>
Rest == outcome # "running" /\ UNCHANGED vars

Next ==
  \/ ListStaged \/ ReadBlob \/ ReadRanges \/ Decide \/ ReadIndex \/ LookForLock
  \/ UpdateIndex \/ ReadReplacement \/ MapToWorking
  \/ Prepare \/ Recheck \/ Install \/ InstallFails \/ UndoOne \/ Undone \/ CleanUp
  \/ \E f \in File : Save(f) \/ Stage(f)
  \/ Lock \/ Unlock \/ Rest

Spec == Init /\ [][Next]_vars

----------------------------------------------------------------------------
Taken(before, after) == ToSet(before) \ ToSet(after)
\* No line end goes from behind something that stays.
JoinsNothing(before, after) ==
  \A r \in ToSet(Rows(before)) :
    ToSet(SubSeq(before, r.from, r.to)) \cap ToSet(after) = {} \/ before[r.to] \in ToSet(after)
\* The comment and what it is found again by are in the working file as they were staged.
StandsIn(into, text, e) ==
  LET c == Around(text, e)
      n == c.to - c.from
  IN  \E p \in 1..(Len(into) - n) : SubSeq(into, p, p + n) = SubSeq(text, c.from, c.to)

\* Both sides move by the same edits (docs/ci.md:107): while every comment the run takes
\* stands in a working file as it was staged, 24 bytes on each side with it, the run takes
\* those from it and never others that look like them, whatever else of it has been
\* edited or staged meanwhile; it joins no two lines; and it has moved every working file
\* before the index, none with --index-only, with what other files have staged still in
\* it.  Exceptions: what somebody writes between its recheck and its rename is
\* overwritten; where the place is gone a like one elsewhere is taken for it; and an edit
\* that begins the staged text is found by what stands behind it alone, so also behind
\* code, with which it takes the line's end.
MovesBothSides ==
  [][\A x \in DOMAIN journal' \ DOMAIN journal :
       IF x = gitIndex
       THEN /\ DOMAIN journal = IF options.index_only THEN {} ELSE Changed
            /\ x \in overtaken' \/ \A f \in File \ Changed : index'[f] = index[f]
       ELSE x \in overtaken' \/
            /\ (\A e \in ToSet(Selected(x)) : StandsIn(working[x], blob[x], e)) =>
                 Taken(working[x], working'[x]) = Taken(blob[x], temporary_index[x])
            /\ \/ JoinsNothing(working[x], working'[x])
               \/ \E e \in ToSet(Selected(x)) : Around(blob[x], e).from = e.from]_vars

\* A commit hook is asked about the comments the commit adds: while the staging only
\* adds lines, takes none of HEAD's into a comment, and nobody stages the file under the
\* run, every comment HEAD has and the index still had is in the index the run leaves.
Counted(lines, c) ==
  Cardinality({k \in DOMAIN CommentsOf(lines) :
     SubSeq(lines, CommentsOf(lines)[k].from, CommentsOf(lines)[k].to) = c})
Only(old, new) == \E S \in Common(old, new) : Cardinality(S) = Len(old)
TakesIn(f) ==
  \E d \in ToSet(CommentsOf(LinesOf(blob[f]))) :
    d.from \in ranges[f] /\ ~(d.from..d.to \subseteq ranges[f])
ExistingCommentsStay ==
  outcome = "applied" =>
    \A f \in Changed \ restaged :
      LET old == LinesOf(head[f])
          new == LinesOf(blob[f]) IN
      Only(old, new) /\ ~TakesIn(f) =>
        \A c \in {SubSeq(old, d.from, d.to) : d \in ToSet(CommentsOf(old))} :
          Counted(LinesOf(index[f]), c) >= Min({Counted(old, c), Counted(new, c)})
=============================================================================
