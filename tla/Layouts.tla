-------------------------------- MODULE Layouts --------------------------------
(***************************************************************************)
(* What a removal leaves behind: the three layouts of                      *)
(* rust/ocomment-core/src/transform.rs, the bytes an edit list makes, and  *)
(* the map of positions between the two sides.                             *)
(*                                                                         *)
(* A source is a sequence of tokens: "sp", "tab", the terminators "lf",    *)
(* "cr" and "ls" (U+2028), "wide" for a character two columns wide, and    *)
(* anything else one column of code or comment.  Offsets count the tokens  *)
(* in front of them.  A comment is a span with its kind, its verdict and,  *)
(* for a rewrite, its new spelling; a block is the end of a YAML block     *)
(* scalar's body and whether it keeps the blank lines below it.            *)
(***************************************************************************)
EXTENDS Integers, SequencesExt

At(doc, o) == doc[o + 1]
Slice(doc, from, to) == SubSeq(doc, from + 1, to)

Blank == {"sp", "tab"}
\* u8::is_ascii_whitespace, which U+2028 is not.
White == Blank \cup {"cr", "lf"}
Newline == {"cr", "lf", "ls"}

\* A line terminator begins at o; a CRLF pair is one.
Ends(doc, o) ==
  /\ o < Len(doc) /\ At(doc, o) \in Newline
  /\ ~(At(doc, o) = "lf" /\ o > 0 /\ At(doc, o - 1) = "cr")
Width(doc, o) == IF At(doc, o) = "cr" /\ o + 1 < Len(doc) /\ At(doc, o + 1) = "lf" THEN 2 ELSE 1

LineStarts(doc) == {0} \cup {o + Width(doc, o) : o \in {p \in 0..(Len(doc) - 1) : Ends(doc, p)}}
LineStart(doc, o) == Max({s \in LineStarts(doc) : s <= o})
\* Where the line behind the one that begins at s begins, or the end of the source.
Below(doc, s) == Min({t \in LineStarts(doc) : t > s} \cup {Len(doc)})
LineIsBlank(doc, s) == s < Len(doc) /\ \A o \in s..(Below(doc, s) - 1) : At(doc, o) \in White \cup {"ls"}

-----------------------------------------------------------------------------
\* YAML: what is left of a removed comment's line would be read as text of the
\* block scalar above it, so that the line goes as a whole.
YamlBlank(doc, s) == s < Len(doc) /\ \A o \in s..(Below(doc, s) - 1) : At(doc, o) \in Blank \cup Newline
Indent(doc, s) == Max({n \in 0..(Len(doc) - s) : \A o \in s..(s + n - 1) : At(doc, o) = "sp"})
AloneAt(doc, c, s) ==
  /\ LineStart(doc, c.from) = s /\ \A o \in s..(c.from - 1) : At(doc, o) \in Blank
  /\ c.to = Len(doc) \/ At(doc, c.to) \in Newline
\* The lines behind a block scalar that are blank or a comment alone.
Trail(doc, comments, block) ==
  LET lines == {s \in LineStarts(doc) : s >= block.end /\ s < Len(doc)}
      In(s) == YamlBlank(doc, s) \/ \E k \in DOMAIN comments : AloneAt(doc, comments[k], s)
  IN  {s \in lines : \A t \in lines : t <= s => In(t)}
CommentAt(doc, comments, s) == {k \in DOMAIN comments : AloneAt(doc, comments[k], s)}

\* A kept comment as deep as the block's text would be read as text once the
\* comments above it go: the first of those that is shallower stays.
ShieldOf(doc, comments, block) ==
  LET trail    == UNION {CommentAt(doc, comments, s) : s \in Trail(doc, comments, block)}
      deep(k)  == Indent(doc, LineStart(doc, comments[k].from)) >= block.indent
      removed  == {k \in trail : comments[k].act = "remove"}
      standing == trail \ removed
      shields  == {k \in removed : ~deep(k)}
  IN  IF standing # {} /\ deep(Min(standing)) THEN {k \in shields : k = Min(shields) /\ k < Min(standing)} ELSE {}
KeepYamlStructuralTrails(doc, comments, blocks) ==
  LET kept == UNION {ShieldOf(doc, comments, b) : b \in Range(blocks)}
  IN  [k \in DOMAIN comments |-> IF k \in kept THEN [comments[k] EXCEPT !.act = "keep"] ELSE comments[k]]

\* The blank lines behind it go as well where the block keeps them.
BlanksBehindNone(doc, s) == s   \* mutant
BlanksBehind(doc, s) ==
  Max({t \in LineStarts(doc) \cup {s, Len(doc)} :
         t >= s /\ \A u \in LineStarts(doc) : s <= u /\ u < t => u = Len(doc) \/ YamlBlank(doc, u)})
NoLine == [from |-> -1, to |-> -1]
LinesToSwallow(doc, comments, blocks) ==
  [k \in DOMAIN comments |->
     LET line == LineStart(doc, comments[k].from)
         by   == {b \in Range(blocks) : line \in Trail(doc, comments, b) /\ k \in CommentAt(doc, comments, line)}
         end  == Below(doc, line)
     IN  IF comments[k].act # "remove" \/ by = {} THEN NoLine
         ELSE [from |-> line, to |-> IF \E b \in by : b.keep THEN BlanksBehind(doc, end) ELSE end]]

-----------------------------------------------------------------------------
Edit(from, to, new) == [from |-> from, to |-> to, new |-> new]
Larger(a, b) == IF a > b THEN a ELSE b
Smaller(a, b) == IF a < b THEN a ELSE b

NewlineSequence(doc, c) == SelectSeq(Slice(doc, c.from, c.to), LAMBDA t : t \in Newline)
NonWhiteNeighbors(doc, c) ==
  /\ c.from > 0 /\ At(doc, c.from - 1) \notin White
  /\ c.to < Len(doc) /\ At(doc, c.to) \notin White
LineReplacementBare(doc, c) == NewlineSequence(doc, c)   \* mutant
LineReplacement(doc, c) ==
  LET kept == NewlineSequence(doc, c)
  IN  IF kept = <<>> /\ NonWhiteNeighbors(doc, c) THEN <<"sp">> ELSE kept

Plan(s, edit) == [s EXCEPT !.edits = Append(@, edit), !.floor = edit.to]

\* Layout::Lines: the comment's own line ends stay.
LineCut(doc, s, c, line) ==
  IF line # NoLine
  THEN Plan(s, Edit(Larger(line.from, s.floor), line.to, <<>>))
  ELSE Plan(s, Edit(c.from, c.to, IF c.kind = "Html" THEN <<>> ELSE LineReplacement(doc, c)))

\* Layout::Columns: blanks stand in for what was removed, as wide as it was.
Columns(t, column) == CASE t \in Newline -> -column
                        [] t = "tab"  -> 8 - (column % 8)
                        [] t = "wide" -> 2
                        [] OTHER      -> 1
AdvanceColumn(doc, from, to, column) ==
  FoldLeft(LAMBDA col, t : col + Columns(t, col), column, Slice(doc, from, to))
ColumnReplacement(doc, c, column) ==
  FoldLeft(LAMBDA s, t :
             [new |-> s.new \o (IF t \in Newline THEN <<t>>
                                ELSE [i \in 1..Columns(t, s.column) |-> "sp"]),
              column |-> s.column + Columns(t, s.column)],
           [new |-> <<>>, column |-> column], Slice(doc, c.from, c.to))
ColumnCut(doc, s, c, line) ==
  LET column == AdvanceColumn(doc, s.floor, c.from, s.column)
      filled == IF c.kind = "Html" THEN [new |-> <<>>, column |-> column]
                ELSE ColumnReplacement(doc, c, column)
  IN  IF line # NoLine
      THEN [Plan(s, Edit(Larger(line.from, s.floor), line.to, <<>>)) EXCEPT !.column = 0]
      ELSE [Plan(s, Edit(c.from, c.to, filled.new)) EXCEPT !.column = filled.column]

\* Layout::Compact: what the comment leaves of its line goes with it.
FirstTerminator(doc, c) ==
  LET found == {o \in c.from..(c.to - 1) : Ends(doc, o)}
  IN  IF found = {} THEN <<>> ELSE Slice(doc, Min(found), Min(found) + Width(doc, Min(found)))
\* line_tail: blanks up to the end of the line, or -1.
LineTail(doc, from) ==
  LET o == Min({o \in from..Len(doc) : o = Len(doc) \/ At(doc, o) \notin Blank})
  IN  IF o = Len(doc) \/ Ends(doc, o) THEN o ELSE -1
BlankStart(doc, o, floor) ==
  Min({s \in 0..o : (s >= floor \/ s = o) /\ \A p \in s..(o - 1) : At(doc, p) \in Blank})
CompactEdit(doc, c, start, floor, ceiling) ==
  LET html     == c.kind = "Html"
      interior == FirstTerminator(doc, c)
      tail     == LineTail(doc, c.to)
      head     == \E o \in start..(c.from - 1) : At(doc, o) \notin White
      ends     == tail # -1 \/ (interior # <<>> /\ ~html)
      eats     == ~head \/ (~html /\ interior # <<>>)
      end      == IF tail = -1 THEN c.to
                  ELSE tail + IF eats /\ tail < Len(doc) THEN Width(doc, tail) ELSE 0
  IN  Edit(IF ends THEN BlankStart(doc, c.from, Larger(floor, start)) ELSE c.from,
           Smaller(end, ceiling),
           IF html THEN <<>> ELSE IF ~ends THEN LineReplacement(doc, c)
           ELSE IF head THEN interior ELSE <<>>)

\* collapse_created_blank_runs: the blank lines a removal would join to those above.
Above(doc, s) == IF s = 0 THEN -1 ELSE Max({t \in LineStarts(doc) : t < s})
BlankLines(doc, from, up) ==
  LET run[n \in Nat, s \in Int] ==
        IF s >= 0 /\ LineIsBlank(doc, s)
        THEN run[n + 1, IF up THEN Above(doc, s) ELSE Below(doc, s)] ELSE n
  IN  run[0, from]
PastLines(doc, s, n) ==
  LET past[k \in 0..n] ==
        IF k = 0 THEN s
        ELSE LET p == past[k - 1] IN IF \E t \in LineStarts(doc) : t > p THEN Below(doc, p) ELSE p
  IN  past[n]
CollapseBlanksNever(doc, edits, collapsible) == edits   \* mutant
CollapseBlanks(doc, edits, collapsible) ==
  LET Line(k)  == /\ k \in DOMAIN edits /\ k \in DOMAIN collapsible /\ collapsible[k]
                  /\ edits[k].new = <<>>
      Joins(k) == Line(k) /\ Line(k + 1) /\ edits[k].to = edits[k + 1].from
      First(k) == Min({j \in 1..k : \A h \in j..(k - 1) : Joins(h)})
      Starts(k) == edits[First(k)].from \in LineStarts(doc)
      spare(k) == Smaller(BlankLines(doc, Above(doc, edits[First(k)].from), TRUE),
                          BlankLines(doc, edits[k].to, FALSE))
      ceiling(k) == IF k < Len(edits) THEN edits[k + 1].from ELSE Len(doc)
      widened(k) == Larger(Smaller(PastLines(doc, edits[k].to, spare(k)), ceiling(k)), edits[k].to)
  IN  [k \in DOMAIN edits |->
         IF Line(k) /\ ~Joins(k) /\ Starts(k) /\ edits[k].to \in LineStarts(doc)
         THEN [edits[k] EXCEPT !.to = widened(k)] ELSE edits[k]]
CompactCut(doc, s, c, line, next) ==
  LET edit == CompactEdit(doc, c, LineStart(doc, c.from), s.floor, Larger(next, c.to))
  IN  IF line # NoLine
      THEN [Plan(s, Edit(Larger(line.from, s.floor), Larger(line.to, s.floor), <<>>))
              EXCEPT !.collapsible = Append(@, FALSE)]
      ELSE [Plan(s, edit) EXCEPT !.collapsible = Append(@, TRUE)]

\* Every layout is a fold over the comments: a kept one is passed over and a
\* rewritten one spelled anew; the layouts differ in what becomes of a removed one.
Layout == {"lines", "columns", "compact"}
Planned(layout, doc, comments, swallow) ==
  FoldLeft(LAMBDA s, k :
             LET c    == comments[k]
                 next == IF k < Len(comments) THEN comments[k + 1].from ELSE Len(doc)
             IN  IF c.act = "keep" THEN s
                 ELSE IF c.act = "rewrite"
                 THEN [s EXCEPT !.edits = Append(@, Edit(c.from, c.to, c.new))]
                 ELSE CASE layout = "lines"   -> LineCut(doc, s, c, swallow[k])
                        [] layout = "columns" -> ColumnCut(doc, s, c, swallow[k])
                        [] layout = "compact" -> CompactCut(doc, s, c, swallow[k], next),
           [edits |-> <<>>, floor |-> 0, column |-> 0, collapsible |-> <<>>],
           [k \in DOMAIN comments |-> k])
Edits(layout, doc, comments, blocks) ==
  LET planned == Planned(layout, doc, comments, LinesToSwallow(doc, comments, blocks))
  IN  IF layout = "compact" THEN CollapseBlanks(doc, planned.edits, planned.collapsible)
      ELSE planned.edits

-----------------------------------------------------------------------------
\* The bytes the edits make, and where each offset goes.
Apply(doc, edits) ==
  LET done == FoldLeft(LAMBDA s, e : [out |-> s.out \o Slice(doc, s.cursor, e.from) \o e.new,
                                      cursor |-> e.to],
                       [out |-> <<>>, cursor |-> 0], edits)
  IN  done.out \o Slice(doc, done.cursor, Len(doc))

Segment(o, p, n, m, exact) ==
  [original |-> [from |-> o, to |-> o + n], output |-> [from |-> p, to |-> p + m], exact |-> exact]
SourceMap(doc, edits) ==
  LET Add(s, e) ==
        LET n == e.from - s.o
            kept == IF n > 0 THEN <<Segment(s.o, s.p, n, n, TRUE)>> ELSE <<>>
        IN  [map |-> s.map \o Append(kept, Segment(e.from, s.p + n, e.to - e.from, Len(e.new), FALSE)),
             o |-> e.to, p |-> s.p + n + Len(e.new)]
      done == FoldLeft(Add, [map |-> <<>>, o |-> 0, p |-> 0], edits)
      rest == Len(doc) - done.o
  IN  IF rest > 0 \/ done.map = <<>>
      THEN Append(done.map, Segment(done.o, done.p, rest, rest, TRUE)) ELSE done.map

\* original_to_output and output_to_original are one lookup, its sides swapped.
Lookup(map, here, there, offset) ==
  LET holds == {k \in DOMAIN map : map[k][here].from <= offset /\ offset < map[k][here].to}
      k     == Min(holds)
      last  == map[Len(map)]
  IN  IF holds # {}
      THEN map[k][there].from + IF map[k].exact THEN offset - map[k][here].from ELSE 0
      ELSE IF offset = last[here].to THEN last[there].to ELSE -1
OriginalToOutput(map, offset) == Lookup(map, "original", "output", offset)
OutputToOriginal(map, offset) == Lookup(map, "output", "original", offset)
=============================================================================
