--------------------------------- MODULE Reflow ---------------------------------
(***************************************************************************)
(* Where the line breaks in comment prose go: reflow.rs, and the three     *)
(* places style.rs applies it to - a run of line comments, one block       *)
(* comment, a Markdown document.                                           *)
(*                                                                         *)
(* A line is a sequence of tokens, each one character but for the words:   *)
(* "w" a word, "Note" a capitalised one, "etc" an abbreviation, "x" a      *)
(* letter, "j" an ideograph, and a fence of three backticks, "fence".      *)
(***************************************************************************)
EXTENDS Integers, SequencesExt

Sum3(a, b, c) == a \o b \o c
Spaces(n) == [i \in 1..n |-> "sp"]
IndentOf(line) == Max({n \in 0..Len(line) : \A i \in 1..n : line[i] = "sp"})
TrimStart(line) == SubSeq(line, IndentOf(line) + 1, Len(line))
TrimEnd(line) == SubSeq(line, 1, Min({n \in 0..Len(line) : \A i \in (n + 1)..Len(line) : line[i] = "sp"}))
Trim(line) == TrimEnd(TrimStart(line))

Letters == {"w", "Note", "etc", "x", "j", "1", "TODO"}
WrittenWithoutSpaces == {"j", "stop"}       \* "stop" is the ideographic full stop
SentenceEnder == {".", "stop"}
ClauseEnder == {",", ":"}
Closer == {")", "}"}

-----------------------------------------------------------------------------
\* What a line is.
FenceMarker(line) == IndentOf(line) < 4 /\ TrimStart(line) # <<>> /\ Head(TrimStart(line)) = "fence"
OpensAListItem(trimmed) ==
  \/ Len(trimmed) > 1 /\ trimmed[1] \in {"-", "*"} /\ trimmed[2] = "sp"
  \/ Len(trimmed) > 2 /\ trimmed[1] = "1" /\ trimmed[2] \in {".", ")"} /\ trimmed[3] = "sp"
\* A heading, a quote, a table row, a rule, a documentation tag, a section's name, a
\* link's target, columns lined up by hand, code.
IsAligned(trimmed) ==
  Cardinality({i \in 2..Len(trimmed) : /\ trimmed[i] # "sp" /\ i > 2
                                       /\ trimmed[i - 1] = "sp" /\ trimmed[i - 2] = "sp"}) > 1
IsRule(trimmed) == trimmed[1] = "---" \/ Last(trimmed) = "---"
ReadsAsProse(line) ==
  LET trimmed == TrimStart(line)
  IN  /\ trimmed # <<>> /\ IndentOf(line) < 2
      /\ trimmed[1] \notin {"#", ">", "|", "@"} /\ ~IsRule(trimmed)
      /\ ~OpensAListItem(trimmed) /\ trimmed # <<"Note", ":">> /\ trimmed[1] # "link"
      /\ ~IsAligned(trimmed) /\ Last(trimmed) \notin {"{", "}"}

\* What held lines are written back under: the first of them and the rest.
NoMarker == [first |-> <<>>, rest |-> <<>>]
OpensAnItem(line) == TrimStart(line) # <<>> /\ OpensAListItem(TrimStart(line))
MarkerOf(line) ==
  LET text  == TrimStart(line)
      space == Min({i \in DOMAIN text : text[i] = "sp"})
      width == Min({i \in space..Len(text) : i = Len(text) \/ text[i + 1] # "sp"})
  IN  [first |-> SubSeq(line, 1, IndentOf(line) + width), rest |-> Spaces(IndentOf(line) + width)]
ContinuesAnItem(line, under) ==
  /\ ReadsAsProse(TrimStart(line))
  /\ 1 <= IndentOf(line) /\ IndentOf(line) <= Len(under.rest) + 1

EndsAtABreak(line) ==
  LET open == {i \in DOMAIN TrimEnd(line) : line[i] \notin Closer}
  IN  open # {} /\ line[Max(open)] \in SentenceEnder \cup ClauseEnder

-----------------------------------------------------------------------------
\* The sentences of a text: an ender ends one where a blank follows it, or anything
\* at all behind an ideographic one; not inside a code span, and not an abbreviation.
InCodeSpan(text, i) ==
  Cardinality({j \in 1..(i - 1) : text[j] \in {"tick", "fence"}}) % 2 = 1
EndsAWord(text, i) ==
  i > 1 /\ text[i - 1] \in Letters \cup Closer \cup SentenceEnder \cup {"tick"}
AbbreviationBefore(text, i) ==
  LET from == Max({0} \cup {j \in 1..(i - 1) : text[j] = "sp"}) + 1
      word == {j \in from..(i - 1) : \E k \in from..j : text[k] \in Letters}
  IN  Cardinality(word) = 1 /\ text[Min(word)] \in {"x", "j", "1", "etc"}
Breaks(text) ==
  LET End(i) == Min({j \in (i + 1)..(Len(text) + 1) : j = Len(text) + 1 \/ text[j] \notin Closer})
      ends   == {i \in DOMAIN text : text[i] \in SentenceEnder /\ ~InCodeSpan(text, i) /\ EndsAWord(text, i)}
  IN  {End(i) : i \in {e \in ends : /\ End(e) <= Len(text)
                                    /\ text[e] = "." => text[End(e)] = "sp" /\ ~AbbreviationBefore(text, e)}}
Between(text, cuts) ==
  SelectSeq([k \in 1..(Len(cuts) - 1) |-> Trim(SubSeq(text, cuts[k], cuts[k + 1] - 1))],
            LAMBDA piece : piece # <<>>)
Sentences(text) == Between(text, SetToSortSeq(Breaks(text) \cup {1, Len(text) + 1}, <))

\* join: one space between the lines unless both sides are written without.
JoinHeldAhead(held) ==   \* mutant
  FoldLeft(LAMBDA out, line :
             LET tight == out # <<>> /\ Last(out) \in WrittenWithoutSpaces
             IN  IF out = <<>> \/ tight THEN out \o Trim(line) ELSE Sum3(out, <<"sp">>, Trim(line)),
           <<>>, held)
JoinHeld(held) ==
  FoldLeft(LAMBDA out, line :
             LET piece == Trim(line)
                 tight == Last(out) \in WrittenWithoutSpaces /\ Head(piece) \in WrittenWithoutSpaces
             IN  IF piece = <<>> THEN out ELSE IF out = <<>> THEN piece
                 ELSE Sum3(out, IF tight THEN <<>> ELSE <<"sp">>, piece),
           <<>>, held)

Under(marker, pieces) ==
  [k \in DOMAIN pieces |-> (IF k = 1 THEN marker.first ELSE marker.rest) \o pieces[k]]
Broken(text, wrap) == IF wrap = "sentence" THEN Sentences(text) ELSE <<text>>
Flush(s, wrap) ==
  IF s.held = <<>> THEN s
  ELSE [s EXCEPT !.out = @ \o Under(s.under, Broken(JoinHeld(s.held), wrap)), !.held = <<>>]
EndParagraph(s, wrap) == [Flush(s, wrap) EXCEPT !.under = NoMarker]

\* A line of prose is held with those above it, an item's lines under its marker.
Hold(s, line, wrap) ==
  LET item == s.under.first # <<>>
  IN  IF OpensAnItem(line)
      THEN [EndParagraph(s, wrap) EXCEPT
              !.under = MarkerOf(line),
              !.held = <<SubSeq(line, Len(MarkerOf(line).first) + 1, Len(line))>>]
      ELSE IF item /\ ContinuesAnItem(line, s.under) THEN [s EXCEPT !.held = Append(@, TrimStart(line))]
      ELSE IF item THEN [EndParagraph(s, wrap) EXCEPT !.held = <<line>>]
      ELSE [s EXCEPT !.held = Append(@, line)]
\* The line below carries the paragraph on.
Carries(lines, k, under) ==
  /\ k < Len(lines) /\ ~FenceMarker(lines[k + 1]) /\ ~OpensAnItem(lines[k + 1])
  /\ IF under.first # <<>> THEN ContinuesAnItem(lines[k + 1], under) ELSE ReadsAsProse(lines[k + 1])
\* A break that was meant ends the held lines, and so does the paragraph's end.
BreakAfter(held, line, carries, wrap) ==
  IF EndsAtABreak(line) \/ ~carries
  THEN [Flush(held, wrap) EXCEPT !.under =
          IF carries /\ @.first # <<>> THEN [first |-> @.rest, rest |-> @.rest] ELSE NoMarker]
  ELSE held
Taken(held, lines, k, wrap) == BreakAfter(held, lines[k], Carries(lines, k, held.under), wrap)

\* One line of reflow: fenced and structural lines pass through and end a paragraph.
Reflowed(s, lines, k, wrap) ==
  LET line    == lines[k]
      fence   == FenceMarker(line)
      carried == s.under.first # <<>> /\ ContinuesAnItem(line, s.under)
  IN  IF s.fenced \/ fence \/ ~(OpensAnItem(line) \/ ReadsAsProse(line) \/ carried)
      THEN [EndParagraph(s, wrap) EXCEPT !.out = Append(@, line), !.fenced = (@ # fence)]
      ELSE Taken(Hold(s, line, wrap), lines, k, wrap)
Reflow(lines, wrap) ==
  Flush(FoldLeft(LAMBDA s, k : Reflowed(s, lines, k, wrap),
                 [out |-> <<>>, held |-> <<>>, under |-> NoMarker, fenced |-> FALSE],
                 [k \in DOMAIN lines |-> k]), wrap).out

-----------------------------------------------------------------------------
\* style.rs.  A run is a sequence of line comments [indent, opener, text].
Same(seq) == \A i, j \in DOMAIN seq : seq[i] = seq[j]
Body(text) == TrimEnd(IF text # <<>> /\ text[1] = "sp" THEN Tail(text) ELSE text)
TakesApart(run) ==
  /\ \A k \in DOMAIN run : run[k].text = <<>> \/ Last(run[k].text) # "*/"
  /\ Same([k \in DOMAIN run |-> <<run[k].indent, run[k].opener>>])
\* The tag a body opens with, its punctuation and the blanks behind it.
Opening(body) ==
  LET after == IF Len(body) > 1 /\ body[2] \in {":", "-", "."} THEN 3 ELSE 2
      text  == {i \in after..Len(body) : body[i] # "sp"}
  IN  IF body = <<>> \/ body[1] # "TODO" THEN <<>>
      ELSE IF text = {} THEN body ELSE SubSeq(body, 1, Min(text) - 1)
SharedTag(bodies) == Same([k \in DOMAIN bodies |-> Opening(bodies[k])])
Respelled(run, tag, untagged, new) ==
  LET Spelled(body) == Sum3(IF body = <<>> /\ tag = <<>> THEN <<>> ELSE <<"sp">>, tag, body)
  IN  IF new = untagged THEN run
      ELSE [k \in DOMAIN new |-> [run[1] EXCEPT !.text = Spelled(new[k])]]
ReflowTagged(run, tag, untagged, wrap) == Respelled(run, tag, untagged, Reflow(untagged, wrap))
ReflowBodies(run, bodies, tag, wrap) ==
  IF ~TakesApart(run) \/ ~SharedTag(bodies) THEN run
  ELSE ReflowTagged(run, tag, [k \in DOMAIN bodies |-> SubSeq(bodies[k], Len(tag) + 1, Len(bodies[k]))], wrap)
RunBodies(run) == [k \in DOMAIN run |-> Body(run[k].text)]
ReflowRun(run, wrap) == ReflowBodies(run, RunBodies(run), Opening(RunBodies(run)[1]), wrap)

\* A block comment is its rows; the first follows the opener, whose last character
\* is the star the others may begin with, and the closer follows the last.
BlockBlank == {"sp", "*"}
ContinuationPrefixLeast(rows) == SubSeq(rows[1], 1, Max({n \in 0..Len(rows[1]) : \A i \in 1..n : rows[1][i] \in BlockBlank}))   \* mutant
ContinuationPrefix(rows) ==
  LET carrying == {k \in DOMAIN rows : Trim(rows[k]) # <<>>}
      least    == rows[Min(carrying)]
      Shared(n) == \A k \in carrying : Len(rows[k]) >= n /\ SubSeq(rows[k], 1, n) = SubSeq(least, 1, n)
  IN  SubSeq(least, 1, Max({n \in 0..Len(least) : Shared(n) /\ \A i \in 1..n : least[i] \in BlockBlank}))
Bodies(rows, interior, prefix) ==
  LET Beyond(row) == IF IsPrefix(prefix, row) THEN SubSeq(row, Len(prefix) + 1, Len(row)) ELSE TrimStart(row)
  IN  <<Body(rows[1])>> \o [k \in DOMAIN interior |-> Body(Beyond(interior[k]))]
Rows(prefix, new) ==
  [k \in DOMAIN new |->
     IF k = 1 THEN (IF new[1] = <<>> THEN <<>> ELSE <<"sp">> \o new[1])
     ELSE IF new[k] = <<>> THEN TrimEnd(prefix)
     ELSE Sum3(prefix, IF prefix # <<>> /\ Last(prefix) = "sp" THEN <<>> ELSE <<"sp">>, new[k])]
\* The closer stands on a line of its own or behind the last row.
Closed(alone, prefix, written) ==
  IF alone THEN Append(written, Spaces(IndentOf(prefix)))
  ELSE [written EXCEPT ![Len(written)] = Append(TrimEnd(@), "sp")]
Rewritten(rows, alone, prefix, bodies, new) ==
  IF new = bodies THEN rows ELSE Closed(alone, prefix, Rows(prefix, new))
ReflowUnder(rows, alone, prefix, bodies, wrap) == Rewritten(rows, alone, prefix, bodies, Reflow(bodies, wrap))
ReflowInterior(rows, alone, interior, prefix, wrap) ==
  IF \A k \in DOMAIN interior : Trim(interior[k]) = <<>> THEN rows
  ELSE ReflowUnder(rows, alone, prefix, Bodies(rows, interior, prefix), wrap)
ReflowBlock(rows, wrap) ==
  LET last     == rows[Len(rows)]
      alone    == \A i \in DOMAIN last : last[i] \in BlockBlank
      interior == SubSeq(rows, 2, IF alone THEN Len(rows) - 1 ELSE Len(rows))
  IN  IF Len(rows) = 1 THEN rows
      ELSE ReflowInterior(rows, alone, interior, ContinuationPrefix(interior), wrap)

\* A Markdown document: paragraphs outside fences, comments and the front matter.
DocumentRuns(lines, commented) ==
  LET front == IF lines # <<>> /\ lines[1] = <<"---">>
               THEN Min({k \in 2..Len(lines) : lines[k] = <<"---">>} \cup {Len(lines)}) ELSE 0
      Fence(k) == k > front /\ FenceMarker(lines[k])
      Fenced(k) == Cardinality({j \in 1..(k - 1) : Fence(j)}) % 2 = 1
      Prose(k) == k > front /\ ~Fence(k) /\ ~Fenced(k) /\ k \notin commented /\ Trim(lines[k]) # <<>>
      firsts == {k \in DOMAIN lines : Prose(k) /\ (k = 1 \/ ~Prose(k - 1))}
      LastOf(k) == Max({j \in k..Len(lines) : \A i \in k..j : Prose(i)})
  IN  {[from |-> k, to |-> LastOf(k)] : k \in firsts}
ReflowRuns(lines, runs, wrap) ==
  FoldLeft(LAMBDA out, k :
             IF ~\E r \in runs : r.from <= k /\ k <= r.to THEN Append(out, lines[k])
             ELSE IF \E r \in runs : r.from = k
             THEN out \o Reflow(SubSeq(lines, k, (CHOOSE r \in runs : r.from = k).to), wrap) ELSE out,
           <<>>, [k \in DOMAIN lines |-> k])
ReflowDocument(lines, commented, wrap) == ReflowRuns(lines, DocumentRuns(lines, commented), wrap)
=============================================================================
