---------------------------------- MODULE Text ----------------------------------
(***************************************************************************)
(* Documents grown piece by piece, so that the operators of Layouts,       *)
(* Reflow and Profile meet every short document: what a removal may never  *)
(* do to the bytes around it in any layout, and a reflow to prose.         *)
(***************************************************************************)
EXTENDS Layouts, Reflow, Profile

CONSTANTS Pieces,      \* piece -> [tokens, kind, act, new, block]; kind "code" is no comment
          Alphabets,   \* subject -> the pieces its documents are made of
          Profiles,    \* subject -> the profile that scans its documents
          MaxPieces    \* bound: subject -> the pieces of a document

VARIABLES subject,     \* the alphabet in use
          input        \* the pieces so far

vars == <<subject, input>>

\* Where the comments are known beforehand: a line comment runs to the end of its
\* line, and a `#` opens one only behind a blank.
Known == DOMAIN Alphabets \ ({"prose"} \cup DOMAIN Profiles)
May(x) ==
  /\ subject \in Known /\ input # <<>> /\ Pieces[Last(input)].kind = "Line" => Pieces[x].tokens[1] \in Newline
  /\ subject \in Known /\ Pieces[x].tokens[1] = "#" /\ input # <<>> => Last(Pieces[Last(input)].tokens) \in Blank \cup Newline
  /\ subject = "yaml" =>
       /\ Pieces[x].block # "none" <=> input = <<>>
       \* Behind a blank at the start of a line only a comment, and none inside a body.
       /\ input # <<>> /\ Last(input) = "sp" =>
            \/ Pieces[x].tokens[1] = "lf"
            \/ \E k \in 1..Len(input) : input[k] = "a" /\ \A j \in k..Len(input) : input[j] # "lf"
            \/ /\ Pieces[x].tokens[1] = "#"
               /\ \E k \in 2..Len(input) : Pieces[input[k]].kind = "Line"

Init == subject \in DOMAIN Alphabets /\ input = <<>>
Grow ==
  /\ Len(input) < MaxPieces[subject]
  /\ \E x \in Alphabets[subject] : May(x) /\ input' = Append(input, x)
  /\ UNCHANGED subject
Next == Grow
Spec == Init /\ [][Next]_vars

-----------------------------------------------------------------------------
Source ==
  FoldLeft(LAMBDA s, x :
             LET piece == Pieces[x]
                 from  == Len(s.doc)
                 to    == from + Len(piece.tokens)
                 found == [from |-> from, to |-> to, kind |-> piece.kind, act |-> piece.act, new |-> piece.new]
             IN  [doc      |-> s.doc \o piece.tokens,
                  comments |-> IF piece.kind = "code" THEN s.comments ELSE Append(s.comments, found)],
           [doc |-> <<>>, comments |-> <<>>], input)

\* The value of the block scalar a document opens with: the lines up to the first
\* that is neither blank nor indented; the blank ones at its end only where it keeps them.
EmptyLine(d, s) == Indent(d, s) <= 1 /\ (s + Indent(d, s) = Len(d) \/ At(d, s + Indent(d, s)) \in Newline)
BodyLines(d) ==
  LET lines == {s \in LineStarts(d) : s > 0 /\ s < Len(d)}
  IN  {s \in lines : \A t \in lines : t <= s => Indent(d, t) >= 1 \/ EmptyLine(d, t)}
BlockValue(d, keep) ==
  LET body == BodyLines(d)
      text == {s \in body : keep \/ \E t \in body : t >= s /\ ~EmptyLine(d, t)}
  IN  [k \in 1..Cardinality(text) |->
         LET s == CHOOSE s \in text : Cardinality({t \in text : t < s}) = k - 1
         IN  IF EmptyLine(d, s) THEN <<>> ELSE SelectSeq(Slice(d, s, Below(d, s)), LAMBDA t : t \notin Newline)]
Keep == input # <<>> /\ Pieces[input[1]].block = "keep"
Blocks ==
  IF input = <<>> \/ Pieces[input[1]].block = "none" THEN <<>>
  ELSE LET doc == Source.doc
           end == Min({s \in LineStarts(doc) \cup {Len(doc)} : s > 0 /\ s \notin BodyLines(doc)})
       IN  <<[end |-> end, indent |-> 1, keep |-> Keep]>>

\* A document through one layout: what is written and where each offset went.
Result(doc, comments, blocks, edits) ==
  [doc |-> doc, comments |-> comments, out |-> Apply(doc, edits), map |-> SourceMap(doc, edits),
   swallow |-> Range(LinesToSwallow(doc, comments, blocks)) \ {NoLine},
   \* what must survive: every token but blanks, terminators and removed comments
   code |-> {o \in 0..(Len(doc) - 1) :
               /\ At(doc, o) \notin White \cup {"ls"}
               /\ \A c \in Range(comments) : c.act = "keep" \/ o < c.from \/ c.to <= o}]
Cleaned(layout, doc, comments, blocks) ==
  Result(doc, comments, blocks, Edits(layout, doc, comments, blocks))
Laid(layout) ==
  Cleaned(layout, Source.doc, KeepYamlStructuralTrails(Source.doc, Source.comments, Blocks), Blocks)
Html(l, o, p) == \E k \in DOMAIN l.comments : l.comments[k].kind = "Html" /\ o < l.comments[k].from /\ l.comments[k].from < p
EndsBetween(d, o, p) == \E q \in o..(p - 1) : Ends(d, q)

\* In every layout the code and the kept comments all arrive, in order, and nothing
\* else does; the source map finds each of them from either side; two that stood
\* apart stay apart, and on one line or on two as before (an HTML comment's lines
\* are its own).
CodeArrives(l) ==
  LET new == FoldLeft(LAMBDA n, c : n + IF c.act = "rewrite"
                                        THEN Len(SelectSeq(c.new, LAMBDA t : t \notin White)) ELSE 0,
                      0, l.comments)
  IN  \A To \in {[o \in l.code |-> OriginalToOutput(l.map, o)]} :
        /\ \A o \in l.code : /\ To[o] \in 0..(Len(l.out) - 1)
                             /\ At(l.out, To[o]) = At(l.doc, o)
                             /\ OutputToOriginal(l.map, To[o]) = o
        /\ Len(SelectSeq(l.out, LAMBDA t : t \notin White \cup {"ls"})) = Cardinality(l.code) + new
        /\ \A o, p \in l.code : o < p =>
             /\ To[o] < To[p]
             /\ ~Html(l, o, p) => /\ To[p] = To[o] + 1 => p = o + 1
                                  /\ EndsBetween(l.doc, o, p) <=> EndsBetween(l.out, To[o], To[p])

LineOf(d, o) == Cardinality({s \in LineStarts(d) : s <= o})
DisplayColumn(d, o) == AdvanceColumn(d, LineStart(d, o), o, 0)
\* Something before o on its line is not as wide as it was.
Shifted(l, o) ==
  \E c \in Range(l.comments) : /\ c.to <= o /\ LineStart(l.doc, o) <= c.to
                               /\ c.kind = "Html" \/ c.act = "rewrite"
\* "lines" and "columns" leave all code on the line it was on, unless a line above it
\* had to go for a block scalar; "columns" also under the column it was under.
PlacesStay(l, layout) ==
  layout # "compact" =>
    \A o \in l.code :
      LET to == OriginalToOutput(l.map, o)
      IN  /\ ~Html(l, -1, o) /\ (\A s \in l.swallow : s.from > o) => LineOf(l.out, to) = LineOf(l.doc, o)
          /\ layout = "columns" /\ ~Shifted(l, o) => DisplayColumn(l.out, to) = DisplayColumn(l.doc, o)

\* A removal leaves the code alone: all of it arrives, found from either side of the
\* source map, and where the layout promises it on its line and in its column
\* (transform.rs:271, 437, 822, types.rs:1651).
CodeStays == \A layout \in Layout : \A l \in {Laid(layout)} : CodeArrives(l) /\ PlacesStay(l, layout)

\* The longest run of blank lines behind the line of o and before that of p.
BlankRun(d, o, p) ==
  LET blank  == {s \in LineStarts(d) : o < s /\ s <= p /\ LineIsBlank(d, s)}
      starts == {s \in blank : \A t \in LineStarts(d) : t < s /\ Below(d, t) = s => t \notin blank}
      Run(s) == Cardinality({t \in blank : t >= s /\ \A u \in LineStarts(d) : s <= u /\ u <= t => u \in blank})
  IN  Max({0} \cup {Run(s) : s \in starts})
OnOneLine(l) == \E j, k \in DOMAIN l.comments :
  j < k /\ ~\E s \in LineStarts(l.doc) : l.comments[j].to < s /\ s <= l.comments[k].from
\* "compact" joins no blank lines into a longer run than the source had between the
\* same code or at the same end of the file, as long as no two comments share a line,
\* no line went for a block scalar, and a blank last line is terminated.
NoHole ==
  \A l \in {Laid("compact")} :
  LET ends  == {-1} \cup ({Len(l.doc)} \cap LineStarts(l.doc))
      To(o) == IF o = -1 THEN -1 ELSE IF o = Len(l.doc) THEN Len(l.out) ELSE OriginalToOutput(l.map, o)
  IN  \A o, p \in l.code \cup ends :
        o < p /\ (\A q \in l.code : ~(o < q /\ q < p)) /\ ~OnOneLine(l) /\ l.swallow = {} =>
          BlankRun(l.out, To(o), To(p)) <= BlankRun(l.doc, o, p)

\* Whatever goes from behind a block scalar, in every layout its value is what it was.
BlockKeepsItsText ==
  subject = "yaml" /\ input # <<>> =>
    \A layout \in Layout : \A l \in {Laid(layout)} : BlockValue(l.out, Keep) = BlockValue(l.doc, Keep)

-----------------------------------------------------------------------------
\* A document of prose is a sequence of lines, one to a piece.
Prose == IF subject = "prose" THEN [k \in DOMAIN input |-> Pieces[input[k]].tokens] ELSE <<>>
Wraps == {"unwrap", "sentence"}

\* The visible tokens, each with the lines and blanks in front of it.
Visible(lines) ==
  FoldLeft(LAMBDA s, line :
             LET grown == FoldLeft(LAMBDA g, t :
                            IF t = "sp" THEN [g EXCEPT !.apart = TRUE]
                            ELSE [all |-> Append(g.all, [t |-> t, apart |-> g.apart, line |-> g.line]),
                                  apart |-> FALSE, line |-> g.line],
                            [s EXCEPT !.apart = TRUE, !.line = @ + 1], line)
             IN  grown,
           [all |-> <<>>, apart |-> TRUE, line |-> 0], lines).all

\* A reflow moves blanks and line ends alone: every visible token stays, in order; two
\* that stood apart still do, unless both are written without spaces; a break that was
\* meant stays; "unwrap" adds none; and what is not prose keeps its line as it was.
ProseStays ==
  \A wrap \in Wraps : \A lines \in {Prose} : \A new \in {Reflow(lines, wrap)} :
  \A was \in {Visible(lines)}, is \in {Visible(new)} :
    LET EndsLine(v, i) == i < Len(v) /\ v[i].line # v[i + 1].line
        fences == {k \in DOMAIN lines : FenceMarker(lines[k])}
        Fenced(k) == k \in fences \/ Cardinality({j \in fences : j < k}) % 2 = 1
        fixed == SelectSeq([k \in DOMAIN lines |-> [line |-> lines[k], fixed |-> Fenced(k)]], LAMBDA l : l.fixed)
        newFences == {k \in DOMAIN new : FenceMarker(new[k])}
        newFixed == SelectSeq([k \in DOMAIN new |-> [line |-> new[k], fixed |->
                      k \in newFences \/ Cardinality({j \in newFences : j < k}) % 2 = 1]], LAMBDA l : l.fixed)
    IN  /\ Len(is) = Len(was) /\ \A i \in DOMAIN was : is[i].t = was[i].t
        /\ \A i \in DOMAIN was : was[i].apart /\ ~is[i].apart =>
             was[i - 1].t \in WrittenWithoutSpaces /\ was[i].t \in WrittenWithoutSpaces
        /\ \A i \in DOMAIN was : EndsLine(was, i) /\ EndsAtABreak(lines[was[i].line]) => EndsLine(is, i)
        /\ wrap = "unwrap" => \A i \in DOMAIN was : EndsLine(is, i) => EndsLine(was, i)
        /\ newFixed = fixed
        /\ \A k \in DOMAIN lines : ~ReadsAsProse(TrimStart(lines[k])) /\ ~OpensAnItem(lines[k]) => lines[k] \in Range(new)

\* The three places a reflow is applied to, each over the same lines.
Forms == {"run", "block", "boxed", "document"}
Written(form) ==
  CASE form = "run" ->
         [k \in DOMAIN Prose |-> [indent |-> 2, opener |-> "//",
                                  text |-> IF Prose[k] = <<>> THEN <<>> ELSE <<"sp">> \o Prose[k]]]
    [] form \in {"block", "boxed"} ->
         [k \in DOMAIN Prose |-> (IF k = 1 THEN <<"sp">> ELSE <<"sp", "*", "sp">>) \o Prose[k]]
           \o IF form = "boxed" THEN <<<<"sp">>>> ELSE <<>>
    [] form = "document" -> Prose
Rewrite(form, wrap, text) ==
  CASE form = "run"      -> ReflowRun(text, wrap)
    [] form = "document" -> ReflowDocument(text, {}, wrap)
    [] OTHER             -> ReflowBlock(text, wrap)

\* What a rewrite leaves asks for no rewrite: the output is its own checker's fixed point.
ReflowSettles ==
  Prose # <<>> => \A form \in Forms, wrap \in Wraps :
    \A once \in {Rewrite(form, wrap, Written(form))} : Rewrite(form, wrap, once) = once

-----------------------------------------------------------------------------
\* A profile's documents are scanned rather than declared.  Every kind may be kept.
Removals == {{"Line", "Block"}, {"Line", "Block", "DocLine", "DocBlock"}, {"DocLine", "DocBlock"}}
Kept(doc, comments) ==
  LET kept == SelectSeq(comments, LAMBDA c : c.act = "keep")
  IN  [k \in DOMAIN kept |-> <<kept[k].kind, Slice(doc, kept[k].from, kept[k].to)>>]

\* Cleaning a valid file of a format the repository ships leaves a valid file of it,
\* with nothing to remove and every kept comment as it was - no two halves of the code
\* around a comment meet to open another - and the order the delimiters are listed in
\* decides nothing.
ProfileSettles ==
  subject \in DOMAIN Profiles =>
    \A p \in {Profiles[subject]} : \A doc \in {Source.doc} :
        /\ ValidProfile(p)
        /\ \A removed \in Removals : \A report \in {ScanProfile(doc, p, removed)} :
                 /\ ScanProfile(doc, [p EXCEPT !.lines = Reverse(@), !.blocks = Reverse(@)], removed) = report
                 /\ report.valid => \A layout \in Layout :
                      \A cleaned \in {Apply(doc, Edits(layout, doc, report.comments, <<>>))} :
                      \A again \in {ScanProfile(cleaned, p, removed)} :
                          /\ again.valid /\ Kept(cleaned, again.comments) = Kept(doc, report.comments)
                          /\ \A c \in Range(again.comments) : c.act = "keep"
=============================================================================
