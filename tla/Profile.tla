-------------------------------- MODULE Profile --------------------------------
(***************************************************************************)
(* Formats described by a list of delimiters: profile.rs.  A profile is a  *)
(* record of the line and block delimiters, the strings and the protected  *)
(* patterns it declares; a token is one character, a delimiter a sequence  *)
(* of them, and offsets count the characters in front.                     *)
(***************************************************************************)
EXTENDS Layouts

\* What the options do with each kind of comment.
Disposed(kind, removed) == IF kind \in removed THEN "remove" ELSE "keep"

StartsAt(doc, o, token) == o + Len(token) <= Len(doc) /\ Slice(doc, o, o + Len(token)) = token
Holds(seq, part) == \E o \in 0..Len(seq) : StartsAt(seq, o, part)

-----------------------------------------------------------------------------
\* validate_profile: what a profile may not be.  One comment delimiter may begin another.
ValidToken(token) == token # <<>> /\ \A i \in DOMAIN token : token[i] \notin {"cr", "lf"}
Overlap(a, b) == IsPrefix(a, b) \/ IsPrefix(b, a)
ValidProfile(p) ==
  LET opens   == [k \in DOMAIN p.lines |-> p.lines[k].start] \o [k \in DOMAIN p.blocks |-> p.blocks[k].start]
      strings == [k \in DOMAIN p.strings |-> p.strings[k].start]
      Apart(seq, Clash(_, _)) == \A i, j \in DOMAIN seq : i < j => ~Clash(seq[i], seq[j])
  IN  /\ opens # <<>>
      /\ \A t \in Range(opens) \cup Range(strings) : ValidToken(t)
      /\ \A b \in Range(p.blocks) :
           /\ ValidToken(b.end)
           /\ b.nested => b.start # b.end /\ ~Holds(b.start, b.end) /\ ~Holds(b.end, b.start)
      /\ \A s \in Range(p.strings) : ValidToken(s.end) /\ (s.escape # <<>> => ValidToken(s.escape))
      /\ Apart(opens, LAMBDA a, b : a = b)
      /\ \A c \in Range(opens), s \in Range(strings) : ~Overlap(c, s)
      /\ Apart(strings, Overlap)
      /\ <<>> \notin Range(p.protected)

-----------------------------------------------------------------------------
\* The opener at o: the longest that matches where it may stand.
PastItsRun(doc, o, d) ==
  LET behind == {n \in (o + Len(d.start))..Len(doc) : n = Len(doc) \/ At(doc, n) # Last(d.start)}
  IN  d.forbidden = {} \/ Min(behind) = Len(doc) \/ At(doc, Min(behind)) \notin d.forbidden
LineOpens(doc, o, d) ==
  /\ StartsAt(doc, o, d.start)
  /\ d.boundary => o = 0 \/ At(doc, o - 1) \in White
  /\ d.lineStart => o = 0 \/ At(doc, o - 1) = "lf"
  /\ PastItsRun(doc, o, d)
Longest(found) == CHOOSE d \in found : \A e \in found : Len(e.start) <= Len(d.start)
OpenersAt(doc, o, p) ==
  {d \in Range(p.lines) : LineOpens(doc, o, d)} \cup {d \in Range(p.blocks) : StartsAt(doc, o, d.start)}

\* Any opener that closes with the same token nests.
NestedOpener(doc, o, p, end) ==
  Max({0} \cup {Len(d.start) : d \in {b \in Range(p.blocks) : b.end = end /\ StartsAt(doc, o, b.start)}})
BlockEnd(doc, o, p, block) ==
  LET at[i \in Nat, depth \in Nat] ==
        LET inner == IF block.nested THEN NestedOpener(doc, i, p, block.end) ELSE 0
        IN  IF i >= Len(doc) THEN [end |-> i, closed |-> FALSE]
            ELSE IF inner > 0 THEN at[i + inner, depth + 1]
            ELSE IF ~StartsAt(doc, i, block.end) THEN at[i + 1, depth]
            ELSE IF depth = 1 THEN [end |-> i + Len(block.end), closed |-> TRUE]
            ELSE at[i + Len(block.end), depth - 1]
  IN  at[o + Len(block.start), 1]
LineEnd(doc, o, line) ==
  Min({i \in (o + Len(line.start))..Len(doc) : i = Len(doc) \/ At(doc, i) \in {"cr", "lf"}})
StringEnd(doc, o, string) ==
  LET at[i \in Nat] ==
        IF i >= Len(doc) THEN [end |-> i, closed |-> FALSE]
        ELSE IF StartsAt(doc, i, string.end) THEN [end |-> i + Len(string.end), closed |-> TRUE]
        ELSE IF string.escape # <<>> /\ StartsAt(doc, i, string.escape)
        THEN at[Smaller(i + Len(string.escape) + 1, Len(doc))]
        ELSE IF ~string.multiline /\ At(doc, i) \in {"cr", "lf"} THEN [end |-> i, closed |-> FALSE]
        ELSE at[i + 1]
  IN  at[o + Len(string.start)]

\* profile_comment: a protected pattern decides the kind, the kind the verdict.
ProfileComment(doc, from, to, kind, p, removed) ==
  LET as == IF \E t \in Range(p.protected) : Holds(Slice(doc, from, to), t) THEN p.tier ELSE kind
  IN  [from |-> from, to |-> to, kind |-> as, act |-> Disposed(as, removed), new |-> <<>>]

\* comment_runs: comments on consecutive lines with nothing but blanks between.
HasCodeBeforeIt(doc, o) == \E i \in LineStart(doc, o)..(o - 1) : At(doc, i) \notin White
RunsOn(doc, before, after) ==
  LET between == Slice(doc, before.to, after.from)
  IN  /\ Range(between) \subseteq White /\ Len(SelectSeq(between, LAMBDA t : t = "lf")) <= 1
      /\ ~HasCodeBeforeIt(doc, after.from)
\* A documentation line carries on over the plain lines directly below it.
ContinueDocumentation(doc, comments, p, removed) ==
  FoldLeft(LAMBDA done, c :
             LET carries == done # <<>> /\ Last(done).kind = "DocLine" /\ RunsOn(doc, Last(done), c)
             IN  Append(done, IF c.kind = "Line" /\ carries
                              THEN ProfileComment(doc, c.from, c.to, "DocLine", p, removed) ELSE c),
           <<>>, comments)

ScanProfile(doc, p, removed) ==
  LET scan[o \in Nat] ==
        LET strings == {s \in Range(p.strings) : StartsAt(doc, o, s.start)}
            openers == OpenersAt(doc, o, p)
            string  == StringEnd(doc, o, CHOOSE s \in strings : TRUE)
            opener  == Longest(openers)
            ends    == IF opener \in Range(p.lines) THEN [end |-> LineEnd(doc, o, opener), closed |-> TRUE]
                       ELSE BlockEnd(doc, o, p, opener)
            rest    == scan[ends.end]
        IN  IF o >= Len(doc) THEN [comments |-> <<>>, valid |-> TRUE]
            ELSE IF strings # {}
            THEN [scan[string.end] EXCEPT !.valid = @ /\ string.closed]
            ELSE IF openers = {} THEN scan[o + 1]
            ELSE [comments |-> <<ProfileComment(doc, o, ends.end, opener.kind, p, removed)>> \o rest.comments,
                  valid    |-> ends.closed /\ rest.valid]
      report == scan[0]
  IN  IF p.continuation
      THEN [report EXCEPT !.comments = ContinueDocumentation(doc, @, p, removed)] ELSE report
=============================================================================
