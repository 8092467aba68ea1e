--------------------------- MODULE IncrementalScan ---------------------------
(***************************************************************************)
(* IncrementalDocument: the report of a document kept up to date across    *)
(* edits.  A change rescans from the last remembered offset in front of it *)
(* that may still be restarted from, up to the first remembered offset     *)
(* behind it where the scan is found clean again, and takes everything     *)
(* outside from the report it already had.  Every edit is held to the      *)
(* same edit scanned from the first lexeme.                                *)
(***************************************************************************)
EXTENDS Lexer

CONSTANT Instances  \* records [lang, alphabet, head, room]: the edits stay
                    \* behind head, which gives every document its first lines,
                    \* and leave at most room lexemes behind it.

VARIABLES
  instance, \* the language and the bounds of this document
  source,   \* the document's lexemes
  scanned,  \* its comments
  failures, \* where it does not lex: the report is valid when there are none
  safe_checkpoints, \* offsets a later scan may restart from, ascending
  crossed   \* history: whether a revision had a character literal across a line

vars == <<instance, source, scanned, failures, safe_checkpoints, crossed>>
FullScan == Scan(Language(instance.lang), source, 0)

Adopt(report) == /\ scanned' = report.comments
                 /\ failures' = report.errors
                 /\ safe_checkpoints' = report.points

\* Scala's escape takes the end of the line, and a quote that begins the next one
\* closes it.
Crosses(text) ==
  instance.lang = "scala" /\ \E i \in DOMAIN text :
    text[i] = "'" /\ ScalaCharacter(text, i) # NONE /\ text[ScalaCharacter(text, i) - 1] \in NewLine

Init ==
  /\ instance \in Instances
  /\ source = instance.head
  /\ \E full \in {FullScan} :
       /\ scanned = full.comments
       /\ failures = full.errors
       /\ safe_checkpoints = full.points
  /\ crossed = Crosses(source)

----------------------------------------------------------------------------
(***************************************************************************)
(* One change: the lexemes between the offsets from and to give way to     *)
(* replacement.                                                            *)
(***************************************************************************)
Edited(from, to, replacement) ==
  SubSeq(source, 1, from) \o replacement \o SubSeq(source, to + 1, Len(source))

SafeStartTrusted(language, next, from) ==
  LET usable == {p \in ToSet(safe_checkpoints) : p <= from}
  IN  IF failures # {} \/ usable = {} THEN 0 ELSE Max(usable)

\* A cached offset is a promise about one revision: the rules of the new text
\* are asked again.
SafeStart(language, next, from) ==
  LET usable == {p \in ToSet(safe_checkpoints) :
                   p <= from /\ PermitRestartAt(language, next, p)}
  IN  IF failures # {} \/ usable = {} THEN 0 ELSE Max(usable)

\* The first old offset behind the change that neither text's preamble reaches.
Convergence(next, start, to, shift) ==
  LET settled == {p \in ToSet(safe_checkpoints) :
                    /\ p >= to /\ p >= start
                    /\ PreambleIsSettled(source, p)
                    /\ PreambleIsSettled(next, p + shift)}
  IN  IF failures # {} \/ settled = {} THEN NONE ELSE Min(settled)

Moved(comment, shift) == [comment EXCEPT !.from = @ + shift, !.to = @ + shift]

\* What the old report says in front of start and behind the offset tail, and
\* what the rescan in between found; tail = NONE when it ran to the end.
Before(start) ==
  [comments |-> SelectSeq(scanned, LAMBDA c : c.from < start /\ c.to <= start),
   errors   |-> {e \in failures : e < start},
   points   |-> SelectSeq(safe_checkpoints, LAMBDA p : p < start)]
Behind(language, next, tail, shift) ==
  IF tail = NONE THEN [comments |-> <<>>, errors |-> {}, points |-> <<>>]
  ELSE LET kept  == SelectSeq(scanned, LAMBDA c : c.from >= tail)
           after == SelectSeq(safe_checkpoints, LAMBDA p :
                      p > tail /\ PermitRestartAt(language, next, p + shift))
       IN  [comments |-> [k \in DOMAIN kept |-> Moved(kept[k], shift)],
            errors   |-> {e + shift : e \in {f \in failures : f >= tail}},
            points   |-> [k \in DOMAIN after |-> after[k] + shift]]

Deduplicated(points) ==
  FoldLeft(LAMBDA kept, p : IF kept # <<>> /\ Last(kept) = p THEN kept ELSE Append(kept, p),
           <<>>, points)
Spliced(before, middle, behind) ==
  [comments |-> before.comments \o middle.comments \o behind.comments,
   errors   |-> before.errors \cup middle.errors \cup behind.errors,
   points   |-> Deduplicated(before.points \o middle.points \o behind.points)]

\* start is where the rescan begins, old the remembered offset it may stop at.
Rescanned(language, next, start, old, shift) ==
  LET stop == IF old = NONE THEN NONE ELSE old + shift
      Kept(partial) == Spliced(Before(start), partial,
                               Behind(language, next, IF partial.halted THEN old ELSE NONE, shift))
  IN  Kept(ScanUntil(language, next, start, stop))
RescannedFrom(language, next, to, shift, start) ==
  Rescanned(language, next, start, Convergence(next, start, to, shift), shift)
Updated(language, next, from, to, replacement) ==
  RescannedFrom(language, next, to, Len(replacement) - (to - from),
                SafeStart(language, next, from))

\* A version that is not newer and a span outside the document are refused
\* before anything is written: only the changes that are taken are steps.
apply_changes ==
  \E from \in Len(instance.head)..Len(source) :
  \E to \in from..Len(source) :
  \E replacement \in {<<>>} \cup {<<x>> : x \in instance.alphabet} :
    LET next == Edited(from, to, replacement) IN
    /\ to <= from + 1
    /\ next # source
    /\ Len(next) <= Len(instance.head) + instance.room
    /\ source' = next
    /\ \E report \in {Updated(Language(instance.lang), next, from, to, replacement)} : Adopt(report)
    /\ crossed' = (crossed \/ Crosses(next))
    /\ UNCHANGED instance

Next == apply_changes
Spec == Init /\ [][Next]_vars

----------------------------------------------------------------------------
\* However edits led to a document in a language of Grammar, its report is the one a
\* scan of the whole text gives (incremental.rs:43): the same comments, of the same
\* kinds, and the same failures; and it remembers the same offsets (incremental.rs:695).
\* A clean is an edit at these spans, so a stale one deletes the program's text.
\* Exception: from the revision on in which a Scala character literal crosses a line,
\* for the end of that line is remembered and read on from.  The languages outside
\* Grammar that have the like (Sass, Vue, Svelte) are in README.md, section 5.
ReportIsFullScan ==
  ~crossed => \A full \in {FullScan} :
                /\ scanned = full.comments /\ failures = full.errors
                /\ ToSet(safe_checkpoints) = ToSet(full.points)

\* A remembered offset is one a scan may restart from: no comment of the full
\* scan stands across it, and reading on from it finds the comments the full scan finds
\* behind it and no failure.  (A document that does not lex is always read from the
\* beginning.  The exception is that of ReportIsFullScan.)
CheckpointsRestart ==
  \A language \in {Language(instance.lang)} : \A full \in {FullScan} :
    failures = {} /\ ~crossed =>
      \A p \in ToSet(safe_checkpoints) :
        /\ \A c \in ToSet(full.comments) : c.to <= p \/ p <= c.from
        /\ PermitRestartAt(language, source, p) =>
             \A rest \in {Scan(language, source, p)} :
               /\ rest.comments = SelectSeq(full.comments, LAMBDA c : c.from >= p)
               /\ rest.errors = {}
=============================================================================
