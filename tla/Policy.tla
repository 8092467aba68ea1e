-------------------------------- MODULE Policy --------------------------------
(***************************************************************************)
(* What becomes of each comment of a file: the rules the scan applies to a *)
(* comment by itself (rust/ocomment-core/src/scanner.rs), the rules about  *)
(* its neighbours and its place, the style rules, the deadlines            *)
(* (rust/ocomment/src/deadline.rs), the edits planned from the result      *)
(* (rust/ocomment-core/src/transform.rs), and the same again over the file *)
(* those edits leave.                                                      *)
(*                                                                         *)
(* A comment is                                                            *)
(*   kind     what the scanner classified it as                            *)
(*   gap      what stands before it: "same" blanks after the comment       *)
(*            before, on its line; "next" one line break after that        *)
(*            comment; "apart" blank lines, or the start of the file;      *)
(*            "code" code on its line; "stmt" code on the line above;      *)
(*            "body" the body of a YAML block scalar on the line above     *)
(*   lines    the lines it takes                                           *)
(*   hits     the keep_regex patterns that match it                        *)
(*   dropped  remove_regex matches it                                      *)
(*   claimed  the kind a protected pattern gives it, or its own            *)
(*   tag      the tag it opens with, or "none"                             *)
(*   age      "old" is past every limit, "unknown" is not in the blame     *)
(*   rough    a style rule would spell it differently                      *)
(*   ragged   the wrap rule would break it elsewhere                       *)
(*   deep     it is indented as far as the block scalar's content          *)
(***************************************************************************)
EXTENDS SequencesExt, Integers

CONSTANT Scenes   \* records [files, options]: files, and the settings they are read under

Kind == {"line", "block", "doc-line", "doc-block", "directive", "license",
         "html-comment", "shebang", "encoding", "optimizer-hint",
         "version-comment", "load-bearing"}
Gap  == {"same", "next", "apart", "code", "stmt", "body"}

Comment == [kind : Kind, gap : Gap, lines : 1..2, hits : SUBSET (1..2),
            dropped : BOOLEAN, claimed : Kind, tag : {"none", "note", "todo"},
            age : {"new", "old", "unknown"}, rough : BOOLEAN, ragged : BOOLEAN,
            deep : BOOLEAN]

\* maxLines 0 and trailing "unset" are rules nobody wrote.
Options == [language : {"yaml", "python", "other"},
            policy : {"none", "conservative", "standard", "all"}, force : BOOLEAN,
            keepKinds : SUBSET Kind, removeKinds : SUBSET Kind, keepRegex : 0..2,
            removeRegex : BOOLEAN, tags : SUBSET {"note", "todo"},
            expiry : SUBSET {"note", "todo"},
            trailing : {"unset", "allowed", "refused"}, maxLines : 0..3,
            wrap : BOOLEAN, spell : BOOLEAN, compact : BOOLEAN]

\* A line comment ends its line, and what ends a block scalar's body is shallow.
Readable(file) ==
  \A i \in DOMAIN file :
    /\ file[i].gap \in {"same", "next"} => i > 1
    /\ file[i].gap = "same" => file[i - 1].kind \notin {"line", "doc-line"}
    /\ file[i].gap = "body" => ~file[i].deep

\* YAML has line comments only, and what they say makes none of them one of HTML.
Written(file, language) ==
  language = "yaml" => \A i \in DOMAIN file : file[i].claimed # "html-comment"

ASSUME ScenesAssumption ==
  \A s \in Scenes : /\ s.options \subseteq Options
                    /\ \A f \in s.files : /\ f \in Seq(Comment) /\ Readable(f)
                                         /\ \A o \in s.options : Written(f, o.language)

VARIABLES file, options,
          verdicts,   \* of each comment: its action, the rule that decided it, the
                      \* shape rule recorded and the pattern a block was kept by
          runs,       \* the paragraphs the wrap rule rewrites, as [from, to]
          phase,      \* "read", "scanned", "allowed", "styled", "dated"
          before      \* the file a rewrite came from, <<>> before the rewrite

vars == <<file, options, verdicts, runs, phase, before>>

Why == {"named", "protected", "removed", "policy", "structural", "block", "tagged",
         "trailing", "long", "style", "expired"}
Verdict == [action : {"keep", "rewrite", "remove"}, why : Why,
            shape : {"none", "tagged", "trailing", "long", "expired"}, regex : 0..2]

Removes(v) == v.action = "remove"
Decide(v, action, shape) == [v EXCEPT !.action = action, !.why = shape, !.shape = shape]

-----------------------------------------------------------------------------
(* The rules about one comment by itself.                                  *)

Preamble == {"shebang", "encoding"}
Protection == Preamble \cup {"load-bearing", "optimizer-hint", "version-comment"}

Keeps(policy, kind) ==
  \/ policy = "none"
  \/ kind \in {"doc-line", "doc-block", "license"} /\ policy = "conservative"
  \/ kind \in {"directive", "html-comment"} /\ policy # "all"

\* The keep_regex patterns that match; without a pattern the set is not asked.
Matches(c) == c.hits \cap (1..options.keepRegex)

NamedOutright(c) == c.claimed \in options.keepKinds \/ Matches(c) # {}

\* The rules in the order they are asked, and what the first that applies says.
FirstRule(rules) == LET r == rules[SelectInSeq(rules, LAMBDA x : x[1])] IN <<r[2], r[3]>>

ToRemove(c) == c.claimed \in options.removeKinds \/ (options.removeRegex /\ c.dropped)
Protected(c) == c.claimed \in Protection /\ ~options.force

\* Mutant of Disposition: what is to be removed is asked before what is protected.
DispositionEager(c) ==
  FirstRule(<< <<NamedOutright(c), "keep", "named">>,
               <<ToRemove(c), "remove", "removed">>,
               <<Protected(c), "keep", "protected">>,
               <<Keeps(options.policy, c.claimed), "keep", "policy">>,
               <<TRUE, "remove", "policy">> >>)

Disposition(c) ==
  FirstRule(<< <<NamedOutright(c), "keep", "named">>,
               <<Protected(c), "keep", "protected">>,
               <<ToRemove(c), "remove", "removed">>,
               <<Keeps(options.policy, c.claimed), "keep", "policy">>,
               <<TRUE, "remove", "policy">> >>)

Claim(c) == [action |-> Disposition(c)[1], why |-> Disposition(c)[2],
             shape |-> "none", regex |-> 0]

-----------------------------------------------------------------------------
(* The comments under a YAML block scalar.  One at the content's depth is   *)
(* content itself unless a shallower one above it ends the body.            *)

\* The lines under the body that hold one comment each.
Trail(f, b) == {i \in b..Len(f) : \A j \in (b + 1)..i : f[j].gap \in {"next", "apart"}}
Bodies(f)   == {b \in DOMAIN f : options.language = "yaml" /\ f[b].gap = "body"}

\* A comment that stays and is read as content of the scalar.
Captured(f, vs) ==
  \E b \in Bodies(f) :
    LET stays == {i \in Trail(f, b) : ~Removes(vs[i])} IN stays # {} /\ f[Min(stays)].deep

\* The comment that has to stay because the first one that stays below is deep.
Shields(f, vs) ==
  {b \in Bodies(f) :
     LET stays == {i \in Trail(f, b) : ~Removes(vs[i])}
     IN  stays # {} /\ b \notin stays /\ f[Min(stays)].deep}

KeepTrails(f, vs) ==
  [i \in DOMAIN vs |-> IF i \in Shields(f, vs)
                       THEN [vs[i] EXCEPT !.action = "keep", !.why = "structural"]
                       ELSE vs[i]]

-----------------------------------------------------------------------------
(* apply_allow_rules: the rules about where a comment is and what is beside *)
(* it.                                                                      *)

\* Comments of one kind on consecutive lines are one block for keep_regex.
Joins(f, i)  == i > 1 /\ f[i].gap = "next" /\ f[i].claimed = f[i - 1].claimed
Block(f, i)  == {j \in DOMAIN f : \A k \in (Min({i, j}) + 1)..Max({i, j}) : Joins(f, k)}
Pattern(f, i) ==
  LET hits == UNION {Matches(f[j]) : j \in Block(f, i)}
  IN  IF hits = {} THEN 0 ELSE Min(hits)

\* Mutant of KeepBlocks: only what stands below the match is kept.
KeepBlocksBelow(f, vs) ==
  [i \in DOMAIN vs |->
     IF NamedOutright(f[i]) \/ ~\E j \in Block(f, i) : j <= i /\ Matches(f[j]) # {} THEN vs[i]
     ELSE [vs[i] EXCEPT !.action = "keep", !.why = "block", !.regex = Pattern(f, i)]]

KeepBlocks(f, vs) ==
  [i \in DOMAIN vs |->
     IF Pattern(f, i) = 0 \/ NamedOutright(f[i]) THEN vs[i]
     ELSE [vs[i] EXCEPT !.action = "keep", !.why = "block", !.regex = Pattern(f, i)]]

SubjectToShape == {"line", "block", "html-comment"}
Reachable(c, v) == c.claimed \in SubjectToShape /\ v.regex = 0 /\ ~NamedOutright(c)

EveryTag == options.tags \cup options.expiry
KeepTagged(f, vs) ==
  [i \in DOMAIN vs |-> IF Removes(vs[i]) /\ f[i].tag \in EveryTag
                       THEN Decide(vs[i], "keep", "tagged") ELSE vs[i]]

HasCodeBeforeIt(c) == c.gap \in {"code", "same"}
RemoveTrailing(f, vs) ==
  [i \in DOMAIN vs |->
     IF /\ options.trailing = "refused" /\ vs[i].action = "keep"
        /\ Reachable(f[i], vs[i]) /\ HasCodeBeforeIt(f[i])
     THEN Decide(vs[i], "remove", "trailing") ELSE vs[i]]

\* A run is a paragraph of comments on consecutive lines, the first one anywhere.
InRun(f, i, j) == \A k \in (Min({i, j}) + 1)..Max({i, j}) : f[k].gap = "next"
Run(f, i)      == {j \in DOMAIN f : InRun(f, i, j)}
RunLines(f, i) == Cardinality(Run(f, i)) + Cardinality({j \in Run(f, i) : f[j].lines = 2})

RemoveLong(f, vs) ==
  [i \in DOMAIN vs |->
     IF options.maxLines > 0 /\ RunLines(f, i) > options.maxLines /\ Reachable(f[i], vs[i])
     THEN Decide(vs[i], "remove", "long") ELSE vs[i]]

ApplyAllowRules(f, vs) ==
  LET kept == KeepBlocks(f, vs)
  IN  IF options.policy = "none" THEN kept
      ELSE RemoveLong(f, RemoveTrailing(f, KeepTagged(f, kept)))

-----------------------------------------------------------------------------
(* apply_style_rules: how a comment that stays is written.                  *)

SubjectToStyle == {"line", "block", "doc-line", "doc-block", "html-comment"}
Alone(c) == c.kind \in {"block", "doc-block", "html-comment"}
Styled(c, v) == ~Removes(v) /\ c.claimed \in SubjectToStyle

\* The part of a run a paragraph is: delimited comments stand alone, and a comment the
\* style rules do not reach splits it.
Stretch(f, vs, i) ==
  IF Alone(f[i]) THEN {i}
  ELSE {j \in Run(f, i) : \A k \in Min({i, j})..Max({i, j}) : Styled(f[k], vs[k]) /\ ~Alone(f[k])}

\* In the first two lines of a file that reads a preamble nothing moves.
NearTheTop(f, i) ==
  /\ i <= 2 /\ f[1].gap = "apart"
  /\ i = 2 => f[2].gap \in {"next", "same"} /\ f[1].lines = 1
SafeToReflow(f, vs, s) ==
  /\ \A i \in s : vs[i].why # "structural"
  /\ options.language = "python" => ~NearTheTop(f, Min(s))

\* Only one kind of marker at one indentation with one tag is a paragraph.
TakesApart(f, s) ==
  \A i \in s : /\ f[i].kind = f[Min(s)].kind /\ f[i].tag = f[Min(s)].tag
               /\ f[i].deep = f[Min(s)].deep /\ f[i].gap # "code"

Reflows(f, vs, s) ==
  /\ options.wrap /\ SafeToReflow(f, vs, s) /\ \E i \in s : f[i].ragged
  /\ IF Alone(f[Min(s)]) THEN f[Min(s)].lines = 2 ELSE TakesApart(f, s)

ProseRuns(f, vs) ==
  {s \in {Stretch(f, vs, i) : i \in {j \in DOMAIN f : Styled(f[j], vs[j])}} : Reflows(f, vs, s)}

\* A comment is spelled once: by the paragraph's rewrite or by its own.
Restyle(f, vs, rs) ==
  [i \in DOMAIN vs |->
     IF /\ options.spell /\ f[i].rough /\ f[i].claimed \in SubjectToStyle
        /\ vs[i].action = "keep" /\ i \notin UNION rs
     THEN [vs[i] EXCEPT !.action = "rewrite", !.why = "style"] ELSE vs[i]]

-----------------------------------------------------------------------------
(* deadline::apply, between the scan and the plan.                          *)

Overdue(c, v) == v.shape = "tagged" /\ c.tag \in options.expiry /\ c.age = "old"
Date(f, vs) ==
  [i \in DOMAIN vs |-> IF Overdue(f[i], vs[i]) THEN Decide(vs[i], "remove", "expired") ELSE vs[i]]

-----------------------------------------------------------------------------
(* The file the plan leaves, lines and all: a removed comment takes its     *)
(* line with it when it is alone there, and code before it stays.           *)

\* The places of a set, from the first to the last.
InOrder(S) == [k \in 1..Cardinality(S) |-> CHOOSE i \in S : Cardinality({j \in S : j <= i}) = k]

\* Mutant of Left: a removed comment at the end of the file is left out of the edits.
LeftLast(vs) == InOrder({i \in DOMAIN vs : ~Removes(vs[i]) \/ i = Len(vs)})

Left(vs) == InOrder({i \in DOMAIN vs : ~Removes(vs[i])})

\* What stands before comment i once the comments since the last kept one are gone.
\* Compact takes the line of a removed comment away; the other layouts leave it blank.
GapLeft(f, vs, i) ==
  LET above == {j \in 1..(i - 1) : ~Removes(vs[j])}
      since == ((IF above = {} THEN 0 ELSE Max(above)) + 1)..i
      opens == Max({j \in {Min(since)} \cup since : f[j].gap # "same" \/ j = Min(since)})
      upto  == {k \in since : k <= opens}
      solid == {k \in upto : f[k].gap \in {"code", "stmt", "body"}}
  IN  IF Min(since) = i THEN f[i].gap
      ELSE IF f[opens].gap \in {"code", "same"} THEN f[opens].gap
      ELSE IF solid # {} THEN IF f[Max(solid)].gap = "body" THEN "body" ELSE "stmt"
      ELSE IF \/ \E j \in upto : f[j].gap = "apart"
              \/ ~options.compact /\ \E j \in since : j < opens
           THEN "apart" ELSE "next"

\* A comment rewritten reads the same and is spelled right; a paragraph is one.
Cleaned(f, vs, rs) ==
  [k \in DOMAIN Left(vs) |->
     LET i == Left(vs)[k] IN
     [f[i] EXCEPT !.gap = GapLeft(f, vs, i),
                  !.rough = @ /\ vs[i].action # "rewrite" /\ i \notin UNION rs,
                  !.ragged = @ /\ i \notin UNION rs]]

-----------------------------------------------------------------------------
(* explain_comment: the rule named for a verdict, from what the comment       *)
(* records and otherwise from the table of rules again.                     *)

ExplainTable(c) ==
  FirstRule(<< <<c.claimed \in options.keepKinds, "keep", "kept by kind">>,
               <<Matches(c) # {}, "keep", "kept by regex">>,
               <<Protected(c), "keep", "protected">>,
               <<c.claimed \in options.removeKinds, "remove", "removed by kind">>,
               <<options.removeRegex /\ c.dropped, "remove", "removed by regex">>,
               <<options.policy = "all", "remove", "removed by policy">>,
               <<c.claimed \in {"html-comment", "directive"}, "keep", "kept">>,
               <<options.policy = "conservative" /\ c.claimed \in {"license", "doc-line", "doc-block"},
                 "keep", "kept">>,
               <<options.policy = "none", "keep", "kept by policy">>,
               <<TRUE, "remove", "removed by default">> >>)

\* Mutant of Explained: the recorded shape is read before the style.
ExplainedShapeFirst(i) ==
  LET c == file[i]  v == verdicts[i] IN
  CASE v.shape # "none" -> IF v.shape = "tagged" THEN "keep" ELSE "remove"
    [] OTHER -> IF v.action = "rewrite" THEN "rewrite" ELSE ExplainTable(c)[1]

Explained(i) ==
  LET c == file[i]  v == verdicts[i]  byTable == ExplainTable(c)[1] IN
  FirstRule(<< <<v.action = "rewrite", "rewrite", "style">>,
               <<v.shape # "none", IF v.shape = "tagged" THEN "keep" ELSE "remove", "shape">>,
               <<v.regex > 0, "keep", "kept by regex">>,
               <<v.why = "structural", "keep", "structural">>,
               <<byTable = "keep" /\ c.claimed \in SubjectToStyle /\ options.spell /\ c.rough,
                 "rewrite", "style">>,
               <<TRUE, byTable, "table">> >>)[1]

-----------------------------------------------------------------------------
Init ==
  /\ \E s \in Scenes : file \in s.files /\ options \in s.options
  /\ verdicts = [i \in DOMAIN file |-> Claim(file[i])]
  /\ runs = {} /\ phase = "read" /\ before = <<>>

\* The end of a scan of a whole file: the YAML trails.
FinishScan ==
  /\ phase = "read" /\ phase' = "scanned"
  /\ verdicts' = KeepTrails(file, verdicts)
  /\ UNCHANGED <<file, options, runs, before>>

Allow ==
  /\ phase = "scanned" /\ phase' = "allowed"
  /\ verdicts' = ApplyAllowRules(file, verdicts)
  /\ UNCHANGED <<file, options, runs, before>>

ApplyStyle ==
  /\ phase = "allowed" /\ phase' = "styled"
  /\ runs' = ProseRuns(file, verdicts)
  /\ verdicts' = Restyle(file, verdicts, runs')
  /\ UNCHANGED <<file, options, before>>

\* The deadlines are only settled for the file as it is, not for the check of the
\* rewrite.
ApplyDeadlines ==
  /\ phase = "styled" /\ before = <<>> /\ phase' = "dated"
  /\ verdicts' = Date(file, verdicts)
  /\ UNCHANGED <<file, options, runs, before>>

\* plan_report, apply_edits and the scan verify_rewrite is given.  What a removal let
\* into a block scalar is no comment of the file any more; such files end here.
Rescan ==
  /\ phase = "dated" /\ ~Captured(file, verdicts)
  /\ phase' = "read" /\ before' = file
  /\ file' = Cleaned(file, verdicts, runs)
  /\ runs' = {}
  /\ verdicts' = [i \in DOMAIN file' |-> Claim(file'[i])]
  /\ UNCHANGED options

Next == FinishScan \/ Allow \/ ApplyStyle \/ ApplyDeadlines \/ Rescan
Spec == Init /\ [][Next]_vars

-----------------------------------------------------------------------------
\* Whatever the rules about shape, place, length and age say: a comment the settings
\* name to be kept, or whose kind nothing but force_protected reaches, stays.
NamedSurvives ==
  \A i \in DOMAIN file :
    NamedOutright(file[i]) \/ Protected(file[i]) => ~Removes(verdicts[i])

\* keep_regex keeps a block of comments whole once the rules have run, whichever of them it matched.
BlocksStayWhole ==
  phase \in {"allowed", "styled", "dated"} =>
    \A i, j \in DOMAIN file :
      j \in Block(file, i) /\ Matches(file[j]) # {} => ~Removes(verdicts[i])

\* explain_comment names a rule that does what happened to the comment, after every
\* pass, save for one a reflowed paragraph spells right on the way.
ExplanationHolds ==
  phase \in {"styled", "dated"} =>
    \A i \in DOMAIN file \ {j \in UNION runs : file[j].rough} :
      Explained(i) = verdicts[i].action

\* What verify_rewrite asks of every rewrite: scanned again, nothing is left to remove.
\* Not so under a length limit when a rewrite can join runs or break lines: when
\* comments shared a line, or paragraphs are reflowed.
RewriteSettles ==
  /\ before # <<>> /\ phase = "styled"
  /\ options.maxLines > 0 =>
       ~options.wrap /\ \A i \in DOMAIN before : before[i].gap # "same"
  => \A i \in DOMAIN file : ~Removes(verdicts[i])
=============================================================================
