---------------------------- MODULE CommandProofs ----------------------------
(***************************************************************************)
(* The exit code of a run tells what is in the tree, coverage leaves no    *)
(* file out, a file is read under the same rules from wherever it is       *)
(* named, and what explains the rules is true of them.                     *)
(***************************************************************************)
EXTENDS Command, FiniteSetTheorems, SequenceTheorems, TLAPS

\* What the proofs say of a candidate's answer without its text: whether it is
\* found, and as what.
RulesAt(r, path, head) ==
  ForPath(r, path, [Detected(r, Last(path), head) EXCEPT !.language = IF @ = none THEN "unknown" ELSE @])
ReaderAt(r, path, head) ==
  IF RulesAt(r, path, head).language # "unknown" THEN "language" ELSE At(Readers, Last(path), none)
Classifies(r, path, head) ==
  /\ head # "binary"
  /\ File(r, "generated", FALSE) \/ (Last(path) \notin Generated /\ head \notin Generated)
  /\ RulesAt(r, path, head).fits
  /\ LanguageIsEnabled(r, RulesAt(r, path, head).language)
  /\ ReaderAt(r, path, head) # none
Opens(r, file, scope) ==
  /\ file.link # "no" => File(r, "follow", FALSE)
  /\ ~(file.link = "broken" /\ File(r, "follow", FALSE))
  /\ ~(file.link = "directory" /\ File(r, "follow", FALSE))
  /\ file.large => scope
IsFound(r, d, path, scope) ==
  /\ ~Configured(r, path)
  /\ Absolute(r, path) \in DOMAIN d
  /\ Opens(r, d[Absolute(r, path)], scope)
  /\ Classifies(r, path, d[Absolute(r, path)].head)
\* A link to a directory, where links are followed, is no file.
GoesThrough(r, d, path) ==
  /\ ~Configured(r, path)
  /\ Absolute(r, path) \in DOMAIN d
  /\ d[Absolute(r, path)].link = "directory" /\ File(r, "follow", FALSE)
FoundIn(r, d, path) ==
  Found(path, RulesAt(r, path, d[Absolute(r, path)].head), ReaderAt(r, path, d[Absolute(r, path)].head),
        d[Absolute(r, path)].text)

\* A candidate that is not found is fatal, or passed over under its path.
Refused(l, path, named) ==
  \/ l = [kind |-> "fatal"]
  \/ \E reason : \E error \in BOOLEAN : l = Passed(path, reason, error, named)

\* A file that classify lets through is found as FoundIn says; any other answer
\* is none of the found (files.rs).
LEMMA ClassifiedIs ==
  ASSUME NEW r, NEW path, NEW file, NEW named
  PROVE  LET l == Classified(r, path, file, named, RulesAt(r, path, file.head))
         IN  /\ Classifies(r, path, file.head) =>
                  l = Found(path, RulesAt(r, path, file.head), ReaderAt(r, path, file.head), file.text)
             /\ ~Classifies(r, path, file.head) => Refused(l, path, named)
<1>1. FALSE \in BOOLEAN
  OBVIOUS
<1> QED
  BY <1>1, Zenon DEF Classified, Classifies, ReaderAt, Refused

\* The answer for a candidate, told by its path (files.rs).
LEMMA LoadOneIs ==
  ASSUME NEW r, NEW d, NEW c, NEW path, path = ReportedPath(c.path)
  PROVE  /\ IsFound(r, d, path, c.scope) => LoadOne(r, d, c) = FoundIn(r, d, path)
         /\ Configured(r, path) \/ GoesThrough(r, d, path) => LoadOne(r, d, c) = Nothing
         /\ ~IsFound(r, d, path, c.scope) /\ ~Configured(r, path) /\ ~GoesThrough(r, d, path) =>
              Refused(LoadOne(r, d, c), path, c.named)
<1> DEFINE place == Absolute(r, path)
           file == d[place]
           follow == File(r, "follow", FALSE)
           pass(reason, error) == Passed(path, reason, error, c.named)
<1>1. LoadOne(r, d, c) =
        CASE Configured(r, path) -> Nothing
          [] ~Configured(r, path) /\ place \notin DOMAIN d -> pass("unreadable", TRUE)
          [] OTHER -> CASE file.link # "no" /\ ~follow -> pass("symbolic link", FALSE)
                        [] file.link = "broken" /\ follow -> pass("unreadable", TRUE)
                        [] file.link = "directory" /\ follow -> Nothing
                        [] OTHER -> IF file.large /\ ~c.scope THEN pass("too large", FALSE)
                                    ELSE Classify(r, path, file, c.named)
  BY DEF LoadOne
<1>2. \A reason : \A error \in BOOLEAN : Refused(pass(reason, error), path, c.named)
  BY DEF Refused
<1>3. CASE Configured(r, path)
  BY <1>1, <1>3, Zenon DEF IsFound, GoesThrough
<1>4. CASE ~Configured(r, path) /\ place \notin DOMAIN d
  <2>1. LoadOne(r, d, c) = pass("unreadable", TRUE)
    BY <1>1, <1>4, Zenon
  <2> QED
    BY <2>1, <1>2, <1>4, Zenon DEF IsFound, GoesThrough
<1>5. CASE ~Configured(r, path) /\ place \in DOMAIN d /\ ~Opens(r, file, c.scope)
  <2>0. ~IsFound(r, d, path, c.scope)
    BY <1>5, Zenon DEF IsFound
  <2>1. CASE file.link # "no" /\ ~follow
    <3>1. LoadOne(r, d, c) = pass("symbolic link", FALSE)
      BY <1>1, <1>5, <2>1, Zenon
    <3> QED
      BY <3>1, <1>2, <1>5, <2>0, <2>1, Zenon DEF GoesThrough
  <2>2. CASE file.link = "broken" /\ follow
    <3>1. file.link # "directory"
      BY <2>2
    <3>2. LoadOne(r, d, c) = pass("unreadable", TRUE)
      BY <1>1, <1>5, <2>2, <3>1, Zenon
    <3> QED
      BY <3>1, <3>2, <1>2, <1>5, <2>0, Zenon DEF GoesThrough
  <2>3. CASE file.link = "directory" /\ follow
    <3>1. file.link # "broken"
      BY <2>3
    <3>2. LoadOne(r, d, c) = Nothing
      BY <1>1, <1>5, <2>3, <3>1, Zenon
    <3> QED
      BY <3>2, <1>5, <2>0, <2>3, Zenon DEF GoesThrough
  <2>4. CASE ~(file.link # "no" /\ ~follow) /\ ~(file.link = "broken" /\ follow) /\ ~(file.link = "directory" /\ follow)
    <3>1. file.large /\ ~c.scope
      BY <1>5, <2>4, Zenon DEF Opens
    <3>2. LoadOne(r, d, c) = pass("too large", FALSE)
      BY <1>1, <1>5, <2>4, <3>1, Zenon
    <3> QED
      BY <3>2, <1>2, <1>5, <2>0, <2>4, Zenon DEF GoesThrough
  <2> QED
    BY <2>1, <2>2, <2>3, <2>4, Zenon
<1>6. CASE ~Configured(r, path) /\ place \in DOMAIN d /\ Opens(r, file, c.scope)
  <2>1. /\ ~(file.link # "no" /\ ~follow)
        /\ ~(file.link = "broken" /\ follow) /\ ~(file.link = "directory" /\ follow)
        /\ ~(file.large /\ ~c.scope)
    BY <1>6, Zenon DEF Opens
  <2>2. LoadOne(r, d, c) = Classify(r, path, file, c.named)
    BY <1>1, <1>6, <2>1, Zenon
  <2>3. LoadOne(r, d, c) = Classified(r, path, file, c.named, RulesAt(r, path, file.head))
    BY <2>2, Zenon DEF Classify, RulesAt
  <2>4. CASE Classifies(r, path, file.head)
    <3>1. LoadOne(r, d, c) = FoundIn(r, d, path)
      BY <2>3, <2>4, ClassifiedIs, Zenon DEF FoundIn
    <3> QED
      BY <3>1, <2>1, <2>4, <1>6, Zenon DEF IsFound, GoesThrough
  <2>5. CASE ~Classifies(r, path, file.head)
    <3>1. Refused(LoadOne(r, d, c), path, c.named)
      BY <2>3, <2>5, ClassifiedIs, Zenon
    <3> QED
      BY <3>1, <2>1, <2>5, <1>6, Zenon DEF IsFound, GoesThrough
  <2> QED
    BY <2>4, <2>5, Zenon
<1> QED
  BY <1>3, <1>4, <1>5, <1>6, Zenon

\* What is found is told from what is not by its kind.
LEMMA Kinds ==
  ASSUME NEW r, NEW d, NEW path, NEW named, NEW l
  PROVE  /\ FoundIn(r, d, path).kind = "found" /\ FoundIn(r, d, path).path = path
         /\ FoundIn(r, d, path).text = d[Absolute(r, path)].text
         /\ FoundIn(r, d, path).rules = RulesAt(r, path, d[Absolute(r, path)].head)
         /\ FoundIn(r, d, path).reader = ReaderAt(r, path, d[Absolute(r, path)].head)
         /\ Nothing.kind = "nothing"
         /\ Refused(l, path, named) => /\ l.kind \in {"fatal", "passed"}
                                       /\ l.kind = "passed" => l.path = path /\ l.error \in BOOLEAN /\ l.explicit = named
  BY DEF FoundIn, Found, Nothing, Refused, Passed

----------------------------------------------------------------------------
\* Two disks that differ in the texts of their files only.
SameFiles(d, e) ==
  /\ DOMAIN e = DOMAIN d
  /\ \A p \in DOMAIN d : /\ e[p].link = d[p].link /\ e[p].large = d[p].large
                         /\ e[p].ignored = d[p].ignored /\ e[p].head = d[p].head

\* A text changes neither the walk nor the candidates nor what is found.
LEMMA WalkSame ==
  ASSUME NEW r, NEW d, NEW e, SameFiles(d, e), NEW t, NEW dotted
  PROVE  Walk(r, e, t, dotted).files = Walk(r, d, t, dotted).files /\ IsDirectory(e, t) = IsDirectory(d, t)
<1> DEFINE base == Absolute(r, t)
           Rest(p) == SubSeq(p, Len(base) + 1, Len(p))
           Kept(x, p) == /\ ".git" \notin ToSet(Rest(p))
                         /\ ~(File(r, "ignore", TRUE) /\ x[p].ignored)
                         /\ dotted \/ ToSet(Rest(p)) \intersect Dotted = {}
                         /\ File(r, "follow", FALSE) \/ \A q \in Below(x, base) : ~IsStrictPrefix(q, p)
           Linked(x, p) == x[p].link = "no" \/ (x[p].link = "file" /\ File(r, "follow", FALSE))
           Seen(x) == {p \in Below(x, base) : Kept(x, p)}
           Files(x) == {q \in Seen(x) : Linked(x, q)}
<1>1. \A q : Below(e, q) = Below(d, q)
  BY Zenon DEF Below, SameFiles
<1>2. \A p \in Below(d, base) : p \in DOMAIN d
  BY DEF Below
<1>3. \A p \in Below(d, base) : (Kept(e, p) <=> Kept(d, p)) /\ (Linked(e, p) <=> Linked(d, p))
  BY <1>1, <1>2 DEF SameFiles
<1> HIDE DEF Kept, Linked
<1>4. Seen(e) = Seen(d)
  BY <1>1, <1>3, SMT
<1>5. Files(e) = Files(d)
  <2>1. \A p \in Seen(d) : Linked(e, p) <=> Linked(d, p)
    BY <1>3
  <2> HIDE DEF Seen
  <2> QED
    BY <1>4, <2>1, SMT
<1> HIDE DEF Files
<1>6. \A x : {t \o Rest(p) : p \in Files(x)} = Walk(r, x, t, dotted).files
  BY DEF Walk, Files, Kept, Linked
<1>7. {t \o Rest(p) : p \in Files(e)} = {t \o Rest(p) : p \in Files(d)}
  BY <1>5, Zenon
<1>8. (t \in DOMAIN e /\ e[t].link = "directory") <=> (t \in DOMAIN d /\ d[t].link = "directory")
  BY DEF SameFiles
<1> QED
  BY <1>1, <1>6, <1>7, <1>8, Zenon DEF IsDirectory

LEMMA CandidatesSame ==
  ASSUME NEW r, NEW d, NEW e, SameFiles(d, e), NEW targets, NEW named
  PROVE  Candidates(r, e, targets, named) = Candidates(r, d, targets, named)
<1> DEFINE One(x, t) ==
             CASE IsOpened(r, x, t) -> {[path |-> t, scope |-> named, named |-> named]}
               [] ~IsOpened(r, x, t) /\ IsDirectory(x, Absolute(r, t)) ->
                    {[path |-> p, scope |-> named, named |-> FALSE] :
                     p \in Walk(r, x, t, named \/ File(r, "hidden", FALSE)).files}
               [] OTHER -> {}
<1>1. \A t : One(e, t) = One(d, t)
  <2> TAKE t
  <2> DEFINE dotted == named \/ File(r, "hidden", FALSE)
  <2>1. Walk(r, e, t, dotted).files = Walk(r, d, t, dotted).files
    <3> HIDE DEF dotted
    <3> QED
      BY WalkSame
  <2>2. IsDirectory(e, Absolute(r, t)) = IsDirectory(d, Absolute(r, t))
    BY WalkSame, Zenon
  <2>3. IsOpened(r, e, t) <=> IsOpened(r, d, t)
    BY DEF SameFiles, IsOpened
  <2> QED
    BY <2>1, <2>2, <2>3, Zenon
<1>2. \A x : Candidates(r, x, targets, named) = UNION {One(x, t) : t \in targets}
  BY DEF Candidates
<1> HIDE DEF One
<1> QED
  BY <1>1, <1>2, ZenonT(60)

LEMMA FoundSame ==
  ASSUME NEW r, NEW d, NEW e, SameFiles(d, e), NEW path, NEW scope
  PROVE  /\ IsFound(r, e, path, scope) <=> IsFound(r, d, path, scope)
         /\ IsFound(r, d, path, scope) => FoundIn(r, e, path).rules = FoundIn(r, d, path).rules
<1>1. Absolute(r, path) \in DOMAIN d =>
        /\ e[Absolute(r, path)].link = d[Absolute(r, path)].link
        /\ e[Absolute(r, path)].large = d[Absolute(r, path)].large
        /\ e[Absolute(r, path)].head = d[Absolute(r, path)].head
  BY DEF SameFiles
<1>2. IsFound(r, e, path, scope) <=> IsFound(r, d, path, scope)
  BY <1>1, Zenon DEF SameFiles, IsFound, Opens
<1>3. ASSUME IsFound(r, d, path, scope)
      PROVE  FoundIn(r, e, path).rules = FoundIn(r, d, path).rules
  <2>1. e[Absolute(r, path)].head = d[Absolute(r, path)].head
    BY <1>1, <1>3 DEF IsFound
  <2>2. /\ FoundIn(r, e, path).rules = RulesAt(r, path, e[Absolute(r, path)].head)
        /\ FoundIn(r, d, path).rules = RulesAt(r, path, d[Absolute(r, path)].head)
    BY Kinds
  <2> QED
    BY <2>1, <2>2, Zenon
<1> QED
  BY <1>2, <1>3

\* The candidates of one run share their scope, and none is standard input.
LEMMA CandidatesShape ==
  ASSUME NEW r, NEW d, NEW targets, NEW named, NEW c \in Candidates(r, d, targets, named)
  PROVE  c.scope = named /\ c # Input
<1>1. PICK p, b : c = [path |-> p, scope |-> named, named |-> b]
  <2>1. PICK t \in targets :
          c \in (CASE IsOpened(r, d, t) -> {[path |-> t, scope |-> named, named |-> named]}
               [] ~IsOpened(r, d, t) /\ IsDirectory(d, Absolute(r, t)) ->
                    {[path |-> p, scope |-> named, named |-> FALSE] :
                     p \in Walk(r, d, t, named \/ File(r, "hidden", FALSE)).files}
               [] OTHER -> {})
    BY Zenon DEF Candidates
  <2> QED
    BY <2>1, Zenon
<1>2. "scope" \in DOMAIN c /\ c.scope = named
  BY <1>1
<1>3. "scope" \notin DOMAIN Input
  BY DEF Input
<1> QED
  BY <1>2, <1>3

----------------------------------------------------------------------------
\* What the candidates are found as on a disk, and the paths they report.
FoundAt(r, d, targets, named) ==
  {f \in {LoadOne(r, d, c) : c \in Candidates(r, d, targets, named)} : f.kind = "found"}
Reach(r, d, targets, named) == {ReportedPath(c.path) : c \in Candidates(r, d, targets, named)}

\* What is found is a function of the path it is reported under.
LEMMA FoundAtIs ==
  ASSUME NEW r, NEW d, NEW targets, NEW named, NEW f
  PROVE  f \in FoundAt(r, d, targets, named) <=>
           \E p \in Reach(r, d, targets, named) : IsFound(r, d, p, named) /\ f = FoundIn(r, d, p)
<1>1. ASSUME NEW c \in Candidates(r, d, targets, named), LoadOne(r, d, c).kind = "found"
      PROVE  IsFound(r, d, ReportedPath(c.path), named) /\ LoadOne(r, d, c) = FoundIn(r, d, ReportedPath(c.path))
  <2> DEFINE p == ReportedPath(c.path)
  <2>1. c.scope = named
    BY CandidatesShape
  <2>2. ~Configured(r, p)
    BY <1>1, LoadOneIs, Kinds
  <2>3. ~Refused(LoadOne(r, d, c), p, c.named)
    BY <1>1, Kinds
  <2>4. ~GoesThrough(r, d, p)
    BY <1>1, LoadOneIs, Kinds
  <2>5. IsFound(r, d, p, c.scope)
    BY <2>2, <2>3, <2>4, LoadOneIs, Zenon
  <2> QED
    BY <2>1, <2>5, LoadOneIs, Zenon
<1>2. ASSUME NEW c \in Candidates(r, d, targets, named), IsFound(r, d, ReportedPath(c.path), named)
      PROVE  LoadOne(r, d, c).kind = "found" /\ LoadOne(r, d, c) = FoundIn(r, d, ReportedPath(c.path))
  <2>1. c.scope = named
    BY CandidatesShape
  <2>2. LoadOne(r, d, c) = FoundIn(r, d, ReportedPath(c.path))
    BY <1>2, <2>1, LoadOneIs, Zenon
  <2> QED
    BY <2>2, Kinds
<1>3. ASSUME f \in FoundAt(r, d, targets, named)
      PROVE  \E p \in Reach(r, d, targets, named) : IsFound(r, d, p, named) /\ f = FoundIn(r, d, p)
  <2>1. PICK c \in Candidates(r, d, targets, named) : f = LoadOne(r, d, c) /\ f.kind = "found"
    BY <1>3, Zenon DEF FoundAt
  <2>2. ReportedPath(c.path) \in Reach(r, d, targets, named)
    BY Zenon DEF Reach
  <2> QED
    BY <2>1, <2>2, <1>1, Zenon
<1>4. ASSUME NEW p \in Reach(r, d, targets, named), IsFound(r, d, p, named), f = FoundIn(r, d, p)
      PROVE  f \in FoundAt(r, d, targets, named)
  <2>1. PICK c \in Candidates(r, d, targets, named) : p = ReportedPath(c.path)
    BY Zenon DEF Reach
  <2> QED
    BY <2>1, <1>4, <1>2, Zenon DEF FoundAt
<1> QED
  BY <1>3, <1>4, Zenon

\* The operators of the state that the proofs carry over a step, as operators
\* of what they read.
TargetsOf(s) == IF s.targets = <<>> THEN {dot} ELSE ToSet(s.targets) \ {dash}
HasDash(s) == Contains(s.targets, dash)
Wide(s) == s.targets # <<>>
ResolvedOf(s, op) ==
  LET flags == IF op \in Reports THEN s.flags ELSE noTable
  IN  [Load(s.here, s.cwd, flags) EXCEPT !.forced = s.flags]
Allowed(s, op) ==
  /\ Cardinality({i \in DOMAIN s.targets : s.targets[i] = dash}) < 2
  /\ HasDash(s) => op \in {"check", "diff"}
Everything(s, d, r) ==
  Candidates(r, d, TargetsOf(s), Wide(s)) \union (IF HasDash(s) THEN {Input} ELSE {})
Answer(s, d, r, c) == IF c = Input THEN StdinSource(r, s.input) ELSE LoadOne(r, d, c)
FoundOf(s, d, r) == {l \in {Answer(s, d, r, c) : c \in Everything(s, d, r)} : l.kind = "found"}

LEMMA OfTheState ==
  /\ Targets = TargetsOf(setup) /\ HasStdin = HasDash(setup)
  /\ \A op : Resolved(op) = ResolvedOf(setup, op) /\ (ArgumentsAllowed(op) <=> Allowed(setup, op))
<1>1. Targets = TargetsOf(setup) /\ HasStdin = HasDash(setup)
  BY DEF Targets, TargetsOf, HasStdin, HasDash
<1>2. ASSUME NEW op
      PROVE  Resolved(op) = ResolvedOf(setup, op) /\ (ArgumentsAllowed(op) <=> Allowed(setup, op))
  BY <1>1, Zenon DEF Resolved, ResolvedOf, ArgumentsAllowed, Allowed
<1> QED
  BY <1>1, <1>2

\* Without standard input a run finds what the candidates are found as.
LEMMA FoundOfIs ==
  ASSUME NEW s, NEW d, NEW r, ~HasDash(s)
  PROVE  FoundOf(s, d, r) = FoundAt(r, d, TargetsOf(s), Wide(s))
<1> DEFINE tree == Candidates(r, d, TargetsOf(s), Wide(s))
<1>1. Everything(s, d, r) = tree
  BY DEF Everything
<1>2. \A c \in tree : c # Input
  <2> DEFINE targets == TargetsOf(s)
             named == Wide(s)
  <2> HIDE DEF targets, named
  <2>1. \A c \in Candidates(r, d, targets, named) : c # Input
    BY CandidatesShape
  <2> QED
    BY <2>1 DEF targets, named
<1>3. \A c \in tree : Answer(s, d, r, c) = LoadOne(r, d, c)
  BY <1>2, Zenon DEF Answer
<1>4. {Answer(s, d, r, c) : c \in tree} = {LoadOne(r, d, c) : c \in tree}
  BY <1>3, Zenon
<1> QED
  BY <1>1, <1>4, Zenon DEF FoundOf, FoundAt

\* The answers of a whole run, each at its own time, are what FoundNow finds.
LEMMA FoundNowIs ==
  ASSUME NEW r
  PROVE  FoundNow(r) = FoundOf(setup, disk, r)
<1> DEFINE named == Wide(setup)
           tree == Candidates(r, disk, TargetsOf(setup), named)
           input == IF HasDash(setup) THEN {Input} ELSE {}
           answer == IF HasDash(setup) THEN {StdinSource(r, setup.input)} ELSE {}
           A(c) == Answer(setup, disk, r, c)
<1>1. \A c \in tree : A(c) = LoadOne(r, disk, c)
  <2>1. \A targets, b : \A c \in Candidates(r, disk, targets, b) : c # Input
    BY CandidatesShape
  <2>2. \A c \in tree : c # Input
    BY <2>1
  <2> QED
    BY <2>2, Zenon DEF Answer
<1>2. {A(c) : c \in input} = answer
  BY Zenon DEF Answer
<1>3. {A(c) : c \in tree} = {LoadOne(r, disk, c) : c \in tree}
  BY <1>1, Zenon
<1>4. {A(c) : c \in Everything(setup, disk, r)} = {A(c) : c \in tree} \union {A(c) : c \in input}
  BY Zenon DEF Everything
<1>5. FoundNow(r) = {f \in {LoadOne(r, disk, c) : c \in tree} \union answer : f.kind = "found"}
  BY OfTheState, Zenon DEF FoundNow, Wide
<1> HIDE DEF tree, answer, input
<1>6. {A(c) : c \in Everything(setup, disk, r)} = {LoadOne(r, disk, c) : c \in tree} \union answer
  BY <1>2, <1>3, <1>4, Zenon
<1> QED
  BY <1>5, <1>6, Zenon DEF FoundOf

----------------------------------------------------------------------------
\* CodeFits, as a fact of the run's end alone.
LeftOf(op, f) ==
  CASE op = "fix" -> Removable(f)
    [] op \in {"ratchet", "record"} -> Counted(f)
    [] OTHER -> Removable(f) + f.text.wide
Holds(op, found, recorded) ==
  /\ \A f \in found : LeftOf(op, f) = At(recorded, f.path, 0)
  /\ DOMAIN recorded \subseteq {f.path : f \in found}
Fits(op, found, d, deny, recorded) ==
  CASE op \in Reports /\ d.code = 0 -> \A f \in found : f.text.valid /\ LeftOf(op, f) = 0
    [] op \in {"check", "diff", "tidy"} /\ d.code = 1 /\ deny = {} -> \E f \in found : LeftOf(op, f) > 0
    [] op \in {"ratchet", "record"} /\ d.code # 2 -> Holds(op, found, recorded) <=> d.code = 0
    [] OTHER -> d.code = 2 => \/ ~d.wrote \/ ~d.closed
                              \/ \E f \in found : f.rules.force
LEMMA CodeFitsIs ==
  ASSUME NEW op, NEW found
  PROVE  CodeFits(op, found) = Fits(op, found, done, setup.deny, ledger)
  BY DEF CodeFits, Fits, LeftOf, Holds

\* The larger of two codes.
LEMMA LargerCode ==
  ASSUME NEW a \in {0, 1}, NEW b \in {0, 1}
  PROVE  /\ Max({a, b}) \in {0, 1}
         /\ Max({a, b}) = 1 <=> a = 1 \/ b = 1
<1> DEFINE m == IF a >= b THEN a ELSE b
<1>1. m \in {a, b} /\ \A y \in {a, b} : m >= y
  OBVIOUS
<1>2. Max({a, b}) \in {a, b} /\ \A y \in {a, b} : Max({a, b}) >= y
  BY <1>1, Zenon DEF Max
<1> HIDE DEF m
<1> QED
  BY <1>2

LEMMA CodeIs ==
  ASSUME NEW op, NEW files, NEW skipped, NEW closes \in BOOLEAN
  PROVE  LET code == Code(op, files, skipped, closes)
         IN  /\ code \in {0, 1, 2}
             /\ code = 2 <=> Invalid(files, skipped) \/ ~closes
             /\ code = 0 => ExitCode(op, files) = 0
             /\ code = 1 /\ setup.deny = {} => ExitCode(op, files) = 1
<1>1. ExitCode(op, files) \in {0, 1} /\ DenyExitCode(skipped) \in {0, 1}
  BY Zenon DEF ExitCode, DenyExitCode
<1>2. setup.deny = {} => DenyExitCode(skipped) = 0
  BY DEF DenyExitCode
<1>3. \/ Code(op, files, skipped, closes) = 2 /\ (Invalid(files, skipped) \/ ~closes)
      \/ /\ ~(Invalid(files, skipped) \/ ~closes)
         /\ Code(op, files, skipped, closes) = Max({ExitCode(op, files), DenyExitCode(skipped)})
  BY Zenon DEF Code
<1> DEFINE a == ExitCode(op, files)
           b == DenyExitCode(skipped)
<1>4. Max({a, b}) \in {0, 1} /\ (Max({a, b}) = 1 <=> a = 1 \/ b = 1)
  BY <1>1, LargerCode, Zenon
<1> HIDE DEF a, b
<1> QED
  BY <1>1, <1>2, <1>3, <1>4 DEF a, b

Texted(files) == \A f \in files : f.text \in Text
\* A typed text has something left, or nothing.
LEMMA Amounts ==
  ASSUME NEW f, f.text \in Text
  PROVE  /\ Removable(f) \in Nat /\ f.text.wide \in Nat /\ f.text.valid \in BOOLEAN
         /\ Counted(f) \in Nat
  BY DEF Text, Removable, Counted

\* A run that ends without writing: its code is about the files it judged
\* (cli.rs).
LEMMA JudgedFits ==
  ASSUME NEW op \in Reports, NEW files, Texted(files), NEW skipped, NEW closes \in BOOLEAN,
         op \in Rewriting => ~MayFix(files, skipped),
         NEW d, d.code = Code(op, files, skipped, closes), d.wrote = FALSE
  PROVE  Fits(op, files, d, setup.deny, ledger)
<1>1. \A f \in files : Removable(f) \in Nat /\ f.text.wide \in Nat /\ f.text.valid \in BOOLEAN
  BY Amounts DEF Texted
<1>2. op \in Rewriting => Invalid(files, skipped)
  BY Zenon DEF MayFix, Invalid
<1>3. op \in {"check", "diff"} => \A f \in files : LeftOf(op, f) = Removable(f) + f.text.wide
  BY DEF LeftOf
<1>4. d.code \in {0, 1} => op \in {"check", "diff"} /\ ~Invalid(files, skipped)
  BY <1>2, CodeIs DEF Reports, Rewriting
<1>5. ASSUME d.code = 0
      PROVE  \A f \in files : f.text.valid /\ LeftOf(op, f) = 0
  <2>1. ExitCode(op, files) = 0
    BY <1>5, CodeIs
  <2>2. \A f \in files : f.text.valid /\ ~Changes(op, f)
    BY <2>1, <1>4, <1>5 DEF ExitCode, Invalid
  <2> QED
    BY <2>2, <1>1, <1>3, <1>4, <1>5 DEF Changes
<1>6. ASSUME d.code = 1, setup.deny = {}
      PROVE  \E f \in files : LeftOf(op, f) > 0
  <2>1. ExitCode(op, files) = 1
    BY <1>6, CodeIs
  <2>2. PICK f \in files : Changes(op, f)
    BY <2>1, <1>4, <1>6 DEF ExitCode
  <2> QED
    BY <2>2, <1>1, <1>3, <1>4, <1>6 DEF Changes
<1>7. op \notin {"ratchet", "record"}
  BY DEF Reports, Rewriting
<1> QED
  BY <1>5, <1>6, <1>7, Zenon DEF Fits

\* What a written file is found as: unchanged, or with what the edits planned
\* for it, or for another spelling of it, made of its text.
Became(op, files, f, g) ==
  /\ g.rules = f.rules
  /\ \/ g.text = f.text /\ ~Changes(op, f)
     \/ \E h \in files : /\ Changes(op, h) /\ h.text = f.text /\ g.text = Rewritten(op, h)
                         /\ h = f \/ ~Changes(op, f)

\* Nothing is left in a file whose edits were verified, nor in another spelling
\* of it that asked for nothing.
LEMMA NothingLeft ==
  ASSUME NEW op \in Rewriting, NEW files, Texted(files), \A f \in files : ~Unverified(op, f),
         \A f \in files : f.text.valid,
         op = "tidy" => \A f \in files : Removable(f) = 0,
         NEW f \in files, NEW g, Became(op, files, f, g)
  PROVE  g.text.valid /\ LeftOf(op, g) = 0
<1>1. f.text \in Text
  BY DEF Texted
<1>2. CASE g.text = f.text /\ ~Changes(op, f)
  <2>1. g.rules = f.rules
    BY DEF Became
  <2>2. (IF op = "tidy" THEN 0 ELSE Removable(f)) = 0 /\ f.text.wide = 0 /\ f.text.valid
    BY <1>1, <1>2, Amounts DEF Changes
  <2>3. Removable(f) = 0
    BY <2>2
  <2>4. Removable(g) = 0 /\ g.text.wide = 0
    BY <2>1, <2>2, <2>3, <1>2 DEF Removable
  <2> QED
    BY <2>2, <2>4, <1>2 DEF LeftOf, Rewriting
<1>3. CASE \E h \in files : /\ Changes(op, h) /\ h.text = f.text /\ g.text = Rewritten(op, h)
                            /\ h = f \/ ~Changes(op, f)
  <2>1. PICK h \in files : /\ Changes(op, h) /\ h.text = f.text /\ g.text = Rewritten(op, h)
                           /\ h = f \/ ~Changes(op, f)
    BY <1>3
  <2>2. g.rules = f.rules
    BY DEF Became
  <2>3. VerifyRewrite(op, h)
    BY <2>1, Zenon DEF Unverified
  <2>4. g.text.valid
    BY <2>1, <2>3 DEF VerifyRewrite
  <2>5. CASE op = "tidy"
    <3>1. g.text.wide = 0
      BY <2>1, <2>3, <2>5 DEF VerifyRewrite
    <3>2. g.text.todo = f.text.todo
      BY <2>1, <2>5 DEF Rewritten
    <3>3. Removable(g) = Removable(f)
      BY <3>2, <2>2 DEF Removable
    <3>4. Removable(f) = 0
      BY <2>5
    <3> QED
      BY <3>1, <3>3, <3>4, <2>4, <2>5 DEF LeftOf
  <2>6. CASE op = "fix"
    <3>1. h.rules.mode = none \/ g.text.todo = 0
      BY <2>1, <2>3, <2>6 DEF VerifyRewrite, none
    <3>2. Removable(g) = 0
      <4>1. CASE h = f
        BY <3>1, <4>1, <2>2 DEF Removable, none
      <4>2. CASE ~Changes(op, f)
        <5>1. Removable(f) = 0 /\ f.text.wide = 0
          BY <1>1, <4>2, <2>6, Amounts DEF Changes
        <5>2. Removable(h) > 0
          <6>1. Removable(h) \in Nat /\ Removable(h) + h.text.wide > 0
            BY <2>1, <1>1, <2>6, Amounts DEF Changes
          <6> QED
            BY <6>1, <5>1, <2>1
        <5>3. h.rules.mode # "none" /\ h.text.todo > 0
          BY <5>2 DEF Removable
        <5>4. f.rules.mode = "none"
          BY <5>1, <5>3, <2>1 DEF Removable
        <5> QED
          BY <5>4, <2>2 DEF Removable
      <4> QED
        BY <2>1, <4>1, <4>2
    <3> QED
      BY <3>2, <2>4, <2>6 DEF LeftOf
  <2> QED
    BY <2>5, <2>6 DEF Rewriting
<1> QED
  BY <1>2, <1>3 DEF Became

\* A comment that a tidied file holds is still there.
LEMMA TidyKeepsComments ==
  ASSUME NEW files, Texted(files), NEW f \in files, NEW g, Became("tidy", files, f, g), Removable(f) > 0
  PROVE  LeftOf("tidy", g) > 0
<1>1. f.text \in Text /\ g.rules = f.rules
  BY DEF Texted, Became
<1>2. g.text.todo = f.text.todo /\ g.text.wide \in Nat
  <2>1. CASE g.text = f.text
    BY <2>1, <1>1 DEF Text
  <2>2. CASE \E h \in files : h.text = f.text /\ g.text = Rewritten("tidy", h)
    BY <2>2 DEF Rewritten
  <2> QED
    BY <2>1, <2>2 DEF Became
<1>3. Removable(g) = Removable(f) /\ Removable(f) \in Nat
  BY <1>1, <1>2, Amounts DEF Removable
<1> QED
  BY <1>2, <1>3 DEF LeftOf

\* A run that wrote: its code is about the files as they are now (cli.rs).
LEMMA AppliedFits ==
  ASSUME NEW op \in Rewriting, NEW files, Texted(files), NEW skipped, NEW closes \in BOOLEAN,
         MayFix(files, skipped), \A f \in files : ~Unverified(op, f),
         NEW found,
         \A g \in found : \E f \in files : Became(op, files, f, g),
         \A f \in files : \E g \in found : Became(op, files, f, g),
         NEW d, d.code = Code(op, files, skipped, closes), d.closed = closes
  PROVE  Fits(op, found, d, setup.deny, ledger)
<1>1. ASSUME d.code = 0
      PROVE  \A g \in found : g.text.valid /\ LeftOf(op, g) = 0
  <2> DEFINE code == Code(op, files, skipped, closes)
  <2>0. code = 0
    BY <1>1
  <2>1. ExitCode(op, files) = 0 /\ ~Invalid(files, skipped)
    <3>1. /\ code = 2 <=> Invalid(files, skipped) \/ ~closes
          /\ code = 0 => ExitCode(op, files) = 0
      BY CodeIs, Zenon
    <3> HIDE DEF code
    <3> QED
      BY <2>0, <3>1
  <2>2. \A f \in files : f.text.valid
    BY <2>1 DEF Invalid
  <2>3. op = "tidy" => \A f \in files : Removable(f) = 0
    <3>1. op = "tidy" => \A f \in files : ~(Removable(f) > 0)
      BY <2>1 DEF ExitCode
    <3>2. \A f \in files : Removable(f) \in Nat
      BY Amounts DEF Texted
    <3> QED
      BY <3>1, <3>2
  <2> QED
    BY <2>2, <2>3, NothingLeft
<1>2. ASSUME d.code = 1, setup.deny = {}
      PROVE  op = "tidy" /\ \E g \in found : LeftOf(op, g) > 0
  <2>1. ExitCode(op, files) = 1
    BY <1>2, CodeIs
  <2>2. op = "tidy" /\ \E f \in files : Removable(f) > 0
    BY <2>1 DEF ExitCode, Rewriting
  <2> QED
    BY <2>2, TidyKeepsComments
<1>3. ASSUME d.code = 2, d.closed
      PROVE  \E g \in found : g.rules.force
  <2>1. Invalid(files, skipped)
    BY <1>3, CodeIs
  <2>2. \E f \in files : f.rules.force
    BY <2>1 DEF Invalid, MayFix
  <2> QED
    BY <2>2 DEF Became
<1>4. op \in Reports /\ op \notin {"ratchet", "record"}
  BY DEF Reports, Rewriting
<1> QED
  BY <1>1, <1>2, <1>3, <1>4, Zenon DEF Fits

----------------------------------------------------------------------------
\* A file is found once under each path.
LEMMA FoundOnce ==
  ASSUME NEW r, NEW d, NEW targets, NEW named,
         NEW f \in FoundAt(r, d, targets, named), NEW g \in FoundAt(r, d, targets, named), f.path = g.path
  PROVE  f = g
<1>1. PICK p : f = FoundIn(r, d, p)
  BY FoundAtIs
<1>2. PICK q : g = FoundIn(r, d, q)
  BY FoundAtIs
<1> QED
  BY <1>1, <1>2, Kinds

\* The counts of a tree.
LEMMA CountsAre ==
  ASSUME NEW files, \A f, g \in files : f.path = g.path => f = g
  PROVE  /\ DOMAIN Counts(files) = {f.path : f \in {g \in files : Counted(g) > 0}}
         /\ \A f \in files : Counted(f) > 0 => Counts(files)[f.path] = Counted(f)
         /\ \A p \in DOMAIN Counts(files) : Counts(files)[p] > 0
<1> DEFINE counted == {f \in files : Counted(f) > 0}
           first(p) == CHOOSE f \in counted : f.path = p
<1>1. Counts(files) = [p \in {f.path : f \in counted} |-> Counted(first(p))]
  BY Zenon DEF Counts
<1>2. \A f \in counted : first(f.path) = f
  <2> TAKE f \in counted
  <2>1. first(f.path) \in counted /\ first(f.path).path = f.path
    BY Zenon
  <2> HIDE DEF first
  <2> QED
    BY <2>1
<1> HIDE DEF first
<1>3. \A f \in counted : Counts(files)[f.path] = Counted(f)
  BY <1>1, <1>2
<1>4. DOMAIN Counts(files) = {f.path : f \in counted}
  BY <1>1
<1>5. \A p \in DOMAIN Counts(files) : \E f \in counted : p = f.path
  BY <1>4
<1>6. \A p \in DOMAIN Counts(files) : Counts(files)[p] > 0
  BY <1>5, <1>3
<1> QED
  BY <1>3, <1>4, <1>6

\* The ledger compares equal when every file holds what was recorded, and what
\* was just recorded does (ratchet.rs).
LEMMA CompareIsHolds ==
  ASSUME NEW op \in {"ratchet", "record"}, NEW files, Texted(files),
         \A f, g \in files : f.path = g.path => f = g,
         NEW recorded, \A p \in DOMAIN recorded : recorded[p] # 0
  PROVE  Compare(recorded, Counts(files)) <=> Holds(op, files, recorded)
<1> DEFINE found == Counts(files)
<1>1. \A f \in files : Counted(f) \in Nat /\ LeftOf(op, f) = Counted(f)
  BY Amounts DEF Texted, LeftOf
<1>2. /\ DOMAIN found = {f.path : f \in {g \in files : Counted(g) > 0}}
      /\ \A f \in files : Counted(f) > 0 => found[f.path] = Counted(f)
      /\ \A p \in DOMAIN found : found[p] > 0
  BY CountsAre
<1>3. \A f \in files : f.path \in DOMAIN found <=> Counted(f) > 0
  BY <1>2
<1> HIDE DEF found
<1>4. ASSUME Compare(recorded, found)
      PROVE  Holds(op, files, recorded)
  <2>1. DOMAIN recorded = DOMAIN found /\ \A p \in DOMAIN recorded : found[p] = recorded[p]
    BY <1>4 DEF Compare
  <2>2. \A f \in files : LeftOf(op, f) = At(recorded, f.path, 0)
    <3> TAKE f \in files
    <3>1. CASE Counted(f) > 0
      BY <3>1, <2>1, <1>1, <1>2, <1>3 DEF At
    <3>2. CASE ~(Counted(f) > 0)
      BY <3>2, <2>1, <1>1, <1>3 DEF At
    <3> QED
      BY <3>1, <3>2
  <2>3. DOMAIN recorded \subseteq {f.path : f \in files}
    BY <2>1, <1>2
  <2> QED
    BY <2>2, <2>3 DEF Holds
<1>5. ASSUME Holds(op, files, recorded)
      PROVE  Compare(recorded, found)
  <2>1. \A p \in DOMAIN recorded : p \in DOMAIN found /\ found[p] = recorded[p]
    <3> TAKE p \in DOMAIN recorded
    <3>1. PICK f \in files : f.path = p
      BY <1>5 DEF Holds
    <3>2. Counted(f) = recorded[p]
      BY <1>5, <1>1, <3>1 DEF Holds, At
    <3>3. Counted(f) > 0
      BY <3>2, <1>1
    <3> QED
      BY <3>1, <3>2, <3>3, <1>2, <1>3
  <2>2. \A p \in DOMAIN found : p \in DOMAIN recorded
    <3> TAKE p \in DOMAIN found
    <3>1. PICK f \in files : f.path = p /\ Counted(f) > 0
      BY <1>2
    <3> QED
      BY <3>1, <1>1, <1>5 DEF Holds, At
  <2> QED
    BY <2>1, <2>2 DEF Compare
<1> QED
  BY <1>4, <1>5 DEF found

LEMMA RatchetFits ==
  ASSUME NEW op \in {"ratchet", "record"}, NEW files, Texted(files),
         \A f, g \in files : f.path = g.path => f = g,
         NEW recorded, \A p \in DOMAIN recorded : recorded[p] # 0,
         NEW d, d.code = IF op = "record" \/ Compare(recorded, Counts(files)) THEN 0 ELSE 1, NEW deny
  PROVE  Fits(op, files, d, deny, IF op = "record" THEN Counts(files) ELSE recorded)
<1> DEFINE now == IF op = "record" THEN Counts(files) ELSE recorded
<1>1. \A p \in DOMAIN Counts(files) : Counts(files)[p] # 0
  <2>1. \A p \in DOMAIN Counts(files) : Counts(files)[p] > 0
    BY CountsAre
  <2> QED
    BY <2>1
<1>2. Compare(Counts(files), Counts(files))
  BY DEF Compare
<1>3. Holds(op, files, now) <=> d.code = 0
  <2>1. CASE op = "record"
    BY <2>1, <1>1, <1>2, CompareIsHolds
  <2>2. CASE op # "record"
    <3>1. Compare(recorded, Counts(files)) <=> Holds(op, files, recorded)
      BY CompareIsHolds, Zenon
    <3> QED
      BY <3>1, <2>2
  <2> QED
    BY <2>1, <2>2
<1>4. d.code # 2 /\ op \notin Reports /\ op \notin {"check", "diff", "tidy"}
  BY DEF Reports, Rewriting
<1> QED
  BY <1>3, <1>4, Zenon DEF Fits

----------------------------------------------------------------------------
LEMMA RewrittenIsText ==
  ASSUME NEW op, NEW f, f.text \in Text
  PROVE  Rewritten(op, f) \in Text
<1>1. f.text.todo \in Nat /\ (f.text.valid /\ f.text.after # "broken") \in BOOLEAN
  BY DEF Text
<1>2. (CASE op = "tidy" \/ f.rules.mode = "none" -> f.text.todo
         [] op # "tidy" /\ f.rules.mode # "none" -> IF f.text.after = "removable" THEN 1 ELSE 0) \in Nat
  BY <1>1, none = "none" DEF none
<1>3. (IF f.text.after = "rewritable" THEN 1 ELSE 0) \in Nat
  OBVIOUS
<1> QED
  BY <1>1, <1>2, <1>3 DEF Rewritten, Text, none

\* The disk after a transaction: every planned place has its new text, and
\* nothing else is touched.
After(op, r, d, plans) ==
  [p \in DOMAIN d |->
     IF \E f \in plans : Absolute(r, f.path) = p
     THEN [d[p] EXCEPT !.text = Rewritten(op, CHOOSE f \in plans : Absolute(r, f.path) = p)]
     ELSE d[p]]
IntactOn(r, d, plans) ==
  /\ \A f \in plans : /\ Absolute(r, f.path) \in DOMAIN d
                      /\ d[Absolute(r, f.path)].link = "no"
                      /\ d[Absolute(r, f.path)].text = f.text
  /\ \A f, g \in plans : Absolute(r, f.path) = Absolute(r, g.path) => f = g

LEMMA AfterIs ==
  ASSUME NEW op, NEW r, NEW d, d \in [DOMAIN d -> Entry], NEW plans, IntactOn(r, d, plans)
  PROVE  LET e == After(op, r, d, plans)
         IN  /\ SameFiles(d, e)
             /\ e \in [DOMAIN d -> Entry]
             /\ \A p \in DOMAIN d : (\A f \in plans : Absolute(r, f.path) # p) => e[p] = d[p]
             /\ \A f \in plans : e[Absolute(r, f.path)].text = Rewritten(op, f)
<1> DEFINE e == After(op, r, d, plans)
           places == {Absolute(r, f.path) : f \in plans}
           chosen(p) == CHOOSE g \in plans : Absolute(r, g.path) = p
<1>3. places \subseteq DOMAIN d
  BY DEF IntactOn
<1>4. \A f \in plans : chosen(Absolute(r, f.path)) = f
  <2> TAKE f \in plans
  <2>1. chosen(Absolute(r, f.path)) \in plans /\ Absolute(r, chosen(Absolute(r, f.path)).path) = Absolute(r, f.path)
    BY Zenon
  <2> HIDE DEF chosen
  <2> QED
    BY <2>1 DEF IntactOn
<1>6. e = [p \in DOMAIN d |-> IF p \in places THEN [d[p] EXCEPT !.text = Rewritten(op, chosen(p))] ELSE d[p]]
  BY DEF After
<1> HIDE DEF e, chosen
<1>7. \A p \in DOMAIN d : d[p] \in Entry
  OBVIOUS
<1>8. \A f \in plans : f.text \in Text
  BY <1>7 DEF IntactOn, Entry
<1>9. \A f \in plans : Rewritten(op, f) \in Text
  BY <1>8, RewrittenIsText
<1>10. ASSUME NEW p \in DOMAIN d
       PROVE  /\ e[p] \in Entry
              /\ e[p].link = d[p].link /\ e[p].large = d[p].large /\ e[p].ignored = d[p].ignored /\ e[p].head = d[p].head
  <2>1. CASE p \in places
    <3>1. PICK f \in plans : p = Absolute(r, f.path)
      BY <2>1
    <3>2. e[p] = [d[p] EXCEPT !.text = Rewritten(op, f)]
      BY <2>1, <3>1, <1>4, <1>6
    <3>3. d[p] \in Entry /\ Rewritten(op, f) \in Text
      BY <1>7, <1>9
    <3> QED
      BY <3>2, <3>3 DEF Entry
  <2>2. CASE p \notin places
    BY <2>2, <1>6, <1>7
  <2> QED
    BY <2>1, <2>2
<1>11. DOMAIN e = DOMAIN d
  BY <1>6
<1>12. SameFiles(d, e)
  BY <1>10, <1>11 DEF SameFiles
<1>13. e \in [DOMAIN d -> Entry]
  BY <1>6, <1>10, <1>11
<1>14. \A p \in DOMAIN d : (\A f \in plans : Absolute(r, f.path) # p) => e[p] = d[p]
  BY <1>6
<1>15. ASSUME NEW f \in plans
       PROVE  e[Absolute(r, f.path)].text = Rewritten(op, f)
  <2>1. Absolute(r, f.path) \in places
    OBVIOUS
  <2>2. d[Absolute(r, f.path)] \in Entry /\ Absolute(r, f.path) \in DOMAIN d
    BY <1>7, <1>3, <2>1
  <2>3. e[Absolute(r, f.path)] = [d[Absolute(r, f.path)] EXCEPT !.text = Rewritten(op, f)]
    BY <2>1, <2>2, <1>4, <1>6
  <2> QED
    BY <2>2, <2>3 DEF Entry
<1> QED
  BY <1>12, <1>13, <1>14, <1>15 DEF e

\* What a run found before it wrote and what is found after correspond.
LEMMA FoundAfter ==
  ASSUME NEW op, NEW r, NEW d, d \in [DOMAIN d -> Entry], NEW targets, NEW named, NEW plans,
         plans = {f \in FoundAt(r, d, targets, named) : Changes(op, f)}, IntactOn(r, d, plans)
  PROVE  LET e == After(op, r, d, plans)
             files == FoundAt(r, d, targets, named)
             found == FoundAt(r, e, targets, named)
         IN  /\ \A g \in found : \E f \in files : Became(op, files, f, g)
             /\ \A f \in files : \E g \in found : Became(op, files, f, g)
<1> DEFINE e == After(op, r, d, plans)
           files == FoundAt(r, d, targets, named)
           found == FoundAt(r, e, targets, named)
           reach == Reach(r, d, targets, named)
<1>1. /\ SameFiles(d, e)
      /\ \A p \in DOMAIN d : (\A f \in plans : Absolute(r, f.path) # p) => e[p] = d[p]
      /\ \A f \in plans : e[Absolute(r, f.path)].text = Rewritten(op, f)
  BY AfterIs
<1> HIDE DEF e
<1>2. Reach(r, e, targets, named) = reach
  <2>1. Candidates(r, e, targets, named) = Candidates(r, d, targets, named)
    BY <1>1, CandidatesSame
  <2> QED
    BY <2>1, Zenon DEF Reach
<1>3. ASSUME NEW p
      PROVE  /\ IsFound(r, e, p, named) <=> IsFound(r, d, p, named)
             /\ IsFound(r, d, p, named) => FoundIn(r, e, p).rules = FoundIn(r, d, p).rules
  BY <1>1, FoundSame
<1>4. ASSUME NEW f
      PROVE  f \in files <=> \E p \in reach : IsFound(r, d, p, named) /\ f = FoundIn(r, d, p)
  BY FoundAtIs
<1>5. ASSUME NEW g
      PROVE  g \in found <=> \E p \in reach : IsFound(r, d, p, named) /\ g = FoundIn(r, e, p)
  <2>1. g \in found <=> \E p \in Reach(r, e, targets, named) : IsFound(r, e, p, named) /\ g = FoundIn(r, e, p)
    BY FoundAtIs
  <2> QED
    BY <2>1, <1>2, <1>3
<1>6. ASSUME NEW p
      PROVE  /\ FoundIn(r, d, p).path = p /\ FoundIn(r, d, p).text = d[Absolute(r, p)].text
             /\ FoundIn(r, e, p).text = e[Absolute(r, p)].text
  BY Kinds
<1> HIDE DEF files, found, reach
<1>7. ASSUME NEW p \in reach, IsFound(r, d, p, named)
      PROVE  Became(op, files, FoundIn(r, d, p), FoundIn(r, e, p))
  <2> DEFINE f == FoundIn(r, d, p)
             g == FoundIn(r, e, p)
             place == Absolute(r, p)
  <2>1. f \in files /\ f.path = p /\ f.text = d[place].text /\ g.text = e[place].text
    BY <1>4, <1>6, <1>7, Zenon
  <2>2. g.rules = f.rules
    BY <1>3, <1>7
  <2>3. place \in DOMAIN d
    BY <1>7 DEF IsFound
  <2> HIDE DEF f, g
  <2>6. Became(op, files, f, g)
    <3>4. CASE \A h \in plans : Absolute(r, h.path) # place
      <4>1. g.text = f.text
        BY <2>1, <2>3, <3>4, <1>1
      <4>2. f \notin plans
        BY <2>1, <3>4
      <4>3. ~Changes(op, f)
        BY <4>2, <2>1 DEF files
      <4> QED
        BY <4>1, <4>3, <2>2, Zenon DEF Became
    <3>5. CASE \E h \in plans : Absolute(r, h.path) = place
      <4>1. PICK h \in plans : Absolute(r, h.path) = place
        BY <3>5
      <4>2. h.text = f.text /\ g.text = Rewritten(op, h)
        BY <4>1, <2>1, <1>1 DEF IntactOn
      <4>3. h \in files /\ Changes(op, h)
        BY DEF files
      <4>4. h = f \/ ~Changes(op, f)
        <5>1. f \in plans => h = f
          BY <4>1, <2>1 DEF IntactOn
        <5>2. Changes(op, f) => f \in plans
          BY <2>1 DEF files
        <5> QED
          BY <5>1, <5>2
      <4> QED
        BY <4>2, <4>3, <4>4, <2>2, Zenon DEF Became
    <3> QED
      BY <3>4, <3>5
  <2> QED
    BY <2>6 DEF f, g
<1>8. \A g \in found : \E f \in files : Became(op, files, f, g)
  BY <1>4, <1>5, <1>7, ZenonT(60)
<1>9. \A f \in files : \E g \in found : Became(op, files, f, g)
  <2> TAKE f \in files
  <2>1. PICK p \in reach : IsFound(r, d, p, named) /\ f = FoundIn(r, d, p)
    BY <1>4
  <2>2. FoundIn(r, e, p) \in found
    BY <2>1, <1>5
  <2> QED
    BY <2>1, <2>2, <1>7
<1> QED
  BY <1>8, <1>9, Zenon DEF e, files, found

----------------------------------------------------------------------------
\* What is found has the text of a file, or of standard input.
LEMMA FoundTexts ==
  ASSUME NEW s, s.input \in Entry, NEW d, d \in [DOMAIN d -> Entry], NEW r
  PROVE  Texted(FoundOf(s, d, r))
<1> SUFFICES ASSUME NEW f \in FoundOf(s, d, r) PROVE f.text \in Text
  BY DEF Texted
<1>1. PICK c \in Everything(s, d, r) : f = Answer(s, d, r, c) /\ f.kind = "found"
  BY DEF FoundOf
<1>2. CASE c = Input
  <2>1. f = StdinSource(r, s.input)
    BY <1>1, <1>2 DEF Answer
  <2>2. PICK rules : f = StdinClassified(r, s.input, rules)
    BY <2>1, Zenon DEF StdinSource
  <2>3. \/ \E reason, error : f = Passed(stdin, reason, error, TRUE)
        \/ f = Found(stdin, rules, "language", s.input.text)
    BY <2>2, Zenon DEF StdinClassified
  <2>4. f = Found(stdin, rules, "language", s.input.text)
    BY <2>3, <1>1 DEF Passed
  <2> QED
    BY <2>4 DEF Found, Entry
<1>3. CASE c # Input
  <2>1. f = LoadOne(r, d, c)
    BY <1>1, <1>3 DEF Answer
  <2> DEFINE p == ReportedPath(c.path)
  <2>2. ~Configured(r, p) /\ ~GoesThrough(r, d, p) /\ ~Refused(f, p, c.named)
    <3>1. Configured(r, p) \/ GoesThrough(r, d, p) => f = Nothing
      BY <2>1, LoadOneIs, Zenon
    <3> QED
      BY <3>1, <1>1, Kinds
  <2>3. IsFound(r, d, p, c.scope) /\ f = FoundIn(r, d, p)
    BY <2>1, <2>2, LoadOneIs, Zenon
  <2>4. f.text = d[Absolute(r, p)].text /\ Absolute(r, p) \in DOMAIN d
    BY <2>3, Kinds DEF IsFound
  <2> QED
    BY <2>4 DEF Entry
<1> QED
  BY <1>2, <1>3

----------------------------------------------------------------------------
\* The invariant.  A run that nobody disturbed has the answers of the tree as it
\* is; one that may write has planned what it judged.
IsRun(v) ==
  v = [op |-> v.op, pc |-> v.pc, resolved |-> v.resolved, left |-> v.left, looked |-> v.looked,
       missing |-> v.missing, plans |-> v.plans, clear |-> v.clear]
IsDone(v) ==
  v = [op |-> v.op, code |-> v.code, failed |-> v.failed, clear |-> v.clear, wrote |-> v.wrote,
       closed |-> v.closed, lists |-> v.lists]
Typed ==
  /\ setup \in Setups
  /\ disk \in [DOMAIN disk -> Entry] /\ DOMAIN disk \subseteq DOMAIN setup.disk
  /\ \A p \in DOMAIN ledger : ledger[p] # 0
  /\ IsRun(run) /\ run.pc \in {"idle", "look", "apply"}
  /\ IsDone(done)
Silent == run.pc # "idle" => done.op = none
MetBy(s, d, v) ==
  v.pc # "idle" /\ v.clear =>
    /\ v.resolved = ResolvedOf(s, v.op)
    /\ Allowed(s, v.op)
    /\ v.left \subseteq Everything(s, d, v.resolved)
    /\ v.looked = {Answer(s, d, v.resolved, c) : c \in Everything(s, d, v.resolved) \ v.left}
    /\ v.missing = Missing(v.resolved, d, TargetsOf(s), Wide(s))
ReadyBy(v) ==
  v.pc = "apply" =>
    LET all == Discovered(v.looked, v.missing)
    IN  /\ v.left = {} /\ v.op \in Rewriting
        /\ v.plans = {f \in all.files : Changes(v.op, f)}
        /\ MayFix(all.files, all.skipped)
        /\ \A f \in all.files : ~Unverified(v.op, f)
Tells(s, d, recorded, v, w) ==
  (v.pc = "idle" /\ w.op \notin {none, "coverage"} /\ w.clear /\ ~w.failed) =>
    Fits(w.op, FoundOf(s, d, ResolvedOf(s, w.op)), w, s.deny, recorded)
Inv ==
  Typed /\ Silent /\ MetBy(setup, disk, run) /\ ReadyBy(run) /\ Tells(setup, disk, ledger, run, done)

LEMMA InvTells ==
  Tells(setup, disk, ledger, run, done) <=> CodeTellsTheTree
<1> DEFINE r == ResolvedOf(setup, done.op)
           found == FoundOf(setup, disk, r)
<1>1. CodeTellsTheTree <=>
        ((run.pc = "idle" /\ done.op \notin {none, "coverage"} /\ done.clear /\ ~done.failed) =>
           CodeFits(done.op, FoundNow(Resolved(done.op))))
  BY Zenon DEF CodeTellsTheTree
<1>2. Resolved(done.op) = r
  BY OfTheState
<1>3. FoundNow(r) = found
  BY FoundNowIs
<1>4. CodeFits(done.op, found) = Fits(done.op, found, done, setup.deny, ledger)
  BY CodeFitsIs
<1> QED
  BY <1>1, <1>2, <1>3, <1>4, Zenon DEF Tells

\* What a setup is.
LEMMA SetupIs ==
  ASSUME NEW s \in Setups
  PROVE  /\ s.disk \in [DOMAIN s.disk -> Entry] /\ s.input \in Entry /\ s.cwd \in Path
         /\ \A p \in DOMAIN s.disk : p \in Path /\ p # <<>>
         /\ s.targets \in Seq(Seq(STRING))
  BY SetupsAssumption

LEMMA InitInv == Init => Inv
<1> SUFFICES ASSUME Init PROVE Inv
  OBVIOUS
<1>1. Typed
  BY SetupIs DEF Init, Typed, IsRun, IsDone, Idle, Never, noTable
<1>2. Silent /\ MetBy(setup, disk, run) /\ ReadyBy(run)
  BY DEF Init, Silent, MetBy, ReadyBy, Idle
<1>3. Tells(setup, disk, ledger, run, done)
  BY DEF Init, Tells, Never
<1> QED
  BY <1>1, <1>2, <1>3 DEF Inv

----------------------------------------------------------------------------
\* A run that failed before it wrote has nothing to tell.
LEMMA FailedFits ==
  ASSUME NEW op, NEW found, NEW d, d.code = 2, d.wrote = FALSE, NEW deny, NEW recorded
  PROVE  Fits(op, found, d, deny, recorded)
<1>1. ~(op \in Reports /\ d.code = 0) /\ ~(op \in {"check", "diff", "tidy"} /\ d.code = 1 /\ deny = {})
      /\ ~(op \in {"ratchet", "record"} /\ d.code # 2)
  OBVIOUS
<1> QED
  BY <1>1, Zenon DEF Fits

\* A step of nobody keeps the invariant.
LEMMA StutterInv ==
  ASSUME Inv, UNCHANGED vars
  PROVE  Inv'
<1>1. setup' = setup /\ disk' = disk /\ ledger' = ledger /\ run' = run /\ done' = done
  BY DEF vars
<1> QED
  BY <1>1 DEF Inv, Typed, Silent

LEMMA BeginInv ==
  ASSUME Inv, NEW op \in setup.ops, Begin(op)
  PROVE  Inv'
<1> DEFINE r == ResolvedOf(setup, op)
<1>0. UNCHANGED <<setup, disk, ledger, edits>> /\ Typed
  BY DEF Begin, Inv
<1>1. /\ Resolved(op) = r /\ (ArgumentsAllowed(op) <=> Allowed(setup, op))
      /\ Targets = TargetsOf(setup) /\ HasStdin = HasDash(setup)
  BY OfTheState
<1>2. CASE r.loads /\ ArgumentsAllowed(op)
  <2>1. /\ run' = [Idle EXCEPT !.op = op, !.pc = "look", !.resolved = r,
                     !.left = Everything(setup, disk, r),
                     !.missing = Missing(r, disk, TargetsOf(setup), Wide(setup))]
        /\ done' = Never
    BY <1>1, <1>2, Zenon DEF Begin, Everything, Wide
  <2> HIDE DEF r
  <2>2. /\ run'.op = op /\ run'.pc = "look" /\ run'.resolved = r /\ run'.left = Everything(setup, disk, r)
        /\ run'.looked = {} /\ run'.missing = Missing(r, disk, TargetsOf(setup), Wide(setup)) /\ IsRun(run')
    BY <2>1 DEF Idle, IsRun
  <2>3. Typed' /\ Silent'
    BY <1>0, <2>1, <2>2 DEF Typed, Silent, Never, IsDone
  <2>4. MetBy(setup', disk', run')
    BY <1>0, <1>1, <1>2, <2>2 DEF MetBy, r
  <2>5. ReadyBy(run') /\ Tells(setup', disk', ledger', run', done')
    BY <2>2 DEF ReadyBy, Tells
  <2> QED
    BY <2>3, <2>4, <2>5 DEF Inv
<1>3. CASE ~(r.loads /\ ArgumentsAllowed(op))
  <2>1. run' = Idle /\ done' = [Never EXCEPT !.op = op, !.code = 2, !.clear = TRUE]
    BY <1>1, <1>3, Zenon DEF Begin
  <2>2. Typed' /\ Silent'
    BY <1>0, <2>1 DEF Typed, Silent, Never, IsDone, Idle, IsRun
  <2>3. MetBy(setup', disk', run') /\ ReadyBy(run')
    BY <2>1 DEF MetBy, ReadyBy, Idle
  <2>4. Tells(setup', disk', ledger', run', done')
    <3>1. done'.code = 2 /\ done'.wrote = FALSE
      BY <2>1 DEF Never
    <3> QED
      BY <3>1, FailedFits DEF Tells
  <2> QED
    BY <2>2, <2>3, <2>4 DEF Inv
<1> QED
  BY <1>2, <1>3

LEMMA LookInv ==
  ASSUME Inv, NEW candidate, Look(candidate)
  PROVE  Inv'
<1> DEFINE r == run.resolved
           all == Everything(setup, disk, r)
           A(c) == Answer(setup, disk, r, c)
<1>0. UNCHANGED <<setup, disk, ledger, done, edits>> /\ Typed /\ Silent /\ run.pc = "look" /\ candidate \in run.left
  BY DEF Look, Inv
<1>1. run' = [run EXCEPT !.left = run.left \ {candidate}, !.looked = run.looked \union {A(candidate)}]
  BY DEF Look, Answer
<1> HIDE DEF A
<1>2. /\ run'.op = run.op /\ run'.pc = "look" /\ run'.resolved = r /\ run'.left = run.left \ {candidate}
      /\ run'.looked = run.looked \union {A(candidate)} /\ run'.missing = run.missing
      /\ run'.clear = run.clear /\ IsRun(run')
  BY <1>0, <1>1 DEF Typed, IsRun
<1>3. Typed' /\ Silent'
  BY <1>0, <1>2 DEF Typed, Silent
<1>4. MetBy(setup', disk', run')
  <2> SUFFICES ASSUME run.clear PROVE MetBy(setup, disk, run')
    BY <1>0, <1>2 DEF MetBy
  <2>1. /\ r = ResolvedOf(setup, run.op) /\ Allowed(setup, run.op) /\ run.left \subseteq all
        /\ run.looked = {A(c) : c \in all \ run.left}
        /\ run.missing = Missing(r, disk, TargetsOf(setup), Wide(setup))
    BY <1>0, Zenon DEF Inv, MetBy, A
  <2> HIDE DEF all
  <2>2. run'.looked = {A(c) : c \in all \ run'.left}
    <3>1. all \ run'.left = (all \ run.left) \union {candidate}
      BY <1>0, <1>2, <2>1
    <3> QED
      BY <1>2, <2>1, <3>1
  <2> QED
    BY <1>2, <2>1, <2>2 DEF MetBy, all, A
<1>5. ReadyBy(run') /\ Tells(setup', disk', ledger', run', done')
  BY <1>2 DEF ReadyBy, Tells
<1> QED
  BY <1>3, <1>4, <1>5 DEF Inv

\* What a clear run has looked at, once it looked at everything.
LEMMA LookedIsFound ==
  ASSUME Inv, run.pc # "idle", run.clear, run.left = {}
  PROVE  LET r == ResolvedOf(setup, run.op)
         IN  /\ run.resolved = r /\ Allowed(setup, run.op)
             /\ Looked.files = FoundOf(setup, disk, r)
             /\ Texted(Looked.files)
<1> DEFINE r == ResolvedOf(setup, run.op)
           all == Everything(setup, disk, r)
<1>1. /\ run.resolved = r /\ Allowed(setup, run.op)
      /\ run.looked = {Answer(setup, disk, r, c) : c \in all \ {}}
  BY Zenon DEF Inv, MetBy
<1> HIDE DEF r
<1>2. run.looked = {Answer(setup, disk, r, c) : c \in all}
  BY <1>1
<1>3. Looked.files = {l \in run.looked : l.kind = "found"}
  BY DEF Looked, Discovered
<1>4. Looked.files = FoundOf(setup, disk, r)
  BY <1>2, <1>3, Zenon DEF FoundOf
<1>5. Texted(FoundOf(setup, disk, r))
  BY FoundTexts, SetupIs DEF Inv, Typed
<1> QED
  BY <1>1, <1>4, <1>5 DEF r

\* A run that finishes is idle and says what it did.
LEMMA FinishIs ==
  ASSUME NEW code, NEW failed, NEW wrote, NEW closed, NEW lists, Finish(code, failed, wrote, closed, lists)
  PROVE  /\ run' = Idle /\ IsRun(run') /\ run'.pc = "idle"
         /\ IsDone(done') /\ done'.op = run.op /\ done'.code = code /\ done'.clear = run.clear
         /\ done'.failed = failed
         /\ done'.wrote = wrote /\ done'.closed = closed
         /\ Silent' /\ (\A s, d : MetBy(s, d, run')) /\ ReadyBy(run')
  BY DEF Finish, Idle, IsRun, IsDone, Silent, MetBy, ReadyBy

\* A run that ends having failed tells nothing, whatever it did to the files.
LEMMA FailedInv ==
  ASSUME Inv, NEW code, NEW wrote, NEW closed, NEW lists, Finish(code, TRUE, wrote, closed, lists), UNCHANGED setup,
         disk' \in [DOMAIN disk' -> Entry], DOMAIN disk' \subseteq DOMAIN disk, \A p \in DOMAIN ledger' : ledger'[p] # 0
  PROVE  Inv'
<1>1. Typed'
  BY FinishIs DEF Inv, Typed
<1>2. Tells(setup', disk', ledger', run', done')
  BY FinishIs DEF Tells
<1> QED
  BY <1>1, <1>2, FinishIs DEF Inv

\* A run that refuses has written nothing.
LEMMA RefuseInv ==
  ASSUME Inv, Refuse, UNCHANGED <<setup, disk, ledger>>
  PROVE  Inv'
<1>1. Finish(2, FALSE, FALSE, TRUE, {})
  BY DEF Refuse
<1>2. done'.code = 2 /\ done'.wrote = FALSE
  BY <1>1, FinishIs
<1>3. Typed'
  BY <1>1, FinishIs DEF Inv, Typed
<1>4. Tells(setup', disk', ledger', run', done')
  BY <1>2, FailedFits DEF Tells
<1> QED
  BY <1>1, <1>3, <1>4, FinishIs DEF Inv

\* A run that reports keeps the invariant when the code it means to end with
\* fits the tree.
LEMMA ReportInv ==
  ASSUME Inv, NEW code, NEW wrote, NEW closed, NEW lists, Report(code, wrote, closed, lists), UNCHANGED setup,
         disk' \in [DOMAIN disk' -> Entry], DOMAIN disk' \subseteq DOMAIN disk, \A p \in DOMAIN ledger' : ledger'[p] # 0,
         (Finish(code, FALSE, wrote, closed, lists) /\ run.op \notin {none, "coverage"} /\ run.clear) =>
           Fits(run.op, FoundOf(setup, disk', ResolvedOf(setup, run.op)), done', setup.deny, ledger')
  PROVE  Inv'
<1>1. CASE Finish(code, FALSE, wrote, closed, lists)
  <2>1. Typed'
    BY <1>1, FinishIs DEF Inv, Typed
  <2>2. Tells(setup', disk', ledger', run', done')
    BY <1>1, FinishIs DEF Tells
  <2> QED
    BY <1>1, <2>1, <2>2, FinishIs DEF Inv
<1>2. CASE \E ends \in {0, 2} : Finish(ends, TRUE, wrote, closed, {})
  BY <1>2, FailedInv
<1> QED
  BY <1>1, <1>2 DEF Report

LEMMA JudgeInv ==
  ASSUME Inv, Judge
  PROVE  Inv'
<1> DEFINE files == Looked.files
           skipped == Looked.skipped
           closes == Closes(run.resolved)
           r == ResolvedOf(setup, run.op)
<1>0. /\ UNCHANGED <<setup, disk, ledger, edits>> /\ Typed /\ Silent
      /\ run.pc = "look" /\ run.left = {} /\ run.op \in Reports
      /\ JudgeFiles(run.op, files, skipped, closes)
  BY DEF Judge, AllLooked, Inv
<1>1. closes \in BOOLEAN
  BY Zenon DEF Closes
<1>2. ASSUME run.clear
      PROVE  files = FoundOf(setup, disk, r) /\ Texted(files)
  BY <1>0, <1>2, LookedIsFound
<1> HIDE DEF files, skipped, closes
<1>3. CASE Fatal \/ (\E f \in files : Unverified(run.op, f))
  <2>1. Refuse
    BY <1>0, <1>3, Zenon DEF JudgeFiles
  <2> QED
    BY <1>0, <2>1, RefuseInv
<1>4. CASE /\ ~(Fatal \/ (\E f \in files : Unverified(run.op, f)))
           /\ run.op \in Rewriting /\ MayFix(files, skipped)
  <2>1. /\ run' = [run EXCEPT !.pc = "apply", !.plans = {f \in files : Changes(run.op, f)}]
        /\ UNCHANGED done
    BY <1>0, <1>4, Zenon DEF JudgeFiles
  <2>2. /\ run'.op = run.op /\ run'.pc = "apply" /\ run'.resolved = run.resolved /\ run'.left = {}
        /\ run'.looked = run.looked /\ run'.missing = run.missing /\ run'.clear = run.clear
        /\ run'.plans = {f \in files : Changes(run.op, f)} /\ IsRun(run')
    BY <1>0, <2>1 DEF Typed, IsRun
  <2>3. Typed' /\ Silent'
    BY <1>0, <2>1, <2>2 DEF Typed, Silent
  <2>4. MetBy(setup', disk', run')
    BY <1>0, <2>2 DEF MetBy, Inv
  <2>5. ReadyBy(run')
    <3>1. Discovered(run'.looked, run'.missing).files = files
      /\ Discovered(run'.looked, run'.missing).skipped = skipped
      BY <2>2 DEF Looked, files, skipped
    <3> QED
      BY <3>1, <2>2, <1>4, Zenon DEF ReadyBy
  <2>6. Tells(setup', disk', ledger', run', done')
    BY <2>2 DEF Tells
  <2> QED
    BY <2>3, <2>4, <2>5, <2>6 DEF Inv
<1>5. CASE /\ ~(Fatal \/ (\E f \in files : Unverified(run.op, f)))
           /\ ~(run.op \in Rewriting /\ MayFix(files, skipped))
  <2>1. Report(Code(run.op, files, skipped, closes), FALSE, closes, {})
    <3>1. ~(Fatal \/ (\E f \in files : Unverified(run.op, f)))
          /\ ~(~Fatal /\ (\A f \in files : ~Unverified(run.op, f)) /\ run.op \in Rewriting /\ MayFix(files, skipped))
      BY <1>5, Zenon
    <3> QED
      BY <1>0, <3>1, Zenon DEF JudgeFiles
  <2>2. ASSUME Finish(Code(run.op, files, skipped, closes), FALSE, FALSE, closes, {}), run.clear
        PROVE  Fits(run.op, FoundOf(setup, disk', r), done', setup.deny, ledger')
    <3>1. done'.code = Code(run.op, files, skipped, closes) /\ done'.wrote = FALSE
      BY <2>2, FinishIs
    <3>2. files = FoundOf(setup, disk, r) /\ Texted(files)
      BY <1>2, <2>2
    <3>3. Fits(run.op, files, done', setup.deny, ledger)
      BY <1>0, <1>1, <1>5, <3>1, <3>2, JudgedFits
    <3> QED
      BY <1>0, <3>2, <3>3
  <2>3. /\ disk' \in [DOMAIN disk' -> Entry] /\ DOMAIN disk' \subseteq DOMAIN disk
        /\ \A p \in DOMAIN ledger' : ledger'[p] # 0
    BY <1>0 DEF Typed
  <2> QED
    BY <1>0, <2>1, <2>2, <2>3, ReportInv
<1> QED
  BY <1>3, <1>4, <1>5, Zenon

LEMMA ApplyInv ==
  ASSUME Inv, Apply
  PROVE  Inv'
<1> DEFINE files == Looked.files
           skipped == Looked.skipped
           r == ResolvedOf(setup, run.op)
<1>0. /\ UNCHANGED <<setup, ledger, edits>> /\ Typed /\ Silent /\ run.pc = "apply"
      /\ run.left = {} /\ run.op \in Rewriting /\ run.plans = {f \in files : Changes(run.op, f)}
      /\ MayFix(files, skipped) /\ \A f \in files : ~Unverified(run.op, f)
  BY DEF Apply, Inv, ReadyBy, Looked
<1>1. ASSUME run.clear
      PROVE  /\ run.resolved = r /\ Allowed(setup, run.op)
             /\ files = FoundOf(setup, disk, r) /\ Texted(files)
  BY <1>0, <1>1, LookedIsFound
<1> HIDE DEF files, skipped
<1>2. CASE RollBack
  BY <1>0, <1>2, RefuseInv DEF RollBack
<1>3. CASE Break
  <2>0. PICK plans \in SUBSET run.plans : \E lost \in SUBSET plans :
          /\ Intact(plans)
          /\ disk' = [p \in DOMAIN disk \ Places(lost) |-> Installed(plans)[p]]
          /\ Finish(2, TRUE, TRUE, TRUE, {})
    BY <1>3, Zenon DEF Break
  <2>1. PICK lost \in SUBSET plans :
          /\ Intact(plans)
          /\ disk' = [p \in DOMAIN disk \ Places(lost) |-> Installed(plans)[p]]
          /\ Finish(2, TRUE, TRUE, TRUE, {})
    BY <2>0, Zenon
  <2> DEFINE whole == After(run.op, run.resolved, disk, plans)
  <2>2. whole \in [DOMAIN disk -> Entry]
    <3>1. IntactOn(run.resolved, disk, plans)
      BY <2>1, Zenon DEF Intact, IntactOn, Place
    <3>2. disk \in [DOMAIN disk -> Entry]
      BY <1>0 DEF Typed
    <3>3. SameFiles(disk, whole) /\ whole \in [DOMAIN whole -> Entry]
      BY <3>1, <3>2, AfterIs
    <3> QED
      BY <3>3 DEF SameFiles
  <2>3. Installed(plans) = whole
    BY Zenon DEF Installed, After, Place
  <2> HIDE DEF whole
  <2>4. disk' \in [DOMAIN disk' -> Entry] /\ DOMAIN disk' \subseteq DOMAIN disk
    BY <2>1, <2>2, <2>3
  <2>5. \A p \in DOMAIN ledger' : ledger'[p] # 0
    BY <1>0 DEF Typed
  <2> QED
    BY <1>0, <2>1, <2>4, <2>5, FailedInv
<1>4. CASE Install
  <2> DEFINE closes == Closes(run.resolved)
  <2>1. Report(Code(run.op, files, skipped, closes), run.plans # {}, closes, {})
    BY <1>4 DEF Install, files, skipped
  <2>2. closes \in BOOLEAN
    BY Zenon DEF Closes
  <2> HIDE DEF closes
  <2>3. disk' = After(run.op, run.resolved, disk, run.plans)
    BY <1>4, Zenon DEF Install, Installed, After, Place
  <2>4. IntactOn(run.resolved, disk, run.plans)
    BY <1>4, Zenon DEF Install, Intact, IntactOn, Place
  <2>5. disk \in [DOMAIN disk -> Entry]
    BY <1>0 DEF Typed
  <2>6. SameFiles(disk, disk') /\ disk' \in [DOMAIN disk -> Entry]
    BY <2>3, <2>4, <2>5, AfterIs
  <2>7. ASSUME Finish(Code(run.op, files, skipped, closes), FALSE, run.plans # {}, closes, {}), run.clear
        PROVE  Fits(run.op, FoundOf(setup, disk', r), done', setup.deny, ledger')
    <3>0. done'.code = Code(run.op, files, skipped, closes) /\ done'.closed = closes
      BY <2>7, FinishIs
    <3> DEFINE targets == TargetsOf(setup)
               named == Wide(setup)
    <3>1. run.resolved = r /\ Allowed(setup, run.op) /\ files = FoundOf(setup, disk, r) /\ Texted(files)
      BY <1>1, <2>7
    <3>2. ~HasDash(setup)
      BY <1>0, <3>1 DEF Allowed, Rewriting
    <3>3. files = FoundAt(r, disk, targets, named) /\ FoundOf(setup, disk', r) = FoundAt(r, disk', targets, named)
      BY <3>1, <3>2, FoundOfIs
    <3> HIDE DEF r, targets, named
    <3> DEFINE found == FoundAt(r, disk', targets, named)
    <3>4. /\ \A g \in found : \E f \in files : Became(run.op, files, f, g)
          /\ \A f \in files : \E g \in found : Became(run.op, files, f, g)
      <4>1. run.plans = {f \in FoundAt(r, disk, targets, named) : Changes(run.op, f)}
        BY <1>0, <3>3
      <4>2. IntactOn(r, disk, run.plans) /\ disk' = After(run.op, r, disk, run.plans)
        BY <2>3, <2>4, <3>1
      <4> QED
        BY <4>1, <4>2, <2>5, <3>3, FoundAfter
    <3> HIDE DEF found
    <3>5. Fits(run.op, found, done', setup.deny, ledger)
      BY <1>0, <2>2, <3>0, <3>1, <3>4, AppliedFits
    <3> QED
      BY <1>0, <3>3, <3>5 DEF found
  <2>8. disk' \in [DOMAIN disk' -> Entry] /\ DOMAIN disk' \subseteq DOMAIN disk
    BY <2>6 DEF SameFiles
  <2>9. \A p \in DOMAIN ledger' : ledger'[p] # 0
    BY <1>0 DEF Typed
  <2> QED
    BY <1>0, <2>1, <2>7, <2>8, <2>9, ReportInv
<1> QED
  BY <1>2, <1>3, <1>4, Zenon DEF Apply

LEMMA CoverInv ==
  ASSUME Inv, Cover
  PROVE  Inv'
<1>0. UNCHANGED <<setup, disk, ledger, edits>> /\ Typed /\ Silent /\ run.op = "coverage"
  BY DEF Cover, Inv
<1>1. Refuse \/ \E code, lists : Report(code, FALSE, TRUE, lists)
  BY Zenon DEF Cover
<1>2. \E code, failed, lists : Finish(code, failed, FALSE, TRUE, lists)
  BY <1>1 DEF Refuse, Report
<1>3. Typed'
  BY <1>0, <1>2, FinishIs DEF Typed
<1>4. Tells(setup', disk', ledger', run', done')
  BY <1>0, <1>2, FinishIs DEF Tells
<1> QED
  BY <1>2, <1>3, <1>4, FinishIs DEF Inv

LEMMA RatchetInv ==
  ASSUME Inv, Ratchet
  PROVE  Inv'
<1> DEFINE files == Looked.files
           r == ResolvedOf(setup, run.op)
<1>0. /\ UNCHANGED <<setup, disk, edits>> /\ Typed /\ Silent /\ run.op \in {"ratchet", "record"}
      /\ run.pc = "look" /\ run.left = {}
  BY DEF Ratchet, AllLooked, Inv
<1>1. CASE Fatal
  BY <1>0, <1>1, RefuseInv DEF Ratchet
<1>2. ASSUME NEW p \in DOMAIN Counts(files)
      PROVE  Counts(files)[p] # 0
  <2> DEFINE counted == {f \in files : Counted(f) > 0}
             g == CHOOSE f1 \in counted : f1.path = p
  <2>1. Counts(files) = [q \in {f.path : f \in counted} |-> Counted(CHOOSE f \in counted : f.path = q)]
    BY Zenon DEF Counts
  <2>2. PICK f \in counted : f.path = p
    BY <1>2, <2>1
  <2>3. g \in counted
    BY <2>2, Zenon
  <2>4. Counts(files)[p] = Counted(g)
    BY <1>2, <2>1, Zenon
  <2> HIDE DEF g
  <2>5. Counted(g) > 0
    BY <2>3
  <2> QED
    BY <2>4, <2>5
<1>3. CASE ~Fatal /\ run.op = "record" /\ ledger' \in {ledger, noTable} /\ Finish(2, TRUE, FALSE, TRUE, {})
  <2>1. \A p \in DOMAIN ledger' : ledger'[p] # 0
    BY <1>0, <1>3 DEF Typed, noTable
  <2>2. disk' \in [DOMAIN disk' -> Entry] /\ DOMAIN disk' \subseteq DOMAIN disk
    BY <1>0 DEF Typed
  <2> QED
    BY <1>0, <1>3, <2>1, <2>2, FailedInv
<1>4. ASSUME NEW code, code = IF run.op = "record" \/ Compare(ledger, Counts(files)) THEN 0 ELSE 1,
             ledger' = IF run.op = "record" THEN Counts(files) ELSE ledger,
             Report(code, FALSE, TRUE, {})
      PROVE  Inv'
  <2>1. \A p \in DOMAIN ledger' : ledger'[p] # 0
    <3>1. CASE run.op = "record"
      <4> HIDE DEF files
      <4> QED
        BY <1>2, <1>4, <3>1
    <3>2. CASE run.op # "record"
      BY <1>0, <1>4, <3>2 DEF Typed
    <3> QED
      BY <3>1, <3>2
  <2>2. disk' \in [DOMAIN disk' -> Entry] /\ DOMAIN disk' \subseteq DOMAIN disk
    BY <1>0 DEF Typed
  <2>3. ASSUME Finish(code, FALSE, FALSE, TRUE, {}), run.clear
        PROVE  Fits(run.op, FoundOf(setup, disk', r), done', setup.deny, ledger')
    <3>0. done'.code = code
      BY <2>3, FinishIs
    <3>1. Allowed(setup, run.op) /\ files = FoundOf(setup, disk, r) /\ Texted(files)
      BY <1>0, <2>3, LookedIsFound
    <3>2. ~HasDash(setup)
      BY <1>0, <3>1 DEF Allowed
    <3>3. \A f, g \in files : f.path = g.path => f = g
      BY <3>1, <3>2, FoundOfIs, FoundOnce
    <3> HIDE DEF files
    <3>4. Fits(run.op, files, done', setup.deny, IF run.op = "record" THEN Counts(files) ELSE ledger)
      BY <1>0, <1>4, <3>0, <3>1, <3>3, RatchetFits DEF Typed
    <3> QED
      BY <1>0, <1>4, <3>1, <3>4
  <2> HIDE DEF files, r
  <2> QED
    BY <1>0, <1>4, <2>1, <2>2, <2>3, ReportInv DEF r
<1>5. CASE ~Fatal /\ run.op = "ratchet" /\ UNCHANGED ledger
           /\ Report(IF Compare(ledger, Counts(files)) THEN 0 ELSE 1, FALSE, TRUE, {})
  BY <1>4, <1>5
<1>6. CASE ~Fatal /\ run.op = "record" /\ ledger' = Counts(files) /\ Report(0, FALSE, TRUE, {})
  BY <1>4, <1>6
<1> QED
  BY <1>1, <1>3, <1>5, <1>6, Zenon DEF Ratchet

LEMMA EditInv ==
  ASSUME Inv, NEW place, Edit(place)
  PROVE  Inv'
<1>0. UNCHANGED <<setup, ledger>> /\ Typed /\ Silent /\ ReadyBy(run) /\ place \in DOMAIN disk
  BY DEF Edit, Inv
<1>1. run' = [run EXCEPT !.clear = FALSE] /\ done' = [done EXCEPT !.clear = FALSE]
  BY DEF Edit
<1>2. /\ IsRun(run') /\ run'.op = run.op /\ run'.pc = run.pc /\ run'.left = run.left /\ run'.looked = run.looked
      /\ run'.missing = run.missing /\ run'.plans = run.plans /\ run'.clear = FALSE
      /\ IsDone(done') /\ done'.op = done.op /\ done'.clear = FALSE
  BY <1>0, <1>1 DEF Typed, IsRun, IsDone
<1>3. disk' \in [DOMAIN disk' -> Entry] /\ DOMAIN disk' \subseteq DOMAIN disk
  <2>1. disk \in [DOMAIN disk -> Entry]
    BY <1>0 DEF Typed
  <2>2. CASE \E text \in Texts \ {disk[place].text} : disk' = [disk EXCEPT ![place].text = text]
    <3>1. PICK text \in Texts : disk' = [disk EXCEPT ![place].text = text]
      BY <2>2
    <3>2. text \in Text
      BY TextsAssumption
    <3> QED
      BY <3>1, <3>2, <2>1, <1>0 DEF Entry
  <2>3. CASE disk' = [p \in {q \in DOMAIN disk : ~IsPrefix(place, q)} |-> disk[p]]
    BY <2>3, <2>1
  <2> QED
    BY <2>2, <2>3 DEF Edit
<1>4. Typed' /\ Silent'
  BY <1>0, <1>2, <1>3 DEF Typed, Silent
<1>5. MetBy(setup', disk', run') /\ Tells(setup', disk', ledger', run', done')
  BY <1>2 DEF MetBy, Tells
<1>6. ReadyBy(run')
  BY <1>0, <1>2, Zenon DEF ReadyBy
<1> QED
  BY <1>4, <1>5, <1>6 DEF Inv

LEMMA NextInv ==
  ASSUME Inv, [Next]_vars
  PROVE  Inv'
  BY StutterInv, BeginInv, LookInv, JudgeInv, ApplyInv, CoverInv, RatchetInv, EditInv DEF Next

\* The exit code tells what is in the tree, for every setup (faq.md:80,
\* cli.rs:943, 1052, ratchet.rs:129).
THEOREM ExitTellsTheTree == Spec => []CodeTellsTheTree
<1>1. Init => Inv
  BY InitInv
<1>2. Inv /\ [Next]_vars => Inv'
  BY NextInv
<1>3. Inv => CodeTellsTheTree
  BY InvTells DEF Inv
<1> QED
  BY <1>1, <1>2, <1>3, PTL DEF Spec

----------------------------------------------------------------------------
\* What holds of 0, and of a number's successor when it holds of it, holds up to n.
LEMMA CountingUp ==
  ASSUME NEW n \in Nat, NEW A \in SUBSET (0..n), 0 \in A, \A m \in A : m < n => m + 1 \in A
  PROVE  A = 0..n
<1>1. SUFFICES ASSUME NEW k \in (0..n) \ A PROVE FALSE
  OBVIOUS
<1> DEFINE B == {m \in 0..k : m \notin A}
           back == [m \in B |-> m - 1]
<1>2. IsFiniteSet(B)
  <2>1. IsFiniteSet(0..k) /\ B \in SUBSET (0..k) BY FS_Interval
  <2> QED BY <2>1, FS_Subset
<1>3. \A m \in B : m - 1 \in B
  <2>1. SUFFICES ASSUME NEW m \in 0..k, m \notin A PROVE m - 1 \in 0..k /\ m - 1 \notin A
    OBVIOUS
  <2>2. m # 0 BY <2>1
  <2>3. m - 1 \in 0..n /\ m - 1 < n /\ (m - 1) + 1 = m BY <2>2
  <2>4. m - 1 \notin A BY <2>1, <2>3
  <2> QED BY <2>2, <2>4
<1>4. back \in Injection(B, B) BY <1>3 DEF Injection, IsInjective
<1>5. back \in Surjection(B, B) BY <1>2, <1>4, FS_Injection
<1>6. k \in B BY <1>1
<1>7. PICK m \in B : back[m] = k
  <2> HIDE DEF B, back
  <2> QED BY <1>5, <1>6 DEF Surjection
<1> QED BY <1>7

\* A path is resolved a component at a time: after each, what is seen of it.  The
\* provers are told that the dots are strings.
Components == STRING \union {".", ".."}
Spelled == Seq(Components)
Steps(seen, start, path) ==
  /\ seen \in [0..Len(path) -> Spelled] /\ seen[0] = start
  /\ \A i \in 1..Len(path) : seen[i] = Down(seen[i - 1], path[i])
Leads(start, path, end) == \E seen : Steps(seen, start, path) /\ seen[Len(path)] = end

LEMMA WiderSeq ==
  ASSUME NEW S, NEW T, S \subseteq T, NEW s \in Seq(S)
  PROVE  s \in Seq(T) /\ \A i \in 1..Len(s) : s[i] \in S
  OBVIOUS

LEMMA AppendIs ==
  ASSUME NEW S, NEW seen \in Seq(S), NEW c \in S
  PROVE  Append(seen, c) \in Seq(S)
  OBVIOUS

LEMMA AppendSlice ==
  ASSUME NEW S, NEW start \in Seq(S), NEW path \in Seq(S), NEW i \in 1..Len(path)
  PROVE  Append(start \o SubSeq(path, 1, i - 1), path[i]) = start \o SubSeq(path, 1, i)
<1> DEFINE s == Append(start \o SubSeq(path, 1, i - 1), path[i])
           t == start \o SubSeq(path, 1, i)
<1>1. path[i] \in S /\ i - 1 \in 0..Len(path)
  OBVIOUS
<1>2. s \in Seq(S) /\ t \in Seq(S) /\ Len(s) = Len(start) + i /\ Len(t) = Len(start) + i
  BY <1>1
<1>3. \A k \in 1..Len(s) : s[k] = t[k]
  BY <1>1, <1>2
<1> HIDE DEF s, t
<1>4. s = t
  BY <1>2, <1>3
<1> QED
  BY <1>4 DEF s, t

LEMMA SameEverywhere ==
  ASSUME NEW S, NEW n \in Nat, NEW c \in S
  PROVE  [i \in 1..n |-> c] \in Seq(S) /\ Len([i \in 1..n |-> c]) = n
  OBVIOUS

LEMMA DownIsPath ==
  ASSUME NEW seen \in Spelled, NEW c \in Components
  PROVE  Down(seen, c) \in Spelled
<1>1. Append(seen, c) \in Spelled
  BY AppendIs DEF Spelled
<1>2. seen # <<>> => Front(seen) \in Spelled
  BY DEF Spelled, Front
<1> QED
  BY <1>1, <1>2, Zenon DEF Down

\* There is one way to resolve a path.
LEMMA StepsUnique ==
  ASSUME NEW start, NEW path \in Spelled, NEW f, NEW g, Steps(f, start, path), Steps(g, start, path)
  PROVE  \A i \in 0..Len(path) : f[i] = g[i]
<1> DEFINE n == Len(path)
           A == {m \in 0..n : f[m] = g[m]}
<1>1. n \in Nat
  BY DEF Spelled
<1> HIDE DEF n
<1>2. 0 \in A
  BY <1>1 DEF Steps
<1>3. ASSUME NEW m \in A, m < n PROVE m + 1 \in A
  <2>1. m + 1 \in 1..n /\ m + 1 \in 0..n /\ (m + 1) - 1 = m
    BY <1>1, <1>3
  <2>2. f[m + 1] = Down(f[m], path[m + 1]) /\ g[m + 1] = Down(g[m], path[m + 1])
    BY <2>1 DEF Steps, n
  <2> QED
    BY <2>1, <2>2
<1>4. A = 0..n
  <2>1. A \in SUBSET (0..n)
    OBVIOUS
  <2> HIDE DEF A
  <2> QED
    BY <1>1, <1>2, <1>3, <2>1, CountingUp
<1> QED
  BY <1>4 DEF n

\* Lexical is where the steps from nothing lead.
LEMMA LexicalIs ==
  ASSUME NEW path \in Spelled, NEW end, Leads(<<>>, path, end)
  PROVE  Lexical(path) = end
<1> DEFINE n == Len(path)
           seen[i \in 0 .. n] == IF i = 0 THEN <<>> ELSE Down(seen[i - 1], path[i])
<1>1. PICK f : Steps(f, <<>>, path) /\ f[n] = end
  BY DEF Leads
<1>2. n \in Nat
  BY DEF Spelled
<1>3. Lexical(path) = seen[n]
  BY DEF Lexical
<1>4. ASSUME NEW g, g = [i \in 0..n |-> IF i = 0 THEN <<>> ELSE Down(g[i - 1], path[i])]
      PROVE  seen = [i \in 0..n |-> IF i = 0 THEN <<>> ELSE Down(seen[i - 1], path[i])]
  <2> HIDE DEF n
  <2> QED
    BY <1>4
<1> HIDE DEF seen
<1>5. f = [i \in 0..n |-> IF i = 0 THEN <<>> ELSE Down(f[i - 1], path[i])]
  <2> DEFINE h == [i \in 0..n |-> IF i = 0 THEN <<>> ELSE Down(f[i - 1], path[i])]
  <2>1. f \in [0..n -> Spelled] /\ f[0] = <<>> /\ \A i \in 1..n : f[i] = Down(f[i - 1], path[i])
    BY <1>1 DEF Steps
  <2> HIDE DEF n
  <2>2. \A i \in 0..n : f[i] = h[i]
    BY <1>2, <2>1
  <2> QED
    BY <2>1, <2>2
<1>6. seen = [i \in 0..n |-> IF i = 0 THEN <<>> ELSE Down(seen[i - 1], path[i])]
  BY <1>4, <1>5
<1>7. seen[0] = <<>> /\ \A i \in 1..n : seen[i] = Down(seen[i - 1], path[i])
  <2> HIDE DEF n
  <2> QED
    BY <1>2, <1>6
<1> DEFINE A == {m \in 0..n : seen[m] = f[m]}
<1>8. A = 0..n
  <2>1. f[0] = <<>> /\ \A i \in 1..n : f[i] = Down(f[i - 1], path[i])
    BY <1>1 DEF Steps
  <2> HIDE DEF n
  <2>2. A \in SUBSET (0..n) /\ 0 \in A
    BY <1>2, <1>7, <2>1
  <2>3. ASSUME NEW m \in A, m < n PROVE m + 1 \in A
    <3>1. m + 1 \in 1..n /\ m + 1 \in 0..n /\ (m + 1) - 1 = m
      BY <1>2, <2>3
    <3>2. seen[m] = f[m]
      BY <2>3
    <3> QED
      BY <1>7, <2>1, <3>1, <3>2
  <2> HIDE DEF A
  <2> QED
    BY <1>2, <2>2, <2>3, CountingUp
<1>9. seen[n] = f[n]
  <2> HIDE DEF n
  <2> QED
    BY <1>2, <1>8
<1> QED
  BY <1>1, <1>3, <1>9

\* Every path leads somewhere.
LEMMA PathsLead ==
  ASSUME NEW start \in Spelled, NEW path \in Spelled
  PROVE  \E end \in Spelled : Leads(start, path, end)
<1> DEFINE n == Len(path)
           Grows(f, m) == /\ f \in [0..m -> Spelled] /\ f[0] = start
                          /\ \A i \in 1..m : f[i] = Down(f[i - 1], path[i])
           A == {m \in 0..n : \E f : Grows(f, m)}
<1>1. n \in Nat /\ \A i \in 1..n : path[i] \in Components
  BY DEF Spelled
<1> HIDE DEF n
<1>2. 0 \in A
  <2>1. Grows([i \in 0..0 |-> start], 0)
    OBVIOUS
  <2> HIDE DEF Grows
  <2> QED
    BY <2>1, <1>1
<1>3. ASSUME NEW m \in A, m < n PROVE m + 1 \in A
  <2>1. PICK f : Grows(f, m)
    BY <1>3
  <2> DEFINE g == [i \in 0..(m + 1) |-> IF i <= m THEN f[i] ELSE Down(f[m], path[m + 1])]
  <2>2. m \in Nat /\ m + 1 \in 1..n /\ m + 1 \in 0..n
    BY <1>1, <1>3
  <2>3. \A i \in 0..m : f[i] \in Spelled
    BY <2>1
  <2>4. Down(f[m], path[m + 1]) \in Spelled
    <3>1. f[m] \in Spelled /\ path[m + 1] \in Components
      BY <2>2, <2>3, <1>1
    <3> QED
      BY <3>1, DownIsPath
  <2>5. g \in [0..(m + 1) -> Spelled]
    BY <2>2, <2>3, <2>4
  <2>6. g[0] = start
    BY <2>1, <2>2
  <2>7. ASSUME NEW i \in 1..(m + 1) PROVE g[i] = Down(g[i - 1], path[i])
    <3>1. CASE i <= m
      <4>1. g[i] = f[i] /\ g[i - 1] = f[i - 1] /\ i \in 1..m
        BY <2>2, <3>1
      <4> QED
        BY <2>1, <4>1
    <3>2. CASE i = m + 1
      <4>1. g[i] = Down(f[m], path[m + 1]) /\ g[i - 1] = f[m]
        BY <2>2, <3>2
      <4> QED
        BY <4>1, <3>2
    <3> QED
      BY <2>2, <3>1, <3>2
  <2>8. Grows(g, m + 1)
    BY <2>5, <2>6, <2>7
  <2> HIDE DEF Grows
  <2> QED
    BY <2>2, <2>8
<1>4. A = 0..n
  <2>1. A \in SUBSET (0..n)
    OBVIOUS
  <2> HIDE DEF A
  <2> QED
    BY <1>1, <1>2, <1>3, <2>1, CountingUp
<1>5. PICK f : Grows(f, n)
  <2>1. n \in A
    <3> HIDE DEF A
    <3> QED
      BY <1>1, <1>4
  <2> QED
    BY <2>1
<1>6. Steps(f, start, path) /\ f[n] \in Spelled
  BY <1>5, <1>1 DEF Steps, n
<1> QED
  BY <1>6 DEF Leads, n

\* A path with no dots in it is resolved to itself, wherever it is taken from.
Names == Seq(STRING \ {".", ".."})
LEMMA NamesLead ==
  ASSUME NEW start \in Spelled, NEW path \in Names
  PROVE  Leads(start, path, start \o path) /\ path \in Spelled
<1>1. path \in Spelled /\ \A i \in 1..Len(path) : path[i] \in Components /\ path[i] # "." /\ path[i] # ".."
  BY WiderSeq DEF Names, Spelled, Components
<1> DEFINE n == Len(path)
           f == [i \in 0..n |-> start \o SubSeq(path, 1, i)]
<1>2. n \in Nat
  BY <1>1 DEF Spelled
<1>3. ASSUME NEW i \in 0..n PROVE f[i] \in Spelled
  BY <1>1, <1>3 DEF Spelled
<1>4. f[0] = start
  BY <1>1, <1>2 DEF Spelled
<1>5. ASSUME NEW i \in 1..n PROVE f[i] = Down(f[i - 1], path[i])
  <2>1. Down(f[i - 1], path[i]) = Append(f[i - 1], path[i])
    BY <1>1, Zenon DEF Down
  <2>2. i \in 0..n /\ i - 1 \in 0..n
    BY <1>2
  <2>3. Append(start \o SubSeq(path, 1, i - 1), path[i]) = start \o SubSeq(path, 1, i)
    BY <1>1, AppendSlice DEF Spelled
  <2> QED
    BY <2>1, <2>2, <2>3
<1>6. f[n] = start \o path
  BY <1>1, <1>2 DEF Spelled
<1>7. Steps(f, start, path)
  BY <1>3, <1>4, <1>5 DEF Steps
<1> HIDE DEF f
<1> QED
  BY <1>1, <1>6, <1>7 DEF Leads

\* A dot leads nowhere.
LEMMA DotLeads ==
  ASSUME NEW start \in Spelled
  PROVE  Leads(start, <<".">>, start)
<1> DEFINE f == [i \in 0..1 |-> start]
<1>1. Down(start, ".") = start
  BY DEF Down
<1>2. Steps(f, start, <<".">>) /\ f[Len(<<".">>)] = start
  BY <1>1 DEF Steps
<1> QED
  BY <1>2 DEF Leads

\* As many double dots as a directory has names lead out of it.
LEMMA UpsLead ==
  ASSUME NEW directory \in Names
  PROVE  Leads(directory, Ups(directory), <<>>) /\ Ups(directory) \in Spelled
<1> DEFINE n == Len(directory)
           ups == Ups(directory)
           f == [i \in 0..n |-> SubSeq(directory, 1, n - i)]
<1>1. /\ directory \in Seq(Components) /\ n \in Nat /\ DOMAIN directory = 1..n
      /\ \A i \in 1..n : directory[i] # ".."
  BY WiderSeq DEF Names, Components
<1>2. ups \in Spelled /\ Len(ups) = n /\ \A i \in 1..n : ups[i] = ".."
  <2>1. ups = [i \in 1..n |-> ".."]
    BY <1>1 DEF Ups
  <2>2. ".." \in Components
    BY DEF Components
  <2> HIDE DEF ups
  <2>3. ups \in Seq(Components) /\ Len(ups) = n
    BY <1>1, <2>1, <2>2, SameEverywhere
  <2> QED
    BY <2>1, <2>3 DEF Spelled
<1>3. ASSUME NEW i \in 0..n PROVE SubSeq(directory, 1, n - i) \in Spelled
  BY <1>1 DEF Spelled
<1>4. f \in [0..n -> Spelled]
  BY <1>3
<1>5. f[0] = directory /\ f[n] = <<>>
  BY <1>1
<1>6. ASSUME NEW i \in 1..n PROVE f[i] = Down(f[i - 1], ups[i])
  <2> DEFINE before == SubSeq(directory, 1, n - (i - 1))
  <2>1. /\ before \in Seq(Components) /\ Len(before) = n - i + 1 /\ before # <<>>
        /\ before[n - i + 1] = directory[n - i + 1]
    <3>1. n - (i - 1) \in 1..n /\ n - (i - 1) = n - i + 1
      BY <1>1
    <3> DEFINE k == n - (i - 1)
    <3> HIDE DEF k
    <3>2. SubSeq(directory, 1, k) \in Seq(Components) /\ Len(SubSeq(directory, 1, k)) = k
          /\ SubSeq(directory, 1, k)[k] = directory[k]
      BY <1>1, <3>1 DEF k
    <3>3. before = SubSeq(directory, 1, k) /\ k = n - i + 1 /\ k \in 1..n
      BY <3>1 DEF k
    <3> HIDE DEF before
    <3>4. before \in Seq(Components) /\ Len(before) = k /\ before[k] = directory[k]
      BY <3>2, <3>3
    <3>5. before # <<>>
      <4>1. k # 0
        BY <1>1, <3>3
      <4> QED
        BY <3>4, <4>1
    <3> QED
      BY <3>3, <3>4, <3>5
  <2>2. Last(before) # ".."
    BY <1>1, <2>1 DEF Last
  <2>3. Front(before) = SubSeq(directory, 1, n - i)
    BY <1>1, <2>1 DEF Front
  <2>4. f[i - 1] = before /\ f[i] = SubSeq(directory, 1, n - i)
    BY <1>1
  <2>5. Down(before, "..") = Front(before)
    BY <2>1, <2>2 DEF Down
  <2> HIDE DEF before
  <2> QED
    BY <1>2, <2>3, <2>4, <2>5
<1>7. Steps(f, directory, ups) /\ f[Len(ups)] = <<>>
  BY <1>2, <1>4, <1>5, <1>6 DEF Steps
<1> HIDE DEF f
<1> QED
  BY <1>2, <1>7 DEF Leads

\* One path after another leads on.
LEMMA LeadsOn ==
  ASSUME NEW a, NEW b, NEW c, NEW p \in Spelled, NEW q \in Spelled, Leads(a, p, b), Leads(b, q, c)
  PROVE  Leads(a, p \o q, c) /\ p \o q \in Spelled
<1> DEFINE n == Len(p)
           m == Len(q)
<1>1. PICK f : Steps(f, a, p) /\ f[n] = b
  BY DEF Leads
<1>2. PICK g : Steps(g, b, q) /\ g[m] = c
  BY DEF Leads
<1> DEFINE h == [i \in 0..(n + m) |-> IF i <= n THEN f[i] ELSE g[i - n]]
<1>3. n \in Nat /\ m \in Nat /\ Len(p \o q) = n + m /\ p \o q \in Spelled
  BY DEF Spelled
<1>4. /\ \A i \in 1..n : (p \o q)[i] = p[i]
      /\ \A i \in (n + 1)..(n + m) : (p \o q)[i] = q[i - n]
  BY DEF Spelled
<1>5. /\ f \in [0..n -> Spelled] /\ f[0] = a /\ \A i \in 1..n : f[i] = Down(f[i - 1], p[i])
      /\ g \in [0..m -> Spelled] /\ g[0] = b /\ \A i \in 1..m : g[i] = Down(g[i - 1], q[i])
  BY <1>1, <1>2 DEF Steps
<1> HIDE DEF n, m
<1>6. h \in [0..(n + m) -> Spelled]
  <2> SUFFICES ASSUME NEW i \in 0..(n + m) PROVE (IF i <= n THEN f[i] ELSE g[i - n]) \in Spelled
    OBVIOUS
  <2>1. CASE i <= n
    BY <1>3, <1>5, <2>1
  <2>2. CASE ~(i <= n)
    <3>1. i - n \in 0..m
      BY <1>3, <2>2
    <3> QED
      BY <1>5, <2>2, <3>1
  <2> QED
    BY <2>1, <2>2
<1>7. h[0] = a /\ h[n + m] = c
  <2>1. h[0] = a
    BY <1>3, <1>5
  <2>2. CASE m = 0
    BY <1>1, <1>2, <1>3, <1>5, <2>2 DEF n, m
  <2>3. CASE m # 0
    <3>1. ~(n + m <= n) /\ (n + m) - n = m
      BY <1>3, <2>3
    <3> QED
      BY <1>2, <1>3, <2>1, <3>1 DEF m
  <2> QED
    BY <2>1, <2>2, <2>3
<1>8. ASSUME NEW i \in 1..(n + m) PROVE h[i] = Down(h[i - 1], (p \o q)[i])
  <2>1. CASE i <= n
    BY <1>3, <1>4, <1>5, <2>1
  <2>2. CASE i = n + 1
    <3>1. h[i] = g[1] /\ h[i - 1] = f[n] /\ 1 \in 1..m
      BY <1>3, <2>2
    <3>2. g[1] = Down(g[0], q[1])
      BY <1>5, <3>1
    <3>3. (p \o q)[i] = q[1] /\ f[n] = g[0]
      BY <1>1, <1>3, <1>4, <1>5, <2>2 DEF n
    <3> QED
      BY <3>1, <3>2, <3>3
  <2>3. CASE i > n + 1
    <3>1. h[i] = g[i - n] /\ h[i - 1] = g[(i - n) - 1] /\ i - n \in 1..m /\ i \in (n + 1)..(n + m)
      BY <1>3, <2>3
    <3> QED
      BY <1>4, <1>5, <3>1
  <2> QED
    BY <1>3, <2>1, <2>2, <2>3
<1>9. Steps(h, a, p \o q)
  BY <1>3, <1>6, <1>7, <1>8 DEF Steps
<1> HIDE DEF h
<1> QED
  BY <1>3, <1>7, <1>9 DEF Leads

----------------------------------------------------------------------------
\* A path of the file system is made of names, none of them standard input's.
LEMMA PathIs ==
  ASSUME NEW p \in Path
  PROVE  /\ p \in Names /\ p \in Spelled /\ <<>> \o p = p
         /\ \A i \in 1..Len(p) : p[i] # stdin[1]
<1> DEFINE S == STRING \ {".", "..", stdin[1]}
<1>1. p \in Seq(S) /\ S \subseteq STRING \ {".", ".."} /\ S \subseteq Components
  BY DEF Path, Components
<1>2. \A i \in 1..Len(p) : p[i] \in S
  BY <1>1
<1>3. \A x \in S : x # stdin[1]
  OBVIOUS
<1> HIDE DEF S
<1>4. p \in Names /\ p \in Spelled
  BY <1>1, WiderSeq DEF Names, Spelled
<1>5. <<>> \o p = p
  BY <1>1
<1> QED
  BY <1>2, <1>3, <1>4, <1>5

LEMMA EmptyIsSpelled == <<>> \in Spelled
  BY DEF Spelled

\* Every spelling of a file resolves to the file.
LEMMA SpellingsResolve ==
  ASSUME NEW cwd \in Path, NEW place \in Path, place # <<>>, NEW p \in Spellings(cwd, place)
  PROVE  Lexical(cwd \o p) = place /\ p # stdin
<1>1. /\ Leads(<<>>, cwd, cwd) /\ Leads(<<>>, place, place) /\ Leads(cwd, Ups(cwd), <<>>)
      /\ cwd \in Spelled /\ place \in Spelled /\ Ups(cwd) \in Spelled
  <2>1. /\ cwd \in Names /\ cwd \in Spelled /\ <<>> \o cwd = cwd
        /\ place \in Names /\ place \in Spelled /\ <<>> \o place = place
    BY PathIs
  <2>2. Leads(<<>>, cwd, <<>> \o cwd) /\ Leads(<<>>, place, <<>> \o place)
    BY <2>1, NamesLead, EmptyIsSpelled
  <2>3. Leads(cwd, Ups(cwd), <<>>) /\ Ups(cwd) \in Spelled
    BY <2>1, UpsLead
  <2> QED
    BY <2>1, <2>2, <2>3
<1>2. ASSUME NEW q \in Spelled, Leads(cwd, q, <<>>), p = q \o place
      PROVE  Lexical(cwd \o p) = place /\ p # stdin
  <2>1. Leads(cwd, q \o place, place) /\ q \o place \in Spelled
    BY <1>1, <1>2, LeadsOn
  <2>2. Leads(<<>>, cwd \o p, place) /\ cwd \o p \in Spelled
    BY <1>1, <1>2, <2>1, LeadsOn
  <2>3. Lexical(cwd \o p) = place
    BY <2>2, LexicalIs
  <2>4. p # stdin
    <3>1. /\ Len(p) = Len(q) + Len(place) /\ Len(place) \in Nat \ {0} /\ Len(q) \in Nat
          /\ p[Len(q) + Len(place)] = place[Len(place)]
      BY <1>1, <1>2 DEF Spelled
    <3>2. place[Len(place)] # stdin[1]
      BY <3>1, PathIs
    <3>3. p = stdin => Len(p) = 1
      BY DEF stdin
    <3> QED
      BY <3>1, <3>2, <3>3
  <2> QED
    BY <2>3, <2>4
<1>3. CASE p = Ups(cwd) \o place
  BY <1>1, <1>2, <1>3
<1>4. CASE p = <<".">> \o Ups(cwd) \o place
  <2>1. <<".">> \in Spelled
    BY DEF Spelled, Components
  <2>2. Leads(cwd, <<".">>, cwd)
    BY <1>1, DotLeads
  <2>3. Leads(cwd, <<".">> \o Ups(cwd), <<>>) /\ <<".">> \o Ups(cwd) \in Spelled
    BY <1>1, <2>1, <2>2, LeadsOn
  <2> QED
    BY <1>2, <1>4, <2>3
<1>5. CASE IsPrefix(cwd, place) /\ p = SubSeq(place, Len(cwd) + 1, Len(place))
  <2>1. cwd \o p = place
    <3>1. Len(cwd) \in Nat /\ Len(place) \in Nat /\ Len(cwd) <= Len(place)
      BY <1>1, <1>5 DEF IsPrefix, Spelled
    <3>2. \A i \in 1..Len(cwd) : cwd[i] = place[i]
      <4>1. SubSeq(cwd, 1, Len(cwd)) = SubSeq(place, 1, Len(cwd))
        BY <1>5 DEF IsPrefix
      <4>2. \A i \in 1..Len(cwd) : SubSeq(cwd, 1, Len(cwd))[i] = cwd[i] /\ SubSeq(place, 1, Len(cwd))[i] = place[i]
        BY <1>1, <3>1 DEF Spelled
      <4> QED
        BY <4>1, <4>2
    <3>3. p \in Spelled /\ Len(p) = Len(place) - Len(cwd) /\ \A i \in 1..Len(p) : p[i] = place[Len(cwd) + i]
      BY <1>1, <1>5, <3>1 DEF Spelled
    <3>4. cwd \o p \in Spelled /\ Len(cwd \o p) = Len(place)
      BY <1>1, <3>1, <3>3 DEF Spelled
    <3>5. \A i \in 1..Len(place) : (cwd \o p)[i] = place[i]
      BY <1>1, <3>1, <3>2, <3>3 DEF Spelled
    <3> QED
      BY <1>1, <3>4, <3>5, SeqEqual DEF Spelled
  <2>2. Lexical(cwd \o p) = place
    BY <1>1, <2>1, LexicalIs
  <2>3. p # stdin
    <3> SUFFICES ASSUME p = stdin PROVE FALSE
      OBVIOUS
    <3>1. Len(p) = 1 /\ p[1] = stdin[1]
      BY DEF stdin
    <3>2. Len(cwd) \in Nat /\ Len(place) \in Nat /\ Len(cwd) <= Len(place)
      BY <1>1, <1>5 DEF IsPrefix, Spelled
    <3>3. p[1] = place[Len(cwd) + 1] /\ Len(cwd) + 1 \in 1..Len(place)
      BY <1>1, <1>5, <3>1, <3>2 DEF Spelled
    <3> QED
      BY <3>1, <3>3, PathIs
  <2> QED
    BY <2>2, <2>3
<1> QED
  BY <1>3, <1>4, <1>5 DEF Spellings

\* What a run is resolved to, as far as the rules of a path ask.
LEMMA LoadIs ==
  ASSUME NEW here, NEW cwd, NEW flags, NEW forced, NEW r,
         r \in {Load(here, cwd, flags), [Load(here, cwd, flags) EXCEPT !.forced = forced]}
  PROVE  /\ r.config = WithFlags(Merged(LayersOf(here, cwd)), flags) /\ r.flags = flags
         /\ r.root = RootOf(here, cwd) /\ r.cwd = cwd
<1> DEFINE layers == LayersOf(here, cwd)
           merged == Merged(layers)
           loads == Loads(layers, merged)
           config == WithFlags(merged, flags)
           from == FlagsFrom(merged, flags)
           root == RootOf(here, cwd)
           origins == [key \in DOMAIN Defaults.policy |-> Origin(layers, key)]
           o == Load(here, cwd, flags)
<1>1. o = [loads |-> loads, config |-> config, flags |-> flags, forced |-> flags,
           from |-> from, root |-> root, cwd |-> cwd, origins |-> origins]
  BY Zenon DEF Load
<1> HIDE DEF loads, config, from, root, origins, o
<1>2. o.config = config /\ o.flags = flags /\ o.root = root /\ o.cwd = cwd
  BY <1>1
<1>3. /\ [o EXCEPT !.forced = forced].config = config /\ [o EXCEPT !.forced = forced].flags = flags
      /\ [o EXCEPT !.forced = forced].root = root /\ [o EXCEPT !.forced = forced].cwd = cwd
  BY <1>1
<1>4. r = o \/ r = [o EXCEPT !.forced = forced]
  BY DEF o
<1>5. r.config = config /\ r.flags = flags /\ r.root = root /\ r.cwd = cwd
  BY <1>2, <1>3, <1>4
<1> QED
  BY <1>5 DEF config, root

\* The rules of a path depend on the configuration, the root and the file.
LEMMA SameRules ==
  ASSUME NEW r, NEW o, r.config = o.config, r.flags = o.flags, r.root = o.root,
         NEW p, NEW q, p # stdin, q # stdin, Lexical(r.cwd \o p) = Lexical(o.cwd \o q), NEW found
  PROVE  ForPath(r, p, found) = ForPath(o, q, found) /\ (Configured(r, p) <=> Configured(o, q))
<1>1. RelativeToRoot(r, p) = RelativeToRoot(o, q)
  BY Zenon DEF RelativeToRoot
<1>2. \A key, otherwise : File(r, key, otherwise) = File(o, key, otherwise)
  BY Zenon DEF File
<1> QED
  BY <1>1, <1>2, Zenon DEF ForPath, Configured

\* A step of any run leaves the setups' paths what they are: RulesFollowTheFile
\* needs no more than that.
LEMMA RulesFollow ==
  ASSUME Typed
  PROVE  RulesFollowTheFile
<1> DEFINE here == setup.here
           flags == setup.flags
<1> SUFFICES ASSUME NEW cwd \in {<<>>} \union {Front(p) : p \in DOMAIN disk},
                    NEW r \in {Resolved("check")}, NEW o \in {Load(here, cwd, flags)},
                    NEW place \in DOMAIN disk, NEW found, Alike(setup.cwd, cwd),
                    NEW p \in Spellings(setup.cwd, place), NEW q \in Spellings(cwd, place)
             PROVE  ForPath(r, p, found) = ForPath(o, q, found) /\ (Configured(r, p) <=> Configured(o, q))
  BY DEF RulesFollowTheFile
<1> HIDE DEF here, flags
<1>1. setup.cwd \in Path /\ \A d \in DOMAIN disk : d \in Path /\ d # <<>>
  BY SetupIs DEF Typed
<1>2. cwd \in Path
  <2>1. CASE cwd = <<>>
    BY <2>1 DEF Path
  <2>2. CASE \E d \in DOMAIN disk : cwd = Front(d)
    <3>1. PICK d \in DOMAIN disk : cwd = Front(d)
      BY <2>2
    <3>2. d \in Path /\ d # <<>>
      BY <1>1
    <3> QED
      BY <3>1, <3>2 DEF Path, Front
  <2> QED
    BY <2>1, <2>2
<1>3. LayersOf(here, setup.cwd) = LayersOf(here, cwd) /\ RootOf(here, setup.cwd) = RootOf(here, cwd)
  BY DEF Alike, here
<1>4. /\ r.config = WithFlags(Merged(LayersOf(here, setup.cwd)), flags) /\ r.flags = flags
      /\ r.root = RootOf(here, setup.cwd) /\ r.cwd = setup.cwd
  <2>1. r = [Load(here, setup.cwd, flags) EXCEPT !.forced = flags]
    BY DEF Resolved, Reports, here, flags
  <2> QED
    BY <2>1, LoadIs
<1>5. /\ o.config = WithFlags(Merged(LayersOf(here, cwd)), flags) /\ o.flags = flags
      /\ o.root = RootOf(here, cwd) /\ o.cwd = cwd
  BY LoadIs
<1>6. Lexical(setup.cwd \o p) = place /\ p # stdin /\ Lexical(cwd \o q) = place /\ q # stdin
  BY <1>1, <1>2, SpellingsResolve
<1>7. /\ r.config = o.config /\ r.flags = o.flags /\ r.root = o.root
      /\ Lexical(r.cwd \o p) = Lexical(o.cwd \o q)
  BY <1>3, <1>4, <1>5, <1>6
<1> QED
  BY <1>6, <1>7, SameRules

\* The rules follow the file, however it is named and from wherever the command
\* runs (config.rs:434, docs/configuration.md).
THEOREM RulesFollowThePath == Spec => []RulesFollowTheFile
<1>1. Init => Inv
  BY InitInv
<1>2. Inv /\ [Next]_vars => Inv'
  BY NextInv
<1>3. Inv => RulesFollowTheFile
  BY RulesFollow DEF Inv
<1> QED
  BY <1>1, <1>2, <1>3, PTL DEF Spec

----------------------------------------------------------------------------
\* What is passed over, before the dedup.
Skips(looked, missing) == missing \union {l \in looked : l.kind = "passed"}

\* Of the skips of one path the weightiest stays.
LEMMA SkipStays ==
  ASSUME NEW looked, NEW missing, NEW s \in missing \union {l \in looked : l.kind = "passed"}
  PROVE  \E b \in Discovered(looked, missing).skipped : b.path = s.path
<1> DEFINE skips == missing \union {l \in looked : l.kind = "passed"}
           W(x) == (IF x.error THEN 2 ELSE 0) + (IF x.explicit THEN 1 ELSE 0)
           Best(b) == \A x \in skips : x.path = b.path => W(x) <= W(b)
           same == {x \in skips : x.path = s.path}
<1>1. Discovered(looked, missing).skipped = {b \in skips : Best(b)}
  BY DEF Discovered
<1>2. \A x : W(x) \in 0..3
  OBVIOUS
<1> HIDE DEF W
<1>3. s \in same
  OBVIOUS
<1>4. \E b \in same : \A x \in same : W(x) <= W(b)
  <2>1. CASE \E b \in same : W(b) = 3
    BY <1>2, <2>1
  <2>2. CASE (\A b \in same : W(b) # 3) /\ \E b \in same : W(b) = 2
    <3>1. PICK b \in same : W(b) = 2
      BY <2>2
    <3>2. \A x \in same : W(x) <= 2
      BY <1>2, <2>2
    <3> QED
      BY <3>1, <3>2
  <2>3. CASE (\A b \in same : W(b) # 3 /\ W(b) # 2) /\ \E b \in same : W(b) = 1
    <3>1. PICK b \in same : W(b) = 1
      BY <2>3
    <3>2. \A x \in same : W(x) <= 1
      BY <1>2, <2>3
    <3> QED
      BY <3>1, <3>2
  <2>4. CASE \A b \in same : W(b) # 3 /\ W(b) # 2 /\ W(b) # 1
    <3>1. \A x \in same : W(x) = 0
      BY <1>2, <2>4
    <3> QED
      BY <1>3, <3>1
  <2> QED
    BY <2>1, <2>2, <2>3, <2>4
<1>5. PICK b \in same : \A x \in same : W(x) <= W(b)
  BY <1>4
<1>6. b \in skips /\ b.path = s.path /\ Best(b)
  BY <1>5
<1> QED
  BY <1>1, <1>6

LEMMA SkipsStay ==
  ASSUME NEW looked, NEW missing
  PROVE  \A s \in Skips(looked, missing) : \E b \in Discovered(looked, missing).skipped : b.path = s.path
  BY SkipStays DEF Skips

\* No path is both found and passed over.
LEMMA FoundOrPassed ==
  ASSUME NEW r, NEW d, NEW targets, NEW named, NEW f \in FoundAt(r, d, targets, named),
         NEW s \in Missing(r, d, targets, named)
                   \union {l \in {LoadOne(r, d, c) : c \in Candidates(r, d, targets, named)} : l.kind = "passed"}
  PROVE  f.path # s.path
<1>1. IsFound(r, d, f.path, named)
  <2>1. PICK p : IsFound(r, d, p, named) /\ f = FoundIn(r, d, p)
    BY FoundAtIs
  <2>2. f.path = p
    BY <2>1, Kinds
  <2> QED
    BY <2>1, <2>2
<1>2. CASE s \in Missing(r, d, targets, named)
  <2>1. PICK t : ~IsOpened(r, d, t) /\ s = Passed(t, "unreadable", TRUE, named)
    <3>1. PICK t \in targets :
            s \in (IF \/ IsOpened(r, d, t)
                      \/ (/\ IsDirectory(d, Absolute(r, t))
                          /\ ~Walk(r, d, t, named \/ File(r, "hidden", FALSE)).failed)
                   THEN {} ELSE {Passed(t, "unreadable", TRUE, named)})
      BY <1>2, Zenon DEF Missing
    <3> QED
      BY <3>1, Zenon
  <2>2. s.path = t
    BY <2>1 DEF Passed
  <2>3. \A path : IsFound(r, d, path, named) => IsOpened(r, d, path)
    BY DEF IsFound, Opens, IsOpened
  <2> QED
    BY <1>1, <2>1, <2>2, <2>3
<1>3. CASE s \notin Missing(r, d, targets, named)
  <2>1. PICK c \in Candidates(r, d, targets, named) : s = LoadOne(r, d, c) /\ s.kind = "passed"
    BY <1>3
  <2> DEFINE q == ReportedPath(c.path)
  <2>2. c.scope = named
    BY CandidatesShape
  <2>3. ~IsFound(r, d, q, named)
    <3>1. IsFound(r, d, q, named) => s = FoundIn(r, d, q)
      BY <2>1, <2>2, LoadOneIs, Zenon
    <3> QED
      BY <3>1, <2>1, Kinds
  <2>4. ~Configured(r, q)
    <3>1. Configured(r, q) => s = Nothing
      BY <2>1, LoadOneIs, Zenon
    <3> QED
      BY <3>1, <2>1, Kinds
  <2>5. Refused(s, q, c.named)
    <3>1. ~GoesThrough(r, d, q)
      BY <2>1, LoadOneIs, Kinds
    <3> QED
      BY <2>1, <2>2, <2>3, <2>4, <3>1, LoadOneIs, Zenon
  <2>6. s.path = q
    BY <2>1, <2>5, Kinds
  <2> QED
    BY <1>1, <2>3, <2>6
<1> QED
  BY <1>2, <1>3

\* Where a path resolves to is a path.
LEMMA LexicalIsPath ==
  ASSUME NEW path \in Spelled
  PROVE  Lexical(path) \in Spelled
  BY PathsLead, LexicalIs, EmptyIsSpelled

\* What a walk adds to its directory is made of the names of the file, and is
\* in the path that is reported.
LEMMA RestIs ==
  ASSUME NEW base \in Spelled, NEW p \in Path, IsStrictPrefix(base, p)
  PROVE  LET rest == SubSeq(p, Len(base) + 1, Len(p))
         IN  rest \in Spelled /\ ToSet(rest) \subseteq ToSet(p) /\ "." \notin ToSet(rest)
<1> DEFINE n == Len(base)
           m == Len(p)
           rest == SubSeq(p, n + 1, m)
<1>1. p \in Spelled /\ p \in Names
  BY PathIs
<1>2. n \in Nat /\ m \in Nat /\ n <= m
  BY <1>1 DEF Spelled, IsStrictPrefix, IsPrefix
<1>3. rest \in Spelled /\ Len(rest) = m - n /\ \A i \in 1..(m - n) : rest[i] = p[n + i] /\ n + i \in 1..m
  BY <1>1, <1>2 DEF Spelled
<1>4. \A i \in 1..m : p[i] # "."
  BY <1>1, <1>2 DEF Names
<1>5. DOMAIN rest = 1..(m - n) /\ DOMAIN p = 1..m
  BY <1>1, <1>3 DEF Spelled
<1> HIDE DEF rest, n, m
<1>6. ToSet(rest) \subseteq ToSet(p) /\ "." \notin ToSet(rest)
  BY <1>3, <1>4, <1>5 DEF ToSet
<1> QED
  BY <1>3, <1>6 DEF rest, n, m

LEMMA ReportKeeps ==
  ASSUME NEW t \in Spelled, NEW rest \in Spelled, NEW c \in ToSet(rest), c # "."
  PROVE  c \in ToSet(ReportedPath(t \o rest))
<1> DEFINE n == Len(t)
           m == Len(rest)
           path == t \o rest
<1>1. n \in Nat /\ m \in Nat /\ path \in Spelled /\ Len(path) = n + m
  BY DEF Spelled
<1>2. PICK i \in 1..m : rest[i] = c
  BY DEF ToSet, Spelled
<1>3. path[n + i] = c /\ n + i \in 1..(n + m)
  BY <1>1, <1>2 DEF Spelled
<1> HIDE DEF n, m, path
<1>4. c \in ToSet(path)
  <2>1. DOMAIN path = 1..(n + m)
    BY <1>1 DEF Spelled
  <2> QED
    BY <1>3, <2>1 DEF ToSet
<1>5. CASE ~(Len(path) > 1 /\ path[1] = ".")
  BY <1>4, <1>5, Zenon DEF ReportedPath, path
<1>6. CASE Len(path) > 1 /\ path[1] = "."
  <2>1. ReportedPath(path) = Tail(path)
    BY <1>6, Zenon DEF ReportedPath
  <2>2. n + i # 1
    BY <1>3, <1>6
  <2> DEFINE k == (n + i) - 1
  <2>3. k \in 1..(n + m - 1) /\ k + 1 = n + i
    BY <1>1, <1>3, <2>2
  <2>4. DOMAIN Tail(path) = 1..(n + m - 1) /\ Tail(path)[k] = path[k + 1]
    BY <1>1, <1>6, <2>3 DEF Spelled
  <2> HIDE DEF k
  <2>5. c \in ToSet(Tail(path))
    BY <1>3, <2>3, <2>4 DEF ToSet
  <2> QED
    BY <2>1, <2>5 DEF path
<1> QED
  BY <1>5, <1>6

\* What a walk spells resolves to the file it met.
LEMMA WalkedPlace ==
  ASSUME NEW cwd \in Spelled, NEW t \in Spelled, NEW base \in Spelled, base = Lexical(cwd \o t),
         NEW p \in Path, IsStrictPrefix(base, p)
  PROVE  Lexical(cwd \o ReportedPath(t \o SubSeq(p, Len(base) + 1, Len(p)))) = p
<1> DEFINE rest == SubSeq(p, Len(base) + 1, Len(p))
           path == t \o rest
<1>1. p \in Names /\ p \in Spelled /\ Len(base) \in Nat /\ Len(p) \in Nat /\ Len(base) <= Len(p)
  BY PathIs DEF IsStrictPrefix, IsPrefix, Spelled
<1>2. rest \in Names /\ base \o rest = p
  <2>1. rest \in Names
    BY <1>1 DEF Names
  <2>2. \A i \in 1..Len(base) : base[i] = p[i]
    <3>1. SubSeq(base, 1, Len(base)) = SubSeq(p, 1, Len(base))
      BY DEF IsStrictPrefix, IsPrefix
    <3>2. \A i \in 1..Len(base) : SubSeq(base, 1, Len(base))[i] = base[i] /\ SubSeq(p, 1, Len(base))[i] = p[i]
      BY <1>1 DEF Spelled
    <3> QED
      BY <3>1, <3>2
  <2>3. rest \in Spelled /\ Len(rest) = Len(p) - Len(base) /\ \A i \in 1..Len(rest) : rest[i] = p[Len(base) + i]
    BY <1>1 DEF Spelled
  <2>4. base \o rest \in Spelled /\ Len(base \o rest) = Len(p)
    BY <1>1, <2>3 DEF Spelled
  <2>5. \A i \in 1..Len(p) : (base \o rest)[i] = p[i]
    BY <1>1, <2>2, <2>3 DEF Spelled
  <2> QED
    BY <1>1, <2>1, <2>4, <2>5, SeqEqual DEF Spelled
<1> HIDE DEF rest
<1>3. PICK here \in Spelled : Leads(<<>>, cwd, here)
  BY EmptyIsSpelled, PathsLead
<1>4. cwd \o t \in Spelled /\ rest \in Spelled /\ path \in Spelled
  BY <1>2, NamesLead DEF Spelled
<1>5. Leads(<<>>, cwd \o t, base)
  <2>1. PICK end \in Spelled : Leads(<<>>, cwd \o t, end)
    BY <1>4, EmptyIsSpelled, PathsLead
  <2> QED
    BY <1>4, <2>1, LexicalIs
<1>6. Leads(base, rest, p)
  BY <1>2, NamesLead
<1>7. Lexical(cwd \o path) = p
  <2>1. Leads(<<>>, (cwd \o t) \o rest, p) /\ (cwd \o t) \o rest \in Spelled
    BY <1>4, <1>5, <1>6, LeadsOn
  <2>2. (cwd \o t) \o rest = cwd \o path
    BY <1>4 DEF Spelled
  <2> QED
    BY <2>1, <2>2, LexicalIs
<1>8. CASE ~(Len(path) > 1 /\ path[1] = ".")
  BY <1>7, <1>8, Zenon DEF ReportedPath, rest
<1>9. CASE Len(path) > 1 /\ path[1] = "."
  <2>1. Tail(path) \in Spelled /\ path = <<".">> \o Tail(path) /\ <<".">> \in Spelled
    BY <1>4, <1>9 DEF Spelled, Components
  <2>2. PICK end \in Spelled : Leads(here, Tail(path), end)
    BY <2>1, PathsLead
  <2>3. Leads(here, <<".">>, here)
    BY DotLeads
  <2>4. Leads(here, path, end)
    BY <2>1, <2>2, <2>3, LeadsOn
  <2>5. Leads(<<>>, cwd \o path, end) /\ Leads(<<>>, cwd \o Tail(path), end)
        /\ cwd \o path \in Spelled /\ cwd \o Tail(path) \in Spelled
    BY <1>3, <1>4, <2>1, <2>2, <2>4, LeadsOn
  <2>6. Lexical(cwd \o Tail(path)) = p
    BY <1>7, <2>5, LexicalIs
  <2> QED
    BY <1>9, <2>6, Zenon DEF ReportedPath, rest
<1> QED
  BY <1>8, <1>9

\* A target is spelled.
LEMMA TargetIs ==
  ASSUME NEW s \in Setups, NEW t \in TargetsOf(s)
  PROVE  t \in Spelled
<1>1. s.targets \in Seq(Seq(STRING))
  BY SetupIs
<1>2. CASE t = dot
  BY <1>2 DEF dot, Spelled, Components
<1>3. CASE t \in ToSet(s.targets)
  <2>1. t \in Seq(STRING)
    BY <1>1, <1>3 DEF ToSet
  <2> QED
    BY <2>1, WiderSeq DEF Spelled, Components
<1> QED
  BY <1>2, <1>3 DEF TargetsOf

----------------------------------------------------------------------------
\* What coverage lists, as an operator of what it reads.
ListedOn(r, d, lists, target) ==
  LET base == Absolute(r, target)
      asked == {p \in DOMAIN d : /\ IsStrictPrefix(base, p)
                                 /\ d[p].link = "no"
                                 /\ ".git" \notin ToSet(p)
                                 /\ ~(d[p].ignored /\ File(r, "ignore", TRUE))
                                 /\ File(r, "follow", FALSE) \/ \A q \in Below(d, base) : ~IsStrictPrefix(q, p)}
      parts == <<{f.path : f \in lists.files}, {s.path : s \in lists.skipped}, lists.missed>>
  IN  \A p \in asked :
        LET path == ReportedPath(target \o SubSeq(p, Len(base) + 1, Len(p)))
        IN  Cardinality({k \in DOMAIN parts : path \in parts[k]}) = 1
AccountedBy(s, d, w) ==
  (w.op = "coverage" /\ w.clear) =>
    \A lists \in w.lists, t \in TargetsOf(s) :
      LET r == ResolvedOf(s, "coverage")
      IN  (IsDirectory(d, Absolute(r, t)) /\ ~IsOpened(r, d, t)) => ListedOn(r, d, lists, t)

LEMMA InvAccounts ==
  AccountedBy(setup, disk, done) <=> Accounted
<1>1. \A r, lists, t : Listed(r, lists, t) <=> ListedOn(r, disk, lists, t)
  BY Zenon DEF Listed, ListedOn
<1>2. Resolved("coverage") = ResolvedOf(setup, "coverage") /\ Targets = TargetsOf(setup)
  BY OfTheState
<1> QED
  BY <1>1, <1>2, Zenon DEF AccountedBy, Accounted

\* A file a walk meets is asked about, and answered, unless its name has a dot
\* that the walk passes by.
LEMMA MetByWalk ==
  ASSUME NEW r, NEW d, NEW targets, NEW named, NEW t \in targets, NEW p \in Below(d, Absolute(r, t)),
         ~IsOpened(r, d, t),
         NEW rest, rest = SubSeq(p, Len(Absolute(r, t)) + 1, Len(p)),
         ".git" \notin ToSet(rest), ~(File(r, "ignore", TRUE) /\ d[p].ignored), d[p].link = "no",
         File(r, "follow", FALSE) \/ \A q \in Below(d, Absolute(r, t)) : ~IsStrictPrefix(q, p)
  PROVE  /\ t \o rest \in Walk(r, d, t, TRUE).files
         /\ (named \/ File(r, "hidden", FALSE)) \/ ToSet(rest) \intersect Dotted = {} =>
              [path |-> t \o rest, scope |-> named, named |-> FALSE] \in Candidates(r, d, targets, named)
<1> DEFINE base == Absolute(r, t)
           Rest(q) == SubSeq(q, Len(base) + 1, Len(q))
           Seen(dotted) == {q \in Below(d, base) :
                 /\ ".git" \notin ToSet(Rest(q))
                 /\ ~(File(r, "ignore", TRUE) /\ d[q].ignored)
                 /\ dotted \/ ToSet(Rest(q)) \intersect Dotted = {}
                 /\ File(r, "follow", FALSE) \/ \A o \in Below(d, base) : ~IsStrictPrefix(o, q)}
<1>1. ASSUME NEW dotted, dotted \/ ToSet(rest) \intersect Dotted = {}
      PROVE  t \o rest \in Walk(r, d, t, dotted).files
  <2>1. Walk(r, d, t, dotted).files =
          {t \o Rest(q) : q \in {x \in Seen(dotted) :
             d[x].link = "no" \/ (d[x].link = "file" /\ File(r, "follow", FALSE))}}
    BY DEF Walk
  <2>2. p \in Seen(dotted)
    BY <1>1
  <2> HIDE DEF Seen
  <2> QED
    BY <2>1, <2>2
<1>2. t \o rest \in Walk(r, d, t, TRUE).files
  BY <1>1
<1>3. ASSUME (named \/ File(r, "hidden", FALSE)) \/ ToSet(rest) \intersect Dotted = {}
      PROVE  [path |-> t \o rest, scope |-> named, named |-> FALSE] \in Candidates(r, d, targets, named)
  <2> DEFINE files == Walk(r, d, t, named \/ File(r, "hidden", FALSE)).files
             One(x) == CASE IsOpened(r, d, x) -> {[path |-> x, scope |-> named, named |-> named]}
               [] ~IsOpened(r, d, x) /\ IsDirectory(d, Absolute(r, x)) ->
                    {[path |-> q, scope |-> named, named |-> FALSE] :
                       q \in Walk(r, d, x, named \/ File(r, "hidden", FALSE)).files}
               [] OTHER -> {}
  <2>1. t \o rest \in files
    BY <1>1, <1>3, Zenon
  <2>2. IsDirectory(d, base)
    BY DEF IsDirectory
  <2>3. One(t) = {[path |-> q, scope |-> named, named |-> FALSE] : q \in files}
    BY <2>2, Zenon
  <2> HIDE DEF files
  <2>4. [path |-> t \o rest, scope |-> named, named |-> FALSE] \in One(t)
    BY <2>1, <2>3, Zenon
  <2>5. Candidates(r, d, targets, named) = UNION {One(x) : x \in targets}
    BY Zenon DEF Candidates
  <2> HIDE DEF One
  <2> QED
    BY <2>4, <2>5
<1> QED
  BY <1>2, <1>3

\* What a run of coverage has looked at, and what it lists of that.
AnsweredBy(s, d, r, looked, missing) ==
  /\ looked = {LoadOne(r, d, c) : c \in Candidates(r, d, TargetsOf(s), Wide(s))}
  /\ missing = Missing(r, d, TargetsOf(s), Wide(s))
  /\ \A l \in looked : l.kind # "fatal"
ListedBy(s, d, r, all, lists) ==
  /\ lists.files = all.files /\ lists.skipped = all.skipped
  /\ lists.missed = NotWalked(r, d, TargetsOf(s), {f.path : f \in all.files} \union {x.path : x \in all.skipped})

\* The answers of a walk leave out no file below its directory: what is neither
\* found nor passed over is kept out of the walk for a reason that the second
\* walk asks about (files.rs:686).
LEMMA NothingLeftOut ==
  ASSUME NEW s \in Setups, NEW d, DOMAIN d \subseteq DOMAIN s.disk,
         NEW r, r.cwd = s.cwd, NEW t \in TargetsOf(s), IsDirectory(d, Absolute(r, t)), ~IsOpened(r, d, t),
         NEW looked, NEW missing, AnsweredBy(s, d, r, looked, missing),
         NEW lists, ListedBy(s, d, r, Discovered(looked, missing), lists)
  PROVE  ListedOn(r, d, lists, t)
<1> DEFINE targets == TargetsOf(s)
           named == Wide(s)
           all == Discovered(looked, missing)
           base == Absolute(r, t)
           found == {f.path : f \in lists.files}
           passed == {x.path : x \in lists.skipped}
           missed == lists.missed
           skips == Skips(looked, missing)
           parts == <<found, passed, missed>>
           Rest(p) == SubSeq(p, Len(base) + 1, Len(p))
           Reported(p) == ReportedPath(t \o Rest(p))
<1>1. /\ looked = {LoadOne(r, d, c) : c \in Candidates(r, d, targets, named)}
      /\ missing = Missing(r, d, targets, named)
      /\ \A l \in looked : l.kind # "fatal"
  BY DEF AnsweredBy
<1>2. lists.files = all.files /\ lists.skipped = all.skipped
  BY DEF ListedBy
<1>3. DOMAIN parts = {1, 2, 3} /\ parts[1] = found /\ parts[2] = passed /\ parts[3] = missed
  OBVIOUS
<1>4. missed = NotWalked(r, d, targets, found \union passed)
  BY <1>2 DEF ListedBy
<1> HIDE DEF missed, parts, named, all
<1> SUFFICES ASSUME NEW p \in DOMAIN d, IsStrictPrefix(base, p), d[p].link = "no", ".git" \notin ToSet(p),
                    ~(d[p].ignored /\ File(r, "ignore", TRUE)),
                    File(r, "follow", FALSE) \/ \A q \in Below(d, base) : ~IsStrictPrefix(q, p)
             PROVE  Cardinality({k \in DOMAIN parts : Reported(p) \in parts[k]}) = 1
  <2> HIDE DEF Reported
  <2> QED
    BY Zenon DEF ListedOn, parts, missed, Reported
<1> DEFINE rest == Rest(p)
           path == Reported(p)
<1>5. lists.files = FoundAt(r, d, targets, named) /\ lists.skipped \subseteq skips
  BY <1>1, <1>2 DEF Discovered, FoundAt, Skips, all
<1>6. \A x \in skips : \E b \in lists.skipped : b.path = x.path
  <2>1. \A x \in skips : \E b \in all.skipped : b.path = x.path
    BY SkipsStay, Zenon DEF all
  <2> QED
    BY <2>1, <1>2, Zenon
<1>7. base \in Spelled
  <2>1. t \in Spelled /\ r.cwd \in Spelled
    BY TargetIs, SetupIs, PathIs
  <2>2. r.cwd \o t \in Spelled
    BY <2>1 DEF Spelled
  <2> QED
    BY <2>2, LexicalIsPath DEF Absolute
<1>8. p \in Path
  BY SetupIs
<1>9. rest \in Spelled /\ ToSet(rest) \subseteq ToSet(p) /\ "." \notin ToSet(rest)
  BY <1>7, <1>8, RestIs
<1>10. /\ t \o rest \in Walk(r, d, t, TRUE).files
       /\ (named \/ File(r, "hidden", FALSE)) \/ ToSet(rest) \intersect Dotted = {} =>
            [path |-> t \o rest, scope |-> named, named |-> FALSE] \in Candidates(r, d, targets, named)
  <2>1. ".git" \notin ToSet(rest) /\ ~(File(r, "ignore", TRUE) /\ d[p].ignored)
    BY <1>9
  <2>2. p \in Below(d, Absolute(r, t))
    BY <1>8 DEF Below
  <2> HIDE DEF targets
  <2>3. t \in targets
    BY DEF targets
  <2> QED
    BY <2>1, <2>2, <2>3, MetByWalk
<1>11. path \in found \/ path \in passed \/ path \in missed
  <2> SUFFICES ASSUME path \notin found, path \notin passed PROVE path \in missed
    OBVIOUS
  <2>1. KeptOut(r, d, path)
    <3>1. CASE ~((named \/ File(r, "hidden", FALSE)) \/ ToSet(rest) \intersect Dotted = {})
      <4>1. PICK c \in ToSet(rest) : c \in Dotted
        BY <3>1
      <4>2. c # "."
        BY <1>9
      <4>3. c \in ToSet(path)
        BY <1>9, <4>2, TargetIs, ReportKeeps
      <4>4. ~File(r, "hidden", FALSE) /\ ToSet(path) \intersect (Dotted \union {".."}) # {}
        BY <3>1, <4>1, <4>3
      <4> QED
        BY <4>4, Zenon DEF KeptOut
    <3>2. CASE (named \/ File(r, "hidden", FALSE)) \/ ToSet(rest) \intersect Dotted = {}
      <4> DEFINE c == [path |-> t \o rest, scope |-> named, named |-> FALSE]
                 l == LoadOne(r, d, c)
      <4>1. c \in Candidates(r, d, targets, named) /\ l \in looked
        <5>1. c \in Candidates(r, d, targets, named)
          <6> HIDE DEF rest, targets
          <6> QED
            BY <3>2, <1>10, Zenon
        <5> HIDE DEF c, targets
        <5> QED
          BY <5>1, <1>1, Zenon
      <4>2. path = ReportedPath(c.path) /\ c.scope = named /\ c.named = FALSE
        OBVIOUS
      <4> HIDE DEF c
      <4>3. ~IsFound(r, d, path, named)
        <5>1. SUFFICES ASSUME IsFound(r, d, path, named) PROVE FALSE
          OBVIOUS
        <5>2. path \in Reach(r, d, targets, named)
          BY <4>1, <4>2 DEF Reach
        <5>3. FoundIn(r, d, path) \in FoundAt(r, d, targets, named)
          <6> HIDE DEF targets
          <6> QED
            BY <5>1, <5>2, FoundAtIs, Zenon
        <5>4. FoundIn(r, d, path) \in lists.files
          BY <5>3, <1>5
        <5>5. FoundIn(r, d, path).path = path
          BY DEF FoundIn, Found
        <5> QED
          BY <5>4, <5>5
      <4>4. ~Refused(l, path, c.named)
        <5>1. SUFFICES ASSUME Refused(l, path, c.named) PROVE FALSE
          OBVIOUS
        <5>2. l # [kind |-> "fatal"]
          BY <4>1, <1>1
        <5>3. PICK reason, error : l = Passed(path, reason, error, c.named)
          BY <5>1, <5>2, Zenon DEF Refused
        <5>4. l.kind = "passed" /\ l.path = path
          BY <5>3 DEF Passed
        <5>5. l \in skips
          BY <4>1, <5>4 DEF Skips
        <5>6. \E b \in lists.skipped : b.path = l.path
          <6> HIDE DEF l, skips
          <6> QED
            BY <5>5, <1>6, Zenon
        <5> QED
          BY <5>4, <5>6
      <4>5. Configured(r, path)
        <5>1. Absolute(r, path) = p
          BY <1>7, <1>8, TargetIs, SetupIs, PathIs, WalkedPlace DEF Absolute
        <5>2. ~GoesThrough(r, d, path)
          BY <5>1 DEF GoesThrough
        <5> QED
          BY <4>2, <4>3, <4>4, <5>2, LoadOneIs, Zenon
      <4> QED
        BY <4>5, Zenon DEF KeptOut
    <3> QED
      BY <3>1, <3>2
  <2> DEFINE reached == found \union passed
             One(x) == LET paths == {ReportedPath(q) : q \in Walk(r, d, x, TRUE).files}
                       IN  IF IsDirectory(d, Absolute(r, x)) THEN {q \in paths \ reached : KeptOut(r, d, q)} ELSE {}
  <2>2. path \in One(t)
    <3>1. path \in {ReportedPath(q) : q \in Walk(r, d, t, TRUE).files}
      <4>1. path = ReportedPath(t \o rest)
        OBVIOUS
      <4> HIDE DEF path, rest
      <4> QED
        BY <4>1, <1>10
    <3>2. path \notin reached
      OBVIOUS
    <3> HIDE DEF reached
    <3> QED
      BY <3>1, <3>2, <2>1, Zenon
  <2>3. missed = UNION {One(x) : x \in targets}
    BY <1>4, Zenon DEF NotWalked
  <2> HIDE DEF One
  <2> QED
    BY <2>2, <2>3
<1>12. ~(path \in found /\ path \in passed)
  <2>1. SUFFICES ASSUME NEW f \in lists.files, NEW x \in lists.skipped PROVE f.path # x.path
    OBVIOUS
  <2>2. f \in FoundAt(r, d, targets, named) /\ x \in skips
    BY <1>5
  <2> HIDE DEF targets
  <2>3. x \in Missing(r, d, targets, named)
              \union {l \in {LoadOne(r, d, c) : c \in Candidates(r, d, targets, named)} : l.kind = "passed"}
    BY <1>1, <2>2 DEF targets, Skips
  <2> QED
    BY <2>2, <2>3, FoundOrPassed
<1>13. path \in missed => path \notin found /\ path \notin passed
  <2> DEFINE reached == found \union passed
             One(x) == LET paths == {ReportedPath(q) : q \in Walk(r, d, x, TRUE).files}
                       IN  IF IsDirectory(d, Absolute(r, x)) THEN {q \in paths \ reached : KeptOut(r, d, q)} ELSE {}
  <2>1. missed = UNION {One(x) : x \in targets}
    BY <1>4, Zenon DEF NotWalked
  <2> HIDE DEF reached
  <2>2. \A x : One(x) \intersect reached = {}
    OBVIOUS
  <2> HIDE DEF One
  <2>3. missed \intersect reached = {}
    BY <2>1, <2>2
  <2> QED
    BY <2>3 DEF reached
<1> HIDE DEF found, passed, path
<1>14. \E k : {j \in DOMAIN parts : path \in parts[j]} = {k}
  <2>1. path \in found => {j \in DOMAIN parts : path \in parts[j]} = {1}
    BY <1>3, <1>12, <1>13
  <2>2. path \in passed => {j \in DOMAIN parts : path \in parts[j]} = {2}
    BY <1>3, <1>12, <1>13
  <2>3. path \in missed => {j \in DOMAIN parts : path \in parts[j]} = {3}
    BY <1>3, <1>12, <1>13
  <2> QED
    BY <2>1, <2>2, <2>3, <1>11
<1> QED
  BY <1>14, FS_Singleton DEF path

----------------------------------------------------------------------------
\* No candidate of a tree is standard input.
LEMMA AnswersOfATree ==
  ASSUME NEW s, NEW d, NEW r, NEW targets, NEW named
  PROVE  \A c \in Candidates(r, d, targets, named) : Answer(s, d, r, c) = LoadOne(r, d, c)
  BY CandidatesShape DEF Answer

\* The invariant that coverage needs: Inv, and a listing that is complete for as
\* long as nobody changed the tree.
AccInv == Inv /\ AccountedBy(setup, disk, done)

\* A listing is complete when it is made.
LEMMA CoverAccounts ==
  ASSUME Inv, Cover
  PROVE  AccountedBy(setup, disk, done')
<1> DEFINE r == ResolvedOf(setup, "coverage")
           reached == {f.path : f \in Looked.files} \union {x.path : x \in Looked.skipped}
           lists == [files |-> Looked.files, skipped |-> Looked.skipped,
                     missed |-> NotWalked(run.resolved, disk, Targets, reached)]
<1>0. run.op = "coverage" /\ run.pc = "look" /\ run.left = {} /\ setup \in Setups /\ DOMAIN disk \subseteq DOMAIN setup.disk
  BY DEF Cover, AllLooked, Inv, Typed
<1>1. CASE Fatal
  <2>1. Refuse
    BY <1>1 DEF Cover
  <2>2. done'.lists = {}
    BY <2>1 DEF Refuse, Finish
  <2> QED
    BY <2>2 DEF AccountedBy
<1>2. CASE ~Fatal
  <2>1. Report(DenyExitCode(Looked.skipped), FALSE, TRUE, {lists})
    BY <1>2, Zenon DEF Cover
  <2> HIDE DEF lists
  <2>2. done'.lists \in {{lists}, {}} /\ done'.clear = run.clear
    BY <2>1 DEF Report, Finish
  <2>3. SUFFICES ASSUME run.clear, NEW t \in TargetsOf(setup), IsDirectory(disk, Absolute(r, t)),
                        ~IsOpened(r, disk, t)
                 PROVE  ListedOn(r, disk, lists, t)
    BY <2>2 DEF AccountedBy
  <2> USE DEF lists
  <2>4. /\ run.resolved = r /\ ~HasDash(setup)
        /\ run.looked = {Answer(setup, disk, r, c) : c \in Everything(setup, disk, r) \ {}}
        /\ run.missing = Missing(r, disk, TargetsOf(setup), Wide(setup))
    BY <1>0, <2>3, Zenon DEF Inv, MetBy, Allowed
  <2>5. run.looked = {LoadOne(r, disk, c) : c \in Candidates(r, disk, TargetsOf(setup), Wide(setup))}
    <3>1. Everything(setup, disk, r) = Candidates(r, disk, TargetsOf(setup), Wide(setup))
      BY <2>4 DEF Everything
    <3>2. \A c \in Candidates(r, disk, TargetsOf(setup), Wide(setup)) : Answer(setup, disk, r, c) = LoadOne(r, disk, c)
      BY <2>4, AnswersOfATree
    <3> HIDE DEF r
    <3> QED
      BY <2>4, <3>1, <3>2
  <2>6. \A l \in run.looked : l.kind # "fatal"
    BY <1>2 DEF Fatal
  <2>7. r.cwd = setup.cwd
    BY LoadIs DEF ResolvedOf
  <2>8. Looked = Discovered(run.looked, run.missing) /\ Targets = TargetsOf(setup)
    BY OfTheState DEF Looked
  <2>9. /\ lists.files = Looked.files /\ lists.skipped = Looked.skipped
        /\ lists.missed = NotWalked(r, disk, TargetsOf(setup), reached)
    BY <2>4, <2>8
  <2>10. lists.missed = NotWalked(r, disk, TargetsOf(setup),
                          {f.path : f \in Looked.files} \union {x.path : x \in Looked.skipped})
    BY <2>9
  <2> HIDE DEF r, lists
  <2>11. AnsweredBy(setup, disk, r, run.looked, run.missing)
    BY <2>4, <2>5, <2>6, Zenon DEF AnsweredBy
  <2>12. ListedBy(setup, disk, r, Discovered(run.looked, run.missing), lists)
    BY <2>8, <2>9, <2>10, Zenon DEF ListedBy
  <2> QED
    BY <1>0, <2>3, <2>7, <2>11, <2>12, NothingLeftOut, Zenon
<1> QED
  BY <1>1, <1>2

\* A step of any other kind ends no run of coverage, and a listing is only
\* talked of while the tree is as it was.
LEMMA StepAccounts ==
  ASSUME AccInv, [Next]_vars
  PROVE  AccountedBy(setup', disk', done')
<1>0. Inv /\ AccountedBy(setup, disk, done) /\ Typed
  BY DEF AccInv, Inv
<1>1. ASSUME NEW op, Begin(op) PROVE AccountedBy(setup', disk', done')
  <2>1. done' = Never \/ done' = [Never EXCEPT !.op = op, !.code = 2, !.clear = TRUE]
    BY <1>1, Zenon DEF Begin
  <2>2. Never.lists = {} /\ [Never EXCEPT !.op = op, !.code = 2, !.clear = TRUE].lists = {}
    BY DEF Never
  <2>3. done'.lists = {}
    BY <2>1, <2>2
  <2> QED
    BY <2>3 DEF AccountedBy
<1>2. ASSUME NEW candidate, Look(candidate) PROVE AccountedBy(setup', disk', done')
  BY <1>0, <1>2 DEF Look
<1>3. CASE Judge
  <2>1. UNCHANGED <<setup, disk>> /\ run.op # "coverage"
    BY <1>3 DEF Judge, Reports, Rewriting
  <2>2. done' = done \/ Refuse \/ \E code, closed : Report(code, FALSE, closed, {})
    BY <1>3, Zenon DEF Judge, JudgeFiles
  <2>3. done' = done \/ done'.op = run.op
    BY <2>2 DEF Refuse, Report, Finish
  <2> QED
    BY <1>0, <2>1, <2>3 DEF AccountedBy
<1>4. CASE Apply
  <2>1. run.op # "coverage"
    BY <1>0, <1>4 DEF Apply, Inv, ReadyBy, Rewriting
  <2>2. \E code, failed, wrote, closed : Finish(code, failed, wrote, closed, {})
    <3>1. CASE RollBack
      BY <3>1, Zenon DEF RollBack, Refuse
    <3>2. CASE Break
      BY <3>2, Zenon DEF Break
    <3>3. CASE Install
      BY <3>3, Zenon DEF Install, Report
    <3> QED
      BY <1>4, <3>1, <3>2, <3>3, Zenon DEF Apply
  <2>3. done'.op = run.op
    BY <2>2 DEF Finish
  <2> QED
    BY <2>1, <2>3 DEF AccountedBy
<1>5. CASE Cover
  BY <1>0, <1>5, CoverAccounts DEF Cover
<1>6. CASE Ratchet
  <2>1. run.op # "coverage"
    BY <1>6 DEF Ratchet
  <2>2. Refuse \/ (\E code : Report(code, FALSE, TRUE, {})) \/ Finish(2, TRUE, FALSE, TRUE, {})
    BY <1>6, Zenon DEF Ratchet
  <2>3. done'.op = run.op
    BY <2>2 DEF Refuse, Report, Finish
  <2> QED
    BY <2>1, <2>3 DEF AccountedBy
<1>7. ASSUME NEW place, Edit(place) PROVE AccountedBy(setup', disk', done')
  <2>1. done'.clear = FALSE
    BY <1>0, <1>7 DEF Edit, Typed, IsDone
  <2> QED
    BY <2>1 DEF AccountedBy
<1>8. CASE UNCHANGED vars
  BY <1>0, <1>8 DEF vars
<1> QED
  BY <1>1, <1>2, <1>3, <1>4, <1>5, <1>6, <1>7, <1>8 DEF Next

\* Coverage leaves nothing out below a directory it walked, for every tree, with
\* links in it or not, and every argument (files.rs:686, coverage.rs:70).
THEOREM CoverageLeavesNothingOut == Spec => []Accounted
<1>1. Init => AccInv
  BY InitInv DEF AccInv, AccountedBy, Init, Never
<1>2. AccInv /\ [Next]_vars => AccInv'
  <2> SUFFICES ASSUME AccInv, [Next]_vars PROVE AccInv'
    OBVIOUS
  <2>1. Inv'
    BY NextInv DEF AccInv
  <2>2. AccountedBy(setup', disk', done')
    BY StepAccounts
  <2> QED
    BY <2>1, <2>2 DEF AccInv
<1>3. AccInv => Accounted
  BY InvAccounts DEF AccInv
<1> QED
  BY <1>1, <1>2, <1>3, PTL DEF Spec

----------------------------------------------------------------------------
\* Sections are gone over one by one: the steps of each computation, under one name,
\* so that what is shown of going over a sequence is shown once.
Going(what, key, seen, x) ==
  CASE what = "merge" -> Merge(seen, x.text)
    [] what = "switch" -> Switch(seen, At(x, "language", none))
    [] what = "last" -> At(x.set, key, seen)
    [] what = "unique" -> IF Contains(seen, x) THEN seen ELSE Append(seen, x)
    [] what = "extend" -> ExtendUnique(seen, At(x.set, key, <<>>))
    [] what = "credit" -> Credit(seen, key, x)
    [] what = "attribute" -> CreditAll(seen, x.source, At(x.set, key, <<>>))
    [] what = "name" -> IF key \in DOMAIN x.set THEN x.source ELSE seen
GoneOver(what, key, start, xs, n, f) ==
  f = [i \in 0..n |-> IF i = 0 THEN start ELSE Going(what, key, f[i - 1], xs[i])]

LEMMA GoingOver ==
  ASSUME NEW what, NEW key, NEW start, NEW xs, NEW n \in Nat
  PROVE  \E f : GoneOver(what, key, start, xs, n, f)
<1> DEFINE A == {m \in 0..n : \E f : GoneOver(what, key, start, xs, m, f)}
<1>1. 0 \in A
  <2> DEFINE f == [i \in 0..0 |-> start]
             g == [i \in 0..0 |-> IF i = 0 THEN start ELSE Going(what, key, f[i - 1], xs[i])]
  <2>1. \A i \in 0..0 : f[i] = g[i]
    OBVIOUS
  <2>2. f = g
    BY <2>1
  <2>3. GoneOver(what, key, start, xs, 0, f)
    BY <2>2, Zenon DEF GoneOver
  <2> QED
    BY <2>3
<1>2. ASSUME NEW m \in A, m < n PROVE m + 1 \in A
  <2>1. PICK f : GoneOver(what, key, start, xs, m, f)
    OBVIOUS
  <2> DEFINE g == [i \in 0..m + 1 |-> IF i <= m THEN f[i] ELSE Going(what, key, f[m], xs[m + 1])]
             h == [i \in 0..m + 1 |-> IF i = 0 THEN start ELSE Going(what, key, g[i - 1], xs[i])]
  <2>2. /\ f[0] = start
        /\ \A i \in 1..m : f[i] = Going(what, key, f[i - 1], xs[i])
    BY <2>1 DEF GoneOver
  <2>3. \A i \in 0..m + 1 : g[i] = h[i]
    <3> SUFFICES ASSUME NEW i \in 0..m + 1 PROVE g[i] = h[i]
      OBVIOUS
    <3>0. m \in Nat
      BY <1>2
    <3> HIDE DEF A
    <3>1. CASE i = 0
      BY <2>2, <3>0, <3>1
    <3>2. CASE i \in 1..m
      <4>1. i - 1 \in 0..m + 1 /\ i - 1 <= m /\ i <= m /\ i # 0
        BY <3>0, <3>2
      <4>2. g[i] = f[i] /\ g[i - 1] = f[i - 1] /\ h[i] = Going(what, key, g[i - 1], xs[i])
        BY <4>1
      <4> QED
        BY <2>2, <3>2, <4>2
    <3>3. CASE i = m + 1
      <4>1. m \in 0..m + 1 /\ i - 1 = m /\ ~(i <= m) /\ i # 0
        BY <3>0, <3>3
      <4>2. g[i] = Going(what, key, f[m], xs[i]) /\ g[m] = f[m] /\ h[i] = Going(what, key, g[m], xs[i])
        BY <3>0, <3>3, <4>1
      <4> QED
        BY <4>2
    <3> QED
      BY <3>0, <3>1, <3>2, <3>3
  <2>4. g = h
    BY <2>3
  <2>5. GoneOver(what, key, start, xs, m + 1, g)
    BY <2>4, Zenon DEF GoneOver
  <2> QED
    BY <1>2, <2>5
<1>3. A \in SUBSET (0..n)
  OBVIOUS
<1>4. A = 0..n
  <2> HIDE DEF A
  <2> QED
    BY <1>1, <1>2, <1>3, CountingUp
<1> QED
  BY <1>4

\* What each computation comes to, told by its steps.
Stepwise(what, key, start, xs, f) ==
  /\ f[0] = start
  /\ \A i \in 1..Len(xs) : f[i] = Going(what, key, f[i - 1], xs[i])

LEMMA Unrolled ==
  ASSUME NEW what, NEW key, NEW start, NEW xs, Len(xs) \in Nat, NEW f, GoneOver(what, key, start, xs, Len(xs), f)
  PROVE  Stepwise(what, key, start, xs, f)
<1> DEFINE n == Len(xs)
<1> HIDE DEF n
<1>1. f[0] = start /\ \A i \in 1..n : f[i] = Going(what, key, f[i - 1], xs[i])
  BY DEF GoneOver, n
<1> QED
  BY <1>1 DEF Stepwise, n

\* What the files merge to, what is said last, how a list grows, which source an
\* entry is credited to and which section is named, told by the steps.
LEMMA MergedIs ==
  ASSUME NEW layers, Len(layers) \in Nat
  PROVE  \E f : /\ Stepwise("merge", none, Defaults, layers, f)
                /\ Merged(layers) = f[Len(layers)]
<1> DEFINE n == Len(layers)
           Step(s, i) == Merge(s, layers[i].text)
           merged[i \in 0 .. n] == IF i = 0 THEN Defaults ELSE Step(merged[i - 1], i)
<1>1. \A s, i : Going("merge", none, s, layers[i]) = Step(s, i)
  BY DEF Going
<1>2. PICK f : GoneOver("merge", none, Defaults, layers, n, f)
  BY GoingOver
<1>3. Merged(layers) = merged[n]
  BY DEF Merged
<1>4. ASSUME NEW g, g = [i \in 0..n |-> IF i = 0 THEN Defaults ELSE Step(g[i - 1], i)]
      PROVE  merged = [i \in 0..n |-> IF i = 0 THEN Defaults ELSE Step(merged[i - 1], i)]
  <2> HIDE DEF n
  <2> QED
    BY <1>4
<1> HIDE DEF merged, Step
<1>5. f = [i \in 0..n |-> IF i = 0 THEN Defaults ELSE Step(f[i - 1], i)]
  BY <1>1, <1>2 DEF GoneOver
<1>6. merged = [i \in 0..n |-> IF i = 0 THEN Defaults ELSE Step(merged[i - 1], i)]
  BY <1>4, <1>5
<1>7. GoneOver("merge", none, Defaults, layers, n, merged)
  BY <1>1, <1>6 DEF GoneOver
<1> QED
  BY <1>3, <1>7, Unrolled

LEMMA LastOfIs ==
  ASSUME NEW sections, NEW key, NEW otherwise, Len(sections) \in Nat
  PROVE  \E f : /\ Stepwise("last", key, otherwise, sections, f)
                /\ LastOf(sections, key, otherwise) = f[Len(sections)]
<1> DEFINE n == Len(sections)
           Step(s, i) == At(sections[i].set, key, s)
           last[i \in 0 .. n] == IF i = 0 THEN otherwise ELSE Step(last[i - 1], i)
<1>1. \A s, i : Going("last", key, s, sections[i]) = Step(s, i)
  BY DEF Going
<1>2. PICK f : GoneOver("last", key, otherwise, sections, n, f)
  BY GoingOver
<1>3. LastOf(sections, key, otherwise) = last[n]
  BY DEF LastOf
<1>4. ASSUME NEW g, g = [i \in 0..n |-> IF i = 0 THEN otherwise ELSE Step(g[i - 1], i)]
      PROVE  last = [i \in 0..n |-> IF i = 0 THEN otherwise ELSE Step(last[i - 1], i)]
  <2> HIDE DEF n
  <2> QED
    BY <1>4
<1> HIDE DEF last, Step
<1>5. f = [i \in 0..n |-> IF i = 0 THEN otherwise ELSE Step(f[i - 1], i)]
  BY <1>1, <1>2 DEF GoneOver
<1>6. last = [i \in 0..n |-> IF i = 0 THEN otherwise ELSE Step(last[i - 1], i)]
  BY <1>4, <1>5
<1>7. GoneOver("last", key, otherwise, sections, n, last)
  BY <1>1, <1>6 DEF GoneOver
<1> QED
  BY <1>3, <1>7, Unrolled

LEMMA ExtendUniqueIs ==
  ASSUME NEW list, NEW more, Len(more) \in Nat
  PROVE  \E f : /\ Stepwise("unique", none, list, more, f)
                /\ ExtendUnique(list, more) = f[Len(more)]
<1> DEFINE n == Len(more)
           seen[i \in 0 .. n] == CASE i = 0 -> list
     [] i # 0 /\ Contains(seen[i - 1], more[i]) -> seen[i - 1]
     [] OTHER -> Append(seen[i - 1], more[i])
<1>1. \A s, x : Going("unique", none, s, x) = IF Contains(s, x) THEN s ELSE Append(s, x)
  BY DEF Going
<1>2. PICK f : GoneOver("unique", none, list, more, n, f)
  BY GoingOver
<1>3. ExtendUnique(list, more) = seen[n]
  BY DEF ExtendUnique
<1>4. ASSUME NEW g, g = [i \in 0..n |-> CASE i = 0 -> list
     [] i # 0 /\ Contains(g[i - 1], more[i]) -> g[i - 1]
     [] OTHER -> Append(g[i - 1], more[i])]
      PROVE  seen = [i \in 0..n |-> CASE i = 0 -> list
     [] i # 0 /\ Contains(seen[i - 1], more[i]) -> seen[i - 1]
     [] OTHER -> Append(seen[i - 1], more[i])]
  <2> HIDE DEF n
  <2> QED
    BY <1>4
<1> HIDE DEF seen
<1>5. f = [i \in 0..n |-> CASE i = 0 -> list
     [] i # 0 /\ Contains(f[i - 1], more[i]) -> f[i - 1]
     [] OTHER -> Append(f[i - 1], more[i])]
  BY <1>1, <1>2 DEF GoneOver
<1>6. seen = [i \in 0..n |-> CASE i = 0 -> list
     [] i # 0 /\ Contains(seen[i - 1], more[i]) -> seen[i - 1]
     [] OTHER -> Append(seen[i - 1], more[i])]
  BY <1>4, <1>5
<1>7. GoneOver("unique", none, list, more, n, seen)
  BY <1>1, <1>6 DEF GoneOver
<1> QED
  BY <1>3, <1>7, Unrolled

LEMMA ExtendedIs ==
  ASSUME NEW sections, NEW key, NEW list, Len(sections) \in Nat
  PROVE  \E f : /\ Stepwise("extend", key, list, sections, f)
                /\ Extended(sections, key, list) = f[Len(sections)]
<1> DEFINE n == Len(sections)
           Step(s, i) == ExtendUnique(s, At(sections[i].set, key, <<>>))
           extended[i \in 0 .. n] == IF i = 0 THEN list ELSE Step(extended[i - 1], i)
<1>1. \A s, i : Going("extend", key, s, sections[i]) = Step(s, i)
  BY DEF Going
<1>2. PICK f : GoneOver("extend", key, list, sections, n, f)
  BY GoingOver
<1>3. Extended(sections, key, list) = extended[n]
  BY DEF Extended
<1>4. ASSUME NEW g, g = [i \in 0..n |-> IF i = 0 THEN list ELSE Step(g[i - 1], i)]
      PROVE  extended = [i \in 0..n |-> IF i = 0 THEN list ELSE Step(extended[i - 1], i)]
  <2> HIDE DEF n
  <2> QED
    BY <1>4
<1> HIDE DEF extended, Step
<1>5. f = [i \in 0..n |-> IF i = 0 THEN list ELSE Step(f[i - 1], i)]
  BY <1>1, <1>2 DEF GoneOver
<1>6. extended = [i \in 0..n |-> IF i = 0 THEN list ELSE Step(extended[i - 1], i)]
  BY <1>4, <1>5
<1>7. GoneOver("extend", key, list, sections, n, extended)
  BY <1>1, <1>6 DEF GoneOver
<1> QED
  BY <1>3, <1>7, Unrolled

LEMMA CreditAllIs ==
  ASSUME NEW state, NEW source, NEW values, Len(values) \in Nat
  PROVE  \E f : /\ Stepwise("credit", source, state, values, f)
                /\ CreditAll(state, source, values) = f[Len(values)]
<1> DEFINE n == Len(values)
           Step(s, i) == Credit(s, source, values[i])
           credited[i \in 0 .. n] == IF i = 0 THEN state ELSE Step(credited[i - 1], i)
<1>1. \A s, i : Going("credit", source, s, values[i]) = Step(s, i)
  BY DEF Going
<1>2. PICK f : GoneOver("credit", source, state, values, n, f)
  BY GoingOver
<1>3. CreditAll(state, source, values) = credited[n]
  BY DEF CreditAll
<1>4. ASSUME NEW g, g = [i \in 0..n |-> IF i = 0 THEN state ELSE Step(g[i - 1], i)]
      PROVE  credited = [i \in 0..n |-> IF i = 0 THEN state ELSE Step(credited[i - 1], i)]
  <2> HIDE DEF n
  <2> QED
    BY <1>4
<1> HIDE DEF credited, Step
<1>5. f = [i \in 0..n |-> IF i = 0 THEN state ELSE Step(f[i - 1], i)]
  BY <1>1, <1>2 DEF GoneOver
<1>6. credited = [i \in 0..n |-> IF i = 0 THEN state ELSE Step(credited[i - 1], i)]
  BY <1>4, <1>5
<1>7. GoneOver("credit", source, state, values, n, credited)
  BY <1>1, <1>6 DEF GoneOver
<1> QED
  BY <1>3, <1>7, Unrolled

LEMMA AttributeIs ==
  ASSUME NEW r, NEW sections, NEW key, Len(sections) \in Nat
  PROVE  \E f : /\ Stepwise("attribute", key, Start(r, key), sections, f)
                /\ Attribute(r, sections, key) = f[Len(sections)].sources
<1> DEFINE n == Len(sections)
           Step(s, i) == CreditAll(s, sections[i].source, At(sections[i].set, key, <<>>))
           attributed[i \in 0 .. n] == IF i = 0 THEN Start(r, key) ELSE Step(attributed[i - 1], i)
<1>1. \A s, i : Going("attribute", key, s, sections[i]) = Step(s, i)
  BY DEF Going
<1>2. PICK f : GoneOver("attribute", key, Start(r, key), sections, n, f)
  BY GoingOver
<1>3. Attribute(r, sections, key) = attributed[n].sources
  BY DEF Attribute
<1>4. ASSUME NEW g, g = [i \in 0..n |-> IF i = 0 THEN Start(r, key) ELSE Step(g[i - 1], i)]
      PROVE  attributed = [i \in 0..n |-> IF i = 0 THEN Start(r, key) ELSE Step(attributed[i - 1], i)]
  <2> HIDE DEF n
  <2> QED
    BY <1>4
<1> HIDE DEF attributed, Step
<1>5. f = [i \in 0..n |-> IF i = 0 THEN Start(r, key) ELSE Step(f[i - 1], i)]
  BY <1>1, <1>2 DEF GoneOver
<1>6. attributed = [i \in 0..n |-> IF i = 0 THEN Start(r, key) ELSE Step(attributed[i - 1], i)]
  BY <1>4, <1>5
<1>7. GoneOver("attribute", key, Start(r, key), sections, n, attributed)
  BY <1>1, <1>6 DEF GoneOver
<1> QED
  BY <1>3, <1>7, Unrolled

LEMMA NamingIs ==
  ASSUME NEW sections, NEW key, Len(sections) \in Nat
  PROVE  \E f : /\ Stepwise("name", key, <<"global">>, sections, f)
                /\ Naming(sections, key) = f[Len(sections)]
<1> DEFINE n == Len(sections)
           naming[i \in 0 .. n] == CASE i = 0 -> <<"global">>
     [] i # 0 /\ key \in DOMAIN sections[i].set -> sections[i].source
     [] OTHER -> naming[i - 1]
<1>1. \A s, x : Going("name", key, s, x) = IF key \in DOMAIN x.set THEN x.source ELSE s
  BY DEF Going
<1>2. PICK f : GoneOver("name", key, <<"global">>, sections, n, f)
  BY GoingOver
<1>3. Naming(sections, key) = naming[n]
  BY DEF Naming
<1>4. ASSUME NEW g, g = [i \in 0..n |-> CASE i = 0 -> <<"global">>
     [] i # 0 /\ key \in DOMAIN sections[i].set -> sections[i].source
     [] OTHER -> g[i - 1]]
      PROVE  naming = [i \in 0..n |-> CASE i = 0 -> <<"global">>
     [] i # 0 /\ key \in DOMAIN sections[i].set -> sections[i].source
     [] OTHER -> naming[i - 1]]
  <2> HIDE DEF n
  <2> QED
    BY <1>4
<1> HIDE DEF naming
<1>5. f = [i \in 0..n |-> CASE i = 0 -> <<"global">>
     [] i # 0 /\ key \in DOMAIN sections[i].set -> sections[i].source
     [] OTHER -> f[i - 1]]
  BY <1>1, <1>2 DEF GoneOver
<1>6. naming = [i \in 0..n |-> CASE i = 0 -> <<"global">>
     [] i # 0 /\ key \in DOMAIN sections[i].set -> sections[i].source
     [] OTHER -> naming[i - 1]]
  BY <1>4, <1>5
<1>7. GoneOver("name", key, <<"global">>, sections, n, naming)
  BY <1>1, <1>6 DEF GoneOver
<1> QED
  BY <1>3, <1>7, Unrolled

LEMMA IsSequence ==
  ASSUME NEW T, NEW n \in Nat, NEW f \in [1..n -> T]
  PROVE  f \in Seq(T) /\ Len(f) = n /\ DOMAIN f = 1..n
  OBVIOUS

LEMMA MatchesIs ==
  ASSUME NEW X, NEW config, config.overrides \in Seq(X), NEW relative
  PROVE  LET said == Matches(config, relative)
         IN  /\ DOMAIN said = 1..Len(config.overrides) /\ Len(said) = Len(config.overrides) /\ Len(said) \in Nat
             /\ \A i \in DOMAIN said : said[i] \in {config.overrides[i].set, noTable}
<1> DEFINE n == Len(config.overrides)
           one(i) == IF relative \in config.overrides[i].paths THEN config.overrides[i].set ELSE noTable
           said == [i \in 1..n |-> one(i)]
<1>1. n \in Nat /\ DOMAIN config.overrides = 1..n
  OBVIOUS
<1>2. Matches(config, relative) = said
  BY <1>1 DEF Matches
<1>3. \A i \in 1..n : one(i) \in {config.overrides[i].set, noTable}
  OBVIOUS
<1> HIDE DEF n, one
<1>4. Len(said) = n /\ DOMAIN said = 1..n
  <2>1. said \in [1..n -> {one(i) : i \in 1..n}]
    OBVIOUS
  <2> HIDE DEF said
  <2> QED
    BY <1>1, <2>1, IsSequence
<1>5. \A i \in 1..n : said[i] = one(i)
  OBVIOUS
<1> HIDE DEF said
<1>6. \A i \in DOMAIN said : said[i] \in {config.overrides[i].set, noTable}
  BY <1>3, <1>4, <1>5
<1> QED
  BY <1>1, <1>2, <1>4, <1>6 DEF n

LEMMA LanguageIs ==
  ASSUME NEW X, NEW config, config.overrides \in Seq(X), NEW flags, NEW relative, NEW found
  PROVE  \E f : /\ Stepwise("switch", "none", found, Matches(config, relative), f)
                /\ Language(config, flags, relative, found)
                     = Switch(f[Len(Matches(config, relative))], At(flags, "language", none))
<1> DEFINE said == Matches(config, relative)
           n == Len(said)
           was[i \in 0 .. n] == IF i = 0 THEN found ELSE Switch(was[i - 1], At(said[i], "language", none))
<1>1. \A s, x : Going("switch", "none", s, x) = Switch(s, At(x, "language", none))
  BY DEF Going
<1>2. n \in Nat
  BY MatchesIs
<1>3. PICK f : GoneOver("switch", "none", found, said, n, f)
  BY <1>2, GoingOver
<1>4. Language(config, flags, relative, found) = Switch(was[n], At(flags, "language", none))
  BY DEF Language
<1>5. ASSUME NEW g, g = [i \in 0..n |-> IF i = 0 THEN found ELSE Switch(g[i - 1], At(said[i], "language", none))]
      PROVE  was = [i \in 0..n |-> IF i = 0 THEN found ELSE Switch(was[i - 1], At(said[i], "language", none))]
  <2> HIDE DEF n, said
  <2> QED
    BY <1>5
<1> HIDE DEF was, said
<1>6. f = [i \in 0..n |-> IF i = 0 THEN found ELSE Switch(f[i - 1], At(said[i], "language", none))]
  BY <1>1, <1>3 DEF GoneOver
<1>7. was = [i \in 0..n |-> IF i = 0 THEN found ELSE Switch(was[i - 1], At(said[i], "language", none))]
  BY <1>5, <1>6
<1>8. GoneOver("switch", "none", found, said, n, was)
  BY <1>1, <1>7 DEF GoneOver
<1>9. Stepwise("switch", "none", found, said, was)
  BY <1>2, <1>8, Unrolled
<1> QED
  BY <1>4, <1>9 DEF said

\* A run from found ended in a language, another starts there: before anything
\* switches the second it is where it started, and then the two are together.
Beside(found, again, a, b) ==
  \/ b = again /\ (a = found \/ a.language = again.language)
  \/ /\ a.language = b.language /\ b.dialect = standard
     /\ a.dialect = standard \/ (a = found /\ found.language # again.language)

LEMMA SwitchBeside ==
  ASSUME NEW found, NEW again, NEW a, NEW b, Beside(found, again, a, b), NEW x
  PROVE  Beside(found, again, Switch(a, x), Switch(b, x))
<1>1. CASE x = none
  BY <1>1 DEF Switch
<1>2. CASE x # none
  <2> DEFINE new == [language |-> x, dialect |-> standard]
  <2>1. new.language = x /\ new.dialect = standard
    OBVIOUS
  <2>2. /\ Switch(a, x) = IF x = a.language THEN a ELSE new
        /\ Switch(b, x) = IF x = b.language THEN b ELSE new
    BY <1>2 DEF Switch
  <2> HIDE DEF new
  <2> QED
    BY <2>1, <2>2 DEF Beside
<1> QED
  BY <1>1, <1>2

LEMMA SameLanguage ==
  ASSUME NEW X, NEW config, config.overrides \in Seq(X), NEW flags, NEW relative, NEW found, NEW dialect
  PROVE  LET a == Language(config, flags, relative, found)
             b == Language(config, flags, relative, [language |-> a.language, dialect |-> dialect])
         IN  b.language = a.language /\ b.dialect \in {a.dialect, dialect}
<1> DEFINE said == Matches(config, relative)
           n == Len(said)
           flag == At(flags, "language", none)
           a == Language(config, flags, relative, found)
           again == [language |-> a.language, dialect |-> dialect]
           b == Language(config, flags, relative, again)
<1>1. PICK f : Stepwise("switch", "none", found, said, f) /\ a = Switch(f[n], flag)
  BY LanguageIs
<1>2. PICK g : Stepwise("switch", "none", again, said, g) /\ b = Switch(g[n], flag)
  BY LanguageIs
<1>3. n \in Nat
  BY MatchesIs
<1>0. again.language = a.language /\ again.dialect = dialect
  OBVIOUS
<1> HIDE DEF a, b, again, said, flag
<1>4. /\ f[0] = found /\ \A i \in 1..n : f[i] = Switch(f[i - 1], At(said[i], "language", none))
      /\ g[0] = again /\ \A i \in 1..n : g[i] = Switch(g[i - 1], At(said[i], "language", none))
  BY <1>1, <1>2 DEF Stepwise, Going
<1> HIDE DEF n
<1> DEFINE A == {m \in 0..n : Beside(found, again, f[m], g[m])}
<1>5. 0 \in A
  BY <1>3, <1>4 DEF Beside
<1>6. ASSUME NEW m \in A, m < n PROVE m + 1 \in A
  <2>1. m + 1 \in 1..n /\ m + 1 \in 0..n /\ (m + 1) - 1 = m
    BY <1>3, <1>6
  <2>2. /\ f[m + 1] = Switch(f[m], At(said[m + 1], "language", none))
        /\ g[m + 1] = Switch(g[m], At(said[m + 1], "language", none))
    BY <1>4, <2>1
  <2>3. Beside(found, again, f[m], g[m])
    OBVIOUS
  <2> QED
    BY <2>1, <2>2, <2>3, SwitchBeside
<1>7. A = 0..n
  <2>1. A \in SUBSET (0..n)
    OBVIOUS
  <2> HIDE DEF A
  <2> QED
    BY <1>3, <1>5, <1>6, <2>1, CountingUp
<1>8. Beside(found, again, f[n], g[n])
  BY <1>3, <1>7
<1>9. Beside(found, again, a, b)
  BY <1>1, <1>2, <1>8, SwitchBeside
<1> QED
  BY <1>0, <1>9 DEF Beside, a, b, again

\* What is said last does not depend on what was there before, unless nothing is said.
LEMMA LastOfOthers ==
  ASSUME NEW sections, Len(sections) \in Nat, NEW key, NEW p, NEW q
  PROVE  \/ LastOf(sections, key, p) = p /\ LastOf(sections, key, q) = q
         \/ LastOf(sections, key, p) = LastOf(sections, key, q)
<1> DEFINE n == Len(sections)
<1>1. PICK f : Stepwise("last", key, p, sections, f) /\ LastOf(sections, key, p) = f[n]
  BY LastOfIs
<1>2. PICK g : Stepwise("last", key, q, sections, g) /\ LastOf(sections, key, q) = g[n]
  BY LastOfIs
<1>3. /\ f[0] = p /\ \A i \in 1..n : f[i] = At(sections[i].set, key, f[i - 1])
      /\ g[0] = q /\ \A i \in 1..n : g[i] = At(sections[i].set, key, g[i - 1])
  BY <1>1, <1>2 DEF Stepwise, Going
<1>4. n \in Nat
  OBVIOUS
<1> HIDE DEF n
<1> DEFINE A == {m \in 0..n : (f[m] = p /\ g[m] = q) \/ f[m] = g[m]}
<1>5. 0 \in A
  BY <1>3, <1>4
<1>6. ASSUME NEW m \in A, m < n PROVE m + 1 \in A
  <2>1. m + 1 \in 1..n /\ m + 1 \in 0..n /\ (m + 1) - 1 = m
    BY <1>4, <1>6
  <2>2. f[m + 1] = At(sections[m + 1].set, key, f[m]) /\ g[m + 1] = At(sections[m + 1].set, key, g[m])
    BY <1>3, <2>1
  <2> QED
    BY <2>1, <2>2 DEF At
<1>7. A = 0..n
  <2>1. A \in SUBSET (0..n)
    OBVIOUS
  <2> HIDE DEF A
  <2> QED
    BY <1>4, <1>5, <1>6, <2>1, CountingUp
<1> QED
  BY <1>1, <1>2, <1>4, <1>7

\* A section is the table of a language, or that of an override, unless it does not match.
IsSection(config, s) ==
  \/ \E l \in DOMAIN config.languages : s = [source |-> <<"language", l>>, set |-> config.languages[l]]
  \/ \E i \in DOMAIN config.overrides :
       \E set \in {config.overrides[i].set, noTable} : s = [source |-> <<"override", i>>, set |-> set]

LEMMA SectionsAre ==
  ASSUME NEW X, NEW config, config.overrides \in Seq(X), NEW relative, NEW language
  PROVE  LET sections == Sections(config, relative, language)
         IN  Len(sections) \in Nat /\ \A i \in 1..Len(sections) : IsSection(config, sections[i])
<1> DEFINE n == Len(config.overrides)
           said == Matches(config, relative)
           mine == [source |-> <<"language", language>>, set |-> config.languages[language]]
           own == IF language \in DOMAIN config.languages THEN <<mine>> ELSE <<>>
           other(i) == [source |-> <<"override", i>>, set |-> said[i]]
           others == [i \in 1..n |-> other(i)]
           S == {s \in {mine} \union {other(i) : i \in 1..n} : IsSection(config, s)}
<1>1. n \in Nat /\ DOMAIN config.overrides = 1..n /\ DOMAIN said = 1..n
      /\ \A i \in 1..n : said[i] \in {config.overrides[i].set, noTable}
  BY MatchesIs
<1>2. Sections(config, relative, language) = own \o others
  BY <1>1 DEF Sections
<1>3. \A i \in 1..n : other(i) \in S
  <2> SUFFICES ASSUME NEW i \in 1..n PROVE IsSection(config, other(i))
    OBVIOUS
  <2> QED
    BY <1>1, Zenon DEF IsSection
<1>4. language \in DOMAIN config.languages => mine \in S
  BY Zenon DEF IsSection
<1>5. \A s \in S : IsSection(config, s)
  OBVIOUS
<1> HIDE DEF S, n, other, mine
<1>6. others \in Seq(S)
  <2>1. others \in [1..n -> S]
    BY <1>3
  <2> HIDE DEF others
  <2> QED
    BY <1>1, <2>1, IsSequence
<1>7. own \in Seq(S)
  BY <1>4
<1> HIDE DEF own, others
<1>8. own \o others \in Seq(S)
  BY <1>6, <1>7
<1> QED
  BY <1>2, <1>5, <1>8

\* A section says what is written where it is from.
Writes(r, layers, s, key) == key \in DOMAIN s.set => Written(r, layers, s.source, key) = s.set[key]
LEMMA SectionWrites ==
  ASSUME NEW r, NEW s, IsSection(r.config, s), NEW layers, NEW key
  PROVE  Writes(r, layers, s, key)
<1> DEFINE config == r.config
<1> SUFFICES ASSUME key \in DOMAIN s.set PROVE Written(r, layers, s.source, key) = s.set[key]
  BY DEF Writes
<1>1. ASSUME NEW l \in DOMAIN config.languages, s = [source |-> <<"language", l>>, set |-> config.languages[l]]
      PROVE  Written(r, layers, s.source, key) = s.set[key]
  <2>1. s.source[1] = "language" /\ s.source[2] = l /\ s.set = config.languages[l]
    BY <1>1
  <2>2. Written(r, layers, s.source, key) = At(config.languages[l], key, Defaults.policy[key])
    BY <2>1 DEF Written
  <2> QED
    BY <2>1, <2>2 DEF At
<1>2. ASSUME NEW i \in DOMAIN config.overrides, NEW set \in {config.overrides[i].set, noTable},
             s = [source |-> <<"override", i>>, set |-> set]
      PROVE  Written(r, layers, s.source, key) = s.set[key]
  <2>1. s.source[1] = "override" /\ s.source[2] = i /\ s.set = set
    BY <1>2
  <2>2. set = config.overrides[i].set
    BY <2>1 DEF noTable
  <2>3. Written(r, layers, s.source, key) = At(config.overrides[i].set, key, Defaults.policy[key])
    BY <2>1 DEF Written
  <2> QED
    BY <2>1, <2>2, <2>3 DEF At
<1> QED
  BY <1>1, <1>2 DEF IsSection

\* The rules a file was read under, asked for once more with the language and the
\* dialect they gave, are the same (config.rs:600).
LEMMA RulesAgain ==
  ASSUME NEW X, NEW r, r.config.overrides \in Seq(X), NEW path, NEW found
  PROVE  LET rules == ForPath(r, path, found)
         IN  ForPath(r, path, [language |-> rules.language, dialect |-> rules.dialect]) = rules
<1> DEFINE config == r.config
           flags == r.flags
           relative == RelativeToRoot(r, path)
           a == Language(config, flags, relative, found)
           sections == Sections(config, relative, a.language)
           Dialect(language) == At(flags, "dialect", LastOf(sections, "dialect", language.dialect))
           rules == ForPath(r, path, found)
           again == [language |-> a.language, dialect |-> Dialect(a)]
           b == Language(config, flags, relative, again)
<1>1. rules = Decided(config, flags, a, sections)
  BY Zenon DEF ForPath, Rules
<1>2. rules.language = a.language /\ rules.dialect = Dialect(a)
  <2> HIDE DEF config, flags, relative, a, sections
  <2> QED
    BY <1>1 DEF Decided
<1>3. ForPath(r, path, again) = Decided(config, flags, b, Sections(config, relative, b.language))
  BY Zenon DEF ForPath, Rules
<1>4. b.language = a.language /\ b.dialect \in {a.dialect, Dialect(a)}
  BY SameLanguage
<1>5. Len(sections) \in Nat
  BY SectionsAre
<1>6. Dialect(b) = Dialect(a)
  <2>1. \/ LastOf(sections, "dialect", a.dialect) = a.dialect /\ LastOf(sections, "dialect", b.dialect) = b.dialect
        \/ LastOf(sections, "dialect", a.dialect) = LastOf(sections, "dialect", b.dialect)
    BY <1>5, LastOfOthers
  <2> HIDE DEF a, b, sections, flags
  <2> QED
    BY <1>4, <2>1 DEF At
<1>7. Decided(config, flags, b, sections) = Decided(config, flags, a, sections)
  <2> HIDE DEF config, flags, a, b, sections
  <2> QED
    BY <1>4, <1>6, Zenon DEF Decided
<1> QED
  BY <1>1, <1>2, <1>3, <1>4, <1>7

\* What is said last is said by the section that is named.
LEMMA LastIsNamed ==
  ASSUME NEW sections, Len(sections) \in Nat, NEW key, NEW otherwise
  PROVE  \/ Naming(sections, key) = <<"global">> /\ LastOf(sections, key, otherwise) = otherwise
         \/ \E i \in 1..Len(sections) : /\ key \in DOMAIN sections[i].set
                                        /\ Naming(sections, key) = sections[i].source
                                        /\ LastOf(sections, key, otherwise) = sections[i].set[key]
<1> DEFINE n == Len(sections)
           Named(source, value) ==
             \/ source = <<"global">> /\ value = otherwise
             \/ \E i \in 1..n : key \in DOMAIN sections[i].set /\ source = sections[i].source /\ value = sections[i].set[key]
<1>1. PICK f : Stepwise("last", key, otherwise, sections, f) /\ LastOf(sections, key, otherwise) = f[n]
  BY LastOfIs
<1>2. PICK g : Stepwise("name", key, <<"global">>, sections, g) /\ Naming(sections, key) = g[n]
  BY NamingIs
<1>3. /\ f[0] = otherwise /\ \A i \in 1..n : f[i] = At(sections[i].set, key, f[i - 1])
      /\ g[0] = <<"global">>
      /\ \A i \in 1..n : g[i] = IF key \in DOMAIN sections[i].set THEN sections[i].source ELSE g[i - 1]
  BY <1>1, <1>2 DEF Stepwise, Going
<1>4. n \in Nat
  OBVIOUS
<1> DEFINE A == {m \in 0..n : Named(g[m], f[m])}
<1> HIDE DEF n
<1>5. 0 \in A
  BY <1>3, <1>4
<1>6. ASSUME NEW m \in A, m < n PROVE m + 1 \in A
  <2>1. m + 1 \in 1..n /\ m + 1 \in 0..n /\ (m + 1) - 1 = m
    BY <1>4, <1>6
  <2>2. /\ f[m + 1] = At(sections[m + 1].set, key, f[m])
        /\ g[m + 1] = IF key \in DOMAIN sections[m + 1].set THEN sections[m + 1].source ELSE g[m]
    BY <1>3, <2>1
  <2>3. CASE key \in DOMAIN sections[m + 1].set
    BY <2>1, <2>2, <2>3 DEF At
  <2>4. CASE key \notin DOMAIN sections[m + 1].set
    <3>1. f[m + 1] = f[m] /\ g[m + 1] = g[m] /\ Named(g[m], f[m])
      BY <2>2, <2>4 DEF At
    <3> HIDE DEF Named
    <3> QED
      BY <2>1, <3>1
  <2> QED
    BY <2>3, <2>4
<1>7. A = 0..n
  <2>1. A \in SUBSET (0..n)
    OBVIOUS
  <2> HIDE DEF A
  <2> QED
    BY <1>4, <1>5, <1>6, <2>1, CountingUp
<1>8. Named(g[n], f[n])
  <2> HIDE DEF Named
  <2> QED
    BY <1>4, <1>7
<1> QED
  BY <1>1, <1>2, <1>8 DEF n

LEMMA MaxIs ==
  ASSUME NEW n \in Nat, NEW S \in SUBSET (0..n), S # {}
  PROVE  Max(S) \in S /\ \A y \in S : y <= Max(S)
<1> DEFINE A == {m \in 0..n : (\E k \in S : k <= m) => \E x \in S : \A y \in S : y <= m => y <= x}
<1>1. 0 \in A
  OBVIOUS
<1>2. ASSUME NEW m \in A, m < n PROVE m + 1 \in A
  <2>1. m \in 0..n /\ m + 1 \in 0..n
    BY <1>2
  <2>2. (\E k \in S : k <= m) => \E x \in S : \A y \in S : y <= m => y <= x
    BY <1>2
  <2> HIDE DEF A
  <2>3. SUFFICES ASSUME \E k \in S : k <= m + 1
                 PROVE  \E x \in S : \A y \in S : y <= m + 1 => y <= x
    BY <2>1 DEF A
  <2>4. CASE m + 1 \in S
    BY <2>4
  <2>5. CASE m + 1 \notin S
    <3>1. \A y \in S : y <= m + 1 => y <= m
      BY <2>1, <2>5
    <3> QED
      BY <2>2, <2>3, <3>1
  <2> QED
    BY <2>4, <2>5
<1>3. A = 0..n
  <2>1. A \in SUBSET (0..n)
    OBVIOUS
  <2> HIDE DEF A
  <2> QED
    BY <1>1, <1>2, <2>1, CountingUp
<1>4. \E x \in S : \A y \in S : x >= y
  <2>1. n \in A
    BY <1>3
  <2>2. (\E k \in S : k <= n) => \E x \in S : \A y \in S : y <= n => y <= x
    BY <2>1
  <2> HIDE DEF A
  <2>3. \A y \in S : y \in Int /\ y <= n
    OBVIOUS
  <2>4. PICK x \in S : \A y \in S : y <= x
    BY <2>2, <2>3
  <2> QED
    BY <2>3, <2>4
<1>5. \A y \in S : y \in Int
  OBVIOUS
<1> HIDE DEF A
<1> QED
  BY <1>4, <1>5 DEF Max

\* What here holds is made of configurations.
IsHere(here) ==
  /\ here.user \in Seq(ToSet(here.user)) /\ here.explicit \in Seq(ToSet(here.explicit))
  /\ \A text \in TextsOf(here) : IsConfiguration(text)

LEMMA NearestIs ==
  ASSUME NEW path, Len(path) \in Nat, NEW directories
  PROVE  Nearest(path, directories) = <<>> \/ \E d \in directories : Nearest(path, directories) = <<d>>
<1> DEFINE found == {n \in 0 .. Len(path) : SubSeq(path, 1, n) \in directories}
<1>1. CASE found = {}
  BY <1>1 DEF Nearest
<1>2. CASE found # {}
  <2>1. Max(found) \in found
    BY <1>2, MaxIs
  <2>2. Nearest(path, directories) = <<SubSeq(path, 1, Max(found))>>
    BY <1>2 DEF Nearest
  <2>3. SubSeq(path, 1, Max(found)) \in directories
    <3> DEFINE m == Max(found)
    <3>1. m \in found
      BY <2>1
    <3> HIDE DEF m
    <3>2. SubSeq(path, 1, m) \in directories
      BY <3>1
    <3> QED
      BY <3>2 DEF m
  <2> QED
    BY <2>2, <2>3
<1> QED
  BY <1>1, <1>2

LEMMA LayersAre ==
  ASSUME NEW here, IsHere(here), NEW cwd, Len(cwd) \in Nat
  PROVE  LET layers == LayersOf(here, cwd)
         IN  /\ Len(layers) \in Nat /\ DOMAIN layers = 1..Len(layers)
             /\ \A i \in 1..Len(layers) : IsConfiguration(layers[i].text)
<1> DEFINE project == Nearest(cwd, DOMAIN here.projects)
           user(i) == [kind |-> "user", text |-> here.user[i]]
           above(i) == [kind |-> "project", text |-> here.projects[project[i]]]
           users == [i \in DOMAIN here.user |-> user(i)]
           projects == [i \in DOMAIN project |-> above(i)]
           S == {[kind |-> k, text |-> t] : k \in {"explicit", "user", "project"}, t \in TextsOf(here)}
<1>1. \A s \in S : IsConfiguration(s.text)
  BY DEF IsHere
<1>2. CASE here.explicit # <<>>
  <2>1. here.explicit[1].text \in TextsOf(here)
    <3>1. 1 \in DOMAIN here.explicit
      BY <1>2 DEF IsHere
    <3> QED
      BY <3>1 DEF TextsOf, ToSet
  <2> DEFINE e == [kind |-> "explicit", text |-> here.explicit[1].text]
  <2>2. LayersOf(here, cwd) = <<e>>
    BY <1>2 DEF LayersOf
  <2>3. IsConfiguration(e.text)
    BY <1>1, <2>1 DEF IsHere
  <2> HIDE DEF e
  <2> QED
    BY <2>2, <2>3
<1>3. CASE here.explicit = <<>>
  <2>1. LayersOf(here, cwd) = users \o projects
    BY <1>3 DEF LayersOf
  <2>2. users \in Seq(S)
    <3>1. DOMAIN here.user = 1..Len(here.user) /\ Len(here.user) \in Nat
      BY DEF IsHere
    <3>2. \A i \in DOMAIN here.user : here.user[i] \in TextsOf(here)
      BY DEF TextsOf, ToSet
    <3>3. \A i \in DOMAIN here.user : user(i) \in S
      BY <3>2
    <3> HIDE DEF user, S
    <3>4. users \in [1..Len(here.user) -> S]
      BY <3>1, <3>3
    <3> QED
      BY <3>1, <3>4, IsSequence
  <2>3. projects \in Seq(S)
    <3>1. project = <<>> \/ \E d \in DOMAIN here.projects : project = <<d>>
      BY NearestIs
    <3>2. \A i \in DOMAIN project : here.projects[project[i]] \in TextsOf(here)
      BY <3>1 DEF TextsOf
    <3>3. \A i \in DOMAIN project : above(i) \in S
      BY <3>2
    <3>4. DOMAIN project = 1..Len(project) /\ Len(project) \in Nat
      BY <3>1
    <3> HIDE DEF above, S, project
    <3>5. projects \in [1..Len(project) -> S]
      BY <3>3, <3>4
    <3> QED
      BY <3>4, <3>5, IsSequence
  <2> HIDE DEF users, projects, S
  <2>4. users \o projects \in Seq(S)
    BY <2>2, <2>3
  <2> QED
    BY <1>1, <2>1, <2>4
<1> QED
  BY <1>2, <1>3

\* Layers that are merged stay a configuration.
Whole(config) == DOMAIN config = DOMAIN Defaults /\ DOMAIN Defaults.policy \subseteq DOMAIN config.policy

LEMMA OverIs ==
  ASSUME NEW table, NEW base
  PROVE  /\ DOMAIN Over(table, base) = DOMAIN table \union DOMAIN base
         /\ \A key \in DOMAIN table \union DOMAIN base : Over(table, base)[key] = At(table, key, base[key])
         /\ Listing(table) /\ Listing(base) => Listing(Over(table, base))
<1>1. /\ DOMAIN Over(table, base) = DOMAIN table \union DOMAIN base
      /\ \A key \in DOMAIN table \union DOMAIN base : Over(table, base)[key] = At(table, key, base[key])
  BY DEF Over, At
<1>2. ASSUME Listing(table), Listing(base) PROVE Listing(Over(table, base))
  BY <1>1, <1>2 DEF Listing, At
<1> QED
  BY <1>1, <1>2

LEMMA JoinedOverrides ==
  ASSUME NEW s, NEW t, s \in Seq(ToSet(s)), t \in Seq(ToSet(t))
  PROVE  s \o t \in Seq(ToSet(s \o t)) /\ ToSet(s \o t) \subseteq ToSet(s) \union ToSet(t)
<1> DEFINE u == s \o t
           S == ToSet(s) \union ToSet(t)
<1>1. s \in Seq(S) /\ t \in Seq(S)
  <2>1. ToSet(s) \subseteq S /\ ToSet(t) \subseteq S
    OBVIOUS
  <2> HIDE DEF S
  <2> QED
    BY <2>1, WiderSeq
<1>2. u \in Seq(S)
  <2> HIDE DEF S
  <2> QED
    BY <1>1
<1> HIDE DEF u, S
<1>3. ToSet(u) \subseteq S
  BY <1>2 DEF ToSet
<1>4. Len(u) \in Nat /\ DOMAIN u = 1..Len(u) /\ u = [i \in 1..Len(u) |-> u[i]]
  BY <1>2
<1>5. \A i \in 1..Len(u) : u[i] \in ToSet(u)
  BY <1>4 DEF ToSet
<1>6. u \in Seq(ToSet(u))
  <2>1. u \in [1..Len(u) -> ToSet(u)]
    BY <1>4, <1>5
  <2> QED
    BY <1>4, <2>1, IsSequence
<1> QED
  BY <1>3, <1>6 DEF u, S

LEMMA MergeIs ==
  ASSUME NEW base, IsConfiguration(base), Whole(base), NEW layer, IsConfiguration(layer)
  PROVE  /\ IsConfiguration(Merge(base, layer)) /\ Whole(Merge(base, layer))
         /\ \A key \in DOMAIN Defaults.policy : Merge(base, layer).policy[key] = At(layer.policy, key, base.policy[key])
<1> DEFINE c == Merge(base, layer)
           Both(l) == Over(At(layer.languages, l, noTable), At(base.languages, l, noTable))
           known == DOMAIN base.languages \union DOMAIN layer.languages
<1>1. /\ c.policy = Over(layer.policy, base.policy) /\ c.languages = [l \in known |-> Both(l)]
      /\ c.overrides = base.overrides \o layer.overrides /\ DOMAIN c = DOMAIN Defaults
  BY DEF Merge, Defaults
<1> HIDE DEF c
<1>2. /\ Listing(c.policy) /\ Whole(c)
      /\ \A key \in DOMAIN Defaults.policy : c.policy[key] = At(layer.policy, key, base.policy[key])
  <2> DEFINE table == layer.policy
             under == base.policy
  <2>1. c.policy = Over(table, under) /\ Listing(table) /\ Listing(under) /\ DOMAIN Defaults.policy \subseteq DOMAIN under
    BY <1>1 DEF IsConfiguration, Whole
  <2> HIDE DEF table, under, Both, known
  <2>2. Listing(c.policy) /\ DOMAIN c.policy = DOMAIN table \union DOMAIN under
    BY <2>1, OverIs
  <2>3. \A key \in DOMAIN Defaults.policy : c.policy[key] = At(table, key, under[key])
    BY <2>1, OverIs
  <2> QED
    BY <1>1, <2>1, <2>2, <2>3 DEF table, under, Whole
<1>3. \A l \in DOMAIN c.languages : Listing(c.languages[l])
  <2>1. Listing(noTable)
    BY DEF Listing, noTable
  <2>2. \A l : Listing(At(layer.languages, l, noTable)) /\ Listing(At(base.languages, l, noTable))
    BY <2>1 DEF At, IsConfiguration
  <2>3. \A l : Listing(Both(l))
    BY <2>2, OverIs
  <2> HIDE DEF Both, known
  <2> QED
    BY <1>1, <2>3
<1>4. c.overrides \in Seq(ToSet(c.overrides)) /\ \A o \in ToSet(c.overrides) : Listing(o.set)
  BY <1>1, JoinedOverrides DEF IsConfiguration
<1> QED
  BY <1>2, <1>3, <1>4 DEF c, IsConfiguration

\* What the last file that names a key of [policy] says of it.
LayerSays(layers, key) ==
  LET o == Origin(layers, key)
  IN  IF o = 0 THEN Defaults.policy[key] ELSE At(layers[o].text.policy, key, Defaults.policy[key])

LEMMA DefaultsAre == IsConfiguration(Defaults) /\ Whole(Defaults)
<1>1. /\ Defaults.policy.keep = <<>> /\ Defaults.policy.remove = <<>>
      /\ DOMAIN Defaults.languages = {} /\ Defaults.overrides = <<>>
  BY DEF Defaults
<1>2. <<>> \in Seq(STRING) /\ ToSet(<<>>) = {} /\ <<>> \in Seq({})
  BY DEF ToSet
<1> QED
  BY <1>1, <1>2 DEF IsConfiguration, Whole, Listing, Lists

LEMMA MergedLayers ==
  ASSUME NEW layers, Len(layers) \in Nat, DOMAIN layers = 1..Len(layers),
         \A i \in 1..Len(layers) : IsConfiguration(layers[i].text)
  PROVE  /\ IsConfiguration(Merged(layers)) /\ Whole(Merged(layers))
         /\ \A key \in DOMAIN Defaults.policy : Merged(layers).policy[key] = LayerSays(layers, key)
<1> DEFINE n == Len(layers)
           NamesKey(i, key) == key \in DOMAIN layers[i].text.policy
           Since(config, m, key, j) ==
             /\ \A i \in 1..m : NamesKey(i, key) => i <= j
             /\ j = 0 => config.policy[key] = Defaults.policy[key]
             /\ j # 0 => NamesKey(j, key) /\ config.policy[key] = layers[j].text.policy[key]
           Good(config, m) ==
             /\ IsConfiguration(config) /\ Whole(config)
             /\ \A key \in DOMAIN Defaults.policy : \E j \in 0..m : Since(config, m, key, j)
<1>1. PICK f : Stepwise("merge", none, Defaults, layers, f) /\ Merged(layers) = f[n]
  BY MergedIs
<1>2. f[0] = Defaults /\ \A i \in 1..n : f[i] = Merge(f[i - 1], layers[i].text)
  BY <1>1 DEF Stepwise, Going
<1>3. n \in Nat
  OBVIOUS
<1>4. \A i \in 1..n : IsConfiguration(layers[i].text)
  OBVIOUS
<1>10. DOMAIN layers = 1..n
  OBVIOUS
<1> HIDE DEF n
<1> DEFINE A == {m \in 0..n : Good(f[m], m)}
<1>5. 0 \in A
  <2>1. \A key \in DOMAIN Defaults.policy : Since(Defaults, 0, key, 0)
    OBVIOUS
  <2> HIDE DEF Since
  <2> QED
    BY <1>2, <1>3, <2>1, DefaultsAre
<1>6. ASSUME NEW m \in A, m < n PROVE m + 1 \in A
  <2>1. m + 1 \in 1..n /\ m + 1 \in 0..n /\ (m + 1) - 1 = m /\ m \in Nat
    BY <1>3, <1>6
  <2>2. f[m + 1] = Merge(f[m], layers[m + 1].text) /\ IsConfiguration(layers[m + 1].text)
    BY <1>2, <1>4, <2>1
  <2>3. Good(f[m], m)
    OBVIOUS
  <2> HIDE DEF A, Since
  <2>4. /\ IsConfiguration(f[m + 1]) /\ Whole(f[m + 1])
        /\ \A key \in DOMAIN Defaults.policy : f[m + 1].policy[key] = At(layers[m + 1].text.policy, key, f[m].policy[key])
    BY <2>2, <2>3, MergeIs
  <2>5. ASSUME NEW key \in DOMAIN Defaults.policy PROVE \E j \in 0..m + 1 : Since(f[m + 1], m + 1, key, j)
    <3>1. PICK j \in 0..m : Since(f[m], m, key, j)
      BY <2>3
    <3>2. f[m + 1].policy[key] = At(layers[m + 1].text.policy, key, f[m].policy[key])
      BY <2>4
    <3>3. CASE NamesKey(m + 1, key)
      <4>1. f[m + 1].policy[key] = layers[m + 1].text.policy[key]
        BY <3>2, <3>3 DEF At
      <4>2. Since(f[m + 1], m + 1, key, m + 1)
        <5> HIDE DEF NamesKey
        <5> QED
          BY <2>1, <3>3, <4>1 DEF Since
      <4> QED
        BY <2>1, <4>2
    <3>4. CASE ~NamesKey(m + 1, key)
      <4>1. f[m + 1].policy[key] = f[m].policy[key]
        BY <3>2, <3>4 DEF At
      <4>2. Since(f[m + 1], m + 1, key, j)
        <5> HIDE DEF NamesKey
        <5> QED
          BY <2>1, <3>1, <3>4, <4>1 DEF Since
      <4> QED
        BY <2>1, <4>2
    <3> QED
      BY <3>3, <3>4
  <2> QED
    BY <2>1, <2>4, <2>5 DEF A
<1>7. A = 0..n
  <2>1. A \in SUBSET (0..n)
    OBVIOUS
  <2> HIDE DEF A
  <2> QED
    BY <1>3, <1>5, <1>6, <2>1, CountingUp
<1>8. Good(f[n], n)
  <2> HIDE DEF Good
  <2> QED
    BY <1>3, <1>7
<1>9. ASSUME NEW key \in DOMAIN Defaults.policy PROVE f[n].policy[key] = LayerSays(layers, key)
  <2> DEFINE S == {0} \union {i \in DOMAIN layers : key \in DOMAIN layers[i].text.policy}
  <2>1. Origin(layers, key) = Max(S)
    BY DEF Origin
  <2>2. PICK j \in 0..n : Since(f[n], n, key, j)
    BY <1>8
  <2>3. \A i : i \in S <=> i = 0 \/ (i \in 1..n /\ NamesKey(i, key))
    BY <1>10
  <2> HIDE DEF S, NamesKey
  <2>4. S \subseteq 0..n /\ S # {}
    BY <1>3, <2>3
  <2>5. Max(S) \in S /\ \A y \in S : y <= Max(S)
    BY <1>3, <2>4, MaxIs
  <2>6. j \in S /\ \A i \in S : i <= j
    BY <1>3, <2>2, <2>3
  <2>7. Max(S) = j
    <3> DEFINE k == Max(S)
    <3>1. k \in S /\ k <= j /\ j <= k
      BY <2>5, <2>6
    <3> HIDE DEF k
    <3>2. j \in Int /\ k \in Int
      <4>1. \A y \in 0..n : y \in Int
        BY <1>3
      <4> QED
        BY <2>4, <2>6, <3>1, <4>1
    <3>3. k = j
      BY <3>1, <3>2
    <3> QED
      BY <3>3 DEF k
  <2>8. CASE j = 0
    BY <2>1, <2>2, <2>7, <2>8 DEF LayerSays
  <2>9. CASE j # 0
    <3>1. NamesKey(j, key) /\ f[n].policy[key] = layers[j].text.policy[key]
      BY <2>2, <2>9
    <3> QED
      BY <2>1, <2>7, <2>9, <3>1 DEF LayerSays, At, NamesKey
  <2> QED
    BY <2>8, <2>9
<1> QED
  BY <1>1, <1>8, <1>9

\* What the flags of the command line make of the merged files.
LEMMA WithFlagsIs ==
  ASSUME NEW c, Whole(c), NEW flags
  PROVE  LET config == WithFlags(c, flags)
         IN  /\ config.overrides = c.overrides /\ config.languages = c.languages
             /\ config.policy.mode = At(flags, "mode", c.policy.mode)
             /\ \A key \in Lists : config.policy[key] = c.policy[key] \o At(flags, key, <<>>)
<1> DEFINE Given(keys) == [key \in DOMAIN flags \intersect keys |-> flags[key]]
           lists == [key \in Lists |-> c.policy[key] \o At(flags, key, <<>>)]
           given == Given({"mode", "layout", "force"})
           policy == Over(lists, Over(given, c.policy))
           files == Over(Given({"generated"}), c.files)
           config == WithFlags(c, flags)
<1>1. config = [c EXCEPT !.policy = policy, !.files = files]
  BY DEF WithFlags
<1>2. {"policy", "files", "languages", "overrides"} \subseteq DOMAIN c
  BY DEF Whole, Defaults
<1>3. "mode" \in DOMAIN c.policy /\ Lists \subseteq DOMAIN c.policy /\ "mode" \notin Lists
  BY DEF Whole, Defaults, Lists
<1>4. DOMAIN lists = Lists /\ \A key \in Lists : lists[key] = c.policy[key] \o At(flags, key, <<>>)
  OBVIOUS
<1>5. /\ "mode" \in DOMAIN given <=> "mode" \in DOMAIN flags
      /\ "mode" \in DOMAIN flags => given["mode"] = flags["mode"]
  OBVIOUS
<1> HIDE DEF policy, files, config, lists, given
<1>6. config.policy = policy /\ config.overrides = c.overrides /\ config.languages = c.languages
  BY <1>1, <1>2
<1>7. \A key \in Lists : policy[key] = lists[key]
  BY <1>4, OverIs DEF policy, At
<1> DEFINE under == c.policy
           between == Over(given, under)
<1>8. "mode" \in DOMAIN between /\ between["mode"] = At(flags, "mode", under.mode)
  <2>1. "mode" \in DOMAIN under
    BY <1>3
  <2> HIDE DEF under
  <2>2. "mode" \in DOMAIN between /\ between["mode"] = At(given, "mode", under["mode"])
    BY <2>1, OverIs
  <2> HIDE DEF between
  <2> QED
    BY <1>5, <2>2 DEF At
<1>9. policy["mode"] = between["mode"]
  <2> HIDE DEF between
  <2>0. \A key \in DOMAIN lists \union DOMAIN between : Over(lists, between)[key] = At(lists, key, between[key])
    BY OverIs, Zenon
  <2>1. Over(lists, between)["mode"] = At(lists, "mode", between["mode"])
    BY <1>8, <2>0
  <2>2. "mode" \notin DOMAIN lists
    BY <1>3, <1>4
  <2> QED
    BY <2>1, <2>2 DEF policy, between, At
<1> QED
  BY <1>4, <1>6, <1>7, <1>8, <1>9 DEF config

\* Every entry seen is credited to a source, and W holds which sources say what.
Backed(W, T, V, state) ==
  /\ state.seen \in Seq(V) /\ state.sources \in Seq(T)
  /\ Len(state.seen) = Len(state.sources)
  /\ \A i \in 1..Len(state.seen) : <<state.sources[i], state.seen[i]>> \in W

LEMMA Appended ==
  ASSUME NEW S, NEW s \in Seq(S), NEW x \in S
  PROVE  /\ Append(s, x) \in Seq(S) /\ Len(Append(s, x)) = Len(s) + 1
         /\ \A i \in 1..Len(s) : Append(s, x)[i] = s[i]
         /\ Append(s, x)[Len(s) + 1] = x
  OBVIOUS

LEMMA CreditBacked ==
  ASSUME NEW W, NEW T, NEW V, NEW state, Backed(W, T, V, state), NEW source \in T, NEW value \in V, <<source, value>> \in W
  PROVE  /\ Backed(W, T, V, Credit(state, source, value))
         /\ Credit(state, source, value).seen = IF Contains(state.seen, value) THEN state.seen ELSE Append(state.seen, value)
<1> DEFINE seen == state.seen
           sources == state.sources
           more == Append(seen, value)
           credits == Append(sources, source)
           next == [seen |-> more, sources |-> credits]
<1>1. CASE Contains(seen, value)
  BY <1>1 DEF Credit
<1>2. CASE ~Contains(seen, value)
  <2>1. Credit(state, source, value) = next
    BY <1>2 DEF Credit
  <2>2. /\ seen \in Seq(V) /\ sources \in Seq(T) /\ Len(seen) = Len(sources) /\ Len(seen) \in Nat
        /\ \A i \in 1..Len(seen) : <<sources[i], seen[i]>> \in W
    BY DEF Backed
  <2> HIDE DEF seen, sources
  <2>3. /\ more \in Seq(V) /\ Len(more) = Len(seen) + 1 /\ more[Len(seen) + 1] = value
        /\ \A i \in 1..Len(seen) : more[i] = seen[i]
    BY <2>2, Appended
  <2>4. /\ credits \in Seq(T) /\ Len(credits) = Len(seen) + 1 /\ credits[Len(seen) + 1] = source
        /\ \A i \in 1..Len(seen) : credits[i] = sources[i]
    BY <2>2, Appended
  <2> HIDE DEF more, credits
  <2>5. \A i \in 1..Len(more) : <<credits[i], more[i]>> \in W
    <3> SUFFICES ASSUME NEW i \in 1..Len(more) PROVE <<credits[i], more[i]>> \in W
      OBVIOUS
    <3>1. i \in 1..Len(seen) \/ i = Len(seen) + 1
      BY <2>2, <2>3
    <3> QED
      BY <2>2, <2>3, <2>4, <3>1
  <2>6. next.seen = more /\ next.sources = credits
    OBVIOUS
  <2> HIDE DEF next
  <2> QED
    BY <1>2, <2>1, <2>3, <2>4, <2>5, <2>6 DEF Backed, more, seen
<1> QED
  BY <1>1, <1>2

LEMMA CreditAllBacked ==
  ASSUME NEW W, NEW T, NEW V, NEW state, Backed(W, T, V, state), NEW source \in T, NEW values \in Seq(V),
         \A i \in 1..Len(values) : <<source, values[i]>> \in W
  PROVE  /\ Backed(W, T, V, CreditAll(state, source, values))
         /\ CreditAll(state, source, values).seen = ExtendUnique(state.seen, values)
<1> DEFINE n == Len(values)
<1>1. PICK f : Stepwise("credit", source, state, values, f) /\ CreditAll(state, source, values) = f[n]
  BY CreditAllIs
<1>2. PICK g : Stepwise("unique", none, state.seen, values, g) /\ ExtendUnique(state.seen, values) = g[n]
  BY ExtendUniqueIs
<1>3. /\ f[0] = state /\ \A i \in 1..n : f[i] = Credit(f[i - 1], source, values[i])
      /\ g[0] = state.seen
      /\ \A i \in 1..n : g[i] = IF Contains(g[i - 1], values[i]) THEN g[i - 1] ELSE Append(g[i - 1], values[i])
  BY <1>1, <1>2 DEF Stepwise, Going
<1>4. n \in Nat /\ \A i \in 1..n : values[i] \in V /\ <<source, values[i]>> \in W
  OBVIOUS
<1> HIDE DEF n
<1> DEFINE A == {m \in 0..n : Backed(W, T, V, f[m]) /\ f[m].seen = g[m]}
<1>5. 0 \in A
  BY <1>3, <1>4
<1>6. ASSUME NEW m \in A, m < n PROVE m + 1 \in A
  <2>1. m + 1 \in 1..n /\ m + 1 \in 0..n /\ (m + 1) - 1 = m
    BY <1>4, <1>6
  <2>2. Backed(W, T, V, f[m]) /\ f[m].seen = g[m]
    OBVIOUS
  <2>3. /\ f[m + 1] = Credit(f[m], source, values[m + 1])
        /\ g[m + 1] = IF Contains(g[m], values[m + 1]) THEN g[m] ELSE Append(g[m], values[m + 1])
    BY <1>3, <2>1
  <2>4. values[m + 1] \in V /\ <<source, values[m + 1]>> \in W
    BY <1>4, <2>1
  <2> HIDE DEF A
  <2> DEFINE next == Credit(f[m], source, values[m + 1])
  <2>5. /\ Backed(W, T, V, next)
        /\ next.seen = IF Contains(f[m].seen, values[m + 1]) THEN f[m].seen ELSE Append(f[m].seen, values[m + 1])
    BY <2>2, <2>4, CreditBacked
  <2>6. Backed(W, T, V, f[m + 1]) /\ f[m + 1].seen = g[m + 1]
    BY <2>2, <2>3, <2>5
  <2> QED
    BY <2>1, <2>6 DEF A
<1>7. A = 0..n
  <2>1. A \in SUBSET (0..n)
    OBVIOUS
  <2> HIDE DEF A
  <2> QED
    BY <1>4, <1>5, <1>6, <2>1, CountingUp
<1>8. Backed(W, T, V, f[n]) /\ f[n].seen = g[n]
  BY <1>4, <1>7
<1> QED
  BY <1>1, <1>2, <1>8

LEMMA AttributeBacked ==
  ASSUME NEW W, NEW T, NEW V, NEW r, NEW key, Backed(W, T, V, Start(r, key)), NEW sections, Len(sections) \in Nat,
         \A i \in 1..Len(sections) :
           LET values == At(sections[i].set, key, <<>>)
           IN  /\ sections[i].source \in T /\ values \in Seq(V)
               /\ \A j \in 1..Len(values) : <<sections[i].source, values[j]>> \in W
  PROVE  \E state : /\ Backed(W, T, V, state)
                    /\ state.seen = Extended(sections, key, Start(r, key).seen)
                    /\ state.sources = Attribute(r, sections, key)
<1> DEFINE n == Len(sections)
           start == Start(r, key)
           Values(i) == At(sections[i].set, key, <<>>)
<1>1. PICK f : Stepwise("attribute", key, start, sections, f) /\ Attribute(r, sections, key) = f[n].sources
  BY AttributeIs
<1>2. PICK g : Stepwise("extend", key, start.seen, sections, g) /\ Extended(sections, key, start.seen) = g[n]
  BY ExtendedIs
<1> HIDE DEF start
<1>3. /\ f[0] = start /\ \A i \in 1..n : f[i] = CreditAll(f[i - 1], sections[i].source, Values(i))
      /\ g[0] = start.seen /\ \A i \in 1..n : g[i] = ExtendUnique(g[i - 1], Values(i))
  BY <1>1, <1>2 DEF Stepwise, Going
<1>4. /\ n \in Nat /\ Backed(W, T, V, start)
      /\ \A i \in 1..n : /\ sections[i].source \in T /\ Values(i) \in Seq(V)
                         /\ \A j \in 1..Len(Values(i)) : <<sections[i].source, Values(i)[j]>> \in W
  BY DEF start
<1> HIDE DEF n, Values
<1> DEFINE A == {m \in 0..n : Backed(W, T, V, f[m]) /\ f[m].seen = g[m]}
<1>5. 0 \in A
  BY <1>3, <1>4
<1>6. ASSUME NEW m \in A, m < n PROVE m + 1 \in A
  <2>1. m + 1 \in 1..n /\ m + 1 \in 0..n /\ (m + 1) - 1 = m
    BY <1>4, <1>6
  <2>2. Backed(W, T, V, f[m]) /\ f[m].seen = g[m]
    OBVIOUS
  <2>3. /\ f[m + 1] = CreditAll(f[m], sections[m + 1].source, Values(m + 1))
        /\ g[m + 1] = ExtendUnique(g[m], Values(m + 1))
    BY <1>3, <2>1
  <2>4. /\ sections[m + 1].source \in T /\ Values(m + 1) \in Seq(V)
        /\ \A j \in 1..Len(Values(m + 1)) : <<sections[m + 1].source, Values(m + 1)[j]>> \in W
    BY <1>4, <2>1
  <2> HIDE DEF A
  <2> DEFINE next == CreditAll(f[m], sections[m + 1].source, Values(m + 1))
  <2>5. Backed(W, T, V, next) /\ next.seen = ExtendUnique(f[m].seen, Values(m + 1))
    BY <2>2, <2>4, CreditAllBacked
  <2>6. Backed(W, T, V, f[m + 1]) /\ f[m + 1].seen = g[m + 1]
    BY <2>2, <2>3, <2>5
  <2> QED
    BY <2>1, <2>6 DEF A
<1>7. A = 0..n
  <2>1. A \in SUBSET (0..n)
    OBVIOUS
  <2> HIDE DEF A
  <2> QED
    BY <1>4, <1>5, <1>6, <2>1, CountingUp
<1>8. Backed(W, T, V, f[n]) /\ f[n].seen = g[n]
  BY <1>4, <1>7
<1> QED
  BY <1>1, <1>2, <1>8 DEF start

\* The layers of a run, and what it is resolved to from them.
Layered(layers) ==
  /\ Len(layers) \in Nat /\ DOMAIN layers = 1..Len(layers)
  /\ \A i \in 1..Len(layers) : IsConfiguration(layers[i].text)
ResolvedFrom(r, layers) ==
  /\ r.config = WithFlags(Merged(layers), r.flags) /\ r.from = FlagsFrom(Merged(layers), r.flags)
  /\ r.origins = [key \in DOMAIN Defaults.policy |-> Origin(layers, key)]

LEMMA JoinedBacked ==
  ASSUME NEW W, NEW T, NEW V, NEW base \in Seq(V), NEW more \in Seq(V), <<"flag">> \in T, <<"global">> \in T,
         \A i \in 1..Len(base) : <<<<"global">>, base[i]>> \in W,
         \A i \in 1..Len(more) : <<<<"flag">>, more[i]>> \in W,
         NEW start, start.seen = base \o more,
         start.sources = [i \in DOMAIN (base \o more) |-> IF i >= Len(base) + 1 THEN <<"flag">> ELSE <<"global">>]
  PROVE  Backed(W, T, V, start)
<1> DEFINE seen == base \o more
           flag == <<"flag">>
           global == <<"global">>
           sources == [i \in 1..Len(seen) |-> IF i >= Len(base) + 1 THEN flag ELSE global]
<1>1. /\ seen \in Seq(V) /\ Len(seen) = Len(base) + Len(more) /\ DOMAIN seen = 1..Len(seen)
      /\ Len(base) \in Nat /\ Len(more) \in Nat /\ Len(seen) \in Nat
      /\ \A i \in 1..Len(seen) : seen[i] = IF i <= Len(base) THEN base[i] ELSE more[i - Len(base)]
  OBVIOUS
<1>2. start.seen = seen /\ start.sources = sources
  BY <1>1
<1>3. /\ \A i \in 1..Len(base) : <<global, base[i]>> \in W
      /\ \A i \in 1..Len(more) : <<flag, more[i]>> \in W
      /\ flag \in T /\ global \in T
  OBVIOUS
<1> HIDE DEF seen, flag, global
<1>4. sources \in Seq(T) /\ Len(sources) = Len(seen)
  <2>1. sources \in [1..Len(seen) -> T]
    BY <1>3
  <2> HIDE DEF sources
  <2> QED
    BY <1>1, <2>1, IsSequence
<1>5. ASSUME NEW i \in 1..Len(seen) PROVE <<sources[i], seen[i]>> \in W
  <2>1. CASE i <= Len(base)
    <3>1. i \in 1..Len(base) /\ sources[i] = global /\ seen[i] = base[i]
      BY <1>1, <2>1
    <3> HIDE DEF sources
    <3> QED
      BY <1>3, <3>1
  <2>2. CASE ~(i <= Len(base))
    <3>1. i - Len(base) \in 1..Len(more) /\ sources[i] = flag /\ seen[i] = more[i - Len(base)]
      BY <1>1, <2>2
    <3> HIDE DEF sources
    <3> QED
      BY <1>3, <3>1
  <2> QED
    BY <2>1, <2>2
<1> HIDE DEF sources
<1> QED
  BY <1>1, <1>2, <1>4, <1>5 DEF Backed

\* The pairs of a source and an entry that its place names.
Credits(r, layers, key, T, V) == {w \in T \X V : Contains(Written(r, layers, w[1], key), w[2])}

LEMMA StartBacked ==
  ASSUME NEW layers, Layered(layers), NEW r, ResolvedFrom(r, layers), Listing(r.flags), NEW key \in Lists,
         NEW T, <<"flag">> \in T, <<"global">> \in T
  PROVE  /\ Backed(Credits(r, layers, key, T, STRING), T, STRING, Start(r, key))
         /\ Start(r, key).seen = r.config.policy[key]
<1> DEFINE merged == Merged(layers)
           base == merged.policy[key]
           more == At(r.flags, key, <<>>)
           flag == <<"flag">>
           global == <<"global">>
           start == Start(r, key)
           V == STRING
           W == Credits(r, layers, key, T, V)
<1>1. key \in DOMAIN Defaults.policy
  BY DEF Lists, Defaults
<1>2. IsConfiguration(merged) /\ Whole(merged) /\ base = LayerSays(layers, key)
  BY <1>1, MergedLayers DEF Layered
<1>3. base \in Seq(V)
  <2>1. key \in DOMAIN merged.policy
    BY <1>1, <1>2 DEF Whole
  <2> HIDE DEF merged
  <2> QED
    BY <1>2, <2>1 DEF IsConfiguration, Listing
<1>4. more \in Seq(V)
  <2>1. <<>> \in Seq(V)
    OBVIOUS
  <2> QED
    BY <2>1 DEF Listing, At
<1>5. r.config.policy[key] = base \o more
  <2>0. Whole(merged)
    BY <1>2
  <2> HIDE DEF merged
  <2> DEFINE config == WithFlags(merged, r.flags)
  <2>1. \A k \in Lists : config.policy[k] = merged.policy[k] \o At(r.flags, k, <<>>)
    <3> DEFINE flags == r.flags
    <3> HIDE DEF flags
    <3>1. \A k \in Lists : WithFlags(merged, flags).policy[k] = merged.policy[k] \o At(flags, k, <<>>)
      BY <2>0, WithFlagsIs
    <3> QED
      BY <3>1 DEF flags
  <2>2. r.config = config
    BY DEF ResolvedFrom, merged
  <2> HIDE DEF config
  <2> QED
    BY <2>1, <2>2
<1>6. At(r.from, key, Len(base \o more) + 1) = Len(base) + 1
  <2> HIDE DEF merged
  <2>1. r.from = [k \in Lists \intersect DOMAIN r.flags |-> Len(merged.policy[k]) + 1]
    BY DEF ResolvedFrom, FlagsFrom, merged
  <2>2. CASE key \in DOMAIN r.flags
    BY <2>1, <2>2 DEF At
  <2>3. CASE key \notin DOMAIN r.flags
    <3>1. more = <<>> /\ key \notin DOMAIN r.from
      BY <2>1, <2>3 DEF At
    <3> HIDE DEF base, more
    <3>2. Len(base \o more) = Len(base)
      BY <1>3, <3>1
    <3> QED
      BY <3>1, <3>2 DEF At
  <2> QED
    BY <2>2, <2>3
<1>7. /\ start.seen = base \o more
      /\ start.sources = [i \in DOMAIN (base \o more) |-> IF i >= Len(base) + 1 THEN flag ELSE global]
  <2> HIDE DEF base, more
  <2> QED
    BY <1>5, <1>6 DEF Start
<1>8. \A v : Contains(base, v) => Contains(Written(r, layers, global, key), v)
  <2>1. r.origins[key] = Origin(layers, key)
    BY <1>1 DEF ResolvedFrom
  <2>2. global[1] = "global"
    OBVIOUS
  <2>3. Written(r, layers, global, key) = LayerSays(layers, key)
    <3> HIDE DEF global
    <3> QED
      BY <2>1, <2>2, Zenon DEF Written, LayerSays
  <2> QED
    BY <1>2, <2>3
<1>9. \A i \in 1..Len(more) : Contains(Written(r, layers, flag, key), more[i])
  <2>1. flag[1] = "flag"
    OBVIOUS
  <2>2. Written(r, layers, flag, key) = At(r.flags, key, Defaults.policy[key])
    <3> HIDE DEF flag
    <3> QED
      BY <2>1 DEF Written
  <2>3. CASE key \in DOMAIN r.flags
    <3>1. Written(r, layers, flag, key) = more
      BY <2>2, <2>3 DEF At
    <3> HIDE DEF more, flag
    <3> QED
      BY <3>1 DEF Contains
  <2>4. CASE key \notin DOMAIN r.flags
    <3>1. more = <<>>
      BY <2>4 DEF At
    <3> QED
      BY <3>1
  <2> QED
    BY <2>3, <2>4
<1>10. \A i \in 1..Len(base) : base[i] \in V /\ Contains(base, base[i])
  <2> HIDE DEF base, V
  <2> QED
    BY <1>3 DEF Contains
<1>11. \A i \in 1..Len(more) : more[i] \in V
  <2> HIDE DEF more, V
  <2> QED
    BY <1>4
<1> HIDE DEF base, more, flag, global, V, start
<1>12. \A i \in 1..Len(base) : <<global, base[i]>> \in W
  BY <1>8, <1>10 DEF Credits, global
<1>13. \A i \in 1..Len(more) : <<flag, more[i]>> \in W
  BY <1>9, <1>11 DEF Credits, flag
<1> HIDE DEF W
<1>14. Backed(W, T, V, start)
  BY <1>3, <1>4, <1>7, <1>12, <1>13, JoinedBacked DEF flag, global
<1> QED
  BY <1>5, <1>7, <1>14 DEF W, V, start

\* What a run is resolved to is a configuration.
LEMMA ResolvedIs ==
  ASSUME NEW layers, Layered(layers), NEW r, ResolvedFrom(r, layers)
  PROVE  /\ r.config.overrides \in Seq(ToSet(r.config.overrides))
         /\ \A i \in DOMAIN r.config.overrides : Listing(r.config.overrides[i].set)
         /\ \A l \in DOMAIN r.config.languages : Listing(r.config.languages[l])
         /\ r.config.policy.mode = At(r.flags, "mode", LayerSays(layers, "mode"))
<1> DEFINE merged == Merged(layers)
           config == r.config
           flags == r.flags
<1>1. IsConfiguration(merged) /\ Whole(merged) /\ merged.policy.mode = LayerSays(layers, "mode")
  <2>1. "mode" \in DOMAIN Defaults.policy
    BY DEF Defaults
  <2>2. \A key \in DOMAIN Defaults.policy : merged.policy[key] = LayerSays(layers, key)
    BY MergedLayers DEF Layered
  <2>3. IsConfiguration(merged) /\ Whole(merged)
    BY MergedLayers DEF Layered
  <2> HIDE DEF merged
  <2> QED
    BY <2>1, <2>2, <2>3
<1>2. config = WithFlags(merged, flags)
  BY DEF ResolvedFrom
<1> HIDE DEF merged, config, flags
<1>3. /\ config.overrides = merged.overrides /\ config.languages = merged.languages
      /\ config.policy.mode = At(flags, "mode", merged.policy.mode)
  BY <1>1, <1>2, WithFlagsIs
<1>4. merged.overrides \in Seq(ToSet(merged.overrides)) /\ \A o \in ToSet(merged.overrides) : Listing(o.set)
  BY <1>1 DEF IsConfiguration
<1>5. \A i \in DOMAIN merged.overrides : merged.overrides[i] \in ToSet(merged.overrides)
  BY DEF ToSet
<1>6. \A i \in DOMAIN merged.overrides : Listing(merged.overrides[i].set)
  BY <1>4, <1>5
<1>7. \A l \in DOMAIN merged.languages : Listing(merged.languages[l])
  BY <1>1 DEF IsConfiguration
<1> QED
  BY <1>1, <1>3, <1>4, <1>6, <1>7 DEF config, flags

\* The lists of a path are explained (config.rs:600).
LEMMA ListExplained ==
  ASSUME NEW layers, Layered(layers), NEW r, ResolvedFrom(r, layers), Listing(r.flags),
         NEW relative, NEW language, NEW key \in Lists
  PROVE  LET sections == Sections(r.config, relative, language)
             entries == Extended(sections, key, r.config.policy[key])
             sources == Attribute(r, sections, key)
         IN  /\ Len(sources) = Len(entries)
             /\ \A i \in DOMAIN entries : Contains(Written(r, layers, sources[i], key), entries[i])
<1> DEFINE sections == Sections(r.config, relative, language)
           n == Len(sections)
           T == {<<"flag">>, <<"global">>} \union {sections[i].source : i \in 1..n}
           V == STRING
           W == Credits(r, layers, key, T, V)
           Values(i) == At(sections[i].set, key, <<>>)
           start == Start(r, key)
<1>1. n \in Nat /\ \A i \in 1..n : IsSection(r.config, sections[i])
  BY ResolvedIs, SectionsAre
<1>2. <<"flag">> \in T /\ <<"global">> \in T /\ \A i \in 1..n : sections[i].source \in T
  OBVIOUS
<1> HIDE DEF T, sections, n
<1>3. Backed(W, T, V, start) /\ start.seen = r.config.policy[key]
  BY <1>2, StartBacked
<1>4. ASSUME NEW i \in 1..n
      PROVE  Values(i) \in Seq(V) /\ \A j \in 1..Len(Values(i)) : <<sections[i].source, Values(i)[j]>> \in W
  <2> DEFINE s == sections[i]
  <2>1. IsSection(r.config, s)
    BY <1>1
  <2>2. s.source \in T
    BY <1>2
  <2> HIDE DEF s
  <2>3. Listing(s.set)
    <3>1. Listing(noTable)
      BY DEF Listing, noTable
    <3>2. ASSUME NEW l \in DOMAIN r.config.languages, s = [source |-> <<"language", l>>, set |-> r.config.languages[l]]
          PROVE  Listing(s.set)
      BY <3>2, ResolvedIs
    <3>3. ASSUME NEW k \in DOMAIN r.config.overrides, NEW set \in {r.config.overrides[k].set, noTable},
                 s = [source |-> <<"override", k>>, set |-> set]
          PROVE  Listing(s.set)
      <4>1. s.set = set
        BY <3>3
      <4>2. Listing(r.config.overrides[k].set)
        BY ResolvedIs
      <4> QED
        BY <3>1, <4>1, <4>2
    <3> QED
      BY <2>1, <3>2, <3>3 DEF IsSection
  <2>4. CASE key \notin DOMAIN s.set
    <3>1. Values(i) = <<>>
      BY <2>4 DEF s, At
    <3>2. <<>> \in Seq(V)
      OBVIOUS
    <3> HIDE DEF Values, V, W
    <3> QED
      BY <3>1, <3>2
  <2>5. CASE key \in DOMAIN s.set
    <3>0. Writes(r, layers, s, key)
      BY <2>1, SectionWrites
    <3>1. Written(r, layers, s.source, key) = s.set[key]
      BY <2>5, <3>0 DEF Writes
    <3>2. Values(i) = s.set[key]
      BY <2>5 DEF s, At
    <3>3. Values(i) \in Seq(V)
      BY <2>3, <2>5, <3>2 DEF Listing
    <3> HIDE DEF Values, V
    <3>4. \A j \in 1..Len(Values(i)) : Values(i)[j] \in V /\ Contains(Written(r, layers, s.source, key), Values(i)[j])
      BY <3>1, <3>2, <3>3 DEF Contains
    <3>5. \A j \in 1..Len(Values(i)) : <<s.source, Values(i)[j]>> \in W
      BY <2>2, <3>4 DEF Credits
    <3> HIDE DEF W
    <3> QED
      BY <3>3, <3>5 DEF s
  <2> QED
    BY <2>4, <2>5
<1> HIDE DEF V, W, Values
<1>5. \A i \in 1..n : /\ sections[i].source \in T /\ Values(i) \in Seq(V)
                      /\ \A j \in 1..Len(Values(i)) : <<sections[i].source, Values(i)[j]>> \in W
  BY <1>2, <1>4
<1>6. PICK state : /\ Backed(W, T, V, state) /\ state.seen = Extended(sections, key, start.seen)
                   /\ state.sources = Attribute(r, sections, key)
  BY <1>1, <1>3, <1>5, AttributeBacked DEF n, Values
<1>7. /\ Len(state.sources) = Len(state.seen) /\ DOMAIN state.seen = 1..Len(state.seen)
      /\ \A i \in 1..Len(state.seen) : <<state.sources[i], state.seen[i]>> \in W
  BY <1>6 DEF Backed
<1>8. \A i \in DOMAIN state.seen : Contains(Written(r, layers, state.sources[i], key), state.seen[i])
  BY <1>7 DEF W, Credits
<1> QED
  BY <1>3, <1>6, <1>7, <1>8 DEF sections

LEMMA NamedIsWritten ==
  ASSUME NEW r, NEW layers, NEW sections, Len(sections) \in Nat, \A i \in 1..Len(sections) : IsSection(r.config, sections[i]),
         NEW key, NEW otherwise
  PROVE  \/ Naming(sections, key) = <<"global">> /\ LastOf(sections, key, otherwise) = otherwise
         \/ LastOf(sections, key, otherwise) = Written(r, layers, Naming(sections, key), key)
<1>1. SUFFICES ASSUME NEW i \in 1..Len(sections), key \in DOMAIN sections[i].set,
                      Naming(sections, key) = sections[i].source, LastOf(sections, key, otherwise) = sections[i].set[key]
               PROVE  LastOf(sections, key, otherwise) = Written(r, layers, Naming(sections, key), key)
  BY LastIsNamed
<1> DEFINE s == sections[i]
<1>2. IsSection(r.config, s) /\ key \in DOMAIN s.set
  BY <1>1
<1> HIDE DEF s
<1>3. Writes(r, layers, s, key)
  BY <1>2, SectionWrites
<1>4. Written(r, layers, s.source, key) = s.set[key]
  BY <1>2, <1>3 DEF Writes
<1> QED
  BY <1>1, <1>4 DEF s

\* The mode of a path is explained.
LEMMA ModeExplained ==
  ASSUME NEW layers, Layered(layers), NEW r, ResolvedFrom(r, layers), NEW relative, NEW language
  PROVE  LET sections == Sections(r.config, relative, language)
             mode == IF "mode" \in DOMAIN r.flags THEN r.config.policy["mode"]
                     ELSE LastOf(sections, "mode", r.config.policy["mode"])
             source == IF "mode" \in DOMAIN r.flags THEN <<"flag">> ELSE Naming(sections, "mode")
         IN  mode = Written(r, layers, source, "mode")
<1> DEFINE sections == Sections(r.config, relative, language)
           global == r.config.policy["mode"]
<1>1. Len(sections) \in Nat /\ \A i \in 1..Len(sections) : IsSection(r.config, sections[i])
  BY ResolvedIs, SectionsAre
<1>2. global = At(r.flags, "mode", LayerSays(layers, "mode"))
  BY ResolvedIs
<1> HIDE DEF sections, global
<1>3. CASE "mode" \in DOMAIN r.flags
  <2>1. Written(r, layers, <<"flag">>, "mode") = At(r.flags, "mode", Defaults.policy["mode"])
    BY DEF Written
  <2> QED
    BY <1>2, <1>3, <2>1 DEF At, global
<1>4. CASE "mode" \notin DOMAIN r.flags
  <2> DEFINE mode == LastOf(sections, "mode", global)
             source == Naming(sections, "mode")
  <2>1. \/ source = <<"global">> /\ mode = global
        \/ mode = Written(r, layers, source, "mode")
    BY <1>1, NamedIsWritten
  <2> HIDE DEF mode, source
  <2>2. CASE source = <<"global">> /\ mode = global
    <3>1. r.origins["mode"] = Origin(layers, "mode")
      BY DEF ResolvedFrom, Defaults
    <3>2. source[1] = "global"
      BY <2>2
    <3>3. Written(r, layers, source, "mode") = LayerSays(layers, "mode")
      BY <3>1, <3>2, Zenon DEF Written, LayerSays
    <3>4. mode = Written(r, layers, source, "mode")
      BY <1>2, <1>4, <2>2, <3>3 DEF At
    <3> QED
      BY <1>4, <3>4 DEF mode, source, sections, global
  <2>3. CASE mode = Written(r, layers, source, "mode")
    BY <1>4, <2>3 DEF mode, source, sections, global
  <2> QED
    BY <2>1, <2>2, <2>3
<1> QED
  BY <1>3, <1>4

\* A resolution that explains itself, for every path and every file.
LEMMA ResolvedExplains ==
  ASSUME NEW layers, Layered(layers), NEW r, ResolvedFrom(r, layers), Listing(r.flags), NEW path, NEW found
  PROVE  Explained(r, layers, path, ForPath(r, path, found), Trace(r, path, found))
<1> DEFINE config == r.config
           flags == r.flags
           relative == RelativeToRoot(r, path)
           language == Language(config, flags, relative, found)
           sections == Sections(config, relative, language.language)
           rules == ForPath(r, path, found)
           trace == Trace(r, path, found)
<1>1. rules = Decided(config, flags, language, sections)
  BY Zenon DEF ForPath, Rules
<1>2. trace = Traced(r, sections)
  BY Zenon DEF Trace
<1>3. ForPath(r, path, [language |-> rules.language, dialect |-> rules.dialect]) = rules
  <2>1. r.config.overrides \in Seq(ToSet(r.config.overrides))
    BY ResolvedIs
  <2> QED
    BY <2>1, RulesAgain
<1>4. LET mode == IF "mode" \in DOMAIN r.flags THEN r.config.policy["mode"]
                  ELSE LastOf(sections, "mode", r.config.policy["mode"])
          source == IF "mode" \in DOMAIN r.flags THEN <<"flag">> ELSE Naming(sections, "mode")
      IN  mode = Written(r, layers, source, "mode")
  BY ModeExplained
<1>5. \A key \in Lists :
        LET entries == Extended(sections, key, r.config.policy[key])
            sources == Attribute(r, sections, key)
        IN  /\ Len(sources) = Len(entries)
            /\ \A i \in DOMAIN entries : Contains(Written(r, layers, sources[i], key), entries[i])
  BY ListExplained
<1> HIDE DEF sections, language
<1>6. /\ rules.mode = IF "mode" \in DOMAIN flags THEN config.policy["mode"] ELSE LastOf(sections, "mode", config.policy["mode"])
      /\ rules["keep"] = Extended(sections, "keep", config.policy["keep"])
      /\ rules["remove"] = Extended(sections, "remove", config.policy["remove"])
  <2> HIDE DEF config, flags, rules
  <2> QED
    BY <1>1 DEF Decided
<1>7. /\ trace.mode = IF "mode" \in DOMAIN r.flags THEN <<"flag">> ELSE Naming(sections, "mode")
      /\ trace["keep"] = Attribute(r, sections, "keep") /\ trace["remove"] = Attribute(r, sections, "remove")
  <2> HIDE DEF trace
  <2> QED
    BY <1>2 DEF Traced
<1>8. rules.mode = Written(r, layers, trace.mode, "mode")
  <2> HIDE DEF rules, trace
  <2> QED
    BY <1>4, <1>6, <1>7
<1>9. \A key \in Lists :
        /\ Len(trace[key]) = Len(rules[key])
        /\ \A i \in DOMAIN rules[key] : Contains(Written(r, layers, trace[key][i], key), rules[key][i])
  <2> HIDE DEF rules, trace
  <2>1. \A key \in Lists : /\ rules[key] = Extended(sections, key, r.config.policy[key])
                           /\ trace[key] = Attribute(r, sections, key)
    BY <1>6, <1>7 DEF Lists
  <2> QED
    BY <1>5, <2>1
<1> HIDE DEF rules, trace
<1>10. Explained(r, layers, path, rules, trace)
  BY <1>3, <1>8, <1>9, Zenon DEF Explained
<1> QED
  BY <1>10 DEF rules, trace

Forced(here, cwd, flags) == [Load(here, cwd, flags) EXCEPT !.forced = flags]
LEMMA LoadedFrom ==
  ASSUME NEW here, NEW cwd, NEW flags
  PROVE  ResolvedFrom(Forced(here, cwd, flags), LayersOf(here, cwd)) /\ Forced(here, cwd, flags).flags = flags
<1> DEFINE layers == LayersOf(here, cwd)
           merged == Merged(layers)
           loads == Loads(layers, merged)
           config == WithFlags(merged, flags)
           from == FlagsFrom(merged, flags)
           root == RootOf(here, cwd)
           origins == [key \in DOMAIN Defaults.policy |-> Origin(layers, key)]
           o == Load(here, cwd, flags)
           new == [o EXCEPT !.forced = flags]
<1>1. o = [loads |-> loads, config |-> config, flags |-> flags, forced |-> flags,
           from |-> from, root |-> root, cwd |-> cwd, origins |-> origins]
  BY Zenon DEF Load
<1>2. new.config = config /\ new.flags = flags /\ new.from = from /\ new.origins = origins
  <2> HIDE DEF loads, config, from, root, origins, o
  <2> QED
    BY <1>1
<1>3. Forced(here, cwd, flags) = new
  BY DEF Forced
<1> HIDE DEF new, layers
<1>4. ResolvedFrom(new, layers) /\ new.flags = flags
  BY <1>2 DEF ResolvedFrom
<1> QED
  BY <1>3, <1>4 DEF layers

\* An explanation is asked for under the configuration a setup starts from.
LEMMA TraceExplains ==
  ASSUME Typed
  PROVE  TraceAgrees
<1> DEFINE here == setup.here
           cwd == setup.cwd
           flags == setup.flags
           layers == LayersOf(here, cwd)
           r == Resolved("check")
<1>1. IsHere(here) /\ Listing(flags) /\ Len(cwd) \in Nat
  BY SetupsAssumption DEF Typed, IsHere, Path
<1> HIDE DEF here, cwd, flags
<1>2. Layered(layers)
  BY <1>1, LayersAre DEF Layered
<1>3. ResolvedFrom(r, layers) /\ r.flags = flags
  <2>1. r = Forced(here, cwd, flags)
    BY DEF Resolved, Reports, here, cwd, flags, Forced
  <2> HIDE DEF r
  <2> QED
    BY <2>1, LoadedFrom
<1> HIDE DEF layers, r
<1>4. \A path, found : Explained(r, layers, path, ForPath(r, path, found), Trace(r, path, found))
  BY <1>1, <1>2, <1>3, ResolvedExplains
<1> QED
  BY <1>4, Zenon DEF TraceAgrees, r, layers, here, cwd

\* The explanation is true for every configuration that loads, every path and every
\* file (config.rs:600, cli.rs:843).
THEOREM ExplanationsAgree == Spec => []TraceAgrees
<1>1. Init => Inv
  BY InitInv
<1>2. Inv /\ [Next]_vars => Inv'
  BY NextInv
<1>3. Inv => TraceAgrees
  BY TraceExplains DEF Inv
<1> QED
  BY <1>1, <1>2, <1>3, PTL DEF Spec
=============================================================================
