------------------------------- MODULE Command -------------------------------
(***************************************************************************)
(* The runs of the command line over one tree: check, diff, fix, fix       *)
(* --tidy, coverage and the two commands of the ledger.  A run resolves    *)
(* its configuration, finds its candidates, opens them one by one in any   *)
(* order, judges what it read, and writes every change in one transaction  *)
(* or none.  Other programs change the tree in between.                    *)
(***************************************************************************)
EXTENDS Discovery

CONSTANTS
  Setups, \* what runs start from: a tree, configuration files, a working
          \* directory, flags, arguments, refused skips, the operations, and
          \* how often other programs change the tree
  Texts   \* the texts other programs write

Text == [todo : Nat, wide : Nat, valid : BOOLEAN, after : {"clean", "removable", "rewritable", "broken"}]
\* A path of the file system is made of names: a dot or two are no name, and nothing is
\* called what standard input is reported as.
Path == Seq(STRING \ {".", "..", stdin[1]})

Entry == [link : {"no", "file", "broken", "directory"}, large : BOOLEAN, ignored : BOOLEAN, head : STRING, text : Text]

ASSUME TextsAssumption == Texts \subseteq Text
\* What a run is configured from: the lists of a table are lists of strings.
Listing(table) == \A key \in Lists \intersect DOMAIN table : table[key] \in Seq(STRING)
IsConfiguration(text) ==
  /\ Listing(text.policy)
  /\ \A l \in DOMAIN text.languages : Listing(text.languages[l])
  /\ text.overrides \in Seq(ToSet(text.overrides))
  /\ \A o \in ToSet(text.overrides) : Listing(o.set)
TextsOf(here) ==
  ToSet(here.user) \union {x.text : x \in ToSet(here.explicit)} \union {here.projects[d] : d \in DOMAIN here.projects}

\* A file is below directories and links to directories only; a run is started
\* in a directory as it is, not behind a link.
ASSUME SetupsAssumption ==
  \A s \in Setups :
    /\ s.here.user \in Seq(ToSet(s.here.user)) /\ s.here.explicit \in Seq(ToSet(s.here.explicit))
    /\ Listing(s.flags) /\ \A text \in TextsOf(s.here) : IsConfiguration(text)
    /\ DOMAIN s.disk \subseteq Path \ {<<>>} /\ s.disk \in [DOMAIN s.disk -> Entry]
    /\ \A p, q \in DOMAIN s.disk : IsStrictPrefix(p, q) => s.disk[p].link = "directory"
    /\ \A p \in DOMAIN s.disk : ~IsPrefix(p, s.cwd)
    /\ s.cwd \in Path /\ s.targets \in Seq(Seq(STRING)) /\ s.input \in Entry

VARIABLES
  setup,  \* what this behaviour's runs are started with
  disk,   \* the files of the tree
  ledger, \* the ledger file: the count recorded for a path
  run,    \* the run in progress
  done,   \* history: the last run, how it ended, what it wrote
  edits   \* bounds the changes of other programs

vars == <<setup, disk, ledger, run, done, edits>>

Rewriting == {"fix", "tidy"}
Reports == {"check", "diff"} \union Rewriting
Idle == [op |-> none, pc |-> "idle", resolved |-> noTable, left |-> {}, looked |-> {}, missing |-> {}, plans |-> {}, clear |-> TRUE]
Never == [op |-> none, code |-> 0, failed |-> FALSE, clear |-> FALSE, wrote |-> FALSE, closed |-> TRUE, lists |-> {}]
dash == <<"-">>
dot == <<".">>

Init ==
  /\ setup \in Setups
  /\ disk = setup.disk
  /\ ledger = noTable
  /\ run = Idle
  /\ done = Never
  /\ edits = setup.edits

----------------------------------------------------------------------------
\* The flags of policy reach a run; coverage and the ledger take only the
\* forced language, as a detection.
Resolved(op) ==
  LET flags == IF op \in Reports THEN setup.flags ELSE noTable
  IN  [Load(setup.here, setup.cwd, flags) EXCEPT !.forced = setup.flags]

\* The arguments without the dash for standard input; none stands for the
\* working directory, under the limits of a walk nobody asked for.
HasStdin == Contains(setup.targets, dash)
Targets == IF setup.targets = <<>> THEN {dot} ELSE ToSet(setup.targets) \ {dash}
\* Standard input among the candidates.
Input == [path |-> stdin, piped |-> TRUE]
ArgumentsAllowed(op) ==
  /\ Cardinality({i \in DOMAIN setup.targets : setup.targets[i] = dash}) < 2
  /\ HasStdin => op \in {"check", "diff"}

\* What a file a run found still holds for it, under the rules it was found
\* with; the ledger cannot ask a plugin.
Removable(f) == IF f.rules.mode = "none" THEN 0 ELSE f.text.todo
Counted(f) == IF f.reader = "plugin" THEN 0 ELSE Removable(f) + f.text.wide
Changes(op, f) ==
  /\ f.text.valid \/ f.rules.force
  /\ (IF op = "tidy" THEN 0 ELSE Removable(f)) + f.text.wide > 0

\* What the planned edits make of a text.  after is what a scan of the result
\* would say: clean, or with something left that the edits should have met.
Rewritten(op, f) ==
  [todo |-> CASE op = "tidy" \/ f.rules.mode = "none" -> f.text.todo
              [] op # "tidy" /\ f.rules.mode # "none" -> IF f.text.after = "removable" THEN 1 ELSE 0,
   wide |-> IF f.text.after = "rewritable" THEN 1 ELSE 0,
   valid |-> f.text.valid /\ f.text.after # "broken", after |-> "clean"]

\* Mutant of VerifyRewrite: the output is scanned but not compared with what was
\* asked for.
VerifyRewriteScans(op, f) == Rewritten(op, f).valid
\* verify_rewrite: the output is scanned once more and must be what was asked
\* for: nothing left to remove, or nothing left to rewrite.
VerifyRewrite(op, f) ==
  /\ Rewritten(op, f).valid
  /\ IF op = "tidy" THEN Rewritten(op, f).wide = 0
     ELSE f.rules.mode = "none" \/ Rewritten(op, f).todo = 0
Unverified(op, f) ==
  op \in Rewriting /\ Changes(op, f) /\ (f.text.valid \/ ~f.rules.force) /\ ~VerifyRewrite(op, f)

\* The exit code of a run that came to its end.
ExitCode(op, files) ==
  IF \/ op \in {"check", "diff"} /\ \E f \in files : Changes(op, f)
     \/ op = "tidy" /\ \E f \in files : Removable(f) > 0
  THEN 1 ELSE 0
DenyExitCode(skipped) ==
  IF \E s \in skipped : (IF s.error THEN "unreadable" ELSE s.reason) \in setup.deny THEN 1 ELSE 0

\* The way out of a directory.
Ups(directory) == [i \in DOMAIN directory |-> ".."]

\* A run that walked asks for the rules of its root before it ends, and fails
\* when a forced dialect does not fit a file of no language.
Closes(r) ==
  LET root == Ups(r.cwd) \o r.root
      walked == ~HasStdin /\ \E t \in Targets : IsDirectory(disk, Absolute(r, t))
  IN  walked => ForPath(r, root, [language |-> "unknown", dialect |-> standard]).fits

\* A run ends.  failed: with the tree or the report left half done.
Finish(code, failed, wrote, closed, lists) ==
  /\ run' = Idle
  /\ done' = [op |-> run.op, code |-> code, failed |-> failed, clear |-> run.clear, wrote |-> wrote,
              closed |-> closed, lists |-> lists]

\* Nothing was written, and the run says so.
Refuse == Finish(2, FALSE, FALSE, TRUE, {})

\* The report is written, or cannot be: a run whose reader closed the pipe ends
\* with 0, any other failure of the output with 2, whatever the code would be.
Report(code, wrote, closed, lists) ==
  \/ Finish(code, FALSE, wrote, closed, lists)
  \/ \E ends \in {0, 2} : Finish(ends, TRUE, wrote, closed, {})

----------------------------------------------------------------------------
\* A run is started: its configuration is loaded, its arguments become
\* candidates.
Begin(op) ==
  LET named == setup.targets # <<>>
      input == IF HasStdin THEN {Input} ELSE {}
  IN  /\ run.pc = "idle"
      /\ op \in setup.ops
      /\ \E r \in {Resolved(op)} :
           IF r.loads /\ ArgumentsAllowed(op)
           THEN /\ run' = [Idle EXCEPT !.op = op, !.pc = "look", !.resolved = r,
                             !.left = Candidates(r, disk, Targets, named) \union input,
                             !.missing = Missing(r, disk, Targets, named)]
                /\ done' = Never
           ELSE /\ run' = Idle
                /\ done' = [Never EXCEPT !.op = op, !.code = 2, !.clear = TRUE]
      /\ UNCHANGED <<setup, disk, ledger, edits>>

\* One candidate is opened and classified; they are taken in parallel.
Look(candidate) ==
  /\ run.pc = "look"
  /\ candidate \in run.left
  /\ run' = [run EXCEPT !.left = @ \ {candidate},
               !.looked = @ \union {IF candidate = Input THEN StdinSource(run.resolved, setup.input)
                                    ELSE LoadOne(run.resolved, disk, candidate)}]
  /\ UNCHANGED <<setup, disk, ledger, done, edits>>

Looked == Discovered(run.looked, run.missing)
AllLooked == run.pc = "look" /\ run.left = {}
Fatal == \E l \in run.looked : l.kind = "fatal" \/ (l.kind = "passed" /\ l.path = stdin /\ l.error)

\* The gates before anything is written: every file was read and is valid, or
\* the run is forced past the invalid ones.
MayFix(files, skipped) ==
  /\ ~\E s \in skipped : s.error
  /\ \A f \in files : f.text.valid \/ f.rules.force
Invalid(files, skipped) == (\E s \in skipped : s.error) \/ \E f \in files : ~f.text.valid

\* The code a run ends with that judged every file.
Code(op, files, skipped, closes) ==
  IF Invalid(files, skipped) \/ ~closes THEN 2 ELSE Max({ExitCode(op, files), DenyExitCode(skipped)})

\* The files are judged; a run that may not write ends here.
JudgeFiles(op, files, skipped, closes) ==
  CASE Fatal \/ (\E f \in files : Unverified(op, f)) -> Refuse
    [] ~Fatal /\ (\A f \in files : ~Unverified(op, f)) /\ op \in Rewriting /\ MayFix(files, skipped) ->
         /\ run' = [run EXCEPT !.pc = "apply", !.plans = {f \in files : Changes(op, f)}]
         /\ UNCHANGED done
    [] OTHER -> Report(Code(op, files, skipped, closes), FALSE, closes, {})
Judge ==
  /\ AllLooked
  /\ run.op \in Reports
  /\ JudgeFiles(run.op, Looked.files, Looked.skipped, Closes(run.resolved))
  /\ UNCHANGED <<setup, disk, ledger, edits>>

\* The transaction, as its callers see it.  A plan for a link, for a file that
\* is not what was read, or two for one file, fail it.
Place(f) == Absolute(run.resolved, f.path)
Intact(plans) == /\ \A f \in plans : /\ Place(f) \in DOMAIN disk
                                      /\ disk[Place(f)].link = "no"
                                      /\ disk[Place(f)].text = f.text
                 /\ \A f, g \in plans : Place(f) = Place(g) => f = g
Installed(plans) ==
  [p \in DOMAIN disk |-> IF \E f \in plans : Place(f) = p
                        THEN [disk[p] EXCEPT !.text = Rewritten(run.op, CHOOSE f \in plans : Place(f) = p)]
                        ELSE disk[p]]
Places(plans) == {Place(f) : f \in plans}

\* It fails and is rolled back.
RollBack ==
  /\ run.plans # {}
  /\ Refuse
  /\ UNCHANGED disk

\* It fails, and so does the roll back: some files stay installed and the one
\* whose undo failed may be gone, its text in the rollback file beside it.  Or
\* all are installed and a rollback file cannot be removed.
Break ==
  \E plans \in SUBSET run.plans \ {{}} : \E lost \in SUBSET plans :
    /\ Intact(plans)
    /\ \A f, g \in lost : f = g
    /\ disk' = [p \in DOMAIN disk \ Places(lost) |-> Installed(plans)[p]]
    /\ Finish(2, TRUE, TRUE, TRUE, {})

\* Every change is installed, and the run reports.
Install ==
  /\ Intact(run.plans)
  /\ disk' = Installed(run.plans)
  /\ \E closes \in {Closes(run.resolved)} :
       Report(Code(run.op, Looked.files, Looked.skipped, closes), run.plans # {}, closes, {})

Apply ==
  /\ run.pc = "apply"
  /\ RollBack \/ Break \/ Install
  /\ UNCHANGED <<setup, ledger, edits>>

\* coverage: the files the run met are listed beside those a second walk says
\* it never met.
Cover ==
  LET reached == {f.path : f \in Looked.files} \union {s.path : s \in Looked.skipped}
  IN  /\ AllLooked
      /\ run.op = "coverage"
      /\ IF Fatal THEN Refuse
         ELSE Report(DenyExitCode(Looked.skipped), FALSE, TRUE,
                     {[files |-> Looked.files, skipped |-> Looked.skipped,
                       missed |-> NotWalked(run.resolved, disk, Targets, reached)]})
      /\ UNCHANGED <<setup, disk, ledger, edits>>

Counts(files) ==
  LET counted == {f \in files : Counted(f) > 0}
  IN  [p \in {f.path : f \in counted} |-> Counted(CHOOSE f \in counted : f.path = p)]

\* The ledger holds when no file grew, shrank or went from it.
Compare(recorded, found) ==
  /\ \A p \in DOMAIN recorded : p \in DOMAIN found /\ found[p] = recorded[p]
  /\ \A p \in DOMAIN found : p \in DOMAIN recorded

\* The ledger's commands: the counts of the tree are recorded, or compared.  A
\* record that fails leaves the ledger as it was or emptied.
Ratchet ==
  /\ AllLooked
  /\ run.op \in {"ratchet", "record"}
  /\ \E found \in {Counts(Looked.files)} :
       \/ Fatal /\ Refuse /\ UNCHANGED ledger
       \/ /\ ~Fatal /\ run.op = "ratchet"
          /\ Report(IF Compare(ledger, found) THEN 0 ELSE 1, FALSE, TRUE, {})
          /\ UNCHANGED ledger
       \/ ~Fatal /\ run.op = "record" /\ ledger' = found /\ Report(0, FALSE, TRUE, {})
       \/ ~Fatal /\ run.op = "record" /\ ledger' \in {ledger, noTable} /\ Finish(2, TRUE, FALSE, TRUE, {})
  /\ UNCHANGED <<setup, disk, edits>>

\* Another program writes a file or removes it, a link with what is behind it.
Edit(place) ==
  /\ edits > 0
  /\ edits' = edits - 1
  /\ place \in DOMAIN disk
  /\ \/ /\ disk[place].link # "directory"
        /\ \E text \in Texts \ {disk[place].text} : disk' = [disk EXCEPT ![place].text = text]
     \/ disk' = [p \in {q \in DOMAIN disk : ~IsPrefix(place, q)} |-> disk[p]]
  /\ run' = [run EXCEPT !.clear = FALSE]
  /\ done' = [done EXCEPT !.clear = FALSE]
  /\ UNCHANGED <<setup, ledger>>

Next ==
  \/ \E op \in setup.ops : Begin(op)
  \/ \E candidate \in run.left : Look(candidate)
  \/ Judge
  \/ Apply
  \/ Cover
  \/ Ratchet
  \/ \E place \in DOMAIN setup.disk : Edit(place)

Spec == Init /\ [][Next]_vars

----------------------------------------------------------------------------
Languages == DOMAIN Supported \ {"unknown"}
Finds == {[language |-> l, dialect |-> d] : l \in Languages, d \in UNION {Supported[m] : m \in Languages}}

\* What the place a source names really says under a key: the flags, the
\* section, or the file that is credited with the key.
Written(r, layers, source, key) ==
  LET default == Defaults.policy[key]
  IN  CASE source[1] = "flag" -> At(r.flags, key, default)
        [] source[1] = "language" -> At(r.config.languages[source[2]], key, default)
        [] source[1] = "override" -> At(r.config.overrides[source[2]].set, key, default)
        [] OTHER -> IF r.origins[key] = 0 THEN default ELSE At(layers[r.origins[key]].text.policy, key, default)

Explained(r, layers, path, rules, trace) ==
  /\ ForPath(r, path, [language |-> rules.language, dialect |-> rules.dialect]) = rules
  /\ rules.mode = Written(r, layers, trace.mode, "mode")
  /\ \A key \in Lists :
       /\ Len(trace[key]) = Len(rules[key])
       /\ \A i \in DOMAIN rules[key] : Contains(Written(r, layers, trace[key][i], key), rules[key][i])

\* The explanation is true: the rules asked for again, with the language and
\* dialect they gave, are the rules the file was read under, and the place an
\* explanation credits with a mode or a kind really names it (config.rs:600,
\* cli.rs:843).
TraceAgrees ==
  (run.pc = "idle" /\ done = Never) =>
    \A r \in {Resolved("check")}, layers \in {LayersOf(setup.here, setup.cwd)} :
      \A place \in DOMAIN disk, found \in Finds :
        LET path == Ups(r.cwd) \o place
        IN  \A rules \in {ForPath(r, path, found)} :
              (r.loads /\ DialectFits(found.language, found.dialect) /\ rules.fits) =>
                Explained(r, layers, path, rules, Trace(r, path, found))

\* The ways a file is named from a directory, and two directories that find the
\* same configuration.
Spellings(cwd, place) ==
  {Ups(cwd) \o place, <<".">> \o Ups(cwd) \o place}
    \union (IF IsPrefix(cwd, place) THEN {SubSeq(place, Len(cwd) + 1, Len(place))} ELSE {})
Alike(c, d) ==
  /\ LayersOf(setup.here, c) = LayersOf(setup.here, d)
  /\ RootOf(setup.here, c) = RootOf(setup.here, d)

\* The rules follow the file: two spellings of one path, from any directory
\* that finds the same configuration, are read under the same rules and are
\* both included or both excluded (config.rs:434, docs/configuration.md).
RulesFollowTheFile ==
  (run.pc = "idle" /\ done = Never) =>
    \A cwd \in {<<>>} \union {Front(p) : p \in DOMAIN disk} :
      \A r \in {Resolved("check")}, other \in {Load(setup.here, cwd, setup.flags)}, place \in DOMAIN disk :
        \A found \in {DetectLanguage(Last(place), disk[place].head)} :
          (r.loads /\ Alike(setup.cwd, cwd) /\ found.language # none) =>
            \A p \in Spellings(setup.cwd, place), q \in Spellings(cwd, place) :
              ForPath(r, p, found) = ForPath(other, q, found) /\ (Configured(r, p) <=> Configured(other, q))

Listed(r, lists, target) ==
  LET base == Absolute(r, target)
      asked == {p \in DOMAIN disk : /\ IsStrictPrefix(base, p)
                                    /\ disk[p].link = "no"
                                    /\ ".git" \notin ToSet(p)
                                    /\ ~(disk[p].ignored /\ File(r, "ignore", TRUE))
                                    /\ \/ File(r, "follow", FALSE)
                                       \/ \A q \in Below(disk, base) : ~IsStrictPrefix(q, p)}
      parts == <<{f.path : f \in lists.files}, {s.path : s \in lists.skipped}, lists.missed>>
  IN  \A p \in asked :
        LET path == ReportedPath(target \o SubSeq(p, Len(base) + 1, Len(p)))
        IN  Cardinality({k \in DOMAIN parts : path \in parts[k]}) = 1

\* Coverage leaves nothing out: every file below a directory it was asked
\* about, unless ignored or behind a link that is not followed, is read, passed
\* over with a reason, or listed as not walked, and only one of them
\* (files.rs:686, coverage.rs:70).  Nothing is said of a directory that was
\* named by a link to it: the run opens the link and the second walk goes
\* through it, so what is there is in no list unless a limit kept it out
\* (files.rs:470, 702, 725).
Accounted ==
  (done.op = "coverage" /\ done.clear) =>
    \A r \in {Resolved("coverage")}, lists \in done.lists :
      \A t \in Targets :
        (IsDirectory(disk, Absolute(r, t)) /\ ~IsOpened(r, disk, t)) => Listed(r, lists, t)

FoundNow(r) ==
  {f \in {LoadOne(r, disk, c) : c \in Candidates(r, disk, Targets, setup.targets # <<>>)}
           \union (IF HasStdin THEN {StdinSource(r, setup.input)} ELSE {}) : f.kind = "found"}
CodeFits(op, found) ==
  LET Left(f) == CASE op = "fix" -> Removable(f)
                   [] op \in {"ratchet", "record"} -> Counted(f)
                   [] OTHER -> Removable(f) + f.text.wide
      holds == /\ \A f \in found : Left(f) = At(ledger, f.path, 0)
               /\ DOMAIN ledger \subseteq {f.path : f \in found}
  IN  CASE op \in Reports /\ done.code = 0 -> \A f \in found : f.text.valid /\ Left(f) = 0
        [] op \in {"check", "diff", "tidy"} /\ done.code = 1 /\ setup.deny = {} -> \E f \in found : Left(f) > 0
        [] op \in {"ratchet", "record"} /\ done.code # 2 -> holds <=> done.code = 0
        [] OTHER -> done.code = 2 => \/ ~done.wrote \/ ~done.closed
                                     \/ \E f \in found : f.rules.force

\* The exit code tells the tree.  When nobody else changed it: after 0 nothing
\* is left that the command looks for, after 1 something is, after 2 nothing
\* was written, unless the run was forced or ended on its last look at the
\* root; the ledger's code says whether every file holds what was recorded
\* (faq.md:80, cli.rs:943, 1052, ratchet.rs:129).  Nothing is said of a run that
\* could not write its report or its ledger, or could not undo or clean up its
\* transaction: a closed pipe ends with 0 over findings (main.rs:50), and the
\* others with 2 over files that were written (atomic.rs:86, 93, cli.rs:967).
CodeTellsTheTree ==
  (run.pc = "idle" /\ done.op \notin {none, "coverage"} /\ done.clear /\ ~done.failed) =>
    \A r \in {Resolved(done.op)} : \A found \in {FoundNow(r)} : CodeFits(done.op, found)
=============================================================================
