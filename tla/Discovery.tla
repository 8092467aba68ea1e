------------------------------ MODULE Discovery ------------------------------
(***************************************************************************)
(* Which files a run reads.  The arguments become candidates, a directory  *)
(* by a walk; a candidate is opened, classified and either found, passed   *)
(* over with a reason or left out.  The coverage report asks a second walk *)
(* with other filters for what the first one never met.  disk is what is   *)
(* at every path from the root of the file system: a function over the     *)
(* paths of files and links, each with what the code asks of it.  What is  *)
(* behind a link to a directory has its path through the link.             *)
(***************************************************************************)
EXTENDS Configuration

CONSTANTS
  ByName,    \* what a file's name says of its language: a function over names
  ByHead,    \* what the first bytes say: a function over kinds of beginnings
  Readers,   \* the profiles and plugin routes, by file name
  Generated, \* the names and beginnings of files another tool writes
  Dotted     \* the names that begin with a dot

\* A path is reported without the dot a walk of the current directory adds.
ReportedPath(path) == IF Len(path) > 1 /\ path[1] = "." THEN Tail(path) ELSE path
Absolute(r, path) == Lexical(r.cwd \o path)
File(r, key, otherwise) == At(r.config.files, key, otherwise)

\* files.include and files.exclude, as the code asks them of a path.
Configured(r, path) ==
  LET relative == RelativeToRoot(r, path)
      include == File(r, "include", {})
  IN  \/ include # {} /\ relative \notin include
      \/ relative \in File(r, "exclude", {})

----------------------------------------------------------------------------
\* A language is told by the name, else by the beginning of the text.
DetectLanguage(name, head) ==
  CASE name \in DOMAIN ByName -> ByName[name]
    [] name \notin DOMAIN ByName /\ head \in DOMAIN ByHead -> ByHead[head]
    [] OTHER -> [language |-> none, dialect |-> standard]

Nothing == [kind |-> "nothing"]
Passed(path, reason, error, named) ==
  [kind |-> "passed", path |-> path, reason |-> reason, error |-> error, explicit |-> named]

\* classify: what is known of a text before it is scanned, under the rules of
\* its path.
Found(path, rules, reader, text) ==
  [kind |-> "found", path |-> path, rules |-> rules, reader |-> reader, text |-> text]
Classified(r, path, file, named, rules) ==
  LET name == Last(path)
      reader == IF rules.language # "unknown" THEN "language" ELSE At(Readers, name, none)
  IN  CASE file.head = "binary" -> Passed(path, "binary", FALSE, named)
        [] /\ file.head # "binary" /\ ~File(r, "generated", FALSE)
           /\ name \in Generated \/ file.head \in Generated ->
             Passed(path, "generated", FALSE, named)
        [] OTHER ->
             CASE ~rules.fits -> [kind |-> "fatal"]
               [] rules.fits /\ ~LanguageIsEnabled(r, rules.language) ->
                    Passed(path, "language disabled", FALSE, named)
               [] OTHER -> IF reader = none THEN Passed(path, "unknown language", FALSE, named)
                           ELSE Found(path, rules, reader, file.text)

\* The language a run is forced to, else the one that is told.
Detected(r, name, head) ==
  LET forced == At(r.forced, "language", none)
  IN  IF forced = none THEN DetectLanguage(name, head)
      ELSE [language |-> forced, dialect |-> At(r.forced, "dialect", standard)]
Classify(r, path, file, named) ==
  Classified(r, path, file, named,
    ForPath(r, path, [Detected(r, Last(path), file.head) EXCEPT !.language = IF @ = none THEN "unknown" ELSE @]))

\* load_one: one candidate is asked about and read, whatever it is by now.
LoadOne(r, disk, candidate) ==
  LET path == ReportedPath(candidate.path)
      place == Absolute(r, path)
      pass(reason, error) == Passed(path, reason, error, candidate.named)
  IN  CASE Configured(r, path) -> Nothing
        [] ~Configured(r, path) /\ place \notin DOMAIN disk -> pass("unreadable", TRUE)
        [] OTHER ->
             LET file == disk[place]
                 follow == File(r, "follow", FALSE)
             IN  CASE file.link # "no" /\ ~follow -> pass("symbolic link", FALSE)
                   [] file.link = "broken" /\ follow -> pass("unreadable", TRUE)
                   [] file.link = "directory" /\ follow -> Nothing
                   [] OTHER -> IF file.large /\ ~candidate.scope THEN pass("too large", FALSE)
                               ELSE Classify(r, path, file, candidate.named)

\* Standard input: read under the language it is forced to or shows.
StdinClassified(r, file, rules) ==
  CASE file.head = "binary" -> Passed(stdin, "binary", FALSE, TRUE)
    [] file.head # "binary" /\ ~(rules.language # none /\ rules.fits) -> Passed(stdin, "unreadable", TRUE, TRUE)
    [] OTHER -> IF ~LanguageIsEnabled(r, rules.language) THEN Passed(stdin, "language disabled", FALSE, TRUE)
                ELSE Found(stdin, rules, "language", file.text)
StdinSource(r, file) ==
  LET found == Detected(r, none, file.head)
  IN  StdinClassified(r, file,
        IF found.language = none THEN [language |-> none, fits |-> FALSE] ELSE ForPath(r, stdin, found))

----------------------------------------------------------------------------
Below(disk, directory) == {p \in DOMAIN disk : IsStrictPrefix(directory, p)}
IsDirectory(disk, place) == Below(disk, place) # {} \/ (place \in DOMAIN disk /\ disk[place].link = "directory")

\* An argument that is opened as it is: a file, or a link that is not itself gone
\* through, as a dot behind it would.
IsOpened(r, disk, target) ==
  LET place == Absolute(r, target)
  IN  place \in DOMAIN disk /\ (disk[place].link = "directory" => Last(target) \notin {".", ".."})

\* What a walk yields, spelled as the walk spells it: ignored files are kept
\* out, dotted names if the walk says so, links and what is behind them unless
\* they are followed; the directory it starts from is entered if it is a link.
Walk(r, disk, target, dotted) ==
  LET base == Absolute(r, target)
      follow == File(r, "follow", FALSE)
      Rest(p) == SubSeq(p, Len(base) + 1, Len(p))
      seen == {p \in Below(disk, base) :
                 /\ ".git" \notin ToSet(Rest(p))
                 /\ ~(File(r, "ignore", TRUE) /\ disk[p].ignored)
                 /\ dotted \/ ToSet(Rest(p)) \intersect Dotted = {}
                 /\ follow \/ \A q \in Below(disk, base) : ~IsStrictPrefix(q, p)}
  IN  [files |-> {target \o Rest(p) : p \in {q \in seen :
                  disk[q].link = "no" \/ (disk[q].link = "file" /\ follow)}},
       failed |-> follow /\ \E p \in seen : disk[p].link = "broken"]

\* The arguments as candidates.  A path that was named is opened whatever its
\* size; a directory that was named is walked with its dotted names.
Candidates(r, disk, targets, named) ==
  UNION {LET walk == Walk(r, disk, t, named \/ File(r, "hidden", FALSE))
         IN  CASE IsOpened(r, disk, t) -> {[path |-> t, scope |-> named, named |-> named]}
               [] ~IsOpened(r, disk, t) /\ IsDirectory(disk, Absolute(r, t)) ->
                    {[path |-> p, scope |-> named, named |-> FALSE] : p \in walk.files}
               [] OTHER -> {}
         : t \in targets}

\* What is passed over before any file is opened: a walk that failed, an
\* argument that is neither a file nor a directory.
Missing(r, disk, targets, named) ==
  UNION {LET walk == Walk(r, disk, t, named \/ File(r, "hidden", FALSE))
         IN  IF IsOpened(r, disk, t) \/ (IsDirectory(disk, Absolute(r, t)) /\ ~walk.failed) THEN {}
             ELSE {Passed(t, "unreadable", TRUE, named)}
         : t \in targets}

\* One entry for every path: of those passed over an error first, then one
\* that was named.
Discovered(looked, missing) ==
  LET skips == missing \union {l \in looked : l.kind = "passed"}
      Weight(s) == (IF s.error THEN 2 ELSE 0) + (IF s.explicit THEN 1 ELSE 0)
  IN  [files |-> {l \in looked : l.kind = "found"},
       skipped |-> {s \in skips : \A t \in skips : t.path = s.path => Weight(t) <= Weight(s)}]

----------------------------------------------------------------------------
\* Mutant of KeptOut: only dotted names are asked about.
KeptOutByHidden(r, disk, path) ==
  ~File(r, "hidden", FALSE) /\ ToSet(path) \intersect Dotted # {}

\* kept_out: why the first walk would not have given a file.
KeptOut(r, disk, path) ==
  \/ ~File(r, "hidden", FALSE) /\ ToSet(path) \intersect (Dotted \union {".."}) # {}
  \/ Configured(r, path)
  \/ Absolute(r, path) \in DOMAIN disk /\ disk[Absolute(r, path)].large

\* not_walked: the files of the directories that the run did not reach.
NotWalked(r, disk, targets, reached) ==
  UNION {LET paths == {ReportedPath(p) : p \in Walk(r, disk, t, TRUE).files}
         IN  IF IsDirectory(disk, Absolute(r, t)) THEN {p \in paths \ reached : KeptOut(r, disk, p)} ELSE {}
         : t \in targets}
=============================================================================
